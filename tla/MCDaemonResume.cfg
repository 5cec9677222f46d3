CONSTANTS
    r = r  j = j  x1 = x1  x2 = x2  s1 = s1  s2 = s2  c = c  n = n
    Rules <- MCRules
    JobIDs <- MCJobIDs
    RunIDs <- MCRunIDs
    SessionIDs <- MCSessionIDs
    Clients <- MCClients
    Openers <- MCOpeners
    Names <- MCNames
    Subscribers <- MCSubscribers
    Mode <- MCResumeOrCreate
    NameOf <- MCNameOf
    NoSession = NoSession
    NoName = NoName
    NoJob = NoJob
SPECIFICATION DaemonSpec
INVARIANT ResumeOrCreateCreates
CHECK_DEADLOCK FALSE
