CONSTANTS
    t1 = t1  t2 = t2  b1 = b1  b2 = b2  h1 = h1  h2 = h2   c1 = c1  p1 = p1
    ThreadIDs <- MCThreadIDs
    BranchIDs <- MCBranchIDs
    Handles <- MCTwoHandles
    Clients <- MCClients
    Payloads <- MCPayloads
    NoBranch = NoBranch
    NoPayload = NoPayload
    NoThread = NoThread
    NoLive = NoLive
    NoOp = NoOp
    Serial = FALSE
    MaxSeq = 3
    MaxLines = 4
    MaxBatch = 2
SPECIFICATION Spec
PROPERTIES AppendOnly
