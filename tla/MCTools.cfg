CONSTANTS
  Calls = {"c1", "c2"}
  Targets <- MCTargets
  Tree <- MCTree
  Edited <- MCEdited
  MaxDepth = 3
  Batches = {b1, b2}
  Ids = {s1, s2}
  Scripts <- MCScripts
  MaxSessions = 1
  Users = {u1, u2}
  Lists <- MCLists
  SIPAddr = "host:5060"
  HasDevice = FALSE
  DefaultLimit = 2
  MaxLimit = 3
  MaxGlobResults = 2
  MaxGrepFiles = 2
  MaxGrepMatches = 3
SPECIFICATION ToolsSpec
CHECK_DEADLOCK FALSE
INVARIANTS
  BrowsersAccountedFor
  LimitHoldsWithoutRaces
  CallsAccountedFor
PROPERTIES
  EditsInstallWhatTheyVerified
  CopiesOnlyAdd
  IdleSessionsAreClosed
  EndedIsShown
  FileToolsAreExact
  CommandsAreRead
  AssemblyLosesNothing
  
  LaunchedAsAsked
  ToolCallsAreGuarded
  ToolBooksAgree
