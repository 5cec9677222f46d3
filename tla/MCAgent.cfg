CONSTANTS
  Fragments = {f}
  Contents = {a}
  Absent = Absent
  MaxSteps = 2
  KeepWindow = 2
  MaxTurns = 3
  MaxNodes = 6
  MaxFails = 1
  StepIDs = {1, 2}
  NoStep = 0
  Sources <- MCSources
  Baseline = {"base"}
  Invalid = {3}
  Instances = {"p"}
  Detached = Detached
  Callers = {c1, c2}
  Batches <- MCBatches
  Paths = {1, 3}
  RefCalls <- MCRefCalls
  MaxLog = 5
  MaxUsage = 1
SYMMETRY MCSymmetry
CONSTRAINTS OneUnexplainedPart ShortAfterAFailure
SPECIFICATION AgentSpec
INVARIANTS
  ResumeRebuilds
  ReplayedRequestsArePaired
  ContinuationIsOfThisHistory
  AgentStateIsSound
  ResumeRebuildsAgent
PROPERTIES
  TurnKeepsItsContext
  StepsLeaveByRemoval
