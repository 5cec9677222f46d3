SPECIFICATION Spec
CONSTANTS
  Fragments = {f}
  Contents = {a}
  Absent = Absent
  MaxSteps = 2
  KeepWindow = 2
  MaxTurns = 3
  MaxNodes = 7
  MaxFails = 1
INVARIANT SummaryCoversReplaced
