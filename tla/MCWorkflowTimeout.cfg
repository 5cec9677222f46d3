CONSTANTS
    a = a  b = b  c = c  v = v  k1 = k1  k2 = k2
    StepIDs <- MCStepIDs
    Callers <- MCCallers
    Main = Main
    Definitions <- MCDefinitions
    Limits <- MCLimits
    Values <- MCValues
    Nil = Nil
    NoStep = NoStep
    NoEvent = NoEvent
    NoResult = NoResult
    MaxAttempts = 3
SPECIFICATION RunsSpec
CONSTRAINT OneCallerOfLongRuns
INVARIANTS TimelySuccessCounts
