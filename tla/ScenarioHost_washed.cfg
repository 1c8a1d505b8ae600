CONSTANTS
    Scenarios = {k1, k2}
    Executions = {e1}
    MaxRuns = 2
    MaxBoots = 1
    MaxTries = 2
SPECIFICATION Spec
INVARIANT NeverWashedOut
CHECK_DEADLOCK FALSE
