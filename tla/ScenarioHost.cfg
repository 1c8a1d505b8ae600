CONSTANTS
    Scenarios = {k1, k2}
    Executions = {e1}
    MaxRuns = 3
    MaxBoots = 2
    MaxTries = 2
SPECIFICATION FairSpec
INVARIANTS PassMeansReplayed TimeoutIsFinal
PROPERTY ScenarioEnds
CHECK_DEADLOCK FALSE
