CONSTANTS
    MaxInterrupts = 2
    Projects <- MCProjects
SPECIFICATION DeliverySpec
INVARIANTS LeftOnlyIfCutShort ReadyMeansUp RootBuilds SurfacesServed LauncherSuffices
PROPERTY InterruptEnds
CHECK_DEADLOCK FALSE
