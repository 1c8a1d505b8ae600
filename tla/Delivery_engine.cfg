CONSTANTS
    MaxInterrupts = 0
    Projects <- MCLedger
SPECIFICATION DeliverySpec
INVARIANT RootBuilds
CHECK_DEADLOCK FALSE
