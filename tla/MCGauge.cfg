SPECIFICATION HooksSpec
CONSTANTS
    EscrowIds = {e1, e2}
    Hooks = {w}
    HoldTicks = 1
    MaxClock = 1
    MaxDeliveries = 1
    MaxAttempts = 4
INVARIANT GaugeIsActive
CHECK_DEADLOCK FALSE
