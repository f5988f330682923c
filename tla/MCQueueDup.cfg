SPECIFICATION Spec
CONSTANTS
    Addresses = {a, b}
    NoAddress = none
    U32Max = 4
    Capacities <- MCCapacities
    InitialStatuses <- MCDraft
    Rules <- MCRules
    Batches <- MCBatches
    MaxInits = 1
INVARIANT OneActivePositionPerIdentity
