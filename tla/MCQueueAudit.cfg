SPECIFICATION AuditSpec
CONSTANTS
    Addresses = {a, b}
    NoAddress = none
    U32Max = 4
    Capacities <- MCCapacities
    InitialStatuses <- MCDraft
    Rules <- MCRules
    Batches <- MCBatches
    MaxInits = 1
INVARIANTS TypeOK SlotAccounting FifoOrder HistoryRebuildable
PROPERTIES SettledForever EventuallySettled ImplementsLine
