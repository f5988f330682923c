SPECIFICATION AssetSpec
CONSTANTS
    Issuer = "i"
    AcctHolders = {"a"}
    ContractHolders = {"k"}
    Pairs <- MCPairs
    Admins = {"i", "k"}
    Amounts = {0, 1}
    Limits = {2}
    Offers <- MCOffers
    Reserve = 1
    I64 = 4
    I128 = 4
    MinTempTtl = 1
    MinPersistentTtl = 2
    MaxEntryTtl = 4
    BalanceTtl <- MCBalanceTtl
    InstanceTtl <- MCInstanceTtl
    LastSeq = 3
    MaxCalls = 5
INVARIANT AllowanceOutlasts
CHECK_DEADLOCK FALSE
