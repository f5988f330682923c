SPECIFICATION MCSpec
CONSTANTS
    Contracts = {"c1", "c2", "w"}
    NewContract = "n"
    Customs = {"w"}
    Accounts = {"a"}
    Thresholds <- MCThresholds
    Signers <- MCSigners
    MaxWeight = 2
    MaxSignatures = 20
    EntrySets <- MCEntrySets
    InvokerAuths <- MCInvokerAuths
    MaxInvokers = 2
    MaxDepth = 4
    MaxFrames = 4
    MaxAuths = 4
    Callees = {"c1", "c2", "c3"}
    Holders = {"a"}
    Handles = {1, 2}
    MaxTrace = 9
    LContracts = {"c1", "c2", "n"}
    DataKeys <- MCDataKeys
    Temporary <- MCTemporary
    Codes = {"w1", "w2"}
    Vals = {"y"}
    Snapshot <- MCSnapshot
    Declared <- MCDeclared
    Seq0 = 10
    MinTemp = 2
    MinPersistent = 4
    MaxTtl = 8
    TtlArgs <- MCTtlArgs
    MaxOps = 4
    MaxNesting = 3
    Sizes = {1, 2, 4}
    Extensions = {1, 3}
    MinTtl = 2
    Unit = 2
    Rate = 2
    Target = 4
    Low = 2
    High = 5
    Growth = 3
    MinWriteFee = 1
    Bucket0 = 1
    BucketStep = 2
    EntryFee = 5
    TtlSize = 1
    I64Max = 100000
    FeeConfig <- MCFeeConfig
    InsnUnit = 3
    BaseResult = 1
    CountMax = 6
    LastLedger = 5
    MaxTxs = 3
    Issuer = "i"
    AcctHolders = {"a"}
    ContractHolders = {"k"}
    Pairs <- MCPairs
    Admins = {"i", "k"}
    Amounts = {1, 3}
    Limits = {2, 3}
    Offers <- MCOffers
    Reserve = 1
    I64 = 4
    I128 = 4
    MinTempTtl = 1
    MinPersistentTtl = 2
    MaxEntryTtl = 4
    BalanceTtl <- MCBalanceTtl
    InstanceTtl <- MCInstanceTtl
    LastSeq = 3
    MaxCalls = 5
    CpuLimit = 13
    MemLimit = 6
    ShadowCpuLimit = 3
    PerFuel = 2
    Cost <- MCCost
    Insns = {1, 2}
    Tags = {"vec", "map"}
    Debug = TRUE
    MaxVms = 3
    MaxObjects = 4
    MaxShadow = 2
    Shape <- MCShape
    Rank <- MCRank
    ScValOrder <- MCScValOrder
    Keys = {"u1", "U1", "a", "V"}
    Payloads = {"U9", "void"}
    Texts <- MCTexts
    SmallLen = 1
    Bytes = {0, 1}
    MaxLen = 3
    U32 = 4
    Limb = 4
    Limbs = 2
    Octet = 2
    UserSeeds = {"s"}
    Draws = {0, 2}
    MaxPrngDepth = 2
    MaxPrngFrames = 3
    MaxWords = 2
INVARIANTS AuthorizedOnce NonceOncePerEntry RecordedCovers NestedTransactions FootprintExact RentCoversUse SupplyConserved AllowanceKept WorkMetered FramesIsolated CollectionsExact
PROPERTIES AuthRollbackExact DeauthorizedFrozen
CHECK_DEADLOCK FALSE
