SPECIFICATION FairSpec
CONSTANTS
    Identities = {x, y}
    Expiries <- MCExpiries
    PromoteCounts <- MCPromoteCounts
    U32Max = 3
    LastTime = 1
INVARIANTS TypeOK CountDrift
PROPERTIES PromotedInOrder EventuallyPromoted
