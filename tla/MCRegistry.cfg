SPECIFICATION MCSpec
CONSTANTS
    q1 = q1
    q2 = q2
    q3 = q3
    x = x
    y = y
    Keys <- MCKeys
    Queues = {q1, q2}
    Identities = {x, y}
    Amounts <- MCAmounts
    Bounds <- MCBounds
    HoldPeriods <- MCHoldPeriods
    SecondsPerDay = 1
    I128Max = 5
    U64Max = 2
    Members = {x, y}
    NoAdmin = nobody
    BindQueues = {q1, q2, q3}
    MaxQueues = 2
    Attempts <- MCAttempts
    LastTime = 1
    Addresses = {a, b}
    NoAddress = none
    Slugs = {s, t}
    Hashes = {h, k}
    NoHash = nohash
    Contracts = {c}
    Versions <- MCVersions
INVARIANTS TotalIsSumOfActive HoldHonoured IndexExact
PROPERTIES SettledOnce EventuallySettled RevokedForever SlugStable
