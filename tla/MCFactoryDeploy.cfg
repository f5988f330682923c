SPECIFICATION Spec
CONSTANTS
    Addresses = {a, b}
    NoAddress = none
    Slugs = {s, t}
    Hashes = {h, k}
    NoHash = nohash
    Contracts = {c}
    Versions <- MCVersions
INVARIANT FreshSlugDeployable
