SPECIFICATION Spec
CONSTANTS
    AddrBits = 4
    RegionSize = 4
    Regions <- MCRegions
    RegionSets <- MCRegionSets
    AccessAddrs = {1, 5, 7, 10}
    AccessLens = {1, 2}
    CacheSize = 2
    MaxRegions = 3
INVARIANT GapsRefused
CHECK_DEADLOCK FALSE
