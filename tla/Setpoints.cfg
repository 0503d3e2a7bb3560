CONSTANTS
    ch1 = ch1
    ch2 = ch2
    crA = crA
    crB = crB
    Crates = {crA, crB}
    Channels = {ch1, ch2}
    CrateOf <- MCCrateOf
    Values = {1, 3}
    Limit <- MCLimit
    HardMax <- MCHardMax
    OverrideTTL = 2
    MaxEvents = 3
SPECIFICATION Spec
INVARIANTS LimitHolds
PROPERTIES OnlyConnectedChange CacheConverges
