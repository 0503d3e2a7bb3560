CONSTANTS
    crA = crA
    crB = crB
    Crates = {crA, crB}
    NChan = 2
    Supported <- MCSupported
    Words = {crB}
    MaxBackoff = 3
    AllPollEveryN = 2
SPECIFICATION Spec
INVARIANTS RetryOnTime OneSession ReadsUnlessCut
PROPERTIES Recovers
