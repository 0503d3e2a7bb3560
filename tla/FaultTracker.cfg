CONSTANTS
    ch1 = ch1
    ch2 = ch2
    bd1 = bd1
    crA = crA
    crB = crB
    Names = {"W1", "W1new", "G2"}
    ErrorFlags = {"OV", "OC"}
    BoardFlags = {"PWRF"}
    Ignored <- MCIgnored
    Crates = {crA, crB}
    Channels = {ch1, ch2}
    Boards = {bd1}
    CrateOf <- MCCrateOf
    NamesOf <- MCNamesOf
    PolledReadings <- MCReadings
    BoardReadings <- MCBoardReadings
    MaxPolls = 2
    MaxRestarts = 1
SPECIFICATION Spec
INVARIANTS FaultgrepExactInOneLife FaultgrepComplete LevelMeansHardware
PROPERTIES NewWhenOpenedClosedWhenGone WritesAlarmLog
CHECK_DEADLOCK FALSE
