CONSTANTS
    Writers = {hv, booster}
    Clients = {c1, c2}
    Capacity = 2
    SendBuffer = 2
    MaxEntries = 3
    MaxOpens = 3
SPECIFICATION FeedSpec
INVARIANTS AllReceiveAll
PROPERTIES CatchesUp
CHECK_DEADLOCK FALSE
