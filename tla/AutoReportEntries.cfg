CONSTANTS
    Clients = {c1, c2}
    Timeout = 1
    Interval = 2
    MinInterval = 3
    MaxOpens = 3
    MaxRequests = 2
    MaxEntries = 5
SPECIFICATION Spec
INVARIANTS OneEntryPerAttempt
