CONSTANTS
    Clients = {c1, c2}
    Timeout = 2
    Interval = 4
    MinInterval = 1
    MaxOpens = 3
    MaxRequests = 2
    MaxEntries = 0
SPECIFICATION Spec
INVARIANTS OneReportPerRequest AskedOnce
PROPERTIES KeepsRequests Resolves
