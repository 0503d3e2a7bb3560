CONSTANTS
  Values = {0, 1}
  Limit = 1
  TTL = 1
  MaxEvents = 3
  MaxQueue = 2
SPECIFICATION Spec
INVARIANTS
  EditStays
  OthersShowAtOnce
  ToastIsTrue
PROPERTIES
  ShowsTheDaemon
