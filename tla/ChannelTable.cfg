SPECIFICATION TableSpec
CONSTANTS
  Channels <- MCChannels
  CrateOf <- MCCrateOf
  AllCrates = 0
  Searches <- MCSearches
  View = 1
  VS_BUFFER = 1
  MaxActions = 4
INVARIANTS
  BulkIsWhatIsListed
  ButtonIsTrue
  WindowIsDrawn
CHECK_DEADLOCK FALSE
