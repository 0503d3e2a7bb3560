SPECIFICATION Spec
CONSTANTS
  Interval = 1
  MaxEvents = 3
  MaxQueue = 1
INVARIANTS
  AccessAgrees
  SeriesExplained
  ControlsTellTheLink
PROPERTIES
  MutedUntilClear
  PageCatchesUp
  AlarmHeard
