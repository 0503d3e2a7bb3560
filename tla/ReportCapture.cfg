SPECIFICATION CaptureSpec
CONSTANTS
  MaxEvents = 3
  MaxCaptures = 2
  ReportTabs <- MCTabs
INVARIANTS
  StaleIsDue
  DotStays
  ReportIsWhole
  CaptureLeavesNoTrace
CHECK_DEADLOCK FALSE
