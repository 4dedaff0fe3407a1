SPECIFICATION ProcSpec
CONSTANTS
  Controller = {c1}
  MaxStarts = 2
CHECK_DEADLOCK FALSE
PROPERTY
  StopStops
