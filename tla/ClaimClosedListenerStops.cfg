\* One start, and a close() that wakes accept() or does not.
CONSTANTS
  None = None
  MaxStarts = 1
  Joins = TRUE
SPECIFICATION Spec
PROPERTY ClosedListenerStops
\* The last loop ends.
CHECK_DEADLOCK FALSE
