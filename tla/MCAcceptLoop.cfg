\* Three starts, one after the other.
CONSTANTS
  None = None
  MaxStarts = 3
  Joins = TRUE
SPECIFICATION Spec
INVARIANT NoDescriptorLeft
PROPERTIES TransientKeepsServing CloseEndsLoop
\* The last loop ends.
CHECK_DEADLOCK FALSE
