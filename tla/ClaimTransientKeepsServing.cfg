\* An application that binds anew as soon as close() has returned.
CONSTANTS
  None = None
  MaxStarts = 2
  Joins = FALSE
SPECIFICATION Spec
PROPERTY TransientKeepsServing
\* The last loop ends.
CHECK_DEADLOCK FALSE
