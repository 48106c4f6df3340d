\* Two calls of connect() that both pass the test of self.writer.
CONSTANTS
  None = None
  Tasks = {a, b}
  MaxConnections = 2
SPECIFICATION Spec
INVARIANT AlwaysReachable
\* Once the connections are used up nothing can be called.
CHECK_DEADLOCK FALSE
