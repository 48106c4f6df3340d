\* Two tasks can overlap; a third sees what they left behind.
CONSTANTS
  None = None
  Tasks = {a, b, c}
  MaxConnections = 3
SPECIFICATION Spec
INVARIANTS TypeOK NoLeak OneTunnel
PROPERTY CallsEnd
\* Once the connections are used up nothing can be called.
CHECK_DEADLOCK FALSE
