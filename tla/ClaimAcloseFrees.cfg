\* aclose() as the error message of connect() recommends it.
CONSTANTS
  None = None
  Tasks = {a}
  MaxConnections = 1
SPECIFICATION Spec
PROPERTY AcloseFrees
CHECK_DEADLOCK FALSE
