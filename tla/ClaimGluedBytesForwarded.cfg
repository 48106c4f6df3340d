\* One connection, until GluedBytesForwarded fails.
CONSTANTS
  MaxByte = 15
  Spelled <- MCSpelled
  Undecodable <- MCUndecodable
  None = None
  Streams <- AllStreams
  Ctxs = {}
  FailureReps = {2}
  Addresses <- MCElsewhere
  LocalAddress <- MCLocal
SPECIFICATION DriverSpec
INVARIANT GluedBytesForwarded
\* A connection ends.
CHECK_DEADLOCK FALSE
