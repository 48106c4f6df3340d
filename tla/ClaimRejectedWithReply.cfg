\* One connection, until RejectedWithReply fails.
CONSTANTS
  MaxByte = 15
  Spelled <- MCSpelled
  Undecodable <- MCUndecodable
  None = None
  Streams <- AllStreams
  Ctxs = {}
  FailureReps = {2}
  Addresses <- MCElsewhere
  LocalAddress <- MCLocal
SPECIFICATION DriverSpec
INVARIANT RejectedWithReply
\* A connection ends.
CHECK_DEADLOCK FALSE
