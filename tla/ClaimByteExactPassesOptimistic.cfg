\* The probe, until ByteExactPassesOptimistic fails.
CONSTANTS
  MaxByte = 15
  Spelled <- MCSpelled
  Undecodable <- MCUndecodable
  None = None
  Streams <- MCStreams
  Ctxs = {}
  FailureReps = {2}
  Addresses <- MCAddresses
  LocalAddress <- MCLocal
  Destination <- MCDestination
  Credentials <- MCCredentials
  Banner <- MCBanner
SPECIFICATION E2ESpec
INVARIANT ByteExactPassesOptimistic
\* The probe ends.
CHECK_DEADLOCK FALSE
