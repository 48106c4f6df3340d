\* Every combination of credentials and authorization, every segmentation.
CONSTANTS
  MaxByte = 15
  Spelled <- MCSpelled
  Undecodable <- MCUndecodable
  None = None
  Streams <- MCStreams
  Ctxs = {}
  FailureReps = {2}
  Addresses <- MCAddresses
  LocalAddress <- MCLocal
  Destination <- MCDestination
  Credentials <- MCCredentials
  Banner <- MCBanner
SPECIFICATION E2ESpec
INVARIANTS Agreement ProbeSound
PROPERTY Resolves
\* The probe ends.
CHECK_DEADLOCK FALSE
