\* One connection from accept to teardown, ordinary and odd peers.
CONSTANTS
  MaxByte = 15
  Spelled <- MCSpelled
  Undecodable <- MCUndecodable
  None = None
  Streams <- AllStreams
  Ctxs = {}
  FailureReps = {2}
  Addresses <- MCElsewhere
  LocalAddress <- MCLocal
SPECIFICATION DriverSpec
INVARIANTS UpstreamOnlyIfAuthorized TruthfulVerdict RelayHasOtherEnd NoSilentClose CleanTeardown
PROPERTY PeerGoneEnds
\* A connection ends.
CHECK_DEADLOCK FALSE
