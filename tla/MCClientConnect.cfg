\* Two connections in a row, each to any of the proxies.
CONSTANTS
  MaxByte = 15
  Spelled <- MCSpelled
  Undecodable <- MCUndecodable
  None = None
  Streams <- MCStreams
  Destination <- MCDestination
  Credentials <- MCCredentials
  MaxConnects = 2
SPECIFICATION ClientSpec
INVARIANTS ClientTypeOK NoSocketLeaks TunnelHandedOver OutcomeDeserved
PROPERTY ConnectEnds
\* The application stops after two connections.
CHECK_DEADLOCK FALSE
