\* Every order of calls and every segmentation, ordinary and odd peers.
CONSTANTS
  MaxByte = 15
  Spelled <- MCSpelled
  Undecodable <- MCUndecodable
  None = None
  Streams <- AllStreams
  Ctxs = {}
  FailureReps = {2}
  Addresses <- MCAddresses
SPECIFICATION Spec
INVARIANTS TypeOK BytesAccounted ParsedAsSent LegalConversation
PROPERTY SilentOnceClosed
