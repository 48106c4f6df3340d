\* Every segmentation of what a proxy may answer.
CONSTANTS
  MaxByte = 15
  Spelled <- MCSpelled
  Undecodable <- MCUndecodable
  None = None
  Streams <- MCStreams
SPECIFICATION Spec
INVARIANTS SegmentationIndependent TunnelIntact
PROPERTY VerdictIsFinal
