\* The parsers on growing buffers.
CONSTANTS
  MaxByte = 15
  Spelled <- MCSpelled
  Undecodable <- MCUndecodable
  Alphabet <- MCAlphabet
SPECIFICATION Spec
INVARIANTS SizersAgree RoundTrips
PROPERTY ParsersStable
\* A buffer ends.
CHECK_DEADLOCK FALSE
