CONSTANTS
  Max = 4
  Bytes <- MCBytes
SPECIFICATION Spec
INVARIANT TypeOK
PROPERTY IsByteQueue
