CONSTANTS
  zero = zero
  a = a
  b = b
  none = none
  Bytes <- MCBytes
  Zero = zero
  NoByte = none
  N = 3
SPECIFICATION FairSpec
INVARIANTS
  TypeOK
  PointersAgree
PROPERTIES
  DeliversInOrder
  PortIsServed
