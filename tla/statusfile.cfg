SPECIFICATION Spec
CONSTANTS
  Writers = {w1, w2}
  Readers = {r1}
  Inodes = {i1, i2, i3, i4, i5}
  None = None
  MaxMutations = 4
  MaxFaults = 2
INVARIANTS
  TypeOK
  LitterBounded
PROPERTIES
  Implements
  Published
CHECK_DEADLOCK FALSE
