SPECIFICATION MCSpec
CONSTANTS
  P = 7
  Generator = 3
  Q = 7
  HelperGenerator = 2
  Bases <- MCBases
  WordBits = 4
  Affine <- MCAffine
  ByteBase = 5
  ScalarBytes = 2
  DigestBytes = 5
  Agendas <- MCAgendas
  MaskInternal = 3
  DhInternal = 2
  TraceCases <- MCTraceCases
  MaxLimbsChanged = 2
INVARIANT
  AcceptedIsMaskPoint
CHECK_DEADLOCK FALSE
