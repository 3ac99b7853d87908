SPECIFICATION PartsSpec
CONSTANTS
  Threads = {t1, t2, t3}
  Domains = {d}
  LogLens = {0, 1, 2}
  MaxLogLen = 1
  MaxCalls = 4
  NoThread = NoThread
  NoKey = NoKey
  NoSetup = NoSetup
  BlockBytes = 128
  Streams <- MCStreams
  Pieces <- MCPieces
  MaxLength = 290
  CellMax = 63
  CapacityMax = 40
  ScalarCells = {0, 1, 2}
  PointCells = {0, 1, 2, 3, 4}
  Encoded <- MCEncoded
  AlteredCells = {0, 1, 2, 3, 6, 63}
  MaxCellsChanged = 2
  P = 3
  Generator = 1
  Bases = {"unused"}
  Systems <- MCSystems
  IndexLists <- MCIndexLists
  FullWitnesses <- MCFullWitnesses
  WitnessBlindings <- MCWitnessBlindings
INVARIANTS
  TypeOK
  SharedAllocation
  PanicIsLocal
  CircuitDigestIsProvers
  RoundTrip
  OnlyCanonical
  LayoutFaithful
  CircuitSound
PROPERTIES
  EntriesAreStable
  ImplementsMemo
  EveryCallEnds
CHECK_DEADLOCK FALSE
