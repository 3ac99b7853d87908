SPECIFICATION CallersSpec
CONSTANTS
  P = 11
  Generator = 2
  Ids = {1, 2, 4, 7}
  MinSigners = 2
  OddPoints <- MCOddPoints
  Q = 13
  HelperGenerator = 2
  Config <- MCConfig
  Received <- MCReceived
  Masks <- MCMasks
  MaxHeld = 3
  Simulation <- MCSimulation
  Fixture <- MCFixture
  MaxChanges = 2
  Procs = {p1, p2}
PROPERTY
  KeyIsOfProofedTranscripts
CHECK_DEADLOCK FALSE
