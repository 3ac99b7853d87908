SPECIFICATION MCSpec
CONSTANTS
  P = 7
  Generator = 3
  Q = 11
  HelperGenerator = 2
  Fixtures <- MCFixtures
  MaxInbox <- MCMaxInbox
  MaxChanges = 1
  Simulation <- MCSimulation
  Pool <- MCPool
  Targets <- MCTargets
  MaxTranscripts = 3
INVARIANTS
  RecoveredShareIsDealerSum
  QuorumReconstructsSecret
  DamageIsLocal
  QuorumMatchesGroupKey
  OrderIndependence
  TypeOK
  RecoveredShareIsCommitted
PROPERTIES
  ImplementsShareRecovery
CHECK_DEADLOCK FALSE
