CONSTANTS
  P = 5
  Generator = 2
  WordBits = 3
  Bases <- MCBases
  Setups <- MCSetups
  Cases <- MCCases
SPECIFICATION Spec
INVARIANTS
  VerdictIsTruth
  AlteredAnswerRejected
  FoldedClaimHolds
  ChallengesBindEverything
CHECK_DEADLOCK FALSE
