SPECIFICATION Spec
CONSTANTS
  P = 5
  Generator = 2
  WordBits = 3
  Bases <- MCBases
  Cases <- MCCases
  Tapes <- MCTapes
INVARIANTS
  ProofsComplete
  ReductionFaithful
  AlteredAnswerRejected
  ChallengesBindStatement
CHECK_DEADLOCK FALSE
