SPECIFICATION Spec
CONSTANTS
  N = 4
  Q = 17
  K = 2
  WORD = 6
  BCH_M = 4
  GF_POLY = 19
  BCH_T = 2
  SAAP_ITERATIONS = 2
  SAAP_BOUND = 4
  MAX_ATTRIBUTES = 2
  TagOf <- MCTagOf
  SaapMaskOf <- MCSaapMaskOf
  SaapMatrixOf <- MCSaapMatrixOf
  SaapChallengeOf <- MCSaapChallengeOf
  PSI = 2
  BITS = 2
  LeftFactors <- MCLeftFactors
  RightFactors <- MCRightFactors
  PredicateCalls <- MCPredicateCalls
  Rewordings <- MCRewordings
  Weight = 2
  Eta = 2
  MODULUS_Q = 7
  THRESHOLD_K = 3
  TOTAL_SHARES = 5
INVARIANTS
  ProductsAgree
  ChallengeBound
  DistinctPointsReconstruct
  RepeatedPointRefused
  FewPointsHide
  NormMasksExact
  LocatesErrors
  PredicateStands
