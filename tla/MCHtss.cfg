SPECIFICATION Spec
CONSTANTS
  MODULUS_Q = 7
  THRESHOLD_K = 3
  TOTAL_SHARES = 5
  Base = 2
  LEN_BYTES = 2
  EVAL_BYTES = 3
  MAX_SECRET_BYTES = 3
  Foreign = Foreign
  NoAnswer = NoAnswer
  Deals   <- MCDeals
  Within  <- MCWithin
  CoeffOf <- MCCoeffOf
  Altered <- MCAltered
INVARIANTS
  TypeOK
  OnlyGenuine
  BlobAgrees
PROPERTIES
  ImplementsPromise
