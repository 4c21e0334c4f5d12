SPECIFICATION Spec
CONSTANTS
  Identity   = {"alice", "bob", "twin"}
  Issuer     = {"issuer1", "issuer2", "seed1"}
  Context    = {"ctx", "ctx padded", "other"}
  Randomness = {"rho1", "rho2", "short"}
  LongEnough = {"rho1", "rho2"}
  Value      = {1}
  CRED_L = 1
  CRED_ATTRIBUTES = 1
  MAX_REJECTION_ITERATIONS = 2
  REJECTION_BOUND = 3
  Ceiling    = 2
  Gamma1     = 4
  Beta       = 1
  None       = None
  Pad         <- MCPad
  Vec         <- MCVec
  Mat         <- MCMat
  Short       <- MCShort
  ChalPoly    <- MCChalPoly
  Zero        <- MCZero
  Add         <- MCAdd
  Sub         <- MCSub
  Apply       <- MCApply
  Scale       <- MCScale
  Norm        <- MCNorm
  Oracle      <- MCOracle
  SecretOf    <- MCSecretOf
  MatrixOf    <- MCMatrixOf
  ErrorOf     <- MCErrorOf
  MaskOf      <- MCMaskOf
  ChallengeOf <- MCChallengeOf
  R           <- MCR
  RZero       <- MCRZero
  RAdd        <- MCRAdd
  RSub        <- MCRSub
  RMul        <- MCRMul
  RNorm       <- MCRNorm
  First       <- MCFirst
  Encode      <- MCEncode
  Decode      <- MCDecode
  RowMul      <- MCRowMul
  IssueR      <- MCIssueR
  BlindR      <- MCBlindR
  MaskR       <- MCMaskR
  MaskS       <- MCMaskS
  MaskE       <- MCMaskE
  MaskM       <- MCMaskM
  CredChallengeOf <- MCCredChallengeOf
  Handle     = {h1, h2}
  Entropy    = {"entropy1", "entropy2", "short"}
  Key        = {"key1", "key2", "short"}
  RawSecret  = {"twin", "short"}
  IssuerSeed = {"seed1", "seed2", "short"}
  Purpose    = {"", "aethel-auth/login/v1", "long purpose"}
  Message    = {"m1", "m2"}
  Q = 7
  VEC_WORDS = 2
  POLY_WORDS = 1
  CHALLENGE_WEIGHT = 1
  RING_N = 1
  Length      <- MCLength
  PlpSeed     <- MCPlpSeed
  NoPurpose = ""
  PublicSeed  <- MCPublicSeed
  VecWords    <- MCVecWords
  VecOf       <- MCVecOf
  PolyWords   <- MCWords
  PolyOf      <- MCOf
  RWords      <- MCWords
  ROf         <- MCOf
  Within      <- MCWithin
SYMMETRY HandleSymmetry
INVARIANTS
  TypeOK
  NonceDeterminesMessage
  OpensOnlyAsSealed
  SignatureNamesPurpose
  AcceptedBytesAreEncodings
  BytesAgreeWithRecords
  PresentationBound
