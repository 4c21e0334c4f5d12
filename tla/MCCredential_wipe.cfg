SPECIFICATION Spec
CONSTANTS
  Identity   = {"alice", "bob", "twin"}
  Issuer     = {"issuer1", "issuer2"}
  Context    = {"ctx", "ctx padded"}
  Randomness = {"rho1", "rho2"}
  LongEnough = {"rho1", "rho2"}
  Value      = {1}
  CRED_L = 1
  CRED_ATTRIBUTES = 1
  MAX_REJECTION_ITERATIONS = 2
  REJECTION_BOUND = 3
  MaxBlinded = 1
  Ceiling    = 2
  Gamma1     = 4
  Beta       = 1
  None       = None
  Pad         <- MCPad
  Vec         <- MCVec
  Mat         <- MCMat
  Short       <- MCShort
  ChalPoly    <- MCChalPoly
  Zero        <- MCZero
  Add         <- MCAdd
  Sub         <- MCSub
  Apply       <- MCApply
  Scale       <- MCScale
  Norm        <- MCNorm
  Oracle      <- MCOracle
  SecretOf    <- MCSecretOf
  MatrixOf    <- MCMatrixOf
  ErrorOf     <- MCErrorOf
  MaskOf      <- MCMaskOf
  ChallengeOf <- MCChallengeOf
  R           <- MCR
  RZero       <- MCRZero
  RAdd        <- MCRAdd
  RSub        <- MCRSub
  RMul        <- MCRMul
  RNorm       <- MCRNorm
  First       <- MCFirst
  Encode      <- MCEncode
  Decode      <- MCDecode
  RowMul      <- MCRowMul
  IssueR      <- MCIssueR
  BlindR      <- MCBlindR
  MaskR       <- MCMaskR
  MaskS       <- MCMaskS
  MaskE       <- MCMaskE
  MaskM       <- MCMaskM
  CredChallengeOf <- MCCredChallengeOf
  CallWithin  <- MCCallWithin
INVARIANT
  RejectedIsWiped
