SPECIFICATION Spec
CONSTANTS
  Identity   = {"id1", "id2"}
  Context    = {"ctx", "ctx padded", "other"}
  Randomness = {"rho1"}
  LongEnough = {"rho1"}
  Ceiling    = 2
  Gamma1     = 3
  Beta       = 1
  None       = None
  Pad         <- MCPad
  Vec         <- MCVec
  Mat         <- MCMat
  Short       <- MCShort
  ChalPoly    <- MCChalPoly
  Zero        <- MCZero
  Add         <- MCAdd
  Sub         <- MCSub
  Apply       <- MCApply
  Scale       <- MCScale
  Norm        <- MCNorm
  Oracle      <- MCOneOracle
  SecretOf    <- MCSecretOf
  MatrixOf    <- MCMatrixOf
  ErrorOf     <- MCErrorOf
  MaskOf      <- MCMaskOf
  ChallengeOf <- MCChallengeOf
INVARIANTS
  TypeOK
  LoopInv
  ReleasedInBound
  ReleasedVerifies
  AcceptIsAuthentic
  NoResidue
