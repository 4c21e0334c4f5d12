SPECIFICATION Spec
CONSTANTS
  Identity   = {"id1"}
  Context    = {"ctx", "ctx padded"}
  Randomness = {"rho1", "rho2", "short"}
  LongEnough = {"rho1", "rho2"}
  Ceiling    = 2
  Gamma1     = 3
  Beta       = 1
  None       = None
  Pad         <- MCPad
  Vec         <- MCVec
  Mat         <- MCMat
  Short       <- MCShort
  ChalPoly    <- MCChalPoly
  Zero        <- MCZero
  Add         <- MCAdd
  Sub         <- MCSub
  Apply       <- MCApply
  Scale       <- MCScale
  Norm        <- MCNorm
  Oracle      <- MCOracle
  SecretOf    <- MCSecretOf
  MatrixOf    <- MCMatrixOf
  ErrorOf     <- MCErrorOf
  MaskOf      <- MCMaskOf
  ChallengeOf <- MCChallengeOf
INVARIANT
  MaskBindsStatement
