SPECIFICATION Spec
CONSTANTS
  N = 1
  Q = 17
  K = 2
  PSI = 16
  BITS = 0
  WORD = 8
  FIXED_ITERATION_CEILING = 3
  REJECTION_BOUND = 4
  InUse = InUse
  NoCall = NoCall
  NoSecret = NoSecret
  Reading <- MCReading
  Tau <- MCTau
  Secrets <- MCSecrets
  KeyStream <- MCKeyStream
  MaskOf <- MCMaskOf
  RowOf <- MCRowOf
  ChallengeAt <- MCChallengeAt
INVARIANTS
  TypeOK
  RejectedNeverOut
  KeyIsEnrolled
PROPERTIES
  ImplementsPromise
