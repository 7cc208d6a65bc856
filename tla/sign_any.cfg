CONSTANTS
  MaxId = 2
  Ids <- MCIds
  Networks <- MCNetworks
  NumParties = 2
  Thresholds = {0, 1, 2, 3}
  QueueCapacity = 1
  Nil = Nil
  MaxDealings = 1
  MaxRounds = 1
  SleepCovers = FALSE
  SendersWait = FALSE
  MaxSessions = 1
  KeyFirst = FALSE
SPECIFICATION Spec
INVARIANTS SigningInv SignatureVerifies OnlyOwnNonceMissing NoNilSigner OnlyFullNetworkKeyed OnlyOwnShareMissing CommittedBeforeShared UsableThreshold
CHECK_DEADLOCK FALSE
