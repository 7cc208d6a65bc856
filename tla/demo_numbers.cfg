CONSTANTS
  FieldPrime = 7
  CurveB = 1
  Base <- MCBase
  Order = 5
  NumParties = 3
  Threshold = 2
  Hashes <- MCHashes
  Responses <- MCResponses
  Nil = Nil
  Prime = 5
  Secrets <- MCSecrets
  SharingParties = 4
  SharingThreshold = 3
SPECIFICATION Spec
INVARIANTS TypeOK KeySharesRecoverSecrets OneShareAccepted VerificationSucceeds  HonestProofRejectedAtEdges SumMatchesBelowPrime AnySharesReconstruct FewerSharesTellNothing
CHECK_DEADLOCK FALSE
