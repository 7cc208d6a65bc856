CONSTANTS
  MaxId = 3
  Ids <- MCIds
  Networks <- MCNetworks
  NumParties = 3
  Thresholds = {1, 2, 4}
  QueueCapacity = 1
  Nil = Nil
SPECIFICATION FairSpec
INVARIANTS TypeOK IInv NoSendOnClosed ResultsComplete SumComplete OnlyFullNetworkFinishes
PROPERTIES ResultNeverStale ImplementsSecureSum Terminates
CHECK_DEADLOCK FALSE
