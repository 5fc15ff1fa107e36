CONSTANTS
  Transactions = {t1, t2}
  NoOne = NoOne
  MaxRequests = 2
  MaxStarts = 1
  MaxStops = 1

SPECIFICATION FairSpec

INVARIANTS
  PurchaseTypeOK
  ClosedGateHasKey

PROPERTIES
  ImplementsDelivery
  SettledIsConcluded
  KeptIsSent
