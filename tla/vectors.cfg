SPECIFICATION Spec
CONSTANTS
  Million = 10
  MsatPerSat = 4
  Charges <- EveryCharge
  Minimums <- Configured
  Largest = 200
  Wants <- Values
  SearchBound = 400
  Value = 1
  BaseFee = 1
  Misbehaviour <- HonestMint
  Held <- Funds
  Mutations <- Requests
  Sendings = 3
INVARIANTS
  GrossUpExact
  SoldAsWanted
  MinimumBuysANote
  GradedFairly
PROPERTIES
  RetriesReplayed
  DoubleSpendsRefused
  SearchEnds
CHECK_DEADLOCK FALSE
