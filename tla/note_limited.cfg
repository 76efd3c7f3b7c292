SPECIFICATION Spec
CONSTANTS
  Value = 8
  BaseFee = 2
  Misbehaviour <- Honest
  Disturbed <- Honest
  Callings <- KnownFee
  Hazards <- RateLimits
  Budget = 3
INVARIANTS
  NotAVerdictOnTheMint
