SPECIFICATION Spec
CONSTANTS
  Value = 8
  BaseFee = 2
  Misbehaviour <- Honest
  Disturbed <- Honest
  Callings <- KnownFee
  Hazards <- LostReplies
  Budget = 1
INVARIANTS
  EndsHoldingEverything
