SPECIFICATION Spec
CONSTANTS
  Value = 8
  BaseFee = 2
  Misbehaviour <- EveryOption
  Disturbed <- Honest
  Callings <- EitherWay
  Hazards <- Troubles
  Budget = 2
INVARIANTS
  GraderTypeOK
  FaultsCaught
  BroughtHome
  ValueConserved
  HonestPasses
  HoldsEverything
PROPERTIES
  GradeEnds
