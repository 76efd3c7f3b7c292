SPECIFICATION Spec
CONSTANTS
  MinSendable = 1
  MaxSendable = 4
  Outstanding = 8
  Balance = 9
  Usual = 1
  Misbehaviour <- EveryOption
  Disturbed <- Charging
  Gradings <- Targets
  Hazards <- Troubles
  Budget = 2
INVARIANTS
  MintFaultsCaught
  RegistrationFaultsCaught
  RepeatsAccuse
  PassesClean
  CleansUp
