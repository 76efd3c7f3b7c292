SPECIFICATION Spec
CONSTANTS
  Instants <- Clock
  Spends <- Offered
  Domains <- Here
  Lax = {}
INVARIANTS OpensWhenDue ProbesIsolateRules
PROPERTY OpensFromThenOn
CHECK_DEADLOCK FALSE
