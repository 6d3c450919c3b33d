SPECIFICATION Spec
CONSTANTS
  Attempts = {a1, a2, a3}
  Nothing = nothing
  Faults = {}
INVARIANTS OneFinancialEffect
CHECK_DEADLOCK FALSE
