SPECIFICATION Spec
CONSTANTS
  AccountIds = {a1, a2}
  Unknown = unknown
  Amounts = {1, 2}
  Deposits = {0, 2}
  MaxBalance = 3
  Calls = {c1, c2}
  Faults = {"accountsDb", "commit", "net"}
SYMMETRY MCSymmetry
INVARIANTS TypeOK EffectsAddUp PermanentRefusalsAreTrue
PROPERTY FrozenIsFinal
