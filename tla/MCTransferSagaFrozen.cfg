SPECIFICATION Spec
CONSTANTS
  AccountIds = {a1, a2}
  Unknown = unknown
  Amounts = {1}
  Deposits = {0, 2}
  MaxBalance = 2
  Transfers = {t1}
  Faults = {}
INVARIANTS NoMoneyIsLost
