SPECIFICATION AlertsSpec
CONSTANTS
  Transfers = {t1}
  AccountIds = {a1, a2}
  Owned = {a1, a2}
  Members = {m1}
  Amounts = {3}
  Times = {0}
  MaxBalance = 4
  Moves <- MCMoves
  LargeAmount = 2
  VelocityLimit = 0
  RoundUnit = 2
  VelocityWindow = 1
  DrainWindow = 0
  MaxCopies = 1
  MaxFaults = 0
INVARIANTS LargeTransfersAreAlerted
CHECK_DEADLOCK FALSE
