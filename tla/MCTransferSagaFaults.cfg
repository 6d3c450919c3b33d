SPECIFICATION FairSpec
CONSTANTS
  AccountIds = {a1, a2}
  Unknown = unknown
  Amounts = {1}
  Deposits = {0, 2}
  MaxBalance = 2
  Transfers = {t1}
  Faults = {"transfersDb", "commit", "net", "accountsDb", "crash"}
INVARIANTS CompletedIsPaid RefundIsLogged NothingFromNothing SavedFlagsAreTrue EventsTellTheStatus
PROPERTIES TransfersEnd
