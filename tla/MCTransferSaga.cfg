SPECIFICATION Spec
CONSTANTS
  AccountIds = {a1, a2}
  Unknown = unknown
  Amounts = {1}
  Deposits = {1}
  MaxBalance = 1
  Transfers = {t1, t2}
  Faults = {"crash", "accountsDb"}
SYMMETRY MCSymmetry
INVARIANTS TypeOK NeverPaidTwice BooksBalance StatusTellsTheMoney
PROPERTIES ImplementsContract
