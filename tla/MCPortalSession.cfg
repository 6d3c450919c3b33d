SPECIFICATION SessionSpec
CONSTANTS
  Emails = {e1}
  Calls = {c1, c2}
  MaxUsers = 2
  AccessTTL = 1
  RefreshTTL = 2
  MaxEvents = 1
SYMMETRY MCSymmetry
INVARIANTS EmailsLeadToUsers SessionIsWhole SigningOutLasts
