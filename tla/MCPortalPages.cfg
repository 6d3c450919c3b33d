SPECIFICATION PagesSpec
CONSTANTS
  MaxChains = 2
  MaxUnkept = 1
  Ids = {i1, i2}
  Services = {s1}
SYMMETRY MCSymmetry
INVARIANTS PanelsAreWhole PanelsFollowTheUser RetriesPayOnce NobodyWaitsInVain
