SPECIFICATION LayerSpec
CONSTANTS
  Parcels = {p1}
  Entities = {e1, e2, e3}
  Values = {1, 2}
  Windows <- MCWindows
  Moments = {0, 1, 2}
  NoInstant = NoInstant
  Forever = Forever
  MaxClock = 3
  MaxFacts = 3
  MaxEdges = 4
  MaxDepth = 2
SYMMETRY Symmetry
CONSTRAINT OneHalf
INVARIANTS PastAnswersStand OwnersAndPortfoliosAgree
CHECK_DEADLOCK FALSE
