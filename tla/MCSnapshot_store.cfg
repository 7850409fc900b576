SPECIFICATION Spec
CONSTANTS
  p1 = p1
  p2 = p2
  Procs = {p1, p2}
  Ids <- MCIds
  Rows <- MCRows
  Harvest <- MCHarvest
  Seeded <- MCSeeded
  NoRaw = NoRaw
  Nothing = Nothing
  NoInstant = NoInstant
  Forever = Forever
  MaxOps = 3
  MaxDamage = 2
  MaxFailures = 1
INVARIANTS PromisesHold
CHECK_DEADLOCK FALSE
