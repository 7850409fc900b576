SPECIFICATION Spec
CONSTANTS
  Reqs = {r1, r2}
  Deals = {d1, d2}
  Keys = {k1, k2}
  Servers = {s1, s2}
  NoKey = NoKey
  Destroyed = Destroyed
  Plain = Plain
  Seed = Seed
  PerTenantKeys = TRUE
SYMMETRY Symmetry
INVARIANTS SealedUnderTheFirmsKey LastWriteStands NothingOpensAfterErasure DestructionIsRecorded
CHECK_DEADLOCK FALSE
