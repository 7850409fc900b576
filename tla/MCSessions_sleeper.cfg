\* A sign-in racing its own deprovisioning.
CONSTANTS
  Users = {u1}
  Sids = {s1}
  Reqs = {r1}
  Scims = {p1}
  Kinds = {"login"}
  Ttl = 3
  RotateAfter = 3
  IdleMax = 3
  TouchEvery = 3
  MaxTime = 0
  Faults = {}
  None = None
SYMMETRY Symmetry
SPECIFICATION Spec
INVARIANT DeprovisionEndsEverySession
