\* One browser, two requests at once, every kind of request, lost answers,
\* rotation, suspension: no directory.
CONSTANTS
  Users = {u1}
  Sids = {s1,s2,s3}
  Reqs = {r1,r2}
  Scims = {}
  Kinds = {"login","me","read","write","logout"}
  Ttl = 3
  RotateAfter = 0
  IdleMax = 3
  TouchEvery = 3
  MaxTime = 1
  Faults = {"loss", "database", "operator"}
  None = None
SYMMETRY Symmetry
SPECIFICATION Spec
INVARIANTS SuspendedNeverServed SuccessorReplaces
