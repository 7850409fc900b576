\* One person signing in and rotating, one request at a time, against two directory
\* transactions; the clock passes the idle limit and touches are delayed or lost.
CONSTANTS
  Users = {u1}
  Sids = {s1,s2}
  Reqs = {r1}
  Scims = {p1,p2}
  Kinds = {"login","me"}
  Ttl = 3
  RotateAfter = 0
  IdleMax = 1
  TouchEvery = 0
  MaxTime = 2
  Faults = {"database"}
  None = None
SPECIFICATION FairSpec
INVARIANTS OnlyOverlappingInsertSurvives DeprovisionedNeverServed
PROPERTIES RevokedForever IdleRevokesOnlyUnused EveryRequestAnswered
