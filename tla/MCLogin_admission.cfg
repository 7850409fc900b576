\* Two callbacks at once present one SSO state, one link and their challenges any
\* number of times, while one field of the firm's policy changes.
CONSTANTS
  States = {st1}
  Links = {lk1}
  Chals = {h1,h2}
  Procs = {p1,p2}
  MaxChanges = 1
  Faults = {"database"}
  None = None
SYMMETRY Symmetry
SPECIFICATION Spec
INVARIANTS FactorIsEarned SteadyPolicyEnforced SessionsAreAudited
PROPERTIES ImplementsAdmission
