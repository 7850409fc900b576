\* Three writers at once, a reader paging, one act of tampering.
CONSTANTS
  Writers = {w1,w2,w3}
  Tenants = {t1, t2}
  Reader = t1
  Limit = 2
  MaxId = 4
  Tampering = {"alter", "remove", "insert"}
SYMMETRY Symmetry
SPECIFICATION Spec
INVARIANTS BreaksOnlyWhereWritersOverlapped TamperingShows PagesAreComplete
