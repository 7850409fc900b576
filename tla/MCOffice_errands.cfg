\* Two operators at once; four requests for one inbox from two addresses; an
\* archive of three deals by two people, one spoilt, a row at a time.
CONSTANTS
  Operators = {o1,o2}
  Confs = {c1,c2,c3}
  None = None
  Asks = {r1,r2,r3,r4}
  Addresses = {a1,a2}
  Limiters <- MCLimiters
  RateLimit <- MCRateLimit
  Window = 1
  Hour = 2
  PerHour = 1
  MaxClock = 3
  DealIds = {1,2,3}
  People = {p1,p2}
  Batch = 1
  Spoilt = {2}
  Exported = Exported
SYMMETRY Symmetry
SPECIFICATION OfficeSpec
INVARIANTS NeverEnabledUnchecked MailIsBounded ExportIsHonest
CHECK_DEADLOCK FALSE
