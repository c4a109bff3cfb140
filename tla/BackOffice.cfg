SPECIFICATION BackOfficeSpec
CONSTANTS
  Founder = u1
  Newcomer = u2
  Appointments <- BackOfficeAppointments
  Sessions = {s1, s2}
  Keys = {k1, k2}
  CountingKeys = {k1}
  MaxPending = 2
  MaxGrants = 1
  Clerks = {c1, c2, c3}
  Operators = {c3}
  MaxVersions = 3
  Prices = {1}
  Reported = {"DELIVERED", "NOT_DELIVERED", "UNRESOLVABLE"}
  MaxAccounts = 3
  Captured = 2
  PaperKeys = {p1, p2}
  PaperBodies <- BackOfficePaper
  MaxPrints = 2
  PaperMax = 3
  RowIds = {1, 2}
  ReadKiosks = {kiosk}
  PageSize = 1
  MaxReadTime = 2
  MaxLoadsOut = 2
  OverviewTtl = 1
  MaxCachedOverviews = 1
  Callers = {r1, r2}
  Bars = 2
  BarLength = 2
  Offsets <- BackOfficeOffsets
INVARIANTS
  AccountsAreSound
  
  
PROPERTIES
  OvertakenRequestsChangeNothing
CHECK_DEADLOCK FALSE
SYMMETRY BackOfficeSymmetry
