\* Requests one at a time and two at once, sessions three at once; quiet hours in a
\* day of eight ticks.
SPECIFICATION OfficeSpec
CONSTANTS
  None = None  Nothing = Nothing  MaxOpen = 3
  Operators = {q1, q2}
  Roles = {"teacher", "inspector"}  Processes = {a, b}  MaxPairs = 3  MaxChanges = 2
  Tenants = {a, b}  AsyncSessions = {q1, q2, q3}  Connections = {c1, c2, c3}  Public = Public  MaxSessions = 4
  Slugs = {"first", Second}  Second = Second  Plans = {p}  Parts = {"tables", "columns"}  Added = {"columns"}
  Names = {a, b}  Inspectors = {u1, u2}  Costs = {c1}  Asks = {k1, k2}  Phones = {p}
  Pupils = {s1, s2, s3}  MaxMade = 2  Learners = {s1}  MaxMarks = 3
  Debtors = {s1, s2}  Slots = 2  Nights = 2
  Day = 8  Offset = 3  Days = 2
INVARIANTS
  RefreshOnce
  EndedIsRefused
  TokensAreFresh
  FirstTransactionIsOwn
  TenantsAreWhole
  ApprovedIsHired
  MarketingAgrees
  WaitsOutQuietHours
  RemindersAgree
SYMMETRY Interchangeable
CHECK_DEADLOCK FALSE
