\* One student, one user of the staff, a code of each kind, two Telegram users;
\* requests one at a time and two at once.
SPECIFICATION Spec
CONSTANTS
  None = None  MaxOpen = 2
  Students = {s1}  Groups = {a, b}  Clerks = {q1, q2}  MaxPaid = 1
  Staffers = {u1}  Profiles = {a, b}  Roles = {"teacher", "inspector", "admin"}  Admins = {q1, q2}
  RoleCodes = {i1}  LinkCodes = {i2}  ParentCodes = {i3}
  People = {t1, t2}  Processes = {a, b}  Visits = {q1, q2}
  Users = {a, b}  Tokens = {k1, k2}  Calls = {q1, q2}  MaxBinds = 2
INVARIANTS
  ApprovalIsWhole
  BooksOutliveGroups
  AccountIsWhole
  InviteServesOne
  TokenServesOnce
SYMMETRY Interchangeable
CHECK_DEADLOCK FALSE
