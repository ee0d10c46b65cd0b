\* Two lessons to review at once, three lessons and two topics, the grades of a
\* month, a payslip; requests one at a time and two at once.
SPECIFICATION SchoolSpec
CONSTANTS
  None = None  Nil = Nil  Everyone = Everyone
  s1 = s1  s2 = s2  s3 = s3  g1 = g1  g2 = g2
  m1 = m1  m2 = m2  m3 = m3
  Requests = {r1, r2}  Workers = {w1, w2}  Teachers = {w1, w2}
  HeldLessons <- MCLessons  Members <- MCMembers  GroupsOn <- MCGroupsOn
  Sheets <- MCSheets
  Learners = {s1, s2}  Editors = {r1, r2}  XP_LEVELS <- MCLevels  Assignees <- MCAssignees
  Students = {s1, s2, s3}  Free = {s3}  Movers = {s3}  Edited = {s2}  EditDays = {31}
  Weekly = 2  Months = {28}  Start <- StartDays
  Topics = {ta, tb}  DayLength = 2  UtcOffset = 1  XpLesson = 1  XpTopic = 2  Places = {0, 3}
  MaxTime = 4  MaxOpen = 2  MaxEdits = 2
  Pupils = {r1, r2}  Groups = {g1, g2}  DeadlineDays = {1, 2}  Defaults <- FirstDays
  Grades = {80}  Ahead = 1  Changes = 1  MaxHour = 3
  Metrics = {m1, m2, m3}  Percentages = {m1}  Counts = {m2}  RuleBook <- MCRules  Works <- MCWorks
  Salaries = {107, 200}  Admins = {a1}  MaxChanges = 1
INVARIANTS
  RepeatsAreBounded
  ApprovedIsAdjusted
  MovesAreBooked
  XpAgrees
  AbsenceIsTold
  RegisterAgrees
  TopicIsPaidOnce
  TopicsAgree
  GradesAgree
  PayslipIsWhole
PROPERTIES
  RecordsStick
SYMMETRY Interchangeable
CHECK_DEADLOCK FALSE
