----------------------------- MODULE Attendance -----------------------------
(***************************************************************************)
(* Attendance of lessons (app/services/attendance.py), entered in sheets   *)
(* by the teachers' endpoint, which names the tenant and notifies through  *)
(* NotificationService, and by the administrators' endpoint, which does    *)
(* not and inserts a bare notification.  A sheet is one transaction that   *)
(* works through its students: SELECT, INSERT or UPDATE with a flush, then *)
(* the award or the message to the parent.                                 *)
(***************************************************************************)
EXTENDS Gamification

CONSTANTS
  HeldLessons, \* lessons: a group, a date and the deadline of their attendance
  Members,     \* the active students of a group
  GroupsOn,    \* by date: the active groups with a lesson in their schedule on that weekday
  Sheets,      \* what may be submitted: a lesson, a status per student, the endpoint
  Teachers,    \* requests that submit sheets
  UtcOffset,   \* ticks by which local time is ahead of UTC
  XpLesson     \* XP of a lesson attended

Statuses == {"present", "absent", "late", "excused"}
Row      == [status : Statuses, late : BOOLEAN]
Mark     == Row \cup {Nil}
Dates    == {l.date : l \in HeldLessons}

VARIABLES
  attendance, \* committed rows, by lesson and student
  told,       \* day on which the absence key of a date and a student was inserted
  bare,       \* students whose parents got a bare notification
  sheet,      \* the sheet a request submits
  todo,       \* its students that are not worked through
  where,      \* where the request stands, and with which student
  wrote,      \* rows it has flushed
  fresh,      \* students whose rows or keys it has inserted: their locks
  loaded,     \* profiles it has loaded
  earned      \* profiles it will write

submission == <<sheet, todo, where, wrote, fresh, loaded, earned>>
avars == <<attendance, told, bare, submission>>

Blank(x) == [s \in Learners |-> x]
NoLocks  == [row |-> {}, key |-> {}]

AInit ==
  /\ attendance = [l \in HeldLessons |-> Blank(Nil)]
  /\ told = [d \in Dates |-> Blank(Nil)]
  /\ bare = {}
  /\ sheet = [t \in Teachers |-> Nil]
  /\ todo = [t \in Teachers |-> {}]
  /\ where = [t \in Teachers |-> [at |-> "idle", student |-> Nil]]
  /\ wrote = [t \in Teachers |-> Blank(Nil)]
  /\ fresh = [t \in Teachers |-> NoLocks]
  /\ loaded = [t \in Teachers |-> Blank(Nil)]
  /\ earned = [t \in Teachers |-> Blank(Nil)]

Busy(t) == where[t].at \in {"next", "missing", "written"}
Goto(t, at, s) == where' = [where EXCEPT ![t] = [at |-> at, student |-> s]]
Others(t) == {o \in Teachers \ {t} : Busy(o)}

IsLateSubmission_Ahead(l) == now + UtcOffset > l.deadline

\* The deadline is local time, submitted_at is UTC.
IsLateSubmission(l) == now - UtcOffset > l.deadline

\* What a sheet says of a student.
Entry(t, s) == [status |-> sheet[t].marks[s], late |-> sheet[t].isLate]
Says(t, x)  == where[t].at = "written" /\ sheet[t].marks[where[t].student] = x

\* POST /teacher/attendance, or POST /attendance for administrators.
SubmitAttendance(t, h) ==
  /\ where[t].at = "idle" /\ h.lesson.date <= Today
  /\ Cardinality(Others(t)) < limit
  /\ sheet' = [sheet EXCEPT ![t] = [lesson |-> h.lesson, marks |-> h.marks, teacher |-> h.teacher,
                                   isLate |-> IsLateSubmission(h.lesson)]]
  /\ todo' = [todo EXCEPT ![t] = DOMAIN h.marks]
  /\ Goto(t, "next", Nil)
  /\ UNCHANGED <<now, limit, xp, attendance, told, bare, wrote, fresh, loaded, earned>>

\* SELECT of the row of the next student, and its new values when there is one.
FindRow(t, s) ==
  LET row == attendance[sheet[t].lesson][s]
  IN  /\ where[t].at = "next" /\ s \in todo[t]
      /\ todo' = [todo EXCEPT ![t] = @ \ {s}]
      /\ wrote' = [wrote EXCEPT ![t][s] = [old |-> row, new |-> Entry(t, s)]]
      /\ Goto(t, IF row = Nil THEN "missing" ELSE "written", s)
      /\ UNCHANGED <<now, limit, xp, attendance, told, bare, sheet, fresh, loaded, earned>>

\* INSERT of a row, flushed: it waits for one that is being inserted and fails
\* on one that is there (uq_attendance_student_group_date).
InsertRow(t) ==
  LET s == where[t].student
      l == sheet[t].lesson
  IN  /\ where[t].at = "missing" /\ attendance[l][s] = Nil
      /\ \A o \in Others(t) : sheet[o].lesson = l => s \notin fresh[o].row
      /\ fresh' = [fresh EXCEPT ![t].row = @ \cup {s}]
      /\ Goto(t, "written", s)
      /\ UNCHANGED <<now, limit, xp, attendance, told, bare, sheet, todo, wrote, loaded, earned>>

\* A student who came gets XP, each time a sheet says so.
AwardXp(t) ==
  LET s == where[t].student
  IN  /\ Says(t, "present") \/ Says(t, "late")
      /\ loaded' = [loaded EXCEPT ![t][s] = profile[s]]
      /\ earned' = [earned EXCEPT ![t][s] = Awarded(profile[s], XpLesson)]
      /\ Goto(t, "next", Nil)
      /\ UNCHANGED <<now, limit, xp, attendance, told, bare, sheet, todo, wrote, fresh>>

KeyAge_AnyDate(d, s) ==
  LET days == {told[k][s] : k \in Dates} \ {Nil}
  IN  IF days = {} THEN Nil ELSE Today - Max(days)

\* Age in days of the key of a date and a student.
KeyAge(d, s) == IF told[d][s] = Nil THEN Nil ELSE Today - told[d][s]

\* A student who did not is reported to the parent.  A key of the last 24 hours
\* is enough; an older one makes the INSERT fail, and with it the sheet.
NotifyParentAbsent(t) ==
  LET s     == where[t].student
      d     == sheet[t].lesson.date
      age   == KeyAge(d, s)
      first == sheet[t].teacher /\ age = Nil
  IN  /\ Says(t, "absent")
      /\ sheet[t].teacher /\ age # Nil => age <= 1
      /\ first => \A o \in Others(t) : sheet[o].lesson.date = d => s \notin fresh[o].key
      /\ fresh' = [fresh EXCEPT ![t].key = IF first THEN @ \cup {s} ELSE @]
      /\ Goto(t, "next", Nil)
      /\ UNCHANGED <<now, limit, xp, attendance, told, bare, sheet, todo, wrote, loaded, earned>>

Excused(t) ==
  /\ Says(t, "excused")
  /\ Goto(t, "next", Nil)
  /\ UNCHANGED <<now, limit, xp, attendance, told, bare, sheet, todo, wrote, fresh, loaded, earned>>

Finish(t) ==
  /\ Goto(t, "over", Nil)
  /\ sheet' = [sheet EXCEPT ![t] = Nil] /\ todo' = [todo EXCEPT ![t] = {}]
  /\ wrote' = [wrote EXCEPT ![t] = Blank(Nil)] /\ fresh' = [fresh EXCEPT ![t] = NoLocks]
  /\ loaded' = [loaded EXCEPT ![t] = Blank(Nil)] /\ earned' = [earned EXCEPT ![t] = Blank(Nil)]

CommitSheet(t) ==
  /\ where[t].at = "next" /\ todo[t] = {}
  /\ attendance' = [attendance EXCEPT ![sheet[t].lesson] =
       [s \in Learners |-> IF wrote[t][s] = Nil THEN @[s]
                           ELSE Written(@[s], wrote[t][s].old, wrote[t][s].new)]]
  /\ told' = [told EXCEPT ![sheet[t].lesson.date] =
       [s \in Learners |-> IF s \in fresh[t].key THEN Today ELSE @[s]]]
  /\ bare' = IF sheet[t].teacher THEN bare
             ELSE bare \cup {s \in Learners : wrote[t][s] # Nil /\ wrote[t][s].new.status = "absent"}
  /\ SaveAwards(loaded[t], earned[t], XpLesson)
  /\ Finish(t)
  /\ UNCHANGED <<now, limit>>

AbortSheet_KeepsAwards(t) ==
  /\ Busy(t)
  /\ profile' = [s \in Learners |-> IF earned[t][s] = Nil THEN profile[s] ELSE earned[t][s]]
  /\ Finish(t)
  /\ UNCHANGED <<now, limit, xpLog, attendance, told, bare>>

\* A conflict, another error or a crash before the COMMIT.
AbortSheet(t) ==
  /\ Busy(t)
  /\ Finish(t)
  /\ UNCHANGED <<now, limit, xp, attendance, told, bare>>

ANext == \E t \in Teachers :
  \/ \E h \in Sheets : SubmitAttendance(t, h)
  \/ \E s \in Learners : FindRow(t, s)
  \/ InsertRow(t) \/ AwardXp(t) \/ NotifyParentAbsent(t) \/ Excused(t)
  \/ CommitSheet(t) \/ AbortSheet(t)

-----------------------------------------------------------------------------
(* What the endpoints show *)

Came == {"present", "late"}

MarksOf(held, s) == {attendance[l][s].status : l \in {k \in held : attendance[k][s] # Nil}}

CameTo(held, s) == MarksOf(held, s) \cap Came # {}

\* Percentages are rounded to tenths: a thousand tenths are everybody.
Percent(n, whole) == IF whole = 0 THEN 0 ELSE (2000 * n + whole) \div (2 * whole)

\* One lesson: GET /attendance/summary.
Summary(l) ==
  LET With(x) == {s \in Learners : attendance[l][s] # Nil /\ attendance[l][s].status \in x}
  IN  [total |-> Cardinality(With(Statuses)), came |-> Cardinality(With(Came)),
       percent |-> Percent(Cardinality(With(Came)), Cardinality(With(Statuses)))]

\* A day: GET /attendance/weekly-stats and the branch dashboard.  Only the lessons of
\* groups that are scheduled on its weekday count, an extra lesson does not.
StatsForDate(d) ==
  LET held     == {l \in HeldLessons : l.date = d /\ l.group \in GroupsOn[d]}
      expected == UNION {Members[g] : g \in GroupsOn[d]}
      present  == {s \in Learners : CameTo(held, s)}
      absent   == {s \in Learners : "absent" \in MarksOf(held, s)}
      marked   == {l \in held : \E s \in Learners : attendance[l][s] # Nil}
  IN  IF expected = {} THEN [expected |-> 0, present |-> 0, absent |-> 0, percent |-> 0, marked |-> 0]
      ELSE [expected |-> Cardinality(expected), present |-> Cardinality(present),
            absent |-> Max({0, Cardinality(absent) - Cardinality(present)}),
            percent |-> Min({1000, Percent(Cardinality(present), Cardinality(expected))}),
            marked |-> Cardinality(marked)]

\* A student's own history.
StudentHistory(s) ==
  LET held == {l \in HeldLessons : attendance[l][s] # Nil}
      came == {l \in held : attendance[l][s].status \in Came}
  IN  [total |-> Cardinality(held), percent |-> Percent(Cardinality(came), Cardinality(held))]

-----------------------------------------------------------------------------

ATypeOK ==
  /\ \A l \in HeldLessons, s \in Learners : attendance[l][s] \in Mark
  /\ \A d \in Dates, s \in Learners : told[d][s] \in Nat \cup {Nil}
  /\ bare \subseteq Learners
  /\ \A t \in Teachers : todo[t] \subseteq Learners
  /\ \A t \in Teachers, s \in Learners : wrote[t][s] # Nil => wrote[t][s].new \in Row

\* However sheets overlap, repeat and fail: when the register says absent, a
\* notification for the parent was saved with it or before.
AbsenceIsTold ==
  \A l \in HeldLessons, s \in Learners :
    attendance[l][s] # Nil /\ attendance[l][s].status = "absent"
    => told[l.date][s] # Nil \/ s \in bare

\* An entry is only called late, which costs KPI, when the deadline has passed.
LateIsLate ==
  \A l \in HeldLessons, s \in Learners :
    attendance[l][s] # Nil /\ attendance[l][s].late => now > l.deadline

\* The figures of a scheduled lesson, its day and its students do not contradict each
\* other: a day shows at least those who came to one of its lessons, and counts a
\* lesson that is entered; who never missed a lesson shows in each of them.
FiguresAgree ==
  \A l \in HeldLessons : l.group \in GroupsOn[l.date] /\ Members[l.group] # {} =>
    /\ Summary(l).came <= StatsForDate(l.date).present
    /\ Summary(l).total > 0 => StatsForDate(l.date).marked > 0
    /\ \A s \in Learners : StudentHistory(s).percent = 1000 /\ attendance[l][s] # Nil
         => StatsForDate(l.date).present > 0 /\ Summary(l).percent > 0

\* Both, with the types: what the register says can be believed.
RegisterAgrees == ATypeOK /\ LateIsLate /\ FiguresAgree

-----------------------------------------------------------------------------
(* What the proofs need besides *)

\* What a request holds of a student: the row it read, which stays if there was one,
\* and what its sheet says.
FlushIsSound(t, s) ==
  LET w == wrote[t][s]
  IN  /\ Busy(t) /\ s \in DOMAIN sheet[t].marks \ todo[t]
      /\ w = [old |-> w.old, new |-> Entry(t, s)]
      /\ w.old \in Mark /\ (w.old # Nil => attendance[sheet[t].lesson][s] # Nil)

\* A sheet under way is of a lesson and its students.
SheetIsSound(t) ==
  LET h == sheet[t]
  IN  /\ h.lesson \in HeldLessons /\ h.teacher \in BOOLEAN /\ h.isLate \in BOOLEAN
      /\ DOMAIN h.marks \subseteq Learners /\ \A s \in DOMAIN h.marks : h.marks[s] \in Statuses
      /\ h.isLate => now > h.lesson.deadline
      /\ todo[t] \subseteq DOMAIN h.marks
      /\ where[t].at # "next" => where[t].student \in DOMAIN h.marks \ todo[t]

\* An absence that is about to be saved is told already, or its key is inserted with
\* it, or it is just being worked on.
AbsenceIsUnderway(t) ==
  \A s \in Learners :
    wrote[t][s] # Nil /\ wrote[t][s].new.status = "absent" /\ sheet[t].teacher =>
      \/ told[sheet[t].lesson.date][s] # Nil \/ s \in fresh[t].key
      \/ where[t].at # "next" /\ where[t].student = s

RequestIsSound(t) ==
  /\ where[t] = [at |-> where[t].at, student |-> where[t].student]
  /\ fresh[t] = [row |-> fresh[t].row, key |-> fresh[t].key]
  /\ IF Busy(t) THEN SheetIsSound(t) ELSE todo[t] = {} /\ earned[t] = Blank(Nil)
  /\ AbsenceIsUnderway(t)
  /\ \A s \in Learners : wrote[t][s] # Nil => FlushIsSound(t, s)

\* The tables, and what is kept for each request and student.
TablesAreSound ==
  /\ attendance \in [HeldLessons -> [Learners -> Mark]]
  /\ told \in [Dates -> [Learners -> Nat \cup {Nil}]] /\ bare \subseteq Learners
RequestsAreKept ==
  /\ sheet = [t \in Teachers |-> sheet[t]] /\ todo = [t \in Teachers |-> todo[t]]
  /\ where = [t \in Teachers |-> where[t]] /\ fresh = [t \in Teachers |-> fresh[t]]
  /\ wrote = [t \in Teachers |-> [s \in Learners |-> wrote[t][s]]]
  /\ loaded = [t \in Teachers |-> [s \in Learners |-> loaded[t][s]]]
  /\ earned = [t \in Teachers |-> [s \in Learners |-> earned[t][s]]]

AwardsOfSheets == \A t \in Teachers : AwardsAreSound(loaded[t], earned[t], XpLesson)
OneSheet       == limit = 1 => \A t, o \in Teachers : Busy(t) /\ Busy(o) => t = o

AInv ==
  /\ TablesAreSound /\ RequestsAreKept /\ \A t \in Teachers : RequestIsSound(t)
  /\ AwardsOfSheets /\ OneSheet /\ LateIsLate /\ AbsenceIsTold

=============================================================================
