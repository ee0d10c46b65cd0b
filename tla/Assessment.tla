----------------------------- MODULE Assessment -----------------------------
(***************************************************************************)
(* Monthly grades of the students of groups for one month                   *)
(* (app/services/student_progress.py).  A teacher enters the grades of a    *)
(* group in one transaction that flushes each of them.  A grade is looked   *)
(* up by student and group; what is unique is the student and the deadline  *)
(* day on which it was first entered.                                       *)
(***************************************************************************)
EXTENDS Integers, FiniteSets, FiniteSetsExt

CONSTANTS
  Pupils, Groups, Days,
  Grades,      \* grades entered, 0 to 100
  Graders,     \* requests of teachers
  Ahead,       \* ticks by which local time is ahead of UTC
  Defaults,    \* deadline day of each group at first
  Changes,     \* how often deadlines, memberships and students change
  Never

VARIABLES
  hour,        \* the clock, local time; a day is one tick
  overlap,     \* how many requests may be under way at once
  deadline,    \* groups.progress_deadline_day
  belongs,     \* active members of a group
  inactive,    \* students that are not active, members or not
  grades,      \* student_progress, by student and scheduled day
  batch,       \* what a request submits: a group and scores, and what it read first
  found,       \* rows it has loaded and the rows it will write
  changes      \* counts changed deadlines, memberships and students

gvars == <<hour, overlap, deadline, belongs, inactive, grades, batch, found, changes>>

NoBatch == [at |-> "idle", group |-> Never, todo |-> {}, score |-> Never, day |-> 0,
            late |-> FALSE, time |-> 0, who |-> Never, on |-> 0, row |-> Never]
NoRow   == [p \in Pupils |-> [d \in Days |-> Never]]

\* Rows of student_progress, entered for a group on some day.
RowsOf(p, g) == {d \in Days : grades[p][d] # Never /\ grades[p][d].group = g}

Init ==
  /\ hour = 0 /\ overlap \in 1..Cardinality(Graders) /\ changes = 0
  /\ deadline = Defaults
  /\ belongs \in [Groups -> SUBSET Pupils] /\ inactive \in SUBSET Pupils
  /\ grades = NoRow
  /\ batch = [r \in Graders |-> NoBatch]
  /\ found = [r \in Graders |-> NoRow]

Open(r)    == batch[r].at \in {"open", "found"}
OthersOf(r) == {o \in Graders \ {r} : Open(o)}

CalcDeadline(day) == day

\* The clock is read in UTC, the deadline is meant in local time.
Overdue(day) == hour - Ahead > CalcDeadline(day)

SetGroupDeadline(g, d) ==
  /\ changes < Changes /\ deadline[g] # d
  /\ deadline' = [deadline EXCEPT ![g] = Max({1, Min({d, 28})})]
  /\ changes' = changes + 1
  /\ UNCHANGED <<hour, overlap, belongs, inactive, grades, batch, found>>

\* A student leaves a group; other services do that.
LeaveGroup(g, p) ==
  /\ changes < Changes /\ p \in belongs[g]
  /\ belongs' = [belongs EXCEPT ![g] = @ \ {p}]
  /\ changes' = changes + 1
  /\ UNCHANGED <<hour, overlap, deadline, inactive, grades, batch, found>>

\* update_student makes a student inactive, or active again; the membership stays.
SetActive(p) ==
  /\ changes < Changes
  /\ inactive' = IF p \in inactive THEN inactive \ {p} ELSE inactive \cup {p}
  /\ changes' = changes + 1
  /\ UNCHANGED <<hour, overlap, deadline, belongs, grades, batch, found>>

\* POST /teacher/assessment/groups/{id}/submit: the deadline is read first.  Whose
\* grades these are is not checked.
BulkSubmit(r, g, x) ==
  /\ batch[r].at = "idle" /\ Cardinality(OthersOf(r)) < overlap
  /\ batch' = [batch EXCEPT ![r] = [at |-> "open", group |-> g, todo |-> DOMAIN x, score |-> x,
                 day |-> deadline[g], late |-> Overdue(deadline[g]), time |-> hour,
                 who |-> Never, on |-> 0, row |-> Never]]
  /\ UNCHANGED <<hour, overlap, deadline, belongs, inactive, grades, found, changes>>

RowFor_ThisDay(p, g, day) == RowsOf(p, g) \cap {day}

\* The row a request finds for a student.
RowFor(p, g, day) == RowsOf(p, g)

\* SELECT of the next student's row; two rows make it fail.
FindEntry(r, p) ==
  LET b   == batch[r]
      has == RowFor(p, b.group, b.day)
      day == IF has = {} THEN b.day ELSE CHOOSE d \in has : TRUE
  IN  /\ b.at = "open" /\ p \in b.todo /\ Cardinality(has) <= 1
      /\ batch' = [batch EXCEPT ![r].at = "found", ![r].who = p, ![r].on = day,
                     ![r].row = IF has = {} THEN Never ELSE grades[p][day]]
      /\ UNCHANGED <<hour, overlap, deadline, belongs, inactive, grades, found, changes>>

\* INSERT or UPDATE, flushed: it waits for whoever has flushed this row, and the
\* INSERT fails when there is a row on this day.
SaveEntry(r) ==
  LET b   == batch[r]
      p   == b.who
      row == [group |-> b.group, score |-> b.score[p], late |-> b.late, time |-> b.time]
  IN  /\ b.at = "found" /\ (b.row = Never => grades[p][b.on] = Never)
      /\ \A o \in OthersOf(r) : found[o][p][b.on] = Never
      /\ found' = [found EXCEPT ![r][p][b.on] = [old |-> b.row, new |-> row]]
      /\ batch' = [batch EXCEPT ![r].at = "open", ![r].todo = @ \ {p}]
      /\ UNCHANGED <<hour, overlap, deadline, belongs, inactive, grades, changes>>

Close(r) ==
  /\ batch' = [batch EXCEPT ![r] = [NoBatch EXCEPT !.at = "over"]]
  /\ found' = [found EXCEPT ![r] = NoRow]
  /\ UNCHANGED <<hour, overlap, deadline, belongs, inactive, changes>>

\* An UPDATE writes the columns that differ from what was loaded.
Merged(row, f) ==
  IF f.old = Never THEN f.new
  ELSE [c \in DOMAIN f.new |-> IF f.new[c] = f.old[c] THEN row[c] ELSE f.new[c]]

\* COMMIT.  No tenant is named, so nobody is notified.
CommitGrades(r) ==
  /\ batch[r].at = "open" /\ batch[r].todo = {}
  /\ grades' = [p \in Pupils |-> [d \in Days |->
       IF found[r][p][d] = Never THEN grades[p][d] ELSE Merged(grades[p][d], found[r][p][d])]]
  /\ Close(r)

\* A conflict, another error or a crash before the COMMIT.
AbortGrades(r) == Open(r) /\ Close(r) /\ UNCHANGED grades

Tick == hour' = hour + 1 /\ UNCHANGED <<overlap, deadline, belongs, inactive, grades, batch, found, changes>>

Next ==
  \/ \E g \in Groups, d \in Days : SetGroupDeadline(g, d)
  \/ \E g \in Groups, p \in Pupils : LeaveGroup(g, p)
  \/ \E p \in Pupils : SetActive(p)
  \/ \E r \in Graders :
       \/ \E g \in Groups, S \in SUBSET Pupils : \E x \in [S -> Grades] : S # {} /\ BulkSubmit(r, g, x)
       \/ \E p \in Pupils : FindEntry(r, p)
       \/ SaveEntry(r) \/ CommitGrades(r) \/ AbortGrades(r)

-----------------------------------------------------------------------------
(* What teachers and administrators see *)

Graded(g) == {p \in Pupils : RowsOf(p, g) # {}}

\* get_group_assessment: the active members that are active students, with their status.
Pending(g) == (belongs[g] \ inactive) \ Graded(g)

\* get_teacher_assessments: the rows of the group against its active members, active
\* students or not.
Status(g) ==
  LET rows == {x \in Pupils \X Days : x[2] \in RowsOf(x[1], g)}
      late == {x \in rows : grades[x[1]][x[2]].late}
  IN  [submitted |-> Cardinality(rows), late |-> Cardinality(late),
       missing |-> Cardinality(belongs[g]) - Cardinality(rows)]

-----------------------------------------------------------------------------

TypeOK ==
  /\ deadline \in [Groups -> Days] /\ belongs \in [Groups -> SUBSET Pupils]
  /\ inactive \in SUBSET Pupils
  /\ \A p \in Pupils, d \in Days : grades[p][d] # Never =>
       /\ grades[p][d].group \in Groups /\ grades[p][d].score \in Grades
       /\ grades[p][d].time <= hour

\* A student has one grade of a group and month, although only the day is
\* unique, unless the deadline moves while two requests overlap; a second
\* row would make every later SELECT fail.
OneGradePerGroup ==
  overlap = 1 \/ changes = 0 => \A p \in Pupils, g \in Groups : Cardinality(RowsOf(p, g)) <= 1

\* However requests overlap: a grade is never taken over by another group nor lost.
GroupKeepsItsGrade ==
  [][\A p \in Pupils, d \in Days : grades[p][d] # Never =>
       grades'[p][d] # Never /\ grades'[p][d].group = grades[p][d].group]_gvars

\* With one row for each: what administrators are told is missing is what the teacher
\* is shown as pending, but for members that are no active students, and for the grades
\* of students that are no members.
MissingIsExplained ==
  overlap = 1 \/ changes = 0 => \A g \in Groups :
    Status(g).missing + Cardinality(Graded(g) \ belongs[g])
      = Cardinality(Pending(g)) + Cardinality((belongs[g] \cap inactive) \ Graded(g))

\* One request at a time and no deadline moved: a grade is marked late exactly when its
\* last submission was.
LateFitsTime ==
  overlap = 1 /\ changes = 0 => \A p \in Pupils, g \in Groups : \A d \in RowsOf(p, g) :
    grades[p][d].late = (grades[p][d].time - Ahead > deadline[g])

\* The three, with the types: a grade counts once, for its group and at its time.
GradesAgree == TypeOK /\ OneGradePerGroup /\ MissingIsExplained /\ LateFitsTime

-----------------------------------------------------------------------------
(* What the proofs need besides *)

GradeRow == [group : Groups, score : Grades, late : BOOLEAN, time : Nat]

\* A row that a request has found, or that there is none, is still so: rows are never
\* taken away, and with one request at a time nobody else writes.
ReadIsSound(r, p, d, row) ==
  LET g == batch[r].group
  IN  IF row = Never THEN d = batch[r].day /\ (overlap = 1 => RowsOf(p, g) = {})
      ELSE /\ row \in GradeRow /\ row.group = g /\ d \in RowsOf(p, g)
           /\ overlap = 1 => row = grades[p][d]

\* A request under way is of a group and its students, with the deadline it has read.
BatchIsSound(r) ==
  LET b == batch[r]
  IN  /\ b.group \in Groups /\ b.day \in Days /\ b.late \in BOOLEAN /\ b.time \in 0..hour
      /\ DOMAIN b.score \subseteq Pupils /\ \A p \in DOMAIN b.score : b.score[p] \in Grades
      /\ b.todo \subseteq DOMAIN b.score
      /\ changes = 0 => b.day = deadline[b.group] /\ b.late = (b.time - Ahead > b.day)
      /\ b.at = "found" => b.who \in b.todo /\ b.on \in Days /\ ReadIsSound(r, b.who, b.on, b.row)

\* What it has flushed: one row of a student that nobody else has flushed.
EntryIsSound(r, p, d) ==
  LET b == batch[r]
      f == found[r][p][d]
  IN  /\ Open(r) /\ p \in DOMAIN b.score \ b.todo
      /\ \A e \in Days : found[r][p][e] # Never => e = d
      /\ \A o \in Graders \ {r} : found[o][p][d] = Never
      /\ f = [old |-> f.old,
              new |-> [group |-> b.group, score |-> b.score[p], late |-> b.late, time |-> b.time]]
      /\ ReadIsSound(r, p, d, f.old) /\ (f.old = Never => grades[p][d] = Never)

GradesAreKept ==
  /\ batch = [r \in Graders |-> batch[r]]
  /\ \A r \in Graders : LET b == batch[r]
                         IN  b = [at |-> b.at, group |-> b.group, todo |-> b.todo, score |-> b.score,
                                  day |-> b.day, late |-> b.late, time |-> b.time,
                                  who |-> b.who, on |-> b.on, row |-> b.row]
  /\ found = [r \in Graders |-> [p \in Pupils |-> [d \in Days |-> found[r][p][d]]]]

\* While no deadline moved, all rows of a group are on its day; with one request at a
\* time there is one, whatever moved.
OneDay == changes = 0 => \A p \in Pupils, d \in Days : grades[p][d] # Never => d = deadline[grades[p][d].group]
OneRow == overlap = 1 => \A p \in Pupils, g \in Groups : \A d, e \in RowsOf(p, g) : d = e

GradesInv ==
  /\ hour \in Nat /\ changes \in Nat /\ TypeOK
  /\ grades \in [Pupils -> [Days -> GradeRow \cup {Never}]]
  /\ GradesAreKept /\ \A r \in Graders : Open(r) => BatchIsSound(r)
  /\ \A r \in Graders, p \in Pupils, d \in Days : found[r][p][d] # Never => EntryIsSound(r, p, d)
  /\ overlap = 1 => \A r, o \in Graders : Open(r) /\ Open(o) => r = o
  /\ OneDay /\ OneRow /\ LateFitsTime

=============================================================================
