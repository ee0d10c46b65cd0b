----------------------------- MODULE Enrollment -----------------------------
(***************************************************************************)
(* Students and groups: creation, approval, rejection, memberships, the    *)
(* trash and its permanent deletions (app/services/student.py,             *)
(* app/services/group.py, app/api/v1/admin/trash.py and the endpoints of   *)
(* teachers).  A request reads the rows it needs and writes them at its    *)
(* COMMIT: of a row it has read only the columns it changed, and a row     *)
(* that is gone makes the COMMIT fail.                                     *)
(***************************************************************************)
EXTENDS Integers, FiniteSets, Functions

CONSTANTS
  Students, Groups,
  Clerks,      \* requests of administrators, inspectors and teachers
  MaxPaid,     \* payments of a student
  None

VARIABLES
  limit,       \* how many requests may be under way at once
  status,      \* groups.status: completed and paused ones are inactive, a
               \* group that was not created yet has none
  student,     \* rows of students
  login,       \* users.is_active of the student's user
  member,      \* student_groups: no row, an active one or one that was left
  payments,    \* how many payments of a student name a group, or none
  seen,        \* what a request has read
  wanted, rejected, decided, patched, linked, paid   \* history of a student: the
    \* groups a teacher asked for, was he rejected, is he decided, was the approval
    \* patched, was he linked by an invitation, and the number of his payments

history == <<wanted, rejected, decided, patched, linked, paid>>
evars   == <<status, student, login, member, payments, seen, history>>

Statuses == {"active", "inactive"}
Rows     == [active : BOOLEAN, approved : BOOLEAN, rejected : BOOLEAN, waiting : SUBSET Groups]
Existing == {g \in Groups : status[g] \in Statuses}
Enrolled == {s \in Students : student[s] # None}
Nothing  == [student |-> None, group |-> None]
Out      == [g \in Groups |-> "none"]
NoMoney  == [g \in Groups \cup {None} |-> 0]

EInit ==
  /\ status \in [Groups -> {"active", None}]
  /\ student = [s \in Students |-> None] /\ login = [s \in Students |-> FALSE]
  /\ member = [s \in Students |-> Out]
  /\ payments = [s \in Students |-> NoMoney]
  /\ seen = [c \in Clerks |-> Nothing]
  /\ wanted = [s \in Students |-> {}] /\ paid = [s \in Students |-> 0]
  /\ rejected = {} /\ decided = {} /\ patched = {} /\ linked = {}

New(s) == s \notin Enrolled /\ \A c \in Clerks : seen[c].student # s

\* Created by administrators and inspectors: approved, and in the groups at
\* once (foreign keys).  An invitation that names a role and a group does the same.
CreateApproved(s, gs) ==
  /\ New(s) /\ gs \subseteq Existing
  /\ student' = [student EXCEPT ![s] =
       [active |-> TRUE, approved |-> TRUE, rejected |-> FALSE, waiting |-> {}]]
  /\ login' = [login EXCEPT ![s] = TRUE]
  /\ member' = [member EXCEPT ![s] = [g \in Groups |-> IF g \in gs THEN "on" ELSE "none"]]
  /\ decided' = decided \cup {s}
  /\ UNCHANGED <<limit, status, payments, seen, wanted, rejected, patched, linked, paid>>

\* Created by a teacher: the groups wait for the approval, and nobody looks
\* whether they exist.
CreateByTeacher(s, gs) ==
  /\ New(s)
  /\ student' = [student EXCEPT ![s] =
       [active |-> TRUE, approved |-> FALSE, rejected |-> FALSE, waiting |-> gs]]
  /\ login' = [login EXCEPT ![s] = FALSE]
  /\ wanted' = [wanted EXCEPT ![s] = gs]
  /\ UNCHANGED <<limit, status, member, payments, seen, rejected, decided, patched, linked, paid>>

Free(c) == seen[c] = Nothing /\ Cardinality({o \in Clerks : seen[o] # Nothing}) < limit

Load(c, s) ==
  /\ Free(c) /\ s \in Enrolled
  /\ seen' = [seen EXCEPT ![c] = [student |-> s, group |-> None, row |-> student[s],
                                  login |-> login[s], member |-> member[s]]]
  /\ UNCHANGED <<limit, status, student, login, member, payments, history>>

LoadGroup(c, g) ==
  /\ Free(c) /\ g \in Existing
  /\ seen' = [seen EXCEPT ![c] = [student |-> None, group |-> g, status |-> status[g]]]
  /\ UNCHANGED <<limit, status, student, login, member, payments, history>>

\* The end of a request, by COMMIT or by an error.
Done(c) == seen' = [seen EXCEPT ![c] = Nothing]

Abort(c) ==
  /\ seen[c] # Nothing /\ Done(c)
  /\ UNCHANGED <<limit, status, student, login, member, payments, history>>

Save(c, row, on) ==
  LET s == seen[c].student
      old == seen[c].row
  IN  /\ s # None /\ s \in Enrolled
      /\ student' = [student EXCEPT ![s] =
           [x \in DOMAIN row |-> IF row[x] = old[x] THEN @[x] ELSE row[x]]]
      /\ login' = [login EXCEPT ![s] = IF on = seen[c].login THEN @ ELSE on]
      /\ Done(c)

\* Rows of student_groups: an active one stays as it is, one that was left is
\* activated, else one is inserted, UNIQUE and with foreign keys.
Join(c, gs) ==
  LET s == seen[c].student
      was == seen[c].member
  IN  /\ \A g \in gs : CASE was[g] = "none" -> member[s][g] = "none" /\ g \in Existing
                         [] was[g] = "off"  -> member[s][g] # "none"
                         [] OTHER           -> TRUE
      /\ member' = [member EXCEPT ![s] = [g \in Groups |-> IF g \in gs /\ was[g] # "on" THEN "on" ELSE @[g]]]

\* PATCH /students/{id}.
Update(c, active, approved) ==
  LET old == seen[c].row
      on  == approved = TRUE \/ (active = TRUE \/ (active = None /\ seen[c].login))
      row == [old EXCEPT !.approved = IF approved = None THEN @ ELSE approved,
                         !.active   = approved = TRUE \/ (IF active = None THEN @ ELSE active)]
  IN  /\ seen[c].student # None /\ Save(c, row, on)
      /\ patched' = IF approved = None THEN patched ELSE patched \cup {seen[c].student}
      /\ UNCHANGED <<limit, status, member, payments, wanted, rejected, decided, linked, paid>>

Approve_StaysRejected(c) ==
  /\ seen[c].student # None
  /\ Save(c, [seen[c].row EXCEPT !.active = TRUE, !.approved = TRUE, !.waiting = {}], TRUE)
  /\ Join(c, seen[c].row.waiting)
  /\ decided' = decided \cup {seen[c].student}
  /\ UNCHANGED <<limit, status, payments, wanted, rejected, patched, linked, paid>>

\* A group that was deleted meanwhile makes the approval fail.
Approve(c) ==
  /\ seen[c].student # None
  /\ Save(c, [active |-> TRUE, approved |-> TRUE, rejected |-> FALSE, waiting |-> {}], TRUE)
  /\ Join(c, seen[c].row.waiting)
  /\ decided' = decided \cup {seen[c].student}
  /\ UNCHANGED <<limit, status, payments, wanted, rejected, patched, linked, paid>>

\* Memberships stay.
Reject(c) ==
  /\ seen[c].student # None
  /\ Save(c, [active |-> FALSE, approved |-> FALSE, rejected |-> TRUE, waiting |-> {}], FALSE)
  /\ rejected' = rejected \cup {seen[c].student} /\ decided' = decided \cup {seen[c].student}
  /\ UNCHANGED <<limit, status, member, payments, wanted, patched, linked, paid>>

\* add_to_group, of a student that may be gone by then (foreign key).
AddToGroup(c, g) ==
  /\ seen[c].student # None /\ seen[c].student \in Enrolled
  /\ Join(c, {g}) /\ Done(c)
  /\ UNCHANGED <<limit, status, student, login, payments, history>>

\* A teacher is told that a student is in the group already.
TeacherEnrolls(c, g) == seen[c].student # None /\ seen[c].member[g] # "on" /\ AddToGroup(c, g)

RemoveFromGroup(c, g) ==
  /\ seen[c].student # None /\ seen[c].member[g] = "on" /\ member[seen[c].student][g] # "none"
  /\ member' = [member EXCEPT ![seen[c].student][g] = "off"] /\ Done(c)
  /\ UNCHANGED <<limit, status, student, login, payments, history>>

TeacherRemoves(c, g) == RemoveFromGroup(c, g)

\* From the trash; whether the student was approved or rejected is left.
RestoreStudent(c) ==
  /\ seen[c].student # None /\ Save(c, [seen[c].row EXCEPT !.active = TRUE], TRUE)
  /\ UNCHANGED <<limit, status, member, payments, history>>

\* Only a student that was read as inactive: with everything of his.
DeleteStudent(c) ==
  LET s == seen[c].student
  IN  /\ s # None /\ s \in Enrolled /\ ~seen[c].row.active
      /\ student' = [student EXCEPT ![s] = None] /\ login' = [login EXCEPT ![s] = FALSE]
      /\ member' = [member EXCEPT ![s] = Out] /\ payments' = [payments EXCEPT ![s] = NoMoney]
      /\ wanted' = [wanted EXCEPT ![s] = {}] /\ paid' = [paid EXCEPT ![s] = 0]
      /\ rejected' = rejected \ {s} /\ decided' = decided \ {s}
      /\ patched' = patched \ {s} /\ linked' = linked \ {s}
      /\ Done(c) /\ UNCHANGED <<limit, status>>

\* /auth/register with an invitation of this user: only the user is activated.
RegisterLinked(s) ==
  /\ s \in Enrolled
  /\ login' = [login EXCEPT ![s] = TRUE] /\ linked' = linked \cup {s}
  /\ UNCHANGED <<limit, status, student, member, payments, seen, wanted, rejected, decided, patched, paid>>

\* A payment, for a group or for none.
Pay(s, g) ==
  /\ s \in Enrolled /\ g \in Existing \cup {None} /\ paid[s] < MaxPaid
  /\ payments' = [payments EXCEPT ![s][g] = @ + 1] /\ paid' = [paid EXCEPT ![s] = @ + 1]
  /\ UNCHANGED <<limit, status, student, login, member, seen, wanted, rejected, decided, patched, linked>>

CreateGroup(g) ==
  /\ status[g] = None
  /\ status' = [status EXCEPT ![g] = "active"]
  /\ UNCHANGED <<limit, student, login, member, payments, seen, history>>

\* PATCH /groups/{id}.
UpdateGroup(c, to) ==
  LET g == seen[c].group
  IN  /\ g # None /\ g \in Existing
      /\ status' = [status EXCEPT ![g] = IF to = seen[c].status THEN @ ELSE to] /\ Done(c)
      /\ UNCHANGED <<limit, student, login, member, payments, history>>

RestoreGroup(c) == UpdateGroup(c, "active")

DeleteGroup_KeepsMembers(c) ==
  LET g == seen[c].group
  IN  /\ g # None /\ g \in Existing
      /\ status' = [status EXCEPT ![g] = "deleted"]
      /\ payments' = [s \in Students |-> [payments[s] EXCEPT ![None] = @ + payments[s][g], ![g] = 0]]
      /\ Done(c) /\ UNCHANGED <<limit, student, login, member, history>>

\* The payments stay without their group, the memberships go with it (CASCADE).
DeleteGroup(c) ==
  LET g == seen[c].group
  IN  /\ g # None /\ g \in Existing
      /\ status' = [status EXCEPT ![g] = "deleted"]
      /\ payments' = [s \in Students |-> [payments[s] EXCEPT ![None] = @ + payments[s][g], ![g] = 0]]
      /\ member' = [s \in Students |-> [member[s] EXCEPT ![g] = "none"]]
      /\ Done(c) /\ UNCHANGED <<limit, student, login, history>>

\* From the trash: a group that was read as inactive.
PermanentDeleteGroup(c) == seen[c].group # None /\ seen[c].status = "inactive" /\ DeleteGroup(c)

ENext ==
  \/ \E s \in Students :
       \/ \E gs \in SUBSET Groups : CreateApproved(s, gs) \/ CreateByTeacher(s, gs)
       \/ RegisterLinked(s)
       \/ \E g \in Groups \cup {None} : Pay(s, g)
  \/ \E g \in Groups : CreateGroup(g)
  \/ \E c \in Clerks :
       \/ \E s \in Students : Load(c, s)
       \/ \E g \in Groups : LoadGroup(c, g) \/ AddToGroup(c, g) \/ RemoveFromGroup(c, g)
                          \/ TeacherEnrolls(c, g) \/ TeacherRemoves(c, g)
       \/ \E a, b \in BOOLEAN \cup {None} : Update(c, a, b)
       \/ \E to \in Statuses : UpdateGroup(c, to)
       \/ Approve(c) \/ Reject(c) \/ RestoreStudent(c) \/ DeleteStudent(c)
       \/ DeleteGroup(c) \/ RestoreGroup(c) \/ PermanentDeleteGroup(c) \/ Abort(c)

-----------------------------------------------------------------------------

\* GET /students/pending-approval.
Listed(s) == s \in Enrolled /\ ~student[s].approved /\ ~student[s].rejected

ETypeOK ==
  /\ status \in [Groups -> Statuses \cup {None, "deleted"}]
  /\ student \in [Students -> Rows \cup {None}] /\ login \in [Students -> BOOLEAN]
  /\ \A s \in Students : member[s] \in [Groups -> {"none", "on", "off"}]

\* One request at a time: a student who may log in is active (and one who is in the
\* trash may not), unless an invitation activated the user alone.
LoginMeansActive ==
  limit = 1 => \A s \in Enrolled \ linked : login[s] => student[s].active

\* One request at a time, and unless an approval was patched: a student is in the list
\* of approvals until someone decides and never afterwards, whatever was edited,
\* deleted and restored, and never both approved and rejected.
ListedUntilDecided ==
  limit = 1 => \A s \in Enrolled \ patched :
    /\ Listed(s) <=> s \notin decided
    /\ ~(student[s].approved /\ student[s].rejected)

\* Whatever is decided, deleted and restored in whatever overlap: a group that a
\* teacher asked for still waits, or the student was put in it, unless the
\* student was rejected or the group is gone.
WantedIsKept ==
  \A s \in Enrolled \ rejected : \A g \in wanted[s] \cap Existing :
    g \in student[s].waiting \/ member[s][g] # "none"

\* The three together: a request for approval is kept until it is decided, and its
\* outcome is whole.
ApprovalIsWhole == LoginMeansActive /\ ListedUntilDecided /\ WantedIsKept

\* However requests overlap, no membership and no payment is of a group or a
\* student that is gone, and no payment is lost while its student is there.
MembersExist ==
  \A s \in Students, g \in Groups : member[s][g] # "none" => s \in Enrolled /\ g \in Existing
PaymentsStay ==
  \A s \in Students :
    /\ \A g \in Groups : payments[s][g] > 0 => g \in Existing
    /\ SumFunctionOnSet(payments[s], Groups \cup {None}) = paid[s]
BooksOutliveGroups == MembersExist /\ PaymentsStay

-----------------------------------------------------------------------------
(* What the proofs need besides *)

\* A request has read nothing, a student or a group.
Marks == {"none", "on", "off"}
Seen  ==
  {Nothing} \cup [student : {None}, group : Groups, status : Statuses]
            \cup [student : Students, group : {None}, row : Rows, login : BOOLEAN,
                  member : [Groups -> Marks]]
RowsAreSound ==
  /\ member \in [Students -> [Groups -> Marks]] /\ seen \in [Clerks -> Seen]
  /\ payments \in [Students -> [Groups \cup {None} -> Nat]] /\ paid \in [Students -> Nat]
  /\ wanted \in [Students -> SUBSET Groups] /\ decided \subseteq Enrolled
  /\ \A s \in Students \ Enrolled : wanted[s] = {}

\* However requests overlap: of the groups that a student waited for and was in when a
\* request read him, the first only get fewer, and the second go only when deleted.
AsRead ==
  \A c \in Clerks : \A s \in Enrolled : seen[c].student = s =>
    /\ student[s].waiting \subseteq seen[c].row.waiting
    /\ \A g \in Groups : seen[c].member[g] # "none" =>
         status[g] # None /\ (status[g] = "deleted" \/ member[s][g] # "none")

\* A group that is not there yet may be asked for.
WantedUntilDeleted ==
  \A s \in Enrolled \ rejected : \A g \in wanted[s] :
    g \in student[s].waiting \/ member[s][g] # "none" \/ status[g] = "deleted"

\* One request at a time: what it has read is what is there.
ReadIsCurrent ==
  limit = 1 =>
    /\ \A c, d \in Clerks : seen[c] # Nothing /\ seen[d] # Nothing => c = d
    /\ \A c \in Clerks : LET s == seen[c].student IN
         s # None => /\ s \in Enrolled /\ seen[c].row = student[s]
                     /\ s \in linked \/ seen[c].login = login[s]

\* The inductive invariant.
EInv ==
  /\ ETypeOK /\ RowsAreSound /\ AsRead /\ WantedUntilDeleted /\ ReadIsCurrent
  /\ LoginMeansActive /\ ListedUntilDecided /\ BooksOutliveGroups

ESpec == EInit /\ [][ENext]_<<limit, evars>>

=============================================================================
