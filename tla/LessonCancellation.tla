------------------------- MODULE LessonCancellation -------------------------
(***************************************************************************)
(* Cancelled and extra lessons of one group and what they do to the day of *)
(* the month on which its students pay (services/lesson_cancellation.py).  *)
(* A teacher's request waits for a review; an administrator's takes effect *)
(* at once.  A review is a handler of several awaits over one READ         *)
(* COMMITTED transaction: it checks the request, reads the students, and   *)
(* writes absolute days and the verdict at COMMIT, with no row locked in   *)
(* between, so that reviews overlap.                                       *)
(***************************************************************************)
EXTENDS Integers, FiniteSets

CONSTANTS Requests,    \* rows of lesson_cancellations
          Students,    \* students of the tenant
          Workers,     \* requests of administrators served at the same time
          Free,        \* students whose monthly fee, and the group's, is zero
          Movers,      \* students who leave the group and come back
          Edited,      \* students whose payment day an administrator edits
          EditDays,    \* the days he chooses from
          Weekly,      \* lessons in the group's weekly schedule
          Months,      \* lengths of the months in which lessons fall
          Start,       \* the payment days the students begin with
          None,        \* no request, or no lesson
          Everyone     \* scope = 'group'

Days == 1 .. 31

ASSUME GroupAssumption ==
    /\ Free \subseteq Students /\ Movers \subseteq Students
    /\ Edited \subseteq Students /\ EditDays \subseteq Days
    /\ Weekly \in Nat /\ Months \subseteq 28 .. 31
    /\ Start \in [Students -> Days] /\ IsFiniteSet(Workers)
    /\ None \notin Requests /\ Everyone \notin Students

VARIABLES request,   \* the row of each request
          rows,      \* how many payment_adjustments a student has for a request
          day,       \* students.payment_day
          active,    \* the active students enrolled in the group
          session    \* what each handler has read so far

vars == <<request, rows, day, active, session>>

-----------------------------------------------------------------------------
(* Python's round(a / b): to the nearest integer, ties to the even one. *)
HalfEven(a, b) ==
    LET q == a \div b  twice == 2 * (a % b)
    IN  IF twice > b \/ (twice = b /\ q % 2 = 1) THEN q + 1 ELSE q

(* Lessons in a month of the given length; eight when the schedule has none. *)
MonthlyLessons(length) ==
    LET n == HalfEven(Weekly * length, 7) IN IF n = 0 THEN 8 ELSE n

(* Days that one lesson is worth: first rounded to hundredths, then to days. *)
DaysAdjusted(length) ==
    HalfEven(HalfEven(100 * length, MonthlyLessons(length)), 100)

Smaller(a, b) == IF a < b THEN a ELSE b
Larger(a, b)  == IF a > b THEN a ELSE b

(* The payment day after a lesson's adjustment. *)
NewDay(d, lesson) ==
    IF lesson.adj_type = "credit"
    THEN Smaller(d + DaysAdjusted(lesson.month), lesson.month)
    ELSE Larger(d - DaysAdjusted(lesson.month), 1)

Lessons == [adj_type : {"credit", "debit"}, scope : Students \cup {Everyone},
            month : Months]

Targets_ByStudentId(lesson) == {lesson.scope} \cap active

(* The students a lesson concerns: all of the group's, or one, if active. *)
Targets(lesson) ==
    IF lesson.scope = Everyone THEN active ELSE {lesson.scope} \cap active

(* The days a handler reads; 0, which is no day, for who is not concerned. *)
Seen(lesson) == [s \in Students |-> IF s \in Targets(lesson) THEN day[s] ELSE 0]

Idle == [pc |-> "idle", req |-> None, lesson |-> None,
         seen |-> [s \in Students |-> 0]]
NoRequest == [status |-> "none", adjusted |-> FALSE, lesson |-> None]

Init ==
    /\ request = [r \in Requests |-> NoRequest]
    /\ rows = [r \in Requests |-> [s \in Students |-> 0]]
    /\ day = Start
    /\ active = Students
    /\ session = [w \in Workers |-> Idle]

-----------------------------------------------------------------------------
(* A teacher asks for a lesson to be cancelled or added: it only waits. *)
Propose(r, lesson) ==
    /\ request[r].status = "none"
    /\ \A w \in Workers : session[w].req # r
    /\ request' = [request EXCEPT ![r] = [status |-> "pending",
                            adjusted |-> FALSE, lesson |-> lesson]]
    /\ UNCHANGED <<rows, day, active, session>>

(* An administrator does the same: the new row stays invisible until the   *)
(* commit that approves it, and the students are read at once.             *)
RecordApproved(w, r, lesson) ==
    /\ session[w].pc = "idle"
    /\ request[r].status = "none"
    /\ \A v \in Workers : session[v].req # r
    /\ session' = [session EXCEPT ![w] = [pc |-> "approve", req |-> r,
                            lesson |-> lesson, seen |-> Seen(lesson)]]
    /\ UNCHANGED <<request, rows, day, active>>

BeginReview_NoCheck(w, r, verdict) ==
    /\ session[w].pc = "idle"
    /\ request[r].status # "none"
    /\ session' = [session EXCEPT ![w] =
            [pc |-> IF verdict = "approved" THEN "read" ELSE "reject",
             req |-> r, lesson |-> request[r].lesson, seen |-> Idle.seen]]
    /\ UNCHANGED <<request, rows, day, active>>

(* A review begins: both handlers refuse a request that is not pending. *)
BeginReview(w, r, verdict) ==
    /\ session[w].pc = "idle"
    /\ request[r].status = "pending"
    /\ session' = [session EXCEPT ![w] =
            [pc |-> IF verdict = "approved" THEN "read" ELSE "reject",
             req |-> r, lesson |-> request[r].lesson, seen |-> Idle.seen]]
    /\ UNCHANGED <<request, rows, day, active>>

(* An approval reads the students it will adjust. *)
ReadStudents(w) ==
    /\ session[w].pc = "read"
    /\ session' = [session EXCEPT ![w].pc = "approve",
                                  ![w].seen = Seen(session[w].lesson)]
    /\ UNCHANGED <<request, rows, day, active>>

(* The students who get a row: all that were read and pay at all. *)
Booked(w) == {s \in Students \ Free : session[w].seen[s] # 0}

Moved_EvenFree(w) == {s \in Students : session[w].seen[s] # 0 /\
                NewDay(session[w].seen[s], session[w].lesson) # session[w].seen[s]}

(* The students whose day a commit writes: the ORM leaves out a column     *)
(* whose value did not change.                                             *)
Moved(w) == {s \in Booked(w) :
                NewDay(session[w].seen[s], session[w].lesson) # session[w].seen[s]}

(* The commit of an approval: a row for each paying student, and           *)
(* absolute days computed from what was read.                              *)
CommitApproval(w) ==
    LET r == session[w].req
        lesson == session[w].lesson
        seen == session[w].seen
    IN  /\ session[w].pc = "approve"
        /\ request' = [request EXCEPT ![r] = [status |-> "approved",
                                adjusted |-> TRUE, lesson |-> lesson]]
        /\ rows' = [rows EXCEPT ![r] = [s \in Students |->
                IF s \in Booked(w) THEN @[s] + 1 ELSE @[s]]]
        /\ day' = [s \in Students |->
                IF s \in Moved(w) THEN NewDay(seen[s], lesson) ELSE day[s]]
        /\ session' = [session EXCEPT ![w] = Idle]
        /\ UNCHANGED active

(* The commit of a rejection touches the verdict alone. *)
CommitRejection(w) ==
    /\ session[w].pc = "reject"
    /\ request' = [request EXCEPT ![session[w].req].status = "rejected"]
    /\ session' = [session EXCEPT ![w] = Idle]
    /\ UNCHANGED <<rows, day, active>>

(* An error before the commit: get_tenant_session rolls everything back. *)
Rollback(w) ==
    /\ session[w].pc # "idle"
    /\ session' = [session EXCEPT ![w] = Idle]
    /\ UNCHANGED <<request, rows, day, active>>

(* An administrator edits a student's payment day. *)
EditDay(s, d) ==
    /\ day' = [day EXCEPT ![s] = d]
    /\ UNCHANGED <<request, rows, active, session>>

(* A student is deactivated, or is activated again. *)
SetActive(s, on) ==
    /\ active' = IF on THEN active \cup {s} ELSE active \ {s}
    /\ UNCHANGED <<request, rows, day, session>>

Step(w) ==
    \/ \E r \in Requests, l \in Lessons : RecordApproved(w, r, l)
    \/ \E r \in Requests, v \in {"approved", "rejected"} : BeginReview(w, r, v)
    \/ ReadStudents(w)
    \/ CommitApproval(w)
    \/ CommitRejection(w)
    \/ Rollback(w)

Next ==
    \/ \E r \in Requests, l \in Lessons : Propose(r, l)
    \/ \E w \in Workers : Step(w)
    \/ \E s \in Edited, d \in EditDays : EditDay(s, d)
    \/ \E s \in Movers, on \in BOOLEAN : SetActive(s, on)

Spec == Init /\ [][Next]_vars

-----------------------------------------------------------------------------
(* Types; a payment day stays a day of a month (the CHECK of the column). *)
TypeOK ==
    /\ request \in [Requests -> [status : {"none", "pending", "approved", "rejected"},
                                 adjusted : BOOLEAN, lesson : Lessons \cup {None}]]
    /\ rows \in [Requests -> [Students -> Nat]]
    /\ day \in [Students -> Days]
    /\ active \subseteq Students
    /\ session \in [Workers -> [pc : {"idle", "read", "approve", "reject"},
                                req : Requests \cup {None},
                                lesson : Lessons \cup {None},
                                seen : [Students -> Days \cup {0}]]]

(* The workers on their way to approve a request. *)
Approvers(r) ==
    {w \in Workers : session[w].req = r /\ session[w].pc \in {"read", "approve"}}

(* The status check of approve and reject (lesson_cancellation.py:247)     *)
(* keeps a decided request from being adjusted again: a repetition needs a *)
(* review that began before the first verdict, so a request is adjusted    *)
(* never more often than there are workers, and once when there is one.    *)
RepeatsAreBounded ==
    \A r \in Requests, s \in Students :
        rows[r][s] + Cardinality(Approvers(r)) <= Cardinality(Workers)

(* "So'rov allaqachon '...' holatida" (the request is already decided;     *)
(* lesson_cancellation.py:248): a request is not approved twice.  It holds *)
(* when reviews do not overlap.                                            *)
ApprovedOnce == \A r \in Requests, s \in Students : rows[r][s] <= 1

(* However reviews overlap, an approved request has adjusted each paying   *)
(* student it concerns who has been in the group all along.                *)
ApprovedIsAdjusted ==
    \A r \in Requests : request[r].status = "approved" =>
        \A s \in Students \ (Free \cup Movers) :
            request[r].lesson.scope \in {s, Everyone} => rows[r][s] > 0

(* A payment day that nobody edited moves only with a payment_adjustments  *)
(* row to show for it: the rows are the books of the days.                 *)
MovesAreBooked ==
    \A s \in Students \ Edited :
        day[s] # Start[s] => \E r \in Requests : rows[r][s] > 0

(* What the proofs of the above need besides.                              *)

(* A handler carries its request's lesson; a row that no commit has made   *)
(* visible belongs to the one handler that inserted it.                    *)
SessionsKnowRequests ==
    \A w \in Workers : session[w].pc # "idle" =>
        LET r == session[w].req
        IN  /\ r \in Requests /\ session[w].lesson \in Lessons
            /\ request[r].status # "none" => request[r].lesson = session[w].lesson
            /\ request[r].status = "none" =>
                    /\ session[w].pc = "approve"
                    /\ \A v \in Workers \ {w} : session[v].req # r

(* A proposed request has its lesson; an undecided one has no adjustment.  *)
UndecidedIsUnadjusted ==
    \A r \in Requests :
        /\ request[r].status # "none" => request[r].lesson \in Lessons
        /\ request[r].status \in {"none", "pending"} =>
               \A s \in Students : rows[r][s] = 0

(* An approval has read every concerned student who never leaves.          *)
ReadersSeeMembers ==
    /\ Students \ Movers \subseteq active
    /\ \A w \in Workers : session[w].pc = "approve" =>
           \A s \in Students \ Movers :
               session[w].lesson.scope \in {s, Everyone} => session[w].seen[s] # 0

(* The inductive invariant: what holds of the reviews in every state, from *)
(* which the bound on repetitions and the books of the days follow.        *)
IInv ==
    /\ TypeOK
    /\ SessionsKnowRequests
    /\ UndecidedIsUnadjusted
    /\ ReadersSeeMembers
    /\ RepeatsAreBounded
    /\ ApprovedIsAdjusted
    /\ MovesAreBooked

=============================================================================
