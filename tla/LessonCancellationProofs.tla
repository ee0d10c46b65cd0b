---------------------- MODULE LessonCancellationProofs ----------------------
(***************************************************************************)
(* Proofs about LessonCancellation: for any number of requests, students   *)
(* and overlapping reviewers, a payment day stays a day of a month, a      *)
(* request is adjusted at most once per worker, an approval reaches every  *)
(* paying member, and no payment day moves without a row that says so.     *)
(***************************************************************************)
EXTENDS LessonCancellation, FiniteSetTheorems, TLAPS

-----------------------------------------------------------------------------
(* Arithmetic *)

\* A quotient rounded half to even is a natural number.
LEMMA HalfEvenIsNat ==
  ASSUME NEW a \in Nat, NEW b \in Nat \ {0}
  PROVE  HalfEven(a, b) \in Nat
<1>1. a \div b \in Nat
  OBVIOUS
<1> QED
  BY <1>1 DEF HalfEven

\* A month has lessons, and a lesson is worth some days.
LEMMA DaysAdjustedIsNat ==
  ASSUME NEW length \in 28 .. 31
  PROVE  DaysAdjusted(length) \in Nat
<1>1. HalfEven(Weekly * length, 7) \in Nat
  <2>1. Weekly * length \in Nat
    BY GroupAssumption
  <2> QED
    BY <2>1, HalfEvenIsNat
<1>2. MonthlyLessons(length) \in Nat \ {0}
  BY <1>1 DEF MonthlyLessons
<1>3. 100 * length \in Nat
  OBVIOUS
<1>4. HalfEven(100 * length, MonthlyLessons(length)) \in Nat
  BY <1>2, <1>3, HalfEvenIsNat
<1> QED
  BY <1>4, HalfEvenIsNat DEF DaysAdjusted

\* An adjustment takes a day of a month to a day of a month.
LEMMA NewDayIsDay ==
  ASSUME NEW d \in Days, NEW lesson \in Lessons
  PROVE  NewDay(d, lesson) \in Days
<1>1. lesson.month \in 28 .. 31
  BY GroupAssumption DEF Lessons
<1>2. DaysAdjusted(lesson.month) \in Nat
  BY <1>1, DaysAdjustedIsNat
<1> QED
  BY <1>1, <1>2 DEF NewDay, Days, Smaller, Larger

\* What a handler reads is a day for some students and none for the others.
LEMMA SeenType ==
  ASSUME TypeOK, NEW lesson \in Lessons
  PROVE  Seen(lesson) \in [Students -> Days \cup {0}]
BY DEF Seen, TypeOK

-----------------------------------------------------------------------------
(* Counting the workers on their way to an approval *)

\* The approvers of a request are some of the workers.
LEMMA ApproversAreWorkers ==
  ASSUME NEW r
  PROVE  /\ IsFiniteSet(Approvers(r)) /\ Cardinality(Approvers(r)) \in Nat
         /\ Cardinality(Approvers(r)) <= Cardinality(Workers)
         /\ Cardinality(Workers) \in Nat
<1>1. Approvers(r) \subseteq Workers /\ IsFiniteSet(Workers)
  BY GroupAssumption DEF Approvers
<1> QED
  BY <1>1, FS_Subset, FS_CardinalityType

\* When a set of approvers shrinks, so does their number.
LEMMA FewerApprovers ==
  ASSUME NEW r, Approvers(r)' \subseteq Approvers(r)
  PROVE  Cardinality(Approvers(r)') \in Nat
         /\ Cardinality(Approvers(r)') <= Cardinality(Approvers(r))
<1>1. IsFiniteSet(Approvers(r))
  BY ApproversAreWorkers
<1> QED
  BY <1>1, FS_Subset, FS_CardinalityType

\* An undecided request can be taken up by as many workers as there are.
LEMMA UnadjustedIsBounded ==
  ASSUME NEW r \in Requests, NEW s \in Students, rows'[r][s] = 0
  PROVE  (rows[r][s] + Cardinality(Approvers(r)) <= Cardinality(Workers))'
<1>1. /\ Approvers(r)' \subseteq Workers /\ IsFiniteSet(Workers)
  BY GroupAssumption DEF Approvers
<1>2. Cardinality(Approvers(r)') \in Nat /\ Cardinality(Workers) \in Nat
      /\ Cardinality(Approvers(r)') <= Cardinality(Workers)
  BY <1>1, FS_Subset, FS_CardinalityType
<1> QED
  BY <1>2

\* Where rows stay and no approver is added, the bound is kept.
LEMMA BoundIsKept ==
  ASSUME TypeOK, RepeatsAreBounded, rows' = rows,
         \A r \in Requests : Approvers(r)' \subseteq Approvers(r)
  PROVE  RepeatsAreBounded'
<1>1. ASSUME NEW r \in Requests, NEW s \in Students
      PROVE  (rows[r][s] + Cardinality(Approvers(r)) <= Cardinality(Workers))'
  <2>1. rows[r][s] \in Nat /\ rows'[r][s] = rows[r][s]
    BY DEF TypeOK
  <2>2. rows[r][s] + Cardinality(Approvers(r)) <= Cardinality(Workers)
    BY DEF RepeatsAreBounded
  <2>3. /\ Cardinality(Approvers(r)') \in Nat /\ Cardinality(Approvers(r)) \in Nat
        /\ Cardinality(Approvers(r)') <= Cardinality(Approvers(r))
        /\ Cardinality(Workers) \in Nat
    BY FewerApprovers, ApproversAreWorkers
  <2> QED
    BY <2>1, <2>2, <2>3
<1> QED
  BY <1>1 DEF RepeatsAreBounded

-----------------------------------------------------------------------------
(* The initial states *)

\* The invariant holds before any lesson is cancelled.
LEMMA InitHolds ==
  ASSUME Init
  PROVE  IInv
<1>1. TypeOK
  BY GroupAssumption DEF Init, TypeOK, NoRequest, Idle
<1>2. SessionsKnowRequests
  BY DEF Init, SessionsKnowRequests, Idle
<1>3. UndecidedIsUnadjusted
  BY DEF Init, UndecidedIsUnadjusted, NoRequest
<1>4. ReadersSeeMembers
  BY DEF Init, ReadersSeeMembers, Idle
<1>5. RepeatsAreBounded
  <2>1. ASSUME NEW r \in Requests, NEW s \in Students
        PROVE  rows[r][s] = 0
    BY DEF Init
  <2>2. ASSUME NEW r \in Requests
        PROVE  /\ Cardinality(Approvers(r)) \in Nat /\ Cardinality(Workers) \in Nat
               /\ Cardinality(Approvers(r)) <= Cardinality(Workers)
    BY ApproversAreWorkers
  <2> QED
    BY <2>1, <2>2 DEF RepeatsAreBounded
<1>6. ApprovedIsAdjusted
  BY DEF Init, ApprovedIsAdjusted, NoRequest
<1>7. MovesAreBooked
  BY DEF Init, MovesAreBooked
<1> QED
  BY <1>1, <1>2, <1>3, <1>4, <1>5, <1>6, <1>7 DEF IInv

-----------------------------------------------------------------------------
(* Every action preserves the invariant *)

\* A teacher's request appears, and nobody has taken it up.
LEMMA ProposeStep ==
  ASSUME IInv, NEW r \in Requests, NEW lesson \in Lessons, Propose(r, lesson)
  PROVE  IInv'
<1>1. TypeOK'
  BY DEF IInv, TypeOK, Propose
<1>2. SessionsKnowRequests'
  BY DEF IInv, TypeOK, SessionsKnowRequests, Propose
<1>3. UndecidedIsUnadjusted'
  BY DEF IInv, TypeOK, UndecidedIsUnadjusted, Propose
<1>4. ReadersSeeMembers'
  BY DEF IInv, ReadersSeeMembers, Propose
<1>5. RepeatsAreBounded'
  BY BoundIsKept DEF IInv, Approvers, Propose
<1>6. ApprovedIsAdjusted'
  BY DEF IInv, TypeOK, ApprovedIsAdjusted, Propose
<1>7. MovesAreBooked'
  BY DEF IInv, MovesAreBooked, Propose
<1> QED
  BY <1>1, <1>2, <1>3, <1>4, <1>5, <1>6, <1>7 DEF IInv

\* An administrator inserts a row that is his own until he commits it.
LEMMA RecordApprovedStep ==
  ASSUME IInv, NEW w \in Workers, NEW r \in Requests, NEW lesson \in Lessons,
         RecordApproved(w, r, lesson)
  PROVE  IInv'
<1> DEFINE new == [pc |-> "approve", req |-> r, lesson |-> lesson, seen |-> Seen(lesson)]
<1>0. /\ session' = [session EXCEPT ![w] = new]
      /\ \A v \in Workers : session'[v] = IF v = w THEN new ELSE session[v]
  BY DEF IInv, TypeOK, RecordApproved
<1>1. TypeOK'
  <2>1. Seen(lesson) \in [Students -> Days \cup {0}]
    BY SeenType DEF IInv
  <2> QED
    BY <1>0, <2>1 DEF IInv, TypeOK, RecordApproved
<1>2. SessionsKnowRequests'
  BY <1>0 DEF IInv, TypeOK, SessionsKnowRequests, RecordApproved
<1>3. UndecidedIsUnadjusted'
  BY DEF IInv, UndecidedIsUnadjusted, RecordApproved
<1>4. ReadersSeeMembers'
  <2>1. ASSUME NEW s \in Students \ Movers, lesson.scope \in {s, Everyone}
        PROVE  Seen(lesson)[s] # 0
    <3>1. s \in active
      BY DEF IInv, ReadersSeeMembers
    <3>2. s \in Targets(lesson)
      BY <2>1, <3>1 DEF Targets
    <3>3. day[s] \in Days
      BY DEF IInv, TypeOK
    <3> QED
      BY <3>2, <3>3 DEF Seen, Days
  <2> HIDE DEF new
  <2>2. new.pc = "approve" /\ new.lesson = lesson /\ new.seen = Seen(lesson)
    BY DEF new
  <2> QED
    BY <1>0, <2>1, <2>2 DEF IInv, ReadersSeeMembers, RecordApproved
<1>5. RepeatsAreBounded'
  <2>1. ASSUME NEW q \in Requests, NEW s \in Students
        PROVE  (rows[q][s] + Cardinality(Approvers(q)) <= Cardinality(Workers))'
    <3>1. CASE q = r
      <4>1. rows'[r][s] = 0
        BY DEF IInv, UndecidedIsUnadjusted, RecordApproved
      <4> QED
        BY <3>1, <4>1, UnadjustedIsBounded
    <3>2. CASE q # r
      <4>1. Approvers(q)' = Approvers(q) /\ rows'[q][s] = rows[q][s]
        BY <1>0, <3>2 DEF Approvers, RecordApproved
      <4> QED
        BY <4>1 DEF IInv, RepeatsAreBounded
    <3> QED
      BY <3>1, <3>2
  <2> QED
    BY <2>1 DEF RepeatsAreBounded
<1>6. ApprovedIsAdjusted'
  BY DEF IInv, ApprovedIsAdjusted, RecordApproved
<1>7. MovesAreBooked'
  BY DEF IInv, MovesAreBooked, RecordApproved
<1> QED
  BY <1>1, <1>2, <1>3, <1>4, <1>5, <1>6, <1>7 DEF IInv

\* A review begins: the request is pending, and nothing has come of it yet.
LEMMA BeginReviewStep ==
  ASSUME IInv, NEW w \in Workers, NEW r \in Requests,
         NEW verdict \in {"approved", "rejected"}, BeginReview(w, r, verdict)
  PROVE  IInv'
<1> DEFINE new == [pc |-> IF verdict = "approved" THEN "read" ELSE "reject",
                   req |-> r, lesson |-> request[r].lesson, seen |-> Idle.seen]
<1>0. /\ session' = [session EXCEPT ![w] = new]
      /\ \A v \in Workers : session'[v] = IF v = w THEN new ELSE session[v]
      /\ request[r].lesson \in Lessons /\ request[r].status = "pending"
  BY DEF IInv, TypeOK, UndecidedIsUnadjusted, BeginReview
<1>1. TypeOK'
  <2>1. Idle.seen \in [Students -> Days \cup {0}]
    BY DEF Idle
  <2> QED
    BY <1>0, <2>1 DEF IInv, TypeOK, BeginReview
<1>2. SessionsKnowRequests'
  BY <1>0 DEF IInv, TypeOK, SessionsKnowRequests, BeginReview
<1>3. UndecidedIsUnadjusted'
  BY DEF IInv, UndecidedIsUnadjusted, BeginReview
<1>4. ReadersSeeMembers'
  BY <1>0 DEF IInv, ReadersSeeMembers, BeginReview
<1>5. RepeatsAreBounded'
  <2>1. ASSUME NEW q \in Requests, NEW s \in Students
        PROVE  (rows[q][s] + Cardinality(Approvers(q)) <= Cardinality(Workers))'
    <3>1. CASE q = r
      <4>1. rows'[r][s] = 0
        BY <1>0 DEF IInv, UndecidedIsUnadjusted, BeginReview
      <4> QED
        BY <3>1, <4>1, UnadjustedIsBounded
    <3>2. CASE q # r
      <4>1. Approvers(q)' = Approvers(q) /\ rows'[q][s] = rows[q][s]
        BY <1>0, <3>2 DEF IInv, TypeOK, Approvers, BeginReview
      <4> QED
        BY <4>1 DEF IInv, RepeatsAreBounded
    <3> QED
      BY <3>1, <3>2
  <2> QED
    BY <2>1 DEF RepeatsAreBounded
<1>6. ApprovedIsAdjusted'
  BY DEF IInv, ApprovedIsAdjusted, BeginReview
<1>7. MovesAreBooked'
  BY DEF IInv, MovesAreBooked, BeginReview
<1> QED
  BY <1>1, <1>2, <1>3, <1>4, <1>5, <1>6, <1>7 DEF IInv

\* An approval reads its students.
LEMMA ReadStudentsStep ==
  ASSUME IInv, NEW w \in Workers, ReadStudents(w)
  PROVE  IInv'
<1> DEFINE lesson == session[w].lesson
<1>0. /\ lesson \in Lessons
      /\ Seen(lesson) \in [Students -> Days \cup {0}]
      /\ \A v \in Workers : /\ session'[v].req = session[v].req
                            /\ session'[v].lesson = session[v].lesson
                            /\ v # w => session'[v] = session[v]
      /\ session[w].pc = "read" /\ session'[w].pc = "approve"
      /\ session'[w].seen = Seen(lesson)
  <2>1. lesson \in Lessons
    BY DEF IInv, SessionsKnowRequests, ReadStudents
  <2>2. Seen(lesson) \in [Students -> Days \cup {0}]
    BY <2>1, SeenType DEF IInv
  <2>3. /\ session' = [session EXCEPT ![w] = [session[w] EXCEPT !.pc = "approve",
                                                !.seen = Seen(lesson)]]
        /\ session[w].pc = "read"
    BY DEF IInv, TypeOK, ReadStudents
  <2>4. /\ session'[w] = [session[w] EXCEPT !.pc = "approve", !.seen = Seen(lesson)]
        /\ \A v \in Workers : v # w => session'[v] = session[v]
    BY <2>3 DEF IInv, TypeOK
  <2>5. session'[w].pc = "approve" /\ session'[w].seen = Seen(lesson)
        /\ session'[w].req = session[w].req /\ session'[w].lesson = session[w].lesson
    BY <2>4 DEF IInv, TypeOK
  <2> QED
    BY <2>1, <2>2, <2>3, <2>4, <2>5
<1>1. TypeOK'
  BY <1>0 DEF IInv, TypeOK, ReadStudents
<1>2. SessionsKnowRequests'
  <2>1. request' = request /\ request[session[w].req].status # "none"
    BY <1>0 DEF IInv, SessionsKnowRequests, ReadStudents
  <2>2. ASSUME NEW v \in Workers, session'[v].pc # "idle"
        PROVE  /\ session'[v].req \in Requests /\ session'[v].lesson \in Lessons
               /\ request[session'[v].req].status # "none" =>
                    request[session'[v].req].lesson = session'[v].lesson
               /\ request[session'[v].req].status = "none" =>
                    /\ session'[v].pc = "approve"
                    /\ \A u \in Workers \ {v} : session'[u].req # session'[v].req
    <3>1. session[v].pc # "idle"
      BY <1>0, <2>2
    <3> QED
      BY <1>0, <2>1, <3>1 DEF IInv, SessionsKnowRequests
  <2> QED
    BY <2>1, <2>2 DEF SessionsKnowRequests
<1>3. UndecidedIsUnadjusted'
  BY DEF IInv, UndecidedIsUnadjusted, ReadStudents
<1>4. ReadersSeeMembers'
  <2>1. ASSUME NEW s \in Students \ Movers, lesson.scope \in {s, Everyone}
        PROVE  Seen(lesson)[s] # 0
    <3>1. s \in active
      BY DEF IInv, ReadersSeeMembers
    <3>2. s \in Targets(lesson)
      BY <2>1, <3>1 DEF Targets
    <3>3. day[s] \in Days
      BY DEF IInv, TypeOK
    <3> QED
      BY <3>2, <3>3 DEF Seen, Days
  <2>2. \A s \in Students \ Movers :
          session'[w].lesson.scope \in {s, Everyone} => session'[w].seen[s] # 0
    BY <1>0, <2>1
  <2> QED
    BY <1>0, <2>2 DEF IInv, ReadersSeeMembers, ReadStudents
<1>5. RepeatsAreBounded'
  <2>1. \A r \in Requests : Approvers(r)' \subseteq Approvers(r)
    BY <1>0 DEF Approvers
  <2> QED
    BY <2>1, BoundIsKept DEF IInv, ReadStudents
<1>6. ApprovedIsAdjusted'
  BY DEF IInv, ApprovedIsAdjusted, ReadStudents
<1>7. MovesAreBooked'
  BY DEF IInv, MovesAreBooked, ReadStudents
<1> QED
  BY <1>1, <1>2, <1>3, <1>4, <1>5, <1>6, <1>7 DEF IInv

\* A handler that ends: the others go on as they were.
LEMMA EndedSession ==
  ASSUME TypeOK, NEW w \in Workers, session' = [session EXCEPT ![w] = Idle]
  PROVE  /\ session' \in [Workers -> [pc : {"idle", "read", "approve", "reject"},
                                req : Requests \cup {None},
                                lesson : Lessons \cup {None},
                                seen : [Students -> Days \cup {0}]]]
         /\ session'[w].pc = "idle" /\ session'[w].req = None
         /\ \A v \in Workers \ {w} : session'[v] = session[v]
         /\ \A r : Approvers(r)' \subseteq Approvers(r) \ {w}
<1>1. Idle \in [pc : {"idle", "read", "approve", "reject"}, req : Requests \cup {None},
                lesson : Lessons \cup {None}, seen : [Students -> Days \cup {0}]]
      /\ Idle.pc = "idle" /\ Idle.req = None
  BY DEF Idle
<1>2. /\ session'[w] = Idle
      /\ \A v \in Workers \ {w} : session'[v] = session[v]
  BY DEF TypeOK
<1>3. ASSUME NEW r
      PROVE  Approvers(r)' \subseteq Approvers(r) \ {w}
  BY <1>1, <1>2 DEF Approvers
<1> QED
  BY <1>1, <1>2, <1>3 DEF TypeOK

\* A commit approves: one row more for each paying student, one approver less.
LEMMA CommitApprovalStep ==
  ASSUME IInv, NEW w \in Workers, CommitApproval(w)
  PROVE  IInv'
<1> DEFINE r == session[w].req
           lesson == session[w].lesson
           seen == session[w].seen
<1>0. /\ r \in Requests /\ lesson \in Lessons
      /\ seen \in [Students -> Days \cup {0}]
      /\ request' = [request EXCEPT ![r] = [status |-> "approved",
                                adjusted |-> TRUE, lesson |-> lesson]]
      /\ \A q \in Requests, s \in Students :
            rows'[q][s] = IF q = r /\ s \in Booked(w) THEN rows[q][s] + 1 ELSE rows[q][s]
      /\ session[w].pc = "approve"
      /\ session' = [session EXCEPT ![w] = Idle]
  BY DEF IInv, TypeOK, SessionsKnowRequests, CommitApproval
<1>a. /\ request'[r].status = "approved" /\ request'[r].lesson = lesson
      /\ \A q \in Requests \ {r} : request'[q] = request[q]
  BY <1>0 DEF IInv, TypeOK
<1>b. /\ session'[w].pc = "idle" /\ session'[w].req = None
      /\ \A v \in Workers \ {w} : session'[v] = session[v]
      /\ \A q : Approvers(q)' \subseteq Approvers(q) \ {w}
  BY <1>0, EndedSession DEF IInv
<1>c. \A q \in Requests, s \in Students : rows[q][s] \in Nat
  BY DEF IInv, TypeOK
<1>1. TypeOK'
  <2>1. request' \in [Requests -> [status : {"none", "pending", "approved", "rejected"},
                                 adjusted : BOOLEAN, lesson : Lessons \cup {None}]]
    BY <1>0 DEF IInv, TypeOK
  <2>2. rows' \in [Requests -> [Students -> Nat]]
    BY <1>0 DEF IInv, TypeOK, CommitApproval
  <2>3. day' \in [Students -> Days]
    <3>1. ASSUME NEW s \in Moved(w)
          PROVE  NewDay(seen[s], lesson) \in Days
      <4>1. s \in Students /\ seen[s] # 0
        BY DEF Moved, Booked
      <4>2. seen[s] \in Days
        BY <1>0, <4>1
      <4> QED
        BY <1>0, <4>2, NewDayIsDay
    <3>2. day \in [Students -> Days]
      BY DEF IInv, TypeOK
    <3>3. day' = [s \in Students |->
                    IF s \in Moved(w) THEN NewDay(seen[s], lesson) ELSE day[s]]
      BY DEF CommitApproval
    <3> HIDE DEF seen, lesson
    <3> QED
      BY <3>1, <3>2, <3>3
  <2>4. active' \subseteq Students
    BY DEF IInv, TypeOK, CommitApproval
  <2> QED
    BY <1>0, <2>1, <2>2, <2>3, <2>4, EndedSession DEF IInv, TypeOK
<1>2. SessionsKnowRequests'
  <2>1. ASSUME NEW v \in Workers, session'[v].pc # "idle"
        PROVE  /\ session'[v].req \in Requests /\ session'[v].lesson \in Lessons
               /\ request'[session'[v].req].status # "none" =>
                    request'[session'[v].req].lesson = session'[v].lesson
               /\ request'[session'[v].req].status = "none" =>
                    /\ session'[v].pc = "approve"
                    /\ \A u \in Workers \ {v} : session'[u].req # session'[v].req
    <3>1. v # w /\ session'[v] = session[v] /\ session[v].pc # "idle"
      BY <1>b, <2>1
    <3>2. CASE session[v].req = r
      <4>1. request[r].status # "none" => request[r].lesson = session[v].lesson
                                          /\ request[r].lesson = lesson
        BY <1>0, <3>1, <3>2 DEF IInv, SessionsKnowRequests
      <4>2. request[r].status # "none"
        BY <1>0, <3>1, <3>2 DEF IInv, SessionsKnowRequests
      <4> QED
        BY <1>0, <1>a, <3>1, <3>2, <4>1, <4>2
    <3>3. CASE session[v].req # r
      <4>1. /\ session[v].req \in Requests /\ session[v].lesson \in Lessons
            /\ request[session[v].req].status # "none" =>
                  request[session[v].req].lesson = session[v].lesson
            /\ request[session[v].req].status = "none" =>
                  /\ session[v].pc = "approve"
                  /\ \A u \in Workers \ {v} : session[u].req # session[v].req
        BY <3>1 DEF IInv, SessionsKnowRequests
      <4>2. request'[session[v].req] = request[session[v].req] /\ session[v].req # None
        BY <1>a, <3>3, <4>1, GroupAssumption
      <4> QED
        BY <1>b, <3>1, <4>1, <4>2
    <3> QED
      BY <3>2, <3>3
  <2> QED
    BY <2>1 DEF SessionsKnowRequests
<1>3. UndecidedIsUnadjusted'
  BY <1>0, <1>a DEF IInv, UndecidedIsUnadjusted
<1>4. ReadersSeeMembers'
  BY <1>b DEF IInv, ReadersSeeMembers, CommitApproval
<1>5. RepeatsAreBounded'
  <2>1. ASSUME NEW q \in Requests, NEW s \in Students
        PROVE  (rows[q][s] + Cardinality(Approvers(q)) <= Cardinality(Workers))'
    <3>1. /\ rows[q][s] + Cardinality(Approvers(q)) <= Cardinality(Workers)
          /\ IsFiniteSet(Approvers(q)) /\ Cardinality(Approvers(q)) \in Nat
          /\ Cardinality(Workers) \in Nat
      BY ApproversAreWorkers DEF IInv, RepeatsAreBounded
    <3>2. CASE q = r
      <4>1. w \in Approvers(q)
        BY <1>0, <3>2 DEF Approvers
      <4>2. /\ IsFiniteSet(Approvers(q) \ {w})
            /\ Cardinality(Approvers(q) \ {w}) = Cardinality(Approvers(q)) - 1
        BY <3>1, <4>1, FS_RemoveElement
      <4>3. /\ Cardinality(Approvers(q)') \in Nat
            /\ Cardinality(Approvers(q)') <= Cardinality(Approvers(q) \ {w})
        BY <1>b, <4>2, FS_Subset, FS_CardinalityType
      <4>4. rows'[q][s] <= rows[q][s] + 1 /\ rows'[q][s] \in Nat
        BY <1>0, <1>c
      <4> QED
        BY <1>c, <3>1, <4>2, <4>3, <4>4
    <3>3. CASE q # r
      <4>1. /\ Cardinality(Approvers(q)') \in Nat
            /\ Cardinality(Approvers(q)') <= Cardinality(Approvers(q))
        BY <1>b, FewerApprovers
      <4>2. rows'[q][s] = rows[q][s]
        BY <1>0, <3>3
      <4> QED
        BY <1>c, <3>1, <4>1, <4>2
    <3> QED
      BY <3>2, <3>3
  <2> QED
    BY <2>1 DEF RepeatsAreBounded
<1>6. ApprovedIsAdjusted'
  <2>1. ASSUME NEW q \in Requests, request'[q].status = "approved",
               NEW s \in Students \ (Free \cup Movers),
               request'[q].lesson.scope \in {s, Everyone}
        PROVE  rows'[q][s] > 0
    <3>1. CASE q = r
      <4>1. seen[s] # 0
        BY <1>0, <1>a, <2>1, <3>1 DEF IInv, ReadersSeeMembers
      <4>2. s \in Booked(w)
        BY <4>1 DEF Booked
      <4> QED
        BY <1>0, <1>c, <3>1, <4>2
    <3>2. CASE q # r
      BY <1>0, <1>a, <1>c, <2>1, <3>2 DEF IInv, ApprovedIsAdjusted
    <3> QED
      BY <3>1, <3>2
  <2> QED
    BY <2>1 DEF ApprovedIsAdjusted
<1>7. MovesAreBooked'
  <2>1. ASSUME NEW s \in Students \ Edited, day'[s] # Start[s]
        PROVE  \E q \in Requests : rows'[q][s] > 0
    <3>1. CASE s \in Moved(w)
      <4>1. s \in Booked(w)
        BY <3>1 DEF Moved
      <4> QED
        BY <1>0, <1>c, <4>1
    <3>2. CASE s \notin Moved(w)
      <4>1. day'[s] = day[s]
        BY <3>2 DEF CommitApproval
      <4>2. PICK q \in Requests : rows[q][s] > 0
        BY <2>1, <4>1 DEF IInv, MovesAreBooked
      <4> QED
        BY <1>0, <1>c, <4>2
    <3> QED
      BY <3>1, <3>2
  <2> QED
    BY <2>1 DEF MovesAreBooked
<1> QED
  BY <1>1, <1>2, <1>3, <1>4, <1>5, <1>6, <1>7 DEF IInv

\* A commit rejects: nobody's day or rows change.
LEMMA CommitRejectionStep ==
  ASSUME IInv, NEW w \in Workers, CommitRejection(w)
  PROVE  IInv'
<1> DEFINE r == session[w].req
<1>0. /\ r \in Requests /\ request[r].status # "none" /\ request[r].lesson \in Lessons
      /\ request' = [request EXCEPT ![r] = [request[r] EXCEPT !.status = "rejected"]]
      /\ request'[r].status = "rejected" /\ request'[r].lesson = request[r].lesson
      /\ \A q \in Requests \ {r} : request'[q] = request[q]
      /\ session' = [session EXCEPT ![w] = Idle]
  <2>1. r \in Requests /\ request[r].status # "none" /\ request[r].lesson \in Lessons
    BY DEF IInv, SessionsKnowRequests, UndecidedIsUnadjusted, CommitRejection
  <2>2. /\ request' = [request EXCEPT ![r] = [request[r] EXCEPT !.status = "rejected"]]
        /\ session' = [session EXCEPT ![w] = Idle]
    BY DEF CommitRejection
  <2> HIDE DEF r
  <2> QED
    BY <2>1, <2>2 DEF IInv, TypeOK
<1>a. /\ session'[w].pc = "idle" /\ session'[w].req = None
      /\ \A v \in Workers \ {w} : session'[v] = session[v]
      /\ \A q : Approvers(q)' \subseteq Approvers(q)
  BY <1>0, EndedSession DEF IInv
<1>1. TypeOK'
  <2>1. request' \in [Requests -> [status : {"none", "pending", "approved", "rejected"},
                                 adjusted : BOOLEAN, lesson : Lessons \cup {None}]]
    <3> HIDE DEF r
    <3>0. request[r] \in [status : {"none", "pending", "approved", "rejected"},
                          adjusted : BOOLEAN, lesson : Lessons \cup {None}]
      BY <1>0 DEF IInv, TypeOK
    <3>1. [request[r] EXCEPT !.status = "rejected"] \in
            [status : {"none", "pending", "approved", "rejected"},
             adjusted : BOOLEAN, lesson : Lessons \cup {None}]
      BY <3>0
    <3> QED
      BY <1>0, <3>1 DEF IInv, TypeOK
  <2> QED
    BY <1>0, <2>1, EndedSession DEF IInv, TypeOK, CommitRejection
<1>2. SessionsKnowRequests'
  <2>1. ASSUME NEW v \in Workers, session'[v].pc # "idle"
        PROVE  /\ session'[v].req \in Requests /\ session'[v].lesson \in Lessons
               /\ request'[session'[v].req].status # "none" =>
                    request'[session'[v].req].lesson = session'[v].lesson
               /\ request'[session'[v].req].status = "none" =>
                    /\ session'[v].pc = "approve"
                    /\ \A u \in Workers \ {v} : session'[u].req # session'[v].req
    <3>1. v # w /\ session'[v] = session[v] /\ session[v].pc # "idle"
      BY <1>a, <2>1
    <3>2. /\ session[v].req \in Requests /\ session[v].lesson \in Lessons
          /\ request[session[v].req].status # "none" =>
                request[session[v].req].lesson = session[v].lesson
          /\ request[session[v].req].status = "none" =>
                /\ session[v].pc = "approve"
                /\ \A u \in Workers \ {v} : session[u].req # session[v].req
      BY <3>1 DEF IInv, SessionsKnowRequests
    <3>3. CASE session[v].req = r
      BY <1>0, <3>1, <3>2, <3>3
    <3>4. CASE session[v].req # r
      <4>1. request'[session[v].req] = request[session[v].req] /\ session[v].req # None
        BY <1>0, <3>2, <3>4, GroupAssumption
      <4> QED
        BY <1>a, <3>1, <3>2, <4>1
    <3> QED
      BY <3>3, <3>4
  <2> QED
    BY <2>1 DEF SessionsKnowRequests
<1>3. UndecidedIsUnadjusted'
  BY <1>0 DEF IInv, UndecidedIsUnadjusted, CommitRejection
<1>4. ReadersSeeMembers'
  BY <1>a DEF IInv, ReadersSeeMembers, CommitRejection
<1>5. RepeatsAreBounded'
  BY <1>a, BoundIsKept DEF IInv, CommitRejection
<1>6. ApprovedIsAdjusted'
  BY <1>0 DEF IInv, ApprovedIsAdjusted, CommitRejection
<1>7. MovesAreBooked'
  BY DEF IInv, MovesAreBooked, CommitRejection
<1> QED
  BY <1>1, <1>2, <1>3, <1>4, <1>5, <1>6, <1>7 DEF IInv

\* An error rolls a handler back: what it read is forgotten.
LEMMA RollbackStep ==
  ASSUME IInv, NEW w \in Workers, Rollback(w)
  PROVE  IInv'
<1>a. /\ session'[w].pc = "idle" /\ session'[w].req = None
      /\ \A v \in Workers \ {w} : session'[v] = session[v]
      /\ \A q : Approvers(q)' \subseteq Approvers(q)
  BY EndedSession DEF IInv, Rollback
<1>1. TypeOK'
  BY EndedSession DEF IInv, TypeOK, Rollback
<1>2. SessionsKnowRequests'
  BY <1>a, GroupAssumption DEF IInv, SessionsKnowRequests, Rollback
<1>3. UndecidedIsUnadjusted'
  BY DEF IInv, UndecidedIsUnadjusted, Rollback
<1>4. ReadersSeeMembers'
  BY <1>a DEF IInv, ReadersSeeMembers, Rollback
<1>5. RepeatsAreBounded'
  BY <1>a, BoundIsKept DEF IInv, Rollback
<1>6. ApprovedIsAdjusted'
  BY DEF IInv, ApprovedIsAdjusted, Rollback
<1>7. MovesAreBooked'
  BY DEF IInv, MovesAreBooked, Rollback
<1> QED
  BY <1>1, <1>2, <1>3, <1>4, <1>5, <1>6, <1>7 DEF IInv

\* An administrator edits a day, of a student whose day is his to edit.
LEMMA EditDayStep ==
  ASSUME IInv, NEW s \in Edited, NEW d \in EditDays, EditDay(s, d)
  PROVE  IInv'
<1>1. TypeOK'
  BY GroupAssumption DEF IInv, TypeOK, EditDay
<1>2. SessionsKnowRequests' /\ UndecidedIsUnadjusted' /\ ReadersSeeMembers'
  BY DEF IInv, SessionsKnowRequests, UndecidedIsUnadjusted, ReadersSeeMembers, EditDay
<1>3. RepeatsAreBounded'
  BY BoundIsKept DEF IInv, Approvers, EditDay
<1>4. ApprovedIsAdjusted'
  BY DEF IInv, ApprovedIsAdjusted, EditDay
<1>5. MovesAreBooked'
  BY DEF IInv, TypeOK, MovesAreBooked, EditDay
<1> QED
  BY <1>1, <1>2, <1>3, <1>4, <1>5 DEF IInv

\* A student who may leave leaves, or comes back.
LEMMA SetActiveStep ==
  ASSUME IInv, NEW s \in Movers, NEW on \in BOOLEAN, SetActive(s, on)
  PROVE  IInv'
<1>1. TypeOK'
  BY GroupAssumption DEF IInv, TypeOK, SetActive
<1>2. SessionsKnowRequests' /\ UndecidedIsUnadjusted'
  BY DEF IInv, SessionsKnowRequests, UndecidedIsUnadjusted, SetActive
<1>3. ReadersSeeMembers'
  BY DEF IInv, ReadersSeeMembers, SetActive
<1>4. RepeatsAreBounded'
  BY BoundIsKept DEF IInv, Approvers, SetActive
<1>5. ApprovedIsAdjusted' /\ MovesAreBooked'
  BY DEF IInv, ApprovedIsAdjusted, MovesAreBooked, SetActive
<1> QED
  BY <1>1, <1>2, <1>3, <1>4, <1>5 DEF IInv

\* Nothing happens.
LEMMA StutterStep ==
  ASSUME IInv, UNCHANGED vars
  PROVE  IInv'
<1>1. TypeOK' /\ SessionsKnowRequests' /\ UndecidedIsUnadjusted' /\ ReadersSeeMembers'
  BY DEF IInv, TypeOK, SessionsKnowRequests, UndecidedIsUnadjusted, ReadersSeeMembers, vars
<1>2. RepeatsAreBounded'
  BY BoundIsKept DEF IInv, Approvers, vars
<1>3. ApprovedIsAdjusted' /\ MovesAreBooked'
  BY DEF IInv, ApprovedIsAdjusted, MovesAreBooked, vars
<1> QED
  BY <1>1, <1>2, <1>3 DEF IInv

-----------------------------------------------------------------------------
(* The theorems *)

\* The inductive invariant holds in every reachable state of the reviews of a
\* group's lessons (services/lesson_cancellation.py), however they overlap.
THEOREM Invariance == Spec => []IInv
<1>1. Init => IInv
  BY InitHolds
<1>2. IInv /\ [Next]_vars => IInv'
  <2> SUFFICES ASSUME IInv, [Next]_vars
               PROVE  IInv'
    OBVIOUS
  <2>1. ASSUME NEW r \in Requests, NEW l \in Lessons, Propose(r, l)
        PROVE  IInv'
    BY <2>1, ProposeStep
  <2>2. ASSUME NEW w \in Workers, Step(w)
        PROVE  IInv'
    BY <2>2, RecordApprovedStep, BeginReviewStep, ReadStudentsStep,
       CommitApprovalStep, CommitRejectionStep, RollbackStep DEF Step
  <2>3. ASSUME NEW s \in Edited, NEW d \in EditDays, EditDay(s, d)
        PROVE  IInv'
    BY <2>3, EditDayStep
  <2>4. ASSUME NEW s \in Movers, NEW on \in BOOLEAN, SetActive(s, on)
        PROVE  IInv'
    BY <2>4, SetActiveStep
  <2>5. CASE UNCHANGED vars
    BY <2>5, StutterStep
  <2> QED
    BY <2>1, <2>2, <2>3, <2>4, <2>5 DEF Next
<1> QED
  BY <1>1, <1>2, PTL DEF Spec

\* A payment day stays a day of a month, and every row has its type: the
\* clamping of _create_adjustment (lesson_cancellation.py:382) is enough,
\* whatever schedule the group has and whatever month the lesson falls in.
THEOREM Typing == Spec => []TypeOK
<1>1. IInv => TypeOK
  BY DEF IInv
<1> QED
  BY <1>1, Invariance, PTL

\* With n requests served at a time, a request for a lesson moves the payment
\* day of a student at most n times (the check of approve_cancellation at
\* lesson_cancellation.py:247 without a lock).
THEOREM BoundedRepeats == Spec => []RepeatsAreBounded
<1>1. IInv => RepeatsAreBounded
  BY DEF IInv
<1> QED
  BY <1>1, Invariance, PTL

\* One worker at a time: a request is then approved at most once, which is
\* what the message of lesson_cancellation.py:248 promises.
THEOREM SerialApprovedOnce ==
  ASSUME Cardinality(Workers) = 1
  PROVE  Spec => []ApprovedOnce
<1>1. IInv => ApprovedOnce
  <2> SUFFICES ASSUME IInv, NEW r \in Requests, NEW s \in Students
               PROVE  rows[r][s] <= 1
    BY DEF ApprovedOnce
  <2>1. rows[r][s] + Cardinality(Approvers(r)) <= 1 /\ rows[r][s] \in Nat
    BY DEF IInv, RepeatsAreBounded, TypeOK
  <2>2. Cardinality(Approvers(r)) \in Nat
    BY ApproversAreWorkers
  <2> QED
    BY <2>1, <2>2
<1> QED
  BY <1>1, Invariance, PTL

\* An approved request has a row for each paying student it concerns who was
\* in the group all along, however reviews overlap (_get_students and the loop
\* of approve_cancellation, lesson_cancellation.py:259).
THEOREM ApprovalReachesMembers == Spec => []ApprovedIsAdjusted
<1>1. IInv => ApprovedIsAdjusted
  BY DEF IInv
<1> QED
  BY <1>1, Invariance, PTL

\* No payment day that is not edited moves without a payment_adjustments row
\* (_create_adjustment writes both, lesson_cancellation.py:389).
THEOREM BookedMoves == Spec => []MovesAreBooked
<1>1. IInv => MovesAreBooked
  BY DEF IInv
<1> QED
  BY <1>1, Invariance, PTL
=============================================================================
