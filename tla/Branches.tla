------------------------------ MODULE Branches ------------------------------
(***************************************************************************)
(* Branches, their inspectors, expenses and requests for teachers          *)
(* (app/services/branch.py, app/api/v1/admin/branches.py).  A review reads *)
(* its row, whatever was decided before, and writes its decision.          *)
(***************************************************************************)
EXTENDS Integers, FiniteSets

CONSTANTS
  Names,       \* branches
  Inspectors,  \* users that may become inspectors
  Costs,       \* expenses that may be asked for, each of one unit
  Asks,        \* requests for a teacher
  Phones,      \* telephone numbers of the teachers asked for
  Admins,      \* reviews that may be under way
  None

VARIABLES
  limit,       \* how many reviews may be under way at once
  branch,      \* branches
  worker,      \* users.role and users.branch_id of the users in Inspectors
  cost,        \* branch_expenses
  ask,         \* inspector_requests
  hired,       \* history: teachers made for a request, by their telephone
  review       \* the review under way

branches == <<branch, worker, cost, ask, hired, review>>

Calm   == [of |-> None, approve |-> FALSE, saw |-> None]
Open   == {b \in Names : branch[b] # None}

BranchesInit ==
  /\ branch = [b \in Names |-> None]
  /\ worker = [u \in Inspectors |-> [role |-> "teacher", branch |-> None]]
  /\ cost = [c \in Costs |-> None] /\ ask = [q \in Asks |-> None]
  /\ hired = {} /\ review = [a \in Admins |-> Calm]

Staffing == UNCHANGED <<limit, cost, ask, hired, review>>

\* The new branch takes the mark of the main one from all others.
CreateBranch(b, main, u) ==
  /\ branch[b] = None
  /\ branch' = [x \in Names |->
       IF x = b THEN [main |-> main, active |-> TRUE, manager |-> u]
       ELSE IF main /\ x \in Open THEN [branch[x] EXCEPT !.main = FALSE] ELSE branch[x]]
  /\ UNCHANGED worker /\ Staffing

\* PATCH sets the mark of one branch and leaves the others.
UpdateBranch(b, main) ==
  /\ b \in Open /\ branch' = [branch EXCEPT ![b].main = main]
  /\ UNCHANGED worker /\ Staffing

DeleteBranch(b) ==
  /\ b \in Open /\ branch' = [branch EXCEPT ![b].active = FALSE]
  /\ UNCHANGED worker /\ Staffing

AssignInspector(b, u) ==
  /\ b \in Open /\ branch' = [branch EXCEPT ![b].manager = u]
  /\ worker' = [worker EXCEPT ![u] = [role |-> "inspector", branch |-> b]] /\ Staffing

RemoveInspector(b) ==
  /\ b \in Open /\ branch[b].manager # None /\ branch' = [branch EXCEPT ![b].manager = None]
  /\ worker' = [worker EXCEPT ![branch[b].manager] = [role |-> "teacher", branch |-> None]] /\ Staffing

Papers == UNCHANGED <<limit, branch, worker>>

CreateExpense(c, b) ==
  /\ cost[c] = None /\ b \in Open
  /\ cost' = [cost EXCEPT ![c] = [branch |-> b, status |-> "pending", by |-> None]]
  /\ UNCHANGED <<ask, hired, review>> /\ Papers

CreateTeacherRequest(q, b, phone) ==
  /\ ask[q] = None /\ b \in Open
  /\ ask' = [ask EXCEPT ![q] = [branch |-> b, status |-> "pending", by |-> None, phone |-> phone,
                                   teacher |-> FALSE]]
  /\ UNCHANGED <<cost, hired, review>> /\ Papers

\* A review reads the row, whatever was decided before ...
BeginReview(a, x, approve) ==
  /\ review[a] = Calm /\ Cardinality({o \in Admins : review[o] # Calm}) < limit
  /\ \E saw \in {IF x \in Costs THEN cost[x] ELSE ask[x]} \ {None} :
       review' = [review EXCEPT ![a] = [of |-> x, approve |-> approve, saw |-> saw.status]]
  /\ UNCHANGED <<cost, ask, hired>> /\ Papers

Done(a) == review' = [review EXCEPT ![a] = Calm]

\* ... and UPDATE writes the status if it is another than was read.
Decided(a, row, status) ==
  [row EXCEPT !.by = a, !.status = IF status = review[a].saw THEN @ ELSE status]

ReviewExpense(a) ==
  LET c == review[a].of
  IN  /\ c \in Costs /\ Done(a) /\ UNCHANGED <<ask, hired>> /\ Papers
      /\ cost' = [cost EXCEPT ![c] =
                    Decided(a, @, IF review[a].approve THEN "approved" ELSE "rejected")]

\* users.phone is unique, NULL aside.
PhoneIsFree_Always(phone) == TRUE
PhoneIsFree(phone) == phone = None \/ \A h \in hired : h.phone # phone

\* Approval makes a user and a teacher.  The error of the database for a telephone
\* that is taken is caught, but then the COMMIT fails too and nothing is written;
\* another error while they are made turns into a rejection.
ReviewTeacherRequest(a, ok) ==
  LET q == review[a].of
  IN  /\ q \in Asks /\ Done(a) /\ UNCHANGED cost /\ Papers
      /\ \/ /\ ~review[a].approve \/ ~ok
            /\ ask' = [ask EXCEPT ![q] = Decided(a, @, "rejected")] /\ UNCHANGED hired
         \/ /\ review[a].approve /\ ok /\ PhoneIsFree(ask[q].phone)
            /\ ask' = [ask EXCEPT ![q] = [Decided(a, @, "approved") EXCEPT !.teacher = TRUE]]
            /\ hired' = hired \cup {[of |-> q, phone |-> ask[q].phone,
                                      n |-> Cardinality({h \in hired : h.of = q})]}
         \/ /\ review[a].approve /\ ok /\ ~PhoneIsFree(ask[q].phone)
            /\ UNCHANGED <<ask, hired>>

BranchesNext ==
  \/ \E b \in Names :
       \/ \E main \in BOOLEAN :
            UpdateBranch(b, main) \/ \E u \in Inspectors \cup {None} : CreateBranch(b, main, u)
       \/ \E u \in Inspectors : AssignInspector(b, u)
       \/ DeleteBranch(b) \/ RemoveInspector(b)
       \/ \E c \in Costs : CreateExpense(c, b)
       \/ \E q \in Asks, phone \in Phones \cup {None} : CreateTeacherRequest(q, b, phone)
  \/ \E a \in Admins :
       \/ \E x \in Costs \cup Asks, approve \in BOOLEAN : BeginReview(a, x, approve)
       \/ ReviewExpense(a) \/ \E ok \in BOOLEAN : ReviewTeacherRequest(a, ok)

-----------------------------------------------------------------------------

\* However reviews repeat and overlap: an approved request has its teacher, and a
\* telephone number gives one, so a request that names one is not hired twice.
ApprovedIsHired ==
  /\ \A q \in Asks : ask[q] # None /\ ask[q].status = "approved" => ask[q].teacher
  /\ \A g, h \in hired : g.phone # None /\ g.phone = h.phone => g = h

-----------------------------------------------------------------------------
(* What the proofs need besides *)

Asked == [branch : Names, status : {"pending", "approved", "rejected"}, by : Admins \cup {None},
          phone : Phones \cup {None}, teacher : BOOLEAN]

\* A review is of a paper that is there.
ReviewsAreSound ==
  /\ ask \in [Asks -> Asked \cup {None}] /\ review = [a \in Admins |-> review[a]]
  /\ \A a \in Admins : review[a].of \in Asks => ask[review[a].of] \in Asked

\* The inductive invariant.
BranchesInv == ReviewsAreSound /\ ApprovedIsHired

BranchesSpec == BranchesInit /\ [][BranchesNext]_<<limit, branches>>

=============================================================================
