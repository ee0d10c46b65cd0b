-------------------------------- MODULE Churn --------------------------------
(***************************************************************************)
(* The risk that a student leaves (calculate_churn_risks and               *)
(* _compute_churn_score in app/services/marketing.py): computed for all    *)
(* active students from their last attendance and their balance, committed *)
(* at once, and marked as resolved by an administrator.                    *)
(***************************************************************************)
EXTENDS Integers, FiniteSets, Sequences

CONSTANTS
  Learners,
  Runs,        \* calculations that may be under way
  MaxMarks,    \* how many marks a student gets
  None

VARIABLES
  limit,       \* how many calculations may be under way at once
  mark,        \* attendance of a student, the oldest first
  recent,      \* how many of the marks are of the last two weeks
  owes,        \* the debt: "none", "some" or "much" (more than 500 000)
  risk,        \* churn_risks: level, resolved, and the debt it was computed from
  run          \* a calculation under way: what it has computed, and for whom it
               \* found no row

churn == <<mark, recent, owes, risk, run>>

ChurnInit ==
  /\ mark = [s \in Learners |-> <<>>] /\ recent = [s \in Learners |-> 0]
  /\ owes = [s \in Learners |-> "none"] /\ risk = [s \in Learners |-> None]
  /\ run = [r \in Runs |-> None]

Absences(s, n) == Cardinality({i \in 1..Len(mark[s]) : i > Len(mark[s]) - n /\ mark[s][i] = "absent"})

AbsenceScore(s) ==
  LET missed == 100 * Absences(s, recent[s])
  IN  CASE recent[s] = 0                                                     -> 30
        [] recent[s] > 0 /\ missed >= 60 * recent[s]                          -> 40
        [] recent[s] > 0 /\ missed >= 30 * recent[s] /\ missed < 60 * recent[s] -> 20
        [] OTHER                                                             -> 0

DebtScore(s) == [none |-> 0, some |-> 15, much |-> 35][owes[s]]

\* Three lessons missed one after the other, however long ago.
MissedScore(s) == IF Len(mark[s]) >= 3 /\ Absences(s, 3) = 3 THEN 25 ELSE 0

Score(s) == AbsenceScore(s) + DebtScore(s) + MissedScore(s)

Level(score) ==
  CASE score >= 75 -> "critical" [] score >= 50 /\ score < 75 -> "high"
    [] score >= 25 /\ score < 50 -> "medium" [] OTHER -> "low"

Aside == UNCHANGED <<limit, risk, run>>

Attend(s, m) ==
  /\ Len(mark[s]) < MaxMarks /\ mark' = [mark EXCEPT ![s] = Append(@, m)]
  /\ recent' = [recent EXCEPT ![s] = @ + 1] /\ UNCHANGED owes /\ Aside

\* A mark gets older than two weeks.
Age(s) ==
  /\ recent[s] > 0 /\ recent' = [recent EXCEPT ![s] = @ - 1]
  /\ UNCHANGED <<mark, owes>> /\ Aside

Owe(s, d) == owes' = [owes EXCEPT ![s] = d] /\ UNCHANGED <<mark, recent>> /\ Aside

\* Everybody is computed, and the rows there are read ...
ComputeRisks(r) ==
  /\ run[r] = None /\ Cardinality({x \in Runs : run[x] # None}) < limit
  /\ run' = [run EXCEPT ![r] = [s \in Learners |->
       [level |-> Level(Score(s)), owed |-> owes[s], old |-> risk[s]]]]
  /\ UNCHANGED <<limit, mark, recent, owes, risk>>

\* ... and written: new rows, of which a student has one, or what differs from the
\* row that was read, which stays resolved if it was.
CommitRisks(r) ==
  /\ run[r] # None /\ run' = [run EXCEPT ![r] = None]
  /\ risk' = IF \E s \in Learners : run[r][s].old = None /\ risk[s] # None THEN risk
             ELSE [s \in Learners |->
               LET new == run[r][s]
               IN  CASE new.old = None -> [level |-> new.level, owed |-> new.owed, resolved |-> FALSE]
                     [] new.old # None /\ new.level # new.old.level ->
                          [risk[s] EXCEPT !.level = new.level, !.owed = new.owed]
                     [] new.old # None /\ new.level = new.old.level ->
                          [risk[s] EXCEPT !.owed = IF risk[s].level = new.level THEN new.owed ELSE @]]
  /\ UNCHANGED <<limit, mark, recent, owes>>

ResolveRisk(s) ==
  /\ risk[s] # None /\ risk' = [risk EXCEPT ![s].resolved = TRUE]
  /\ UNCHANGED <<limit, mark, recent, owes, run>>

ChurnNext ==
  \/ \E s \in Learners :
       \/ \E m \in {"present", "absent"} : Attend(s, m)
       \/ \E d \in {"none", "some", "much"} : Owe(s, d)
       \/ Age(s) \/ ResolveRisk(s)
  \/ \E r \in Runs : ComputeRisks(r) \/ CommitRisks(r)

-----------------------------------------------------------------------------

\* Missed lessons alone never make a student critical: he was in debt when the
\* risk was computed, however calculations overlap.
CriticalOwes == \A s \in Learners : risk[s] # None /\ risk[s].level = "critical" => risk[s].owed # "none"

-----------------------------------------------------------------------------
(* What the proofs need besides *)

Debt == {"none", "some", "much"}
Risk == [level : {"critical", "high", "medium", "low"}, owed : Debt, resolved : BOOLEAN]

\* A calculation under way has found no student critical who is not in debt; a row
\* it has read is still there.
RunsAreSound ==
  /\ owes \in [Learners -> Debt] /\ risk \in [Learners -> Risk \cup {None}]
  /\ run = [r \in Runs |-> run[r]]
  /\ \A r \in Runs, s \in Learners : run[r] # None =>
       /\ run[r][s].level \in {"critical", "high", "medium", "low"} /\ run[r][s].owed \in Debt
       /\ run[r][s].level = "critical" => run[r][s].owed # "none"
       /\ run[r][s].old # None => risk[s] \in Risk

\* The inductive invariant.
ChurnInv == RunsAreSound /\ CriticalOwes

ChurnSpec == ChurnInit /\ [][ChurnNext]_<<limit, churn>>

=============================================================================
