-------------------------------- MODULE Kpi --------------------------------
(***************************************************************************)
(* KPI of one teacher and month (app/services/kpi.py): metrics and rules   *)
(* that administrators edit, a calculation that writes results and the     *)
(* payslip in one transaction, and the approval of the payslip.            *)
(***************************************************************************)
EXTENDS Integers, FiniteSets, FiniteSetsExt, Functions

CONSTANTS
  Metrics,
  Percentages, Counts, \* metrics computed as a share or as a number; others are not computed
  RuleBook,    \* rules that may exist: metric, lo, hi, type, value
  Salaries, Works,
  Calculators, \* requests that calculate
  Signers,   \* requests that approve
  MaxChanges,  \* how often the administrators and the lessons change the inputs
  Null

RewardTypes == {"bonus_pct", "bonus_sum", "penalty_pct", "penalty_sum", "none"}

VARIABLES
  active, rules, salary,
  work,        \* what the metrics count: attendance, members, referrals
  result,      \* kpi_results by metric
  slip,        \* kpi_payslips
  calc,        \* where a calculation stands
  approval,    \* where an approval stands, and the results it has seen
  basis,       \* history: the metrics and the salary of the last calculation
  changed,     \* counts changes of the inputs
  parallel     \* how many calculations may be under way at once

inputs == <<active, rules, salary, work, changed, parallel>>
kvars  == <<inputs, result, slip, calc, approval, basis>>

NoCalc == [at |-> "idle", todo |-> {}, pay |-> 0, old |-> Null, new |-> Null, slip |-> Null]
Empty  == [m \in Metrics |-> Null]

Init ==
  /\ active = Metrics /\ rules \in SUBSET RuleBook /\ salary \in Salaries
  /\ work \in [Metrics -> Works]
  /\ result = Empty /\ slip = Null
  /\ calc = [c \in Calculators |-> NoCalc]
  /\ approval = [a \in Signers |-> Null]
  /\ basis = [metrics |-> {}, pay |-> 0]
  /\ changed = 0 /\ parallel \in 1..Cardinality(Calculators)

Change == changed < MaxChanges /\ changed' = changed + 1
OnlyInputs == UNCHANGED <<calc, approval, basis, parallel>>

\* update_metric and delete_metric, which deactivates.
SetActive(m, on) ==
  /\ Change /\ (m \in active) # on
  /\ active' = IF on THEN active \cup {m} ELSE active \ {m}
  /\ UNCHANGED <<rules, salary, work, result, slip>> /\ OnlyInputs

CreateRule(r) ==
  /\ Change /\ r \notin rules /\ rules' = rules \cup {r}
  /\ UNCHANGED <<active, salary, work, result, slip>> /\ OnlyInputs

\* Results of a deleted rule keep their amounts (ON DELETE SET NULL).
DeleteRule(r) ==
  /\ Change /\ r \in rules /\ rules' = rules \ {r}
  /\ result' = [m \in Metrics |->
       IF result[m] # Null /\ result[m].rule = r THEN [result[m] EXCEPT !.rule = Null] ELSE result[m]]
  /\ UNCHANGED <<active, salary, work, slip>> /\ OnlyInputs

SetSalary(x) ==
  /\ Change /\ salary # x /\ salary' = x
  /\ UNCHANGED <<active, rules, work, result, slip>> /\ OnlyInputs

Lessons(m, w) ==
  /\ Change /\ work[m] # w /\ work' = [work EXCEPT ![m] = w]
  /\ UNCHANGED <<active, rules, salary, result, slip>> /\ OnlyInputs

\* In hundredths, as the column keeps it; a share is rounded to them.
ComputeMetric(m) ==
  CASE m \in Percentages -> IF work[m].total = 0 THEN 0
                            ELSE (20000 * work[m].part + work[m].total) \div (2 * work[m].total)
    [] m \in Counts      -> 100 * work[m].part
    [] OTHER             -> Null

Matches(r, v) ==
  /\ r.lo # Null \/ r.hi # Null
  /\ r.lo # Null => v >= r.lo
  /\ r.hi # Null => v <= r.hi

\* The first that matches, by threshold_min descending; a rule without it comes first.
FindMatchingRule(m, v) ==
  LET fit == {r \in rules : v # Null /\ r.metric = m /\ Matches(r, v)}
  IN  IF fit = {} THEN Null
      ELSE CHOOSE r \in fit : \A o \in fit : r.lo = Null \/ (o.lo # Null /\ r.lo >= o.lo)

\* Salaries and the values of rules are hundredths, of money or of a percent.  What is
\* computed from them is exact, so it is counted in the ten-thousandth part of one.
Unit == 10000

ComputeReward(r, pay) ==
  CASE r.type = "bonus_pct"   -> pay * r.value
    [] r.type = "bonus_sum"   -> Unit * r.value
    [] r.type = "penalty_pct" -> -(pay * r.value)
    [] r.type = "penalty_sum" -> -(Unit * r.value)
    [] r.type = "none"        -> 0

\* The teacher and the active metrics are read first ...
Calculate(c) ==
  /\ calc[c].at = "idle"
  /\ Cardinality({o \in Calculators : calc[o].at \in {"open", "save"}}) < parallel
  /\ calc' = [calc EXCEPT ![c] = [at |-> "open", todo |-> active, pay |-> salary,
                                 old |-> Empty, new |-> Empty, slip |-> Null]]
  /\ UNCHANGED <<inputs, result, slip, approval, basis>>

\* ... then the value, the rule and the result of each metric.
CalculateMetric(c, m) ==
  LET v == ComputeMetric(m)
      r == FindMatchingRule(m, v)
  IN  /\ calc[c].at = "open" /\ m \in calc[c].todo
      /\ calc' = [calc EXCEPT ![c].todo = @ \ {m}, ![c].old[m] = result[m],
           ![c].new[m] = [value |-> v, rule |-> r,
             reward |-> IF r = Null THEN 0 ELSE ComputeReward(r, calc[c].pay),
             status |-> IF result[m] = Null THEN "pending" ELSE result[m].status]]
      /\ UNCHANGED <<inputs, result, slip, approval, basis>>

Of(c) == {m \in Metrics : calc[c].new[m] # Null}
Bonus(rows, S)   == SumFunctionOnSet([m \in S |-> Max({0, rows[m].reward})], S)
Penalty(rows, S) == SumFunctionOnSet([m \in S |-> Max({0, -rows[m].reward})], S)

\* A payslip sums up the rewards before they are rounded; one that exists keeps its
\* base salary.
FindSlip(c) ==
  LET b == Bonus(calc[c].new, Of(c))
      p == Penalty(calc[c].new, Of(c))
      n == Unit * calc[c].pay + b - p
  IN  /\ calc[c].at = "open" /\ calc[c].todo = {}
      /\ calc' = [calc EXCEPT ![c].at = "save", ![c].slip = [old |-> slip, new |->
           IF slip = Null THEN [base |-> Unit * calc[c].pay, bonus |-> b, penalty |-> p, net |-> n,
                                 status |-> "draft"]
           ELSE [slip EXCEPT !.bonus = b, !.penalty = p, !.net = n]]]
      /\ UNCHANGED <<inputs, result, slip, approval, basis>>

\* Columns of money keep hundredths: PostgreSQL rounds, a half away from zero.
Rounded(x) ==
  IF x >= 0 THEN Unit * ((x + Unit \div 2) \div Unit) ELSE -(Unit * ((Unit \div 2 - x) \div Unit))
Stored(row) ==
  [x \in DOMAIN row |-> IF x \in {"reward", "base", "bonus", "penalty", "net"} THEN Rounded(row[x])
                        ELSE row[x]]

Update_AllColumns(row, old, new) == Stored(new)

\* A column is written when it differs from what was loaded.
Update(row, old, new) ==
  IF old = Null THEN Stored(new)
  ELSE [x \in DOMAIN new |-> IF new[x] = old[x] THEN row[x] ELSE Stored(new)[x]]

SaveCalculation_ApprovedSlipStays(c) ==
  /\ calc[c].at = "save" /\ (calc[c].slip.old = Null => slip = Null)
  /\ \A m \in Of(c) : /\ calc[c].old[m] = Null => result[m] = Null
                      /\ calc[c].new[m].rule \in rules \cup {Null}
  /\ result' = [m \in Metrics |-> IF m \in Of(c) THEN Update(result[m], calc[c].old[m], calc[c].new[m])
                                  ELSE result[m]]
  /\ slip' = IF slip # Null /\ slip.status = "approved" THEN slip
             ELSE Update(slip, calc[c].slip.old, calc[c].slip.new)
  /\ basis' = [metrics |-> Of(c), pay |-> calc[c].pay]
  /\ calc' = [calc EXCEPT ![c] = [NoCalc EXCEPT !.at = "over"]]
  /\ UNCHANGED <<inputs, approval>>

\* COMMIT: a row that appeared or a rule that disappeared meanwhile makes it fail.
SaveCalculation(c) ==
  /\ calc[c].at = "save" /\ (calc[c].slip.old = Null => slip = Null)
  /\ \A m \in Of(c) : /\ calc[c].old[m] = Null => result[m] = Null
                      /\ calc[c].new[m].rule \in rules \cup {Null}
  /\ result' = [m \in Metrics |-> IF m \in Of(c) THEN Update(result[m], calc[c].old[m], calc[c].new[m])
                                  ELSE result[m]]
  /\ slip' = Update(slip, calc[c].slip.old, calc[c].slip.new)
  /\ basis' = [metrics |-> Of(c), pay |-> calc[c].pay]
  /\ calc' = [calc EXCEPT ![c] = [NoCalc EXCEPT !.at = "over"]]
  /\ UNCHANGED <<inputs, approval>>

AbortCalculation(c) ==
  /\ calc[c].at \in {"open", "save"}
  /\ calc' = [calc EXCEPT ![c] = [NoCalc EXCEPT !.at = "over"]]
  /\ UNCHANGED <<inputs, result, slip, approval, basis>>

\* approve_payslip loads the payslip and the results and sets their status,
\* whatever it was.
LoadSlip(a) ==
  /\ approval[a] = Null /\ slip # Null
  /\ approval' = [approval EXCEPT ![a] = {m \in Metrics : result[m] # Null}]
  /\ UNCHANGED <<inputs, result, slip, calc, basis>>

ApprovePayslip(a) ==
  /\ approval[a] # Null
  /\ slip' = [slip EXCEPT !.status = "approved"]
  /\ result' = [m \in Metrics |-> IF m \in approval[a] THEN [result[m] EXCEPT !.status = "approved"]
                                  ELSE result[m]]
  /\ approval' = [approval EXCEPT ![a] = Null]
  /\ UNCHANGED <<inputs, calc, basis>>

Next ==
  \/ \E m \in Metrics : (\E on \in BOOLEAN : SetActive(m, on)) \/ \E w \in Works : Lessons(m, w)
  \/ \E r \in RuleBook : CreateRule(r) \/ DeleteRule(r)
  \/ \E x \in Salaries : SetSalary(x)
  \/ \E c \in Calculators :
       \/ Calculate(c) \/ FindSlip(c) \/ SaveCalculation(c) \/ AbortCalculation(c)
       \/ \E m \in Metrics : CalculateMetric(c, m)
  \/ \E a \in Signers : LoadSlip(a) \/ ApprovePayslip(a)

-----------------------------------------------------------------------------

TypeOK ==
  /\ active \subseteq Metrics /\ rules \subseteq RuleBook /\ salary \in Salaries
  /\ \A m \in Metrics : result[m] # Null =>
       result[m].status \in {"pending", "approved"} /\ result[m].rule \in RuleBook \cup {Null}
  /\ slip # Null => slip.status \in {"draft", "approved"} /\ slip.bonus >= 0 /\ slip.penalty >= 0

\* Two amounts that differ by at most n halves of a hundredth.
Near(x, y, n) == -(n * Unit) <= 2 * (x - y) /\ 2 * (x - y) <= n * Unit

\* Every result and the payslip are rounded by themselves.  One calculation at a time:
\* the payslip is off the sum of the results it was calculated with by half a hundredth
\* for each of them and for itself, and off the salary of that moment with its bonuses
\* and penalties by three halves, whatever was edited, deleted or approved since.  Its base
\* is the salary, however many calculations overlap, until an input changes: a later
\* calculation does not correct it.
SlipIsTheSum ==
  slip # Null =>
    /\ parallel = 1 =>
         LET each == Cardinality(basis.metrics) + 1
         IN  /\ Near(slip.bonus, Bonus(result, basis.metrics), each)
             /\ Near(slip.penalty, Penalty(result, basis.metrics), each)
             /\ Near(slip.net, Unit * basis.pay + slip.bonus - slip.penalty, 3)
    /\ changed = 0 => slip.base = Unit * salary

\* One calculation at a time: the value of a result lies within the thresholds of
\* its rule; and of the rules that are there the one with the highest lower
\* bound counts, unless one without a lower bound fits.
TierReached ==
  \A m \in Metrics :
    LET v == ComputeMetric(m)
        r == FindMatchingRule(m, v)
    IN  /\ parallel = 1 /\ result[m] # Null /\ result[m].rule # Null
             => Matches(result[m].rule, result[m].value)
        /\ r = Null /\ v # Null => \A o \in rules : o.metric = m => ~Matches(o, v)
        /\ r # Null => \A o \in rules : o.metric = m /\ Matches(o, v) => r.lo = Null \/ o.lo <= r.lo

\* Approved payslips have approved results, but for metrics that were
\* calculated for the first time after the approval or while it was under way.
ApprovedTogether ==
  changed = 0 /\ slip # Null /\ slip.status = "approved" =>
    \A m \in Metrics : result[m] # Null => result[m].status = "approved"

\* The three, with the types: a payslip is what its rules, results and approval make it.
PayslipIsWhole == TypeOK /\ SlipIsTheSum /\ TierReached /\ ApprovedTogether

\* Nothing takes an approval back, although calculations write the same rows.
ApprovalSticks ==
  [][/\ slip # Null /\ slip.status = "approved" => slip'.status = "approved"
     /\ \A m \in Metrics : result[m] # Null /\ result[m].status = "approved"
          => result'[m].status = "approved"]_kvars

-----------------------------------------------------------------------------
(* What the proofs need besides *)

ResultRow == [value : Int \cup {Null}, rule : RuleBook \cup {Null}, reward : Int,
              status : {"pending", "approved"}]
SlipRow   == [base : Int, bonus : Nat, penalty : Nat, net : Int, status : {"draft", "approved"}]
Underway(c) == calc[c].at \in {"open", "save"}
There       == {m \in Metrics : result[m] # Null}

\* A result under way: its rule fits, its status is that of the row it was calculated
\* from; with one calculation at a time that row has kept its figures, and its rule
\* unless that was deleted.
NewIsSound(c, m) ==
  LET old == calc[c].old[m]
      new == calc[c].new[m]
  IN  /\ new \in ResultRow /\ (new.rule # Null => Matches(new.rule, new.value))
      /\ old # Null =>
           /\ old \in ResultRow /\ m \in There /\ new.status = old.status
           /\ parallel = 1 => /\ result[m].value = old.value /\ result[m].reward = old.reward
                              /\ result[m].rule \in {old.rule, Null}

\* So is a payslip under way: the sum of these results.
SlipIsSound(c) ==
  LET old == calc[c].slip.old
      new == calc[c].slip.new
  IN  /\ new \in SlipRow /\ new.net = Unit * calc[c].pay + new.bonus - new.penalty
      /\ changed = 0 => new.base = Unit * salary
      /\ new.bonus = Bonus(calc[c].new, Of(c)) /\ new.penalty = Penalty(calc[c].new, Of(c))
      /\ old = Null => new.status = "draft"
      /\ old # Null =>
           /\ old \in SlipRow /\ slip # Null /\ new.status = old.status
           /\ parallel = 1 => slip.bonus = old.bonus /\ slip.penalty = old.penalty /\ slip.net = old.net

CalcIsSound(c) ==
  Underway(c) =>
    /\ calc[c].todo \subseteq Metrics /\ calc[c].pay \in Int
    /\ calc[c].old = [m \in Metrics |-> calc[c].old[m]] /\ calc[c].new = [m \in Metrics |-> calc[c].new[m]]
    /\ changed = 0 => calc[c].pay = salary /\ Metrics \subseteq calc[c].todo \cup Of(c)
    /\ \A m \in Of(c) : NewIsSound(c, m)
    /\ calc[c].at = "save" => calc[c].todo = {} /\ SlipIsSound(c)

\* Results that an approval has seen stay; while nothing was changed they are all.
ApprovalIsSound(a) ==
  approval[a] # Null => slip # Null /\ approval[a] \subseteq There /\ (changed = 0 => approval[a] = Metrics)

CalcsAreKept ==
  /\ calc = [c \in Calculators |-> calc[c]] /\ approval = [a \in Signers |-> approval[a]]
  /\ \A c \in Calculators :
       LET k == calc[c]
       IN  k = [at |-> k.at, todo |-> k.todo, pay |-> k.pay, old |-> k.old, new |-> k.new, slip |-> k.slip]

InputsAreSound ==
  /\ active \subseteq Metrics /\ rules \subseteq RuleBook /\ salary \in Salaries
  /\ work \in [Metrics -> Works] /\ changed \in Nat
  /\ changed = 0 => active = Metrics

RowsAreSound ==
  /\ result \in [Metrics -> ResultRow \cup {Null}] /\ slip \in SlipRow \cup {Null}
  /\ slip # Null => basis.metrics \subseteq There /\ basis.pay \in Int
  /\ changed = 0 /\ slip # Null => There = Metrics
  /\ parallel = 1 => \A m \in There : result[m].rule # Null => Matches(result[m].rule, result[m].value)

KpiInv ==
  /\ InputsAreSound /\ RowsAreSound /\ CalcsAreKept
  /\ \A c \in Calculators : CalcIsSound(c)
  /\ \A a \in Signers : ApprovalIsSound(a)
  /\ parallel = 1 => \A c, o \in Calculators : Underway(c) /\ Underway(o) => c = o
  /\ SlipIsTheSum /\ ApprovedTogether

=============================================================================
