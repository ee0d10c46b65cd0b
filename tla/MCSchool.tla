------------------------------ MODULE MCSchool ------------------------------
(***************************************************************************)
(* What happens in a group, for TLC: cancelled lessons; attendance and     *)
(* topics over one set of profiles and one clock; grades; KPI.  One of     *)
(* these parts at a time.                                                  *)
(***************************************************************************)
EXTENDS LessonCancellation, Syllabus, Attendance, TLC

CONSTANTS s1, s2, s3, g1, g2, m1, m2, m3,
          MaxTime, MaxOpen,
          Pupils, Groups, DeadlineDays, Grades, Ahead, Defaults, Changes, MaxHour,
          Metrics, Percentages, Counts, RuleBook, Salaries, Works, Admins, MaxChanges

VARIABLES part,
  hour, overlap, deadline, belongs, inactive, grades, batch, found, changes,
  metrics, rules, salary, work, result, slip, calc, approval, basis, changed, parallel

\* A student who pays near the end of the month, one near its beginning.
StartDays == (s1 :> 30) @@ (s2 :> 2) @@ (s3 :> 15)

MCLevels   == <<0, 3, 5>>
Held(g, d) == [group |-> g, date |-> d, deadline |-> 2 * d + 1]
MCLessons  == {Held(g1, 0), Held(g2, 0), Held(g1, 1)}
MCMembers  == (g1 :> {s1, s2}) @@ (g2 :> {s1})
\* The second lesson of the first group is an extra one.
MCGroupsOn == (0 :> {g1, g2}) @@ (1 :> {g2})
MCAssignees == {{s1, s2}, {s1}}
MCSheets   ==
  {[lesson |-> Held(g1, 0), marks |-> (s1 :> a) @@ (s2 :> "present"), teacher |-> TRUE] :
     a \in {"present", "absent"}}
  \cup {[lesson |-> Held(g2, 0), marks |-> (s1 :> a), teacher |-> FALSE] : a \in {"absent", "excused"}}
  \cup {[lesson |-> Held(g1, 1), marks |-> (s1 :> a), teacher |-> TRUE] : a \in {"late", "absent"}}

FirstDays == (g1 :> 1) @@ (g2 :> 1)

Rule(m, lo, hi, type, value) ==
  [metric |-> m, lo |-> lo, hi |-> hi, type |-> type, value |-> value]
\* Thresholds, percents and money in hundredths: of a salary of 107, 10 percent are 10.7,
\* 20 percent 21.4 and 5 percent 5.35 hundredths.
MCRules == {Rule(m1, 5000, None, "bonus_pct", 1000), Rule(m1, 9000, None, "bonus_sum", 30),
            Rule(m1, None, 2000, "penalty_pct", 2000), Rule(m2, 100, 200, "penalty_pct", 500)}
Share(k, n) == [part |-> k, total |-> n]

MCWorks == {Share(0, 0), Share(1, 1), Share(1, 2)}

G == INSTANCE Assessment WITH Days <- DeadlineDays, Graders <- Workers, Never <- None
K == INSTANCE Kpi WITH Calculators <- Workers, Signers <- Admins, active <- metrics, Null <- None

\* What the proofs rest on: finite sets, a sound calendar, thresholds that are numbers,
\* sheets of students, deadlines that stay within the days of a month, rules and metrics
\* of one kind, and a null that is neither a number nor a row.
ASSUME SchoolAssumption ==
  /\ \A S \in {Teachers, Editors, Learners, HeldLessons, Topics} : IsFiniteSet(S)
  /\ DayLength \in Nat \ {0} /\ {UtcOffset, XpLesson, XpTopic} \subseteq Nat
  /\ XP_LEVELS \in Seq(Nat) /\ XP_LEVELS # <<>>
  /\ \A l \in HeldLessons : l.deadline \in Int
  /\ \A h \in Sheets : /\ h.lesson \in HeldLessons /\ h.teacher \in BOOLEAN
                       /\ DOMAIN h.marks \subseteq Learners
                       /\ \A s \in DOMAIN h.marks : h.marks[s] \in Statuses
  /\ Nil \notin Nat \cup Profile \cup Row \cup [old : Mark, new : Row] \cup [index : Int, active : BOOLEAN]
  /\ \A S \in {Workers, Pupils} : IsFiniteSet(S)
  /\ Places \subseteq Int
  /\ Ahead \in Int /\ DeadlineDays \subseteq Int /\ Defaults \in [Groups -> DeadlineDays]
  /\ \A d \in DeadlineDays : Max({1, Min({d, 28})}) \in DeadlineDays
  /\ \A S \in {Metrics, RuleBook} : IsFiniteSet(S)
  /\ Percentages \cap Counts = {} /\ Salaries \subseteq Int
  /\ \A w \in Works : w.part \in Nat /\ w.total \in Nat
  /\ \A r \in RuleBook : /\ {r.lo, r.hi} \subseteq Int \cup {None} /\ r.value \in Int
                         /\ r.type \in K!RewardTypes
  /\ None \notin Int \cup RuleBook \cup G!GradeRow \cup K!ResultRow \cup K!SlipRow

clock      == <<now, limit>>
assessment == <<hour, overlap, deadline, belongs, inactive, grades, batch, found, changes>>
kpi        == <<metrics, rules, salary, work, result, slip, calc, approval, basis, changed, parallel>>
classroom  == <<clock, xp, avars, svars>>

\* Attendance alone, topics alone, or one request of each kind over the same
\* profiles: three of the parts.
Classes == {"attendance", "topics", "both"}
Used(places) == Cardinality({r \in DOMAIN places : places[r].at # "idle"})

Serial == \A t \in Teachers, e \in Editors : Busy(t) => task[e].at \in {"idle", "over"}

\* The parts that do not run stay in one of their initial states.
SchoolInit ==
  /\ part \in Classes \cup {"lessons", "grades", "kpi"}
  /\ Init
  /\ limit \in 1..MaxOpen /\ (part \notin Classes => limit = 1)
  /\ GInit /\ AInit /\ SInit
  /\ G!Init /\ (part # "grades" => overlap = 1)
  /\ IF part = "grades" THEN Cardinality(inactive) = 1 /\ belongs[g1] = inactive /\ belongs[g2] = Pupils
     ELSE belongs = [g \in Groups |-> Pupils] /\ inactive = {}
  /\ K!Init /\ \/ /\ part # "kpi" /\ parallel = 1 /\ rules = {} /\ salary = 107
                  /\ \A m \in DOMAIN work : work[m] = Share(0, 0)
               \/ /\ part = "kpi" /\ salary = 107 /\ work[m3] = Share(0, 0)
                  /\ Cardinality(rules) >= 3 /\ work[m2] = Share(1, 2)

\* Where the clock stops.
LastHour == IF part = "both" THEN DayLength ELSE MaxTime

Tick ==
  /\ part \in {"attendance", "both"} /\ now < LastHour
  /\ now' = now + 1 /\ UNCHANGED <<part, vars, limit, xp, avars, svars, assessment, kpi>>

SchoolNext ==
  \/ part = "lessons" /\ Next /\ UNCHANGED <<part, classroom, assessment, kpi>>
  \/ Tick
  \/ /\ part \in {"attendance", "both"} /\ ANext
     /\ part = "both" => Used(where') + limit <= 3
     /\ UNCHANGED <<part, vars, svars, assessment, kpi>> /\ (limit = 1 => Serial')
  \/ /\ part \in {"topics", "both"} /\ SNext
     /\ part = "both" => Used(task') <= 1 /\ edits' = 0
     /\ UNCHANGED <<part, vars, avars, assessment, kpi>> /\ (limit = 1 => Serial')
  \/ part = "grades" /\ G!Next /\ UNCHANGED <<part, vars, classroom, kpi>>
  \/ part = "grades" /\ hour < MaxHour /\ G!Tick /\ UNCHANGED <<part, vars, classroom, kpi>>
  \/ part = "kpi" /\ K!Next /\ UNCHANGED <<part, vars, classroom, assessment>>

SchoolSpec == SchoolInit /\ [][SchoolNext]_<<part, vars, classroom, assessment, kpi>>

\* Attendance and topics by themselves: any number of requests over one clock.
ClassInit == limit \in Nat /\ GInit /\ AInit /\ SInit
ClassNext ==
  \/ now' = now + 1 /\ UNCHANGED <<limit, xp, avars, svars>>
  \/ ANext /\ UNCHANGED svars /\ (limit = 1 => Serial')
  \/ SNext /\ UNCHANGED avars /\ (limit = 1 => Serial')
ClassSpec == ClassInit /\ [][ClassNext]_classroom

\* The requests of all parts are the same model values.
Interchangeable == Permutations(Workers) \cup Permutations(Requests)

\* The properties of the parts.
GradesAgree    == part = "grades" => G!GradesAgree
PayslipIsWhole == part = "kpi" => K!PayslipIsWhole
\* No grade is lost to another group, no approval of a payslip taken back.
RecordsStick   == G!GroupKeepsItsGrade /\ K!ApprovalSticks
=============================================================================
