------------------------------ MODULE MCOffice ------------------------------
(***************************************************************************)
(* The components that share no state with another - sessions, pooled      *)
(* connections, tenants, branches, marketing, the risk of leaving, the     *)
(* reminders and the delay of a notification - one at a time, for TLC.     *)
(***************************************************************************)
EXTENDS QuietDelay, TenantPool, TLC

CONSTANTS MaxOpen,
          Roles, Processes, MaxPairs, MaxChanges,
          Slugs, Second, Plans, Operators, Parts, Added,
          Names, Inspectors, Costs, Asks, Phones,
          Pupils, MaxMade, Learners, MaxMarks,
          Debtors, Slots, Nights

VARIABLES part,
  up, redis, memory, client, faulty, active, default, roles, pair, alive, request, ended, changes,
  tenant, plan, schema, doing, crossed,
  branch, worker, cost, ask, hired, review,
  code, used, invitation, given, asking, batch,
  mark, recent, owes, risk, run,
  reminder, clock, lessons, last, group, settled, row, execution, sent, due, undone, failed, edits

S == INSTANCE Sessions WITH Requests <- Operators
T == INSTANCE Tenants
B == INSTANCE Branches WITH Admins <- Operators
M == INSTANCE Marketing WITH Callers <- Operators
C == INSTANCE Churn WITH Runs <- Operators
D == INSTANCE Dispatchers WITH
       Pupils <- Debtors, Executions <- Operators, Days <- Nights, now <- clock, changes <- edits,
       MaxChanges <- 1, MaxUndone <- 1

\* None is NULL, which is no role, no kind of request and no row; expenses are
\* not requests for a teacher, a student not the teacher; days have slots; no part has
\* requests, or a list of students, without end.
ASSUME OfficeAssumption ==
  /\ IsFiniteSet(Operators) /\ IsFiniteSet(Pupils) /\ MaxMade \in Nat
  /\ {Slots, Nights} \subseteq Nat \ {0} /\ "teacher" \notin Debtors
  /\ Costs \cap Asks = {} /\ None \notin Costs \cup Asks \cup Pupils
  /\ None \notin Roles \cup T!Writes \cup {"create"} \cup T!Record \cup B!Asked
       \cup {"code", "invitation"} \cup M!Invitation \cup C!Risk

sessions  == <<up, redis, memory, client, faulty, active, default, roles, pair, alive, request, ended, changes>>
tenants   == <<tenant, plan, schema, doing, crossed>>
branches  == <<branch, worker, cost, ask, hired, review>>
marketing == <<code, used, invitation, given, asking, batch>>
churn     == <<mark, recent, owes, risk, run>>
dispatch  == <<reminder, clock, lessons, last, group, settled, row, execution, sent, due, undone, failed, edits>>

NarrowSessions ==
  /\ limit = 2 => Len(pair) <= 2 /\ ~faulty /\ changes = 0 /\ roles = {}
  /\ faulty => /\ Len(pair) <= 2 /\ (changes = 0 \/ ~active) /\ changes <= 1
               /\ Cardinality(alive) = 2 * Len(pair)
               /\ \E p \in Processes : client[p] = "new" /\ memory[p] = {}
  /\ changes = 2 \/ Len(pair) = 3 => Cardinality(alive) = 2 * Len(pair)
  /\ Len(pair) = 3 => changes = 0

\* Requests that overlap are about one tenant, or about two that only come and go.
NarrowTenants ==
  limit = 2 => \/ Cardinality(T!Known) <= 1 /\ \A o \in Operators : doing[o].slug # Second
               \/ (\A t \in Slugs : schema[t] = Parts \ Added) /\ \A p \in Plans : plan[p] = None

\* Papers are asked for and reviewed while one plain branch is open.
NarrowBranches ==
  /\ Cardinality(hired) <= 2
  /\ \/ (\A q \in Asks : ask[q] = None) /\ (\A c \in Costs : cost[c] = None)
     \/ /\ Cardinality(B!Open) = 1 /\ \A u \in Inspectors : worker[u].branch = None
        /\ \A b \in B!Open : ~branch[b].main /\ branch[b].active /\ branch[b].manager = None

\* Codes without invitations or invitations without codes.
NarrowMarketing ==
  \/ \A s \in Pupils : code[s] = None
  \/ batch = M!NoBatch /\ \E s \in Pupils : code[s] = None

\* One mark gives a student every level but for three lessons missed.
NarrowChurn == limit = 2 => \A s \in Learners : Len(mark[s]) <= 1

\* Executions that overlap do so on one day, and about one student; who joins or
\* leaves finds one other at most, and who pays is the only debtor.
NarrowDispatch ==
  /\ edits = 1 => Cardinality(group) <= 1
  /\ edits = 1 /\ reminder \in {"payment", "overdue"} => settled = Debtors
  /\ limit = 2 => /\ clock < Slots /\ last <= Slots /\ Cardinality(lessons) <= 1
                  /\ Cardinality(group) <= 1
                  /\ reminder \in {"payment", "overdue"} => settled # {}

\* The parts that do not run stay in one of their initial states.
OfficeInit ==
  /\ part \in {"sessions", "pool", "tenants", "branches", "marketing", "churn", "dispatch", "quiet"}
  /\ limit \in 1..MaxOpen /\ (limit = 3 => part = "pool")
  /\ S!SessionsInit /\ (part # "sessions" => roles = {} /\ default = "teacher")
  /\ PoolInit
  /\ T!TenantsInit /\ (part # "tenants" => T!Known = {} /\ \A p \in Plans : plan[p] = None)
  /\ B!BranchesInit /\ M!MarketingInit /\ C!ChurnInit
  /\ D!DispatchInit /\ (part # "dispatch" => reminder = "overdue" /\ settled = {})
  /\ Init /\ (part # "quiet" => now = 0 /\ start = 0 /\ end = 0) /\ (part = "quiet" => limit = 1)
  /\ NarrowSessions /\ NarrowTenants /\ (part = "dispatch" => NarrowDispatch)

OfficeNext ==
  \/ /\ part = "sessions" /\ S!SessionsNext /\ NarrowSessions'
     /\ UNCHANGED <<part, poolVars, tenants, branches, marketing, churn, dispatch, vars>>
  \/ /\ part = "pool" /\ PoolNext
     /\ UNCHANGED <<part, sessions, tenants, branches, marketing, churn, dispatch, vars>>
  \/ /\ part = "tenants" /\ T!TenantsNext /\ NarrowTenants'
     /\ UNCHANGED <<part, sessions, poolVars, branches, marketing, churn, dispatch, vars>>
  \/ /\ part = "branches" /\ B!BranchesNext /\ NarrowBranches'
     /\ UNCHANGED <<part, sessions, poolVars, tenants, marketing, churn, dispatch, vars>>
  \/ /\ part = "marketing" /\ M!MarketingNext /\ NarrowMarketing'
     /\ UNCHANGED <<part, sessions, poolVars, tenants, branches, churn, dispatch, vars>>
  \/ /\ part = "churn" /\ C!ChurnNext /\ NarrowChurn'
     /\ UNCHANGED <<part, sessions, poolVars, tenants, branches, marketing, dispatch, vars>>
  \/ /\ part = "dispatch" /\ D!DispatchNext /\ NarrowDispatch'
     /\ UNCHANGED <<part, sessions, poolVars, tenants, branches, marketing, churn, vars>>
  \/ /\ part = "quiet" /\ Wait
     /\ UNCHANGED <<part, limit, sessions, poolVars, tenants, branches, marketing, churn, dispatch>>

OfficeSpec ==
  OfficeInit /\ [][OfficeNext]_<<part, limit, sessions, poolVars, tenants, branches, marketing, churn, dispatch, vars>>

\* The requests of all parts are the same model values.
Interchangeable == Permutations(Operators) \cup Permutations(Processes)

\* The properties of the parts, with the types of their modules.
RefreshOnce           == part = "sessions" => S!SessionsTypeOK /\ S!RefreshOnce
EndedIsRefused        == S!EndedIsRefused
TokensAreFresh        == S!TokensAreFresh
TenantsAreWhole       == T!TenantsAreWhole
ApprovedIsHired       == B!ApprovedIsHired
\* Codes, invitations and risks.
MarketingAgrees       == M!UsesAgree /\ M!CreatedIsStored /\ C!CriticalOwes
\* The reminders.
RemindersAgree        == part = "dispatch" => D!DispatchTypeOK /\ D!RemindersAgree
=============================================================================
