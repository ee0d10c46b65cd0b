------------------------------- MODULE Invites -------------------------------
(***************************************************************************)
(* Invitations (app/core/invite_store.py, app/api/v1/admin/invites.py,     *)
(* /auth/register, /parent/link-invite and the deep links of the bot).  A  *)
(* code is read from the store of the process, used in the tenant's        *)
(* database and deleted from the store of the process, in three steps; the *)
(* API and the bot are processes of their own.                             *)
(***************************************************************************)
EXTENDS FallbackStore

CONSTANTS
  RoleCodes, LinkCodes, ParentCodes,  \* codes by what their payload names
  People,      \* Telegram accounts
  Visits,      \* requests that use a code
  None

Codes == RoleCodes \cup LinkCodes \cup ParentCodes

VARIABLES
  limit,       \* how many requests may be under way at once
  account,     \* users.telegram_id: the code through which a person has one
  parent,      \* the parent of the child of a code
  visit,       \* where a request stands
  issued, gone,\* history: codes that were issued, and expired
  used,        \* history: the people who used a code
  shown        \* history: codes deleted for a person who was registered already

invites == <<store, account, parent, visit, issued, gone, used, shown>>

NoVisit == [at |-> "idle", code |-> None, who |-> None, process |-> None]

InvitesInit ==
  /\ StoreInit
  /\ account = [t \in People |-> None] /\ parent = [i \in ParentCodes |-> None]
  /\ visit = [v \in Visits |-> NoVisit]
  /\ issued = {} /\ gone = {} /\ shown = {}
  /\ used = [i \in Codes |-> {}]

\* A code is random and unique.
Generate(p, i) ==
  /\ i \notin issued /\ Put(p, i) /\ issued' = issued \cup {i}
  /\ UNCHANGED <<limit, account, parent, visit, gone, used, shown>>

\* The generators, by what their codes name: a role, a user there is, a child.
GenerateInvite(p, i)     == i \in RoleCodes /\ Generate(p, i)
InviteStudent(p, i)      == i \in LinkCodes /\ Generate(p, i)
InviteTeacher(p, i)      == i \in LinkCodes /\ Generate(p, i)
InviteInspector(p, i)    == i \in LinkCodes /\ Generate(p, i)
GenerateParentLink(p, i) == i \in ParentCodes /\ Generate(p, i)

RunOut(i) ==
  /\ i \in issued \ gone /\ Expire(i) /\ gone' = gone \cup {i}
  /\ UNCHANGED <<limit, account, parent, visit, issued, used, shown>>

Underway == {v \in Visits : visit[v].at # "idle"}
Goto(v, step) == visit' = [visit EXCEPT ![v].at = step]
Leave(v)   == visit' = [visit EXCEPT ![v] = NoVisit]
OnlyVisits == UNCHANGED <<limit, account, parent, issued, gone, used, shown>>

\* The page of an invitation only looks for its code.
GetInviteInfo(p) == Get(p) /\ UNCHANGED visit /\ OnlyVisits

\* Codes of parents are for people who are registered.
ReadCode(v, p, i, t) ==
  /\ visit[v].at = "idle" /\ Cardinality(Underway) < limit
  /\ Found(p, i) /\ Get(p) /\ (i \in ParentCodes => account[t] # None)
  /\ visit' = [visit EXCEPT ![v] = [at |-> "use", code |-> i, who |-> t, process |-> p]]
  /\ OnlyVisits

Used(v) == used' = [used EXCEPT ![visit[v].code] = @ \cup {visit[v].who}]

\* A new account with the role of the code (telegram_id is UNIQUE).
Register(v) ==
  LET t == visit[v].who
  IN  /\ visit[v].at = "use" /\ visit[v].code \in RoleCodes /\ account[t] = None
      /\ account' = [account EXCEPT ![t] = visit[v].code]
      /\ Used(v) /\ Goto(v, "delete")
      /\ UNCHANGED <<store, limit, parent, issued, gone, shown>>

\* Who has an account only gets tokens; the code is deleted all the same.
RegisterAgain(v) ==
  /\ visit[v].at = "use" /\ visit[v].code \in RoleCodes /\ account[visit[v].who] # None
  /\ shown' = shown \cup {visit[v].code} /\ Goto(v, "delete")
  /\ UNCHANGED <<store, limit, account, parent, issued, gone, used>>

\* The user of the code gets the telegram_id, unless another user has it.
LinkUser(v) ==
  LET i == visit[v].code
      t == visit[v].who
  IN  /\ visit[v].at = "use" /\ i \in LinkCodes /\ account[t] \in {None, i}
      /\ account' = [x \in People |-> IF x = t THEN i ELSE IF account[x] = i THEN None ELSE account[x]]
      /\ Used(v) /\ Goto(v, "delete")
      /\ UNCHANGED <<store, limit, parent, issued, gone, shown>>

LinkParent(v) ==
  LET i == visit[v].code
  IN  /\ visit[v].at = "use" /\ i \in ParentCodes
      /\ parent' = [parent EXCEPT ![i] = visit[v].who]
      /\ Used(v) /\ Goto(v, "delete")
      /\ UNCHANGED <<store, limit, account, issued, gone, shown>>

\* The deep link of the bot does what the parent's page does.
ParentDeepLink(v) == LinkParent(v)

DeleteCode_MemoryOnly(v) ==
  LET p == visit[v].process
  IN  /\ visit[v].at = "delete"
      /\ memory' = [memory EXCEPT ![p] = @ \ {visit[v].code}] /\ Leave(v)
      /\ UNCHANGED <<up, redis, client, faulty>> /\ OnlyVisits

DeleteCode(v) ==
  /\ visit[v].at = "delete"
  /\ Remove(visit[v].process, visit[v].code) /\ Leave(v) /\ OnlyVisits

\* An error before the COMMIT: nothing was done.
GiveUp(v) ==
  /\ visit[v].at = "use" /\ Leave(v)
  /\ UNCHANGED store /\ OnlyVisits

\* A crash of the process: what it was doing is left where it stands.
Crash(p) ==
  /\ Restart(p)
  /\ visit' = [v \in Visits |-> IF visit[v].process = p THEN NoVisit ELSE visit[v]]
  /\ OnlyVisits

RedisOutage == Outage /\ UNCHANGED visit /\ OnlyVisits

InvitesNext ==
  \/ \E p \in Processes, i \in Codes :
       \/ GenerateInvite(p, i) \/ InviteStudent(p, i) \/ InviteTeacher(p, i)
       \/ InviteInspector(p, i) \/ GenerateParentLink(p, i)
       \/ \E v \in Visits, t \in People : ReadCode(v, p, i, t)
  \/ \E i \in Codes : RunOut(i)
  \/ \E v \in Visits :
       \/ Register(v) \/ RegisterAgain(v) \/ LinkUser(v) \/ LinkParent(v) \/ ParentDeepLink(v)
       \/ DeleteCode(v) \/ GiveUp(v)
  \/ \E p \in Processes : Crash(p) \/ GetInviteInfo(p)
  \/ RedisOutage

-----------------------------------------------------------------------------

InvitesTypeOK ==
  /\ StoreTypeOK
  /\ account \in [People -> {None} \cup RoleCodes \cup LinkCodes]
  /\ parent \in [ParentCodes -> {None} \cup People]
  /\ gone \subseteq issued /\ shown \subseteq issued

\* A code serves one person when requests do not overlap, no process crashes
\* between the use and the deletion, and Redis answers.
InviteIsUsedOnce ==
  limit = 1 /\ ~faulty => \A i \in Codes : Cardinality(used[i]) <= 1

\* While Redis answers, and however requests overlap: a code that nobody has
\* used and that is not too old is found by every process, also by those that
\* did not issue it; only a person who is registered already can waste it.
InviteIsThere ==
  ~faulty => \A i \in issued \ (gone \cup shown) :
    used[i] = {} => \A p \in Processes : Found(p, i)

\* Both: a code is good for one person, and stays good until then.
InviteServesOne == InviteIsUsedOnce /\ InviteIsThere

-----------------------------------------------------------------------------
(* What the proofs need besides *)

\* The stores have codes that were issued; a request is of one of them, and when it
\* is about to delete the code somebody has used it, or was registered already.
Visit == [at : {"idle", "use", "delete"}, code : Codes \cup {None}, who : People \cup {None},
          process : Processes \cup {None}]
VisitsAreSound ==
  /\ issued \subseteq Codes /\ redis \subseteq issued /\ \A p \in Processes : memory[p] \subseteq issued
  /\ memory = [p \in Processes |-> memory[p]]
  /\ visit \in [Visits -> Visit] /\ used \in [Codes -> SUBSET People]
  /\ \A v \in Visits :
       /\ visit[v].at # "idle" => /\ visit[v].code \in issued /\ visit[v].who \in People
                                  /\ visit[v].process \in Processes
       /\ visit[v].at = "delete" => used[visit[v].code] # {} \/ visit[v].code \in shown
  /\ \A i \in Codes : used[i] # {} => i \in issued

\* While Redis answers it has the codes that are good.
GoodIsKept == ~faulty => \A i \in issued \ (gone \cup shown) : used[i] = {} => i \in redis

\* One request at a time: a code that was used is about to be deleted, or is not in
\* Redis any more.
OneVisit == limit = 1 => \A v, o \in Underway : v = o
UsedIsDeleted ==
  limit = 1 /\ ~faulty =>
    /\ \A v \in Visits : visit[v].at = "use" => used[visit[v].code] = {}
    /\ \A i \in Codes : used[i] # {} =>
         /\ i \notin redis \/ \E v \in Visits : visit[v].at = "delete" /\ visit[v].code = i
         /\ \E t \in People : used[i] = {t}

\* The inductive invariant.
InvitesInv == InvitesTypeOK /\ VisitsAreSound /\ GoodIsKept /\ OneVisit /\ UsedIsDeleted

InvitesSpec == InvitesInit /\ [][InvitesNext]_<<limit, invites>>

=============================================================================
