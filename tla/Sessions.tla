------------------------------- MODULE Sessions -------------------------------
(***************************************************************************)
(* Sessions of one user (app/api/v1/auth.py, app/core/token_blacklist.py,  *)
(* app/core/dependencies.py).  A login gives a pair of tokens that carry   *)
(* the user's roles; a refresh checks the blacklist, reads the user,       *)
(* blacklists the old refresh token and issues a pair, in four steps.      *)
(* Tokens are revoked in the store of the process.                         *)
(***************************************************************************)
EXTENDS FallbackStore, Sequences

CONSTANTS
  Roles, Requests,
  MaxPairs,    \* how many pairs of tokens may be issued
  MaxChanges,  \* how often administrators change the user
  None

VARIABLES
  limit,       \* how many requests may be under way at once
  active, default, roles,  \* the user: users.is_active, users.role, active rows of user_roles
  pair,        \* the tokens issued: role and roles they carry, where they come
               \* from, and whether the user was active and held the role then
  alive,       \* tokens that are not past their expiry
  request,     \* where a request stands
  ended,       \* history: access tokens that were logged out
  changes      \* counts changes of the user

sessions == <<store, active, default, roles, pair, alive, request, ended, changes>>
user     == <<active, default, roles>>

Access(n)  == <<"access", n>>
Refresh(n) == <<"refresh", n>>
Issued     == DOMAIN pair
Idle       == [at |-> "idle", process |-> None, pair |-> None, role |-> None, roles |-> {}]

SessionsInit ==
  /\ StoreInit
  /\ active = TRUE /\ default \in Roles /\ roles \in {{}, {default}}
  /\ pair = <<>> /\ alive = {}
  /\ request = [r \in Requests |-> Idle]
  /\ ended = {} /\ changes = 0

ListActiveRoles == IF roles = {} THEN {default} ELSE roles

Busy == {r \in Requests : request[r].at # "idle"}
Begin(r, next) ==
  /\ request[r] = Idle /\ Cardinality(Busy) < limit
  /\ request' = [request EXCEPT ![r] = next]
Goto(r, step) == request' = [request EXCEPT ![r].at = step]
Leave(r) == request' = [request EXCEPT ![r] = Idle]
UserStays == UNCHANGED <<limit, user, changes>>

\* The payload of both tokens: the role asked for, else the default role when it
\* is in the list, else any of the list.
MakeTokens(from, role, list) ==
  /\ Len(pair) < MaxPairs
  /\ \E a \in IF role # None THEN {role} ELSE IF default \in list THEN {default} ELSE list :
       pair' = Append(pair, [role |-> a, roles |-> list, from |-> from, active |-> active])
  /\ alive' = alive \cup {Access(Len(pair) + 1), Refresh(Len(pair) + 1)}

\* POST /login: the user is read and is active ...
Login(r, p) ==
  /\ active /\ Begin(r, [Idle EXCEPT !.at = "issue", !.process = p])
  /\ UNCHANGED <<store, pair, alive, ended>> /\ UserStays

\* POST /telegram does the same with an account that is bound.
TelegramLogin(r, p) == Login(r, p)

\* ... then the roles are listed and a pair is made, for a refresh as well.
IssueTokens(r) ==
  /\ request[r].at = "issue"
  /\ MakeTokens(request[r].pair, request[r].role, ListActiveRoles)
  /\ Leave(r) /\ UNCHANGED <<store, ended>> /\ UserStays

\* POST /refresh: not expired and not in the blacklist ...
CheckRefresh(r, p, n) ==
  /\ n \in Issued /\ Refresh(n) \in alive /\ ~Found(p, Refresh(n)) /\ Get(p)
  /\ Begin(r, [Idle EXCEPT !.at = "user", !.process = p, !.pair = n])
  /\ UNCHANGED <<pair, alive, ended>> /\ UserStays

CheckUser_Anyone(r) ==
  /\ request[r].at = "user" /\ Goto(r, "rotate")
  /\ UNCHANGED <<store, pair, alive, ended>> /\ UserStays

\* ... the user exists and is active ...
CheckUser(r) ==
  /\ request[r].at = "user" /\ (IF active THEN Goto(r, "rotate") ELSE Leave(r))
  /\ UNCHANGED <<store, pair, alive, ended>> /\ UserStays

Rotate_Not(r) ==
  /\ request[r].at = "rotate"
  /\ request' = [request EXCEPT ![r].at = "issue", ![r].role = pair[request[r].pair].role]
  /\ UNCHANGED <<store, pair, alive, ended>> /\ UserStays

\* ... the old token goes to the blacklist; its role is asked for.
Rotate(r) ==
  /\ request[r].at = "rotate" /\ Put(request[r].process, Refresh(request[r].pair))
  /\ request' = [request EXCEPT ![r].at = "issue", ![r].role = pair[request[r].pair].role]
  /\ UNCHANGED <<pair, alive, ended>> /\ UserStays

\* A call with an access token is let through.
Accepts(p, n) == n \in Issued /\ Access(n) \in alive /\ ~Found(p, Access(n))

\* POST /switch-role: the role is one of the list ...
CheckSwitch(r, p, n, role) ==
  /\ Accepts(p, n) /\ Get(p) /\ active /\ role \in ListActiveRoles
  /\ Begin(r, [at |-> "switch", process |-> p, pair |-> n, role |-> role, roles |-> ListActiveRoles])
  /\ UNCHANGED <<pair, alive, ended>> /\ UserStays

\* ... the old access token, not the refresh token, goes to the blacklist.
SwitchRole(r) ==
  LET o == request[r].pair
  IN  /\ request[r].at = "switch" /\ Put(request[r].process, Access(o))
      /\ MakeTokens(None, request[r].role, request[r].roles)
      /\ ended' = ended \cup {o} /\ Leave(r) /\ UserStays

\* POST /logout revokes the access token, not the refresh token.
Logout_Forgets(p, n) ==
  /\ Accepts(p, n) /\ Get(p) /\ ended' = ended \cup {n}
  /\ UNCHANGED <<pair, alive, request>> /\ UserStays

Logout(p, n) ==
  /\ Accepts(p, n) /\ Put(p, Access(n)) /\ ended' = ended \cup {n}
  /\ UNCHANGED <<pair, alive, request>> /\ UserStays

\* The entry of a token in the blacklist expires with it; access tokens do first.
ExpireToken(k) ==
  /\ k \in alive /\ (k = Refresh(k[2]) => Access(k[2]) \notin alive)
  /\ Expire(k) /\ alive' = alive \ {k}
  /\ UNCHANGED <<pair, request, ended>> /\ UserStays

Abandon(r) ==
  /\ request[r].at # "idle" /\ Leave(r)
  /\ UNCHANGED <<store, pair, alive, ended>> /\ UserStays

\* Administrators change the user.
Change ==
  /\ changes < MaxChanges /\ changes' = changes + 1
  /\ limit = 1 => Busy = {}
  /\ UNCHANGED <<store, limit, pair, alive, request, ended>>

SetActive(b)  == Change /\ active' = b /\ UNCHANGED <<default, roles>>
GrantRole(x)  == Change /\ roles' = roles \cup {x} /\ UNCHANGED <<active, default>>
RevokeRole(x) ==
  /\ Change /\ x \in roles /\ roles' = roles \ {x}
  /\ default' \in IF x = default /\ roles' # {} THEN roles' ELSE {default}
  /\ UNCHANGED active

RedisOutage == Outage /\ UNCHANGED <<pair, alive, request, ended>> /\ UserStays
RestartProcess(p) ==
  /\ Restart(p)
  /\ request' = [r \in Requests |-> IF request[r].process = p THEN Idle ELSE request[r]]
  /\ UNCHANGED <<pair, alive, ended>> /\ UserStays

SessionsNext ==
  \/ \E r \in Requests :
       \/ \E p \in Processes : Login(r, p) \/ TelegramLogin(r, p) \/ \E n \in Issued :
            CheckRefresh(r, p, n) \/ \E x \in Roles : CheckSwitch(r, p, n, x)
       \/ IssueTokens(r) \/ SwitchRole(r) \/ CheckUser(r) \/ Rotate(r) \/ Abandon(r)
  \/ \E p \in Processes : RestartProcess(p) \/ \E n \in Issued : Logout(p, n)
  \/ \E k \in alive : ExpireToken(k)
  \/ \E b \in BOOLEAN : SetActive(b)
  \/ \E x \in Roles : GrantRole(x) \/ RevokeRole(x)
  \/ RedisOutage

-----------------------------------------------------------------------------

SessionsTypeOK ==
  /\ StoreTypeOK /\ roles \subseteq Roles /\ default \in Roles
  /\ \A n \in Issued : pair[n].roles \subseteq Roles /\ pair[n].role \in Roles
  /\ \A n \in ended : n \in Issued

\* One request at a time and Redis answering: a refresh token gives one pair.
RefreshOnce ==
  limit = 1 /\ ~faulty => \A n, m \in Issued : pair[n].from # None /\ pair[n].from = pair[m].from => n = m

\* While Redis answers, however requests overlap: no process lets through an access
\* token that was logged out or left by a switch of roles.
EndedIsRefused ==
  ~faulty => \A n \in ended, p \in Processes : ~Accepts(p, n)

\* One request at a time, whatever fails: tokens are only issued to a user that is
\* active, and carry a role of their list but for a refresh, which keeps the role
\* of the old token.
TokensAreFresh ==
  limit = 1 => \A n \in Issued :
    /\ pair[n].active
    /\ pair[n].role \in pair[n].roles \/ (pair[n].from # None /\ pair[n].role = pair[pair[n].from].role)

-----------------------------------------------------------------------------
(* What the proofs need besides *)

Step == {"idle", "issue", "user", "rotate", "switch"}
Pair == [role : Roles, roles : SUBSET Roles, from : Nat \cup {None}, active : BOOLEAN]
Call == [at : Step, process : Processes \cup {None}, pair : Nat \cup {None},
         role : Roles \cup {None}, roles : SUBSET Roles]

\* A request that is not idle runs in a process, for a pair that was issued; the
\* role it will issue is the one of that pair, or one of the list it has read.
Sound(q) ==
  /\ IF q.at = "idle" THEN q = Idle ELSE q.process \in Processes
  /\ q.at \in {"user", "rotate", "switch"} => q.pair \in Issued
  /\ q.at = "issue" => \/ q.pair = None /\ q.role = None
                       \/ q.pair \in Issued /\ q.role = pair[q.pair].role
  /\ q.at = "switch" => q.role \in q.roles
RequestsAreSound ==
  /\ active \in BOOLEAN /\ pair \in Seq(Pair) /\ request \in [Requests -> Call]
  /\ \A n \in Issued : pair[n].from \in Issued \cup {None}
  /\ \A r \in Requests : Sound(request[r])

\* While Redis answers it has the access tokens that ended.
EndedIsKept == ~faulty => \A n \in ended : Access(n) \notin alive \/ Access(n) \in redis

\* One request at a time: a refresh token that gave a pair, or is about to, is in
\* Redis unless it has expired, and only gives one.
Gives(r, n) == request[r].at \in {"user", "rotate", "issue"} /\ request[r].pair = n
Spent(n)    == Refresh(n) \notin alive \/ Refresh(n) \in redis
OneRequest  == limit = 1 => \A r, o \in Busy : r = o
UsedIsKept ==
  limit = 1 /\ ~faulty =>
    /\ \A n \in Issued : pair[n].from # None => Spent(pair[n].from)
    /\ \A r \in Requests, n \in Issued : Gives(r, n) =>
         /\ request[r].at = "issue" => Spent(n)
         /\ \A m \in Issued : pair[m].from # n
    /\ \A n, m \in Issued : pair[n].from # None /\ pair[n].from = pair[m].from => n = m

\* One request at a time: the user stays active until the pair is issued.
ActiveIsKept ==
  limit = 1 => \A r \in Requests : request[r].at \in {"rotate", "issue", "switch"} => active

\* The inductive invariant.
SessionsInv ==
  SessionsTypeOK /\ RequestsAreSound /\ EndedIsKept /\ OneRequest /\ UsedIsKept /\ ActiveIsKept
  /\ TokensAreFresh

SessionsSpec == SessionsInit /\ [][SessionsNext]_<<limit, sessions>>

=============================================================================
