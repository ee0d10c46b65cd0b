---------------------------- MODULE OfficeProofs ------------------------------
(***************************************************************************)
(* Proofs about the components that share no state with another: sessions  *)
(* and their tokens, tenants, branches, marketing and the risk of leaving, *)
(* pooled connections, the delay of a notification and the reminders of    *)
(* beat, each by itself and for any values of its constants.  The          *)
(* invariant of each is the one its module states under "What the proofs   *)
(* need besides".                                                          *)
(***************************************************************************)
EXTENDS MCOffice, FiniteSetTheorems, SequenceTheorems, TLAPS

-----------------------------------------------------------------------------
(* Sessions: the store *)

\* What is put is in Redis, unless Redis did not answer at some time.
LEMMA PutKeeps ==
  ASSUME S!StoreTypeOK, NEW p \in Processes, NEW k, S!Put(p, k)
  PROVE  S!StoreTypeOK' /\ faulty' = faulty /\ (~faulty => redis' = redis \cup {k})
BY DEF S!StoreTypeOK, S!Put, S!Connect, S!Reaches

\* What is looked for is then looked for in Redis.
LEMMA GetKeeps ==
  ASSUME S!StoreTypeOK, NEW p \in Processes, S!Get(p)
  PROVE  S!StoreTypeOK' /\ faulty' = faulty /\ redis' = redis
BY DEF S!StoreTypeOK, S!Get, S!Connect

\* What is found is in Redis, unless Redis did not answer at some time.
LEMMA FoundInRedis ==
  ASSUME S!StoreTypeOK, ~faulty, NEW p \in Processes, NEW k
  PROVE  S!Found(p, k) <=> k \in redis
BY DEF S!StoreTypeOK, S!Found, S!Reaches

\* No token of one pair is one of another.
LEMMA TokensDiffer ==
  ASSUME NEW n, NEW m
  PROVE  /\ S!Access(n) # S!Refresh(m)
         /\ S!Access(n) = S!Access(m) => n = m
         /\ S!Refresh(n) = S!Refresh(m) => n = m
BY DEF S!Access, S!Refresh

-----------------------------------------------------------------------------
(* Sessions: a request moves *)

\* A request that goes on, with its place and what it knows, keeps the invariant.
LEMMA RequestMoves ==
  ASSUME S!SessionsInv, NEW r \in Operators, NEW next \in S!Call,
         request' = [request EXCEPT ![r] = next],
         UNCHANGED <<limit, active, default, roles, pair, alive, ended>>,
         S!StoreTypeOK', faulty' = faulty, ~faulty => redis \subseteq redis',
         S!Sound(next),
         limit = 1 /\ next.at # "idle" => \A o \in Operators : o # r => request[o].at = "idle",
         limit = 1 /\ next.at \in {"rotate", "issue", "switch"} => active,
         limit = 1 /\ ~faulty /\ next.at \in {"user", "rotate", "issue"} /\ next.pair \in S!Issued =>
           /\ next.at = "issue" => S!Refresh(next.pair) \notin alive \/ S!Refresh(next.pair) \in redis'
           /\ \A m \in S!Issued : pair[m].from # next.pair
  PROVE  S!SessionsInv'
<1>1. \A o \in Operators : request'[o] = IF o = r THEN next ELSE request[o]
  BY DEF S!SessionsInv, S!RequestsAreSound
<1>2. S!SessionsTypeOK'
  BY DEF S!SessionsInv, S!SessionsTypeOK, S!Issued
<1>3. S!RequestsAreSound'
  <2>1. request' \in [Operators -> S!Call]
    BY DEF S!SessionsInv, S!RequestsAreSound
  <2>2. ASSUME NEW o \in Operators
        PROVE  S!Sound(request'[o])
    BY <1>1 DEF S!SessionsInv, S!RequestsAreSound
  <2>3. \A o \in Operators : S!Sound(request[o])'
    BY <2>2 DEF S!Sound, S!Idle, S!Issued
  <2> QED
    BY <2>1, <2>3 DEF S!SessionsInv, S!RequestsAreSound, S!Issued
<1>4. S!EndedIsKept'
  BY DEF S!SessionsInv, S!EndedIsKept, S!Access
<1>5. S!OneRequest'
  BY <1>1 DEF S!SessionsInv, S!OneRequest, S!Busy
<1>6. S!UsedIsKept'
  BY <1>1 DEF S!SessionsInv, S!UsedIsKept, S!Spent, S!Gives, S!Issued, S!Refresh
<1>7. S!ActiveIsKept'
  BY <1>1 DEF S!SessionsInv, S!ActiveIsKept
<1>8. S!TokensAreFresh'
  BY DEF S!SessionsInv, S!TokensAreFresh, S!Issued
<1> QED
  BY <1>2, <1>3, <1>4, <1>5, <1>6, <1>7, <1>8 DEF S!SessionsInv

\* A request that begins is alone when requests are served one at a time.
LEMMA BeginsAlone ==
  ASSUME S!SessionsInv, limit = 1, NEW r \in Operators, NEW next, S!Begin(r, next)
  PROVE  \A o \in Operators : request[o].at = "idle"
<1>1. Cardinality(S!Busy) < limit
  BY Zenon DEF S!Begin, S!Cardinality, Cardinality
<1>2. IsFiniteSet(S!Busy)
  BY OfficeAssumption, FS_Subset DEF S!Busy
<1>3. Cardinality(S!Busy) = 0
  BY <1>1, <1>2, FS_CardinalityType
<1>4. S!Busy = {}
  BY <1>2, <1>3, FS_EmptySet
<1> QED
  BY <1>4 DEF S!Busy

\* A login reads an active user and has no token to spend.
LEMMA LoginStep ==
  ASSUME S!SessionsInv, NEW r \in Operators, NEW p \in Processes, S!Login(r, p)
  PROVE  S!SessionsInv'
<1> DEFINE next == [S!Idle EXCEPT !.at = "issue", !.process = p]
<1>1. /\ next.at = "issue" /\ next.process = p /\ next.pair = None /\ next.role = None
      /\ next \in S!Call
  BY DEF S!Idle, S!Call, S!Step
<1>2. /\ active /\ S!Begin(r, next) /\ request' = [request EXCEPT ![r] = next]
      /\ UNCHANGED <<limit, active, default, roles, pair, alive, ended>>
      /\ UNCHANGED <<up, redis, memory, client, faulty>>
  BY DEF S!Login, S!Begin, S!UserStays, S!store, S!user
<1>3. S!StoreTypeOK' /\ faulty' = faulty /\ redis' = redis
  BY <1>2 DEF S!SessionsInv, S!SessionsTypeOK, S!StoreTypeOK
<1>4. S!Sound(next) /\ next.pair \notin S!Issued
  <2>1. None \notin S!Issued
    BY NoneAssumption DEF S!SessionsInv, S!RequestsAreSound, S!Issued
  <2> QED
    BY <1>1, <2>1 DEF S!Sound
<1>5. limit = 1 => \A o \in Operators : o # r => request[o].at = "idle"
  BY <1>2, BeginsAlone
<1> HIDE DEF next
<1> QED
  BY <1>1, <1>2, <1>3, <1>4, <1>5, RequestMoves

\* A refresh finds that its token is not in Redis: it has given no pair.
LEMMA CheckRefreshStep ==
  ASSUME S!SessionsInv, NEW r \in Operators, NEW p \in Processes, NEW n \in S!Issued,
         S!CheckRefresh(r, p, n)
  PROVE  S!SessionsInv'
<1> DEFINE next == [S!Idle EXCEPT !.at = "user", !.process = p, !.pair = n]
<1>0. n \in Nat
  BY DEF S!SessionsInv, S!RequestsAreSound, S!Issued
<1>1. /\ next.at = "user" /\ next.process = p /\ next.pair = n /\ next \in S!Call
  BY <1>0 DEF S!Idle, S!Call, S!Step
<1>2. /\ S!Refresh(n) \in alive /\ ~S!Found(p, S!Refresh(n)) /\ S!Get(p)
      /\ S!Begin(r, next) /\ request' = [request EXCEPT ![r] = next]
      /\ UNCHANGED <<limit, active, default, roles, pair, alive, ended>>
  BY DEF S!CheckRefresh, S!Begin, S!UserStays, S!user
<1>3. S!StoreTypeOK' /\ faulty' = faulty /\ redis' = redis
  BY <1>2, GetKeeps DEF S!SessionsInv, S!SessionsTypeOK
<1>4. S!Sound(next)
  BY <1>1 DEF S!Sound
<1>5. limit = 1 => \A o \in Operators : o # r => request[o].at = "idle"
  BY <1>2, BeginsAlone
<1>6. limit = 1 /\ ~faulty => \A m \in S!Issued : pair[m].from # n
  <2> SUFFICES ASSUME limit = 1, ~faulty, NEW m \in S!Issued, pair[m].from = n
               PROVE  FALSE
    OBVIOUS
  <2>1. n # None
    BY <1>0, NoneAssumption
  <2>2. S!Spent(n)
    BY <2>1 DEF S!SessionsInv, S!UsedIsKept
  <2>3. S!Refresh(n) \notin redis
    BY <1>2, FoundInRedis DEF S!SessionsInv, S!SessionsTypeOK
  <2> QED
    BY <1>2, <2>2, <2>3 DEF S!Spent
<1> HIDE DEF next
<1> QED
  BY <1>1, <1>2, <1>3, <1>4, <1>5, <1>6, RequestMoves

\* A switch of roles asks for one of the list.
LEMMA CheckSwitchStep ==
  ASSUME S!SessionsInv, NEW r \in Operators, NEW p \in Processes, NEW n \in S!Issued,
         NEW x \in Roles, S!CheckSwitch(r, p, n, x)
  PROVE  S!SessionsInv'
<1> DEFINE next == [at |-> "switch", process |-> p, pair |-> n, role |-> x,
                    roles |-> S!ListActiveRoles]
<1>0. n \in Nat /\ S!ListActiveRoles \subseteq Roles
  BY DEF S!SessionsInv, S!RequestsAreSound, S!SessionsTypeOK, S!Issued, S!ListActiveRoles
<1>1. next \in S!Call
  BY <1>0 DEF S!Call, S!Step
<1>2. /\ S!Get(p) /\ active /\ x \in S!ListActiveRoles
      /\ S!Begin(r, next) /\ request' = [request EXCEPT ![r] = next]
      /\ UNCHANGED <<limit, active, default, roles, pair, alive, ended>>
  BY DEF S!CheckSwitch, S!Begin, S!UserStays, S!user
<1>3. S!StoreTypeOK' /\ faulty' = faulty /\ redis' = redis
  BY <1>2, GetKeeps DEF S!SessionsInv, S!SessionsTypeOK
<1>4. S!Sound(next)
  BY <1>2 DEF S!Sound
<1>5. limit = 1 => \A o \in Operators : o # r => request[o].at = "idle"
  BY <1>2, BeginsAlone
<1>6. next.at = "switch"
  OBVIOUS
<1> HIDE DEF next
<1> QED
  BY <1>1, <1>2, <1>3, <1>4, <1>5, <1>6, RequestMoves

\* Another request is idle while one is under way, when they are served one at a time.
LEMMA OthersIdle ==
  ASSUME S!SessionsInv, limit = 1, NEW r \in Operators, request[r].at # "idle"
  PROVE  \A o \in Operators : o # r => request[o].at = "idle"
BY DEF S!SessionsInv, S!OneRequest, S!Busy

\* A request ends without a pair.
LEMMA LeaveStep ==
  ASSUME S!SessionsInv, NEW r \in Operators, S!Leave(r),
         UNCHANGED <<limit, active, default, roles, pair, alive, ended>>,
         UNCHANGED <<up, redis, memory, client, faulty>>
  PROVE  S!SessionsInv'
<1>1. S!Idle \in S!Call /\ S!Idle.at = "idle"
  BY DEF S!Idle, S!Call, S!Step
<1>2. S!StoreTypeOK' /\ faulty' = faulty /\ redis' = redis
  BY DEF S!SessionsInv, S!SessionsTypeOK, S!StoreTypeOK
<1>3. S!Sound(S!Idle)
  BY <1>1 DEF S!Sound
<1>4. request' = [request EXCEPT ![r] = S!Idle]
  BY DEF S!Leave
<1> QED
  BY <1>1, <1>2, <1>3, <1>4, RequestMoves

\* What a request is under way.
LEMMA RequestType ==
  ASSUME S!SessionsInv, NEW r \in Operators
  PROVE  request[r] \in S!Call /\ S!Sound(request[r]) /\ request \in [Operators -> S!Call]
BY DEF S!SessionsInv, S!RequestsAreSound

\* The user is active, or the refresh ends.
LEMMA CheckUserStep ==
  ASSUME S!SessionsInv, NEW r \in Operators, S!CheckUser(r)
  PROVE  S!SessionsInv'
<1>1. /\ request[r].at = "user"
      /\ UNCHANGED <<limit, active, default, roles, pair, alive, ended>>
      /\ UNCHANGED <<up, redis, memory, client, faulty>>
  BY DEF S!CheckUser, S!UserStays, S!user, S!store
<1>2. CASE ~active
  BY <1>1, <1>2, LeaveStep DEF S!CheckUser
<1>3. CASE active
  <2> DEFINE next == [request[r] EXCEPT !.at = "rotate"]
  <2>1. request' = [request EXCEPT ![r] = next]
    BY <1>3, RequestType DEF S!CheckUser, S!Goto
  <2>2. /\ next \in S!Call /\ next.at = "rotate" /\ next.pair = request[r].pair
        /\ next.process = request[r].process
    BY RequestType DEF S!Call, S!Step
  <2>3. S!Sound(next)
    BY <1>1, <2>2, RequestType DEF S!Sound
  <2>4. S!StoreTypeOK' /\ faulty' = faulty /\ redis' = redis
    BY <1>1 DEF S!SessionsInv, S!SessionsTypeOK, S!StoreTypeOK
  <2>5. limit = 1 => \A o \in Operators : o # r => request[o].at = "idle"
    BY <1>1, OthersIdle
  <2>6. limit = 1 /\ ~faulty /\ next.pair \in S!Issued =>
          \A m \in S!Issued : pair[m].from # next.pair
    BY <1>1, <2>2 DEF S!SessionsInv, S!UsedIsKept, S!Gives
  <2> HIDE DEF next
  <2> QED
    BY <1>1, <1>3, <2>1, <2>2, <2>3, <2>4, <2>5, <2>6, RequestMoves
<1> QED
  BY <1>2, <1>3

\* The old refresh token is put in Redis.
LEMMA RotateStep ==
  ASSUME S!SessionsInv, NEW r \in Operators, S!Rotate(r)
  PROVE  S!SessionsInv'
<1> DEFINE n    == request[r].pair
           next == [request[r] EXCEPT !.at = "issue", !.role = pair[n].role]
<1>1. /\ request[r].at = "rotate" /\ S!Put(request[r].process, S!Refresh(n))
      /\ UNCHANGED <<limit, active, default, roles, pair, alive, ended>>
  BY DEF S!Rotate, S!UserStays, S!user
<1>2. n \in S!Issued /\ request[r].process \in Processes
  BY <1>1, RequestType DEF S!Sound
<1>3. pair[n].role \in Roles
  BY <1>2 DEF S!SessionsInv, S!SessionsTypeOK
<1>4. /\ next \in S!Call /\ next.at = "issue" /\ next.pair = n
      /\ next.process = request[r].process /\ next.role = pair[n].role
  BY <1>3, RequestType DEF S!Call, S!Step
<1>5. request' = [request EXCEPT ![r] = next]
  <2>1. request' = [request EXCEPT ![r].at = "issue", ![r].role = pair[n].role]
    BY DEF S!Rotate
  <2> QED
    BY <2>1, RequestType
<1>6. S!StoreTypeOK' /\ faulty' = faulty /\ (~faulty => redis' = redis \cup {S!Refresh(n)})
  BY <1>1, <1>2, PutKeeps DEF S!SessionsInv, S!SessionsTypeOK
<1>7. S!Sound(next)
  BY <1>2, <1>4 DEF S!Sound
<1>8. limit = 1 => active /\ \A o \in Operators : o # r => request[o].at = "idle"
  BY <1>1, OthersIdle DEF S!SessionsInv, S!ActiveIsKept
<1>9. limit = 1 /\ ~faulty => \A m \in S!Issued : pair[m].from # n
  BY <1>1, <1>2 DEF S!SessionsInv, S!UsedIsKept, S!Gives
<1> HIDE DEF next, n
<1> QED
  BY <1>1, <1>2, <1>4, <1>5, <1>6, <1>7, <1>8, <1>9, RequestMoves

-----------------------------------------------------------------------------
(* Sessions: a pair is made *)

\* The pair carries a role of its list or the role asked for, and both of its
\* tokens are new.
LEMMA PairMade ==
  ASSUME S!SessionsInv, NEW from \in S!Issued \cup {None}, NEW role \in Roles \cup {None},
         NEW list \in SUBSET Roles, S!MakeTokens(from, role, list)
  PROVE  \E a \in Roles :
           LET new == [role |-> a, roles |-> list, from |-> from, active |-> active]
               n   == Len(pair) + 1
           IN  /\ role # None => a = role
               /\ role = None => a \in list
               /\ pair' = Append(pair, new) /\ pair' \in Seq(S!Pair)
               /\ S!Issued' = S!Issued \cup {n} /\ n \notin S!Issued
               /\ pair'[n] = new /\ \A m \in S!Issued : pair'[m] = pair[m]
               /\ alive' = alive \cup {S!Access(n), S!Refresh(n)}
<1>1. PICK a \in IF role # None THEN {role} ELSE IF default \in list THEN {default} ELSE list :
             pair' = Append(pair, [role |-> a, roles |-> list, from |-> from, active |-> active])
  BY DEF S!MakeTokens
<1>2. a \in Roles /\ (role # None => a = role) /\ (role = None => a \in list)
  BY <1>1
<1> DEFINE new == [role |-> a, roles |-> list, from |-> from, active |-> active]
           n   == Len(pair) + 1
<1>3. new \in S!Pair /\ pair \in Seq(S!Pair)
  BY <1>2 DEF S!Pair, S!SessionsInv, S!RequestsAreSound, S!Issued
<1>4. pair' = Append(pair, new) /\ alive' = alive \cup {S!Access(n), S!Refresh(n)}
  BY <1>1 DEF S!MakeTokens
<1> HIDE DEF new
<1>5. /\ pair' \in Seq(S!Pair) /\ Len(pair') = n
      /\ pair'[n] = new /\ \A m \in 1..Len(pair) : pair'[m] = pair[m]
  BY <1>3, <1>4
<1>6. S!Issued = 1..Len(pair) /\ S!Issued' = 1..n /\ Len(pair) \in Nat
  BY <1>3, <1>5 DEF S!Issued
<1>7. S!Issued' = S!Issued \cup {n} /\ n \notin S!Issued
  BY <1>6
<1> QED
  BY <1>2, <1>4, <1>5, <1>6, <1>7 DEF new

\* The request ends with its pair; another refresh of the same token is over.
LEMMA PairStep ==
  ASSUME S!SessionsInv, NEW r \in Operators, request[r].at \in {"issue", "switch"},
         NEW from \in S!Issued \cup {None}, NEW role \in Roles \cup {None}, NEW list \in SUBSET Roles,
         S!MakeTokens(from, role, list), S!Leave(r),
         UNCHANGED <<limit, active, default, roles>>,
         S!StoreTypeOK', faulty' = faulty, ~faulty => redis \subseteq redis',
         role # None /\ role \notin list => from # None /\ role = pair[from].role,
         from # None => request[r].at = "issue" /\ from = request[r].pair,
         \/ ended' = ended
         \/ \E o \in S!Issued : ended' = ended \cup {o} /\ (~faulty => S!Access(o) \in redis')
  PROVE  S!SessionsInv'
<1> DEFINE n == Len(pair) + 1
<1>1. PICK a \in Roles :
        /\ role # None => a = role
        /\ role = None => a \in list
        /\ pair' \in Seq(S!Pair)
        /\ S!Issued' = S!Issued \cup {n} /\ n \notin S!Issued
        /\ pair'[n] = [role |-> a, roles |-> list, from |-> from, active |-> active]
        /\ \A m \in S!Issued : pair'[m] = pair[m]
        /\ alive' = alive \cup {S!Access(n), S!Refresh(n)}
  BY PairMade
<1>2. /\ pair'[n].role = a /\ pair'[n].roles = list /\ pair'[n].from = from
      /\ pair'[n].active = active
  BY <1>1
<1>3. \A o \in Operators : request'[o] = IF o = r THEN S!Idle ELSE request[o]
  BY RequestType DEF S!Leave
<1>4. S!Idle.at = "idle" /\ S!Idle \in S!Call
  BY DEF S!Idle, S!Call, S!Step
<1> HIDE DEF n
<1>5. S!SessionsTypeOK'
  <2>1. \A m \in S!Issued' : pair'[m].roles \subseteq Roles /\ pair'[m].role \in Roles
    BY <1>1, <1>2 DEF S!SessionsInv, S!SessionsTypeOK
  <2>2. \A m \in ended' : m \in S!Issued'
    BY <1>1 DEF S!SessionsInv, S!SessionsTypeOK
  <2> QED
    BY <2>1, <2>2 DEF S!SessionsInv, S!SessionsTypeOK
<1>6. S!RequestsAreSound'
  <2>1. request' \in [Operators -> S!Call]
    BY <1>4, RequestType DEF S!Leave
  <2>2. \A m \in S!Issued' : pair'[m].from \in S!Issued' \cup {None}
    BY <1>1, <1>2 DEF S!SessionsInv, S!RequestsAreSound
  <2>3. ASSUME NEW o \in Operators
        PROVE  S!Sound(request[o])'
    <3>1. CASE o = r
      BY <1>3, <1>4, <3>1 DEF S!Sound, S!Idle
    <3>2. CASE o # r
      <4>1. request'[o] = request[o] /\ S!Sound(request[o])
        BY <1>3, <3>2, RequestType
      <4> QED
        BY <1>1, <4>1 DEF S!Sound, S!Idle
    <3> QED
      BY <3>1, <3>2
  <2> QED
    BY <1>1, <2>1, <2>2, <2>3 DEF S!SessionsInv, S!RequestsAreSound
<1>7. S!EndedIsKept'
  <2> SUFFICES ASSUME ~faulty, NEW m \in ended', S!Access(m) \in alive'
               PROVE  S!Access(m) \in redis'
    BY DEF S!EndedIsKept, S!Access
  <2>1. CASE m \in ended
    <3>1. m # n
      BY <1>1, <2>1 DEF S!SessionsInv, S!SessionsTypeOK
    <3>2. S!Access(m) \in alive
      BY <1>1, <3>1, TokensDiffer
    <3> QED
      BY <2>1, <3>2 DEF S!SessionsInv, S!EndedIsKept
  <2>2. CASE m \notin ended
    BY <2>2
  <2> QED
    BY <2>1, <2>2
<1>8. S!OneRequest'
  BY <1>3, <1>4 DEF S!SessionsInv, S!OneRequest, S!Busy
<1>9. S!ActiveIsKept'
  BY <1>3, <1>4 DEF S!SessionsInv, S!ActiveIsKept
<1>10. S!UsedIsKept'
  <2> SUFFICES ASSUME limit = 1, ~faulty
               PROVE  /\ \A k \in S!Issued' : pair'[k].from # None => S!Spent(pair[k].from)'
                      /\ \A o \in Operators : request'[o].at = "idle"
                      /\ \A k, m \in S!Issued' :
                           pair'[k].from # None /\ pair'[k].from = pair'[m].from => k = m
    BY DEF S!UsedIsKept, S!Gives
  <2>1. \A k \in S!Issued : S!Spent(k) => S!Spent(k)'
    <3> SUFFICES ASSUME NEW k \in S!Issued, S!Spent(k), S!Refresh(k) \in alive'
                 PROVE  S!Refresh(k) \in redis'
      BY DEF S!Spent, S!Refresh
    <3>1. S!Refresh(k) \in alive
      BY <1>1, TokensDiffer
    <3> QED
      BY <3>1 DEF S!Spent
  <2>2. from # None => S!Spent(from) /\ \A m \in S!Issued : pair[m].from # from
    BY DEF S!SessionsInv, S!UsedIsKept, S!Gives
  <2>3. \A k \in S!Issued : pair[k].from # None => pair[k].from \in S!Issued /\ S!Spent(pair[k].from)
    BY DEF S!SessionsInv, S!UsedIsKept, S!RequestsAreSound
  <2>4. ASSUME NEW k \in S!Issued', pair'[k].from # None
        PROVE  S!Spent(pair[k].from)'
    <3>1. \E x \in S!Issued : x = pair'[k].from /\ S!Spent(x)
      BY <1>1, <1>2, <2>2, <2>3, <2>4
    <3>2. PICK x \in S!Issued : x = pair'[k].from /\ S!Spent(x)'
      BY <2>1, <3>1
    <3> QED
      BY <3>2 DEF S!Spent, S!Refresh
  <2>5. \A o \in Operators : request'[o].at = "idle"
    BY <1>3, <1>4, OthersIdle
  <2>6. ASSUME NEW k \in S!Issued', NEW m \in S!Issued', pair'[k].from # None,
               pair'[k].from = pair'[m].from
        PROVE  k = m
    BY <1>1, <1>2, <2>2, <2>6 DEF S!SessionsInv, S!UsedIsKept
  <2> QED
    BY <2>4, <2>5, <2>6
<1>11. S!TokensAreFresh'
  <2> SUFFICES ASSUME limit = 1, NEW m \in S!Issued'
               PROVE  /\ pair'[m].active
                      /\ \/ pair'[m].role \in pair'[m].roles
                         \/ pair'[m].from # None /\ pair'[m].role = pair'[pair'[m].from].role
    BY DEF S!TokensAreFresh
  <2>1. CASE m = n
    <3>1. active
      BY DEF S!SessionsInv, S!ActiveIsKept
    <3>2. from # None => pair'[from] = pair[from]
      BY <1>1
    <3> QED
      BY <1>1, <1>2, <2>1, <3>1, <3>2
  <2>2. CASE m \in S!Issued
    <3>1. pair'[m] = pair[m] /\ (pair[m].from # None => pair'[pair[m].from] = pair[pair[m].from])
      BY <1>1, <2>2 DEF S!SessionsInv, S!RequestsAreSound
    <3> QED
      BY <2>2, <3>1 DEF S!SessionsInv, S!TokensAreFresh
  <2> QED
    BY <1>1, <2>1, <2>2
<1> QED
  BY <1>5, <1>6, <1>7, <1>8, <1>9, <1>10, <1>11 DEF S!SessionsInv
\* A pair is made at the end of a login or of a refresh.
LEMMA IssueStep ==
  ASSUME S!SessionsInv, NEW r \in Operators, S!IssueTokens(r)
  PROVE  S!SessionsInv'
<1>1. /\ request[r].at = "issue" /\ S!Leave(r)
      /\ S!MakeTokens(request[r].pair, request[r].role, S!ListActiveRoles)
      /\ UNCHANGED <<limit, active, default, roles, ended>>
      /\ UNCHANGED <<up, redis, memory, client, faulty>>
  BY DEF S!IssueTokens, S!UserStays, S!user, S!store
<1>2. S!ListActiveRoles \subseteq Roles
  BY DEF S!SessionsInv, S!SessionsTypeOK, S!ListActiveRoles
<1>3. \/ request[r].pair = None /\ request[r].role = None
      \/ /\ request[r].pair \in S!Issued /\ request[r].role = pair[request[r].pair].role
         /\ request[r].pair # None
  <2>1. None \notin S!Issued
    BY NoneAssumption DEF S!SessionsInv, S!RequestsAreSound, S!Issued
  <2> QED
    BY <1>1, <2>1, RequestType DEF S!Sound
<1>4. request[r].role \in Roles \cup {None}
  BY RequestType DEF S!Call
<1>5. S!StoreTypeOK' /\ faulty' = faulty /\ redis' = redis
  BY <1>1 DEF S!SessionsInv, S!SessionsTypeOK, S!StoreTypeOK
<1> DEFINE from == request[r].pair
           role == request[r].role
           list == S!ListActiveRoles
<1>6. /\ from \in S!Issued \cup {None} /\ role \in Roles \cup {None} /\ list \in SUBSET Roles
      /\ S!MakeTokens(from, role, list)
      /\ (role # None /\ role \notin list => from # None /\ role = pair[from].role)
      /\ (from # None => request[r].at = "issue" /\ from = request[r].pair)
  BY <1>1, <1>2, <1>3, <1>4
<1> HIDE DEF from, role, list
<1> QED
  BY <1>1, <1>5, <1>6, PairStep

\* The access token of the role that is left is put in Redis before the pair is made.
LEMMA SwitchStep ==
  ASSUME S!SessionsInv, NEW r \in Operators, S!SwitchRole(r)
  PROVE  S!SessionsInv'
<1> DEFINE o    == request[r].pair
           role == request[r].role
           list == request[r].roles
<1>1. /\ request[r].at = "switch" /\ S!Leave(r) /\ S!Put(request[r].process, S!Access(o))
      /\ S!MakeTokens(None, role, list)
      /\ ended' = ended \cup {o}
      /\ UNCHANGED <<limit, active, default, roles>>
  BY DEF S!SwitchRole, S!UserStays, S!user
<1>2. o \in S!Issued /\ request[r].process \in Processes /\ role \in list
  BY <1>1, RequestType DEF S!Sound
<1>3. role \in Roles \cup {None} /\ list \in SUBSET Roles
  BY RequestType DEF S!Call
<1>4. S!StoreTypeOK' /\ faulty' = faulty /\ (~faulty => redis' = redis \cup {S!Access(o)})
  BY <1>1, <1>2, PutKeeps DEF S!SessionsInv, S!SessionsTypeOK
<1>5. \E q \in S!Issued : ended' = ended \cup {q} /\ (~faulty => S!Access(q) \in redis')
  BY <1>1, <1>2, <1>4
<1>6. ~faulty => redis \subseteq redis'
  BY <1>4
<1> HIDE DEF o, role, list
<1> QED
  BY <1>1, <1>2, <1>3, <1>4, <1>5, <1>6, PairStep

-----------------------------------------------------------------------------
(* Sessions: the tokens, the user and the store change *)

\* No request moves and no pair is made; tokens that end are in Redis, and tokens
\* leave Redis only when they have expired.
LEMMA TokensStep ==
  ASSUME S!SessionsInv, UNCHANGED <<limit, pair, request>>,
         S!StoreTypeOK', faulty' = faulty,
         active' \in BOOLEAN, default' \in Roles, roles' \subseteq Roles,
         limit = 1 => active' = active \/ S!Busy = {},
         alive' \subseteq alive,
         ~faulty => \A k \in redis : k \in redis' \/ k \notin alive',
         \/ ended' = ended
         \/ \E o \in S!Issued : ended' = ended \cup {o} /\ (~faulty => S!Access(o) \in redis')
  PROVE  S!SessionsInv'
<1>1. S!Issued' = S!Issued
  BY DEF S!Issued
<1>2. S!SessionsTypeOK'
  <2>1. \A n \in ended' : n \in S!Issued
    BY DEF S!SessionsInv, S!SessionsTypeOK
  <2> QED
    BY <1>1, <2>1 DEF S!SessionsInv, S!SessionsTypeOK
<1>3. S!RequestsAreSound'
  BY <1>1 DEF S!SessionsInv, S!RequestsAreSound, S!Sound, S!Idle
<1>4. S!EndedIsKept'
  <2> SUFFICES ASSUME ~faulty, NEW n \in ended', S!Access(n) \in alive'
               PROVE  S!Access(n) \in redis'
    BY DEF S!EndedIsKept, S!Access
  <2>1. CASE n \in ended
    BY <2>1 DEF S!SessionsInv, S!EndedIsKept
  <2>2. CASE n \notin ended
    BY <2>2
  <2> QED
    BY <2>1, <2>2
<1>5. S!OneRequest'
  BY DEF S!SessionsInv, S!OneRequest, S!Busy
<1>6. S!UsedIsKept'
  <2>1. ~faulty => \A n : S!Spent(n) => S!Spent(n)'
    BY DEF S!Spent, S!Refresh
  <2> QED
    BY <1>1, <2>1 DEF S!SessionsInv, S!UsedIsKept, S!Gives
<1>7. S!ActiveIsKept'
  BY DEF S!SessionsInv, S!ActiveIsKept, S!Busy
<1>8. S!TokensAreFresh'
  BY <1>1 DEF S!SessionsInv, S!TokensAreFresh
<1> QED
  BY <1>2, <1>3, <1>4, <1>5, <1>6, <1>7, <1>8 DEF S!SessionsInv

\* POST /logout.
LEMMA LogoutStep ==
  ASSUME S!SessionsInv, NEW p \in Processes, NEW n \in S!Issued, S!Logout(p, n)
  PROVE  S!SessionsInv'
<1>1. /\ S!Put(p, S!Access(n)) /\ ended' = ended \cup {n}
      /\ UNCHANGED <<limit, active, default, roles, pair, alive, request>>
  BY DEF S!Logout, S!UserStays, S!user
<1>2. S!StoreTypeOK' /\ faulty' = faulty /\ (~faulty => redis' = redis \cup {S!Access(n)})
  BY <1>1, PutKeeps DEF S!SessionsInv, S!SessionsTypeOK
<1>3. active' \in BOOLEAN /\ default' \in Roles /\ roles' \subseteq Roles
  BY <1>1 DEF S!SessionsInv, S!SessionsTypeOK, S!RequestsAreSound
<1> QED
  BY <1>1, <1>2, <1>3, TokensStep

\* A token and its entry expire together.
LEMMA ExpireStep ==
  ASSUME S!SessionsInv, NEW k \in alive, S!ExpireToken(k)
  PROVE  S!SessionsInv'
<1>1. /\ S!Expire(k) /\ alive' = alive \ {k}
      /\ UNCHANGED <<limit, active, default, roles, pair, request, ended>>
  BY DEF S!ExpireToken, S!UserStays, S!user
<1>2. S!StoreTypeOK' /\ faulty' = faulty /\ redis' = redis \ {k}
  BY <1>1 DEF S!SessionsInv, S!SessionsTypeOK, S!StoreTypeOK, S!Expire
<1>3. active' \in BOOLEAN /\ default' \in Roles /\ roles' \subseteq Roles
  BY <1>1 DEF S!SessionsInv, S!SessionsTypeOK, S!RequestsAreSound
<1> QED
  BY <1>1, <1>2, <1>3, TokensStep

\* Administrators change the user between requests, when those are served one at a time.
LEMMA ChangeStep ==
  ASSUME S!SessionsInv,
         (\E b \in BOOLEAN : S!SetActive(b)) \/ (\E x \in Roles : S!GrantRole(x) \/ S!RevokeRole(x))
  PROVE  S!SessionsInv'
<1>1. /\ UNCHANGED <<limit, pair, alive, request, ended>>
      /\ UNCHANGED <<up, redis, memory, client, faulty>>
      /\ limit = 1 => S!Busy = {}
  BY DEF S!SetActive, S!GrantRole, S!RevokeRole, S!Change, S!store
<1>2. active' \in BOOLEAN /\ default' \in Roles /\ roles' \subseteq Roles
  <2>1. active \in BOOLEAN /\ default \in Roles /\ roles \subseteq Roles
    BY DEF S!SessionsInv, S!SessionsTypeOK, S!RequestsAreSound
  <2>2. ASSUME NEW b \in BOOLEAN, S!SetActive(b)
        PROVE  active' \in BOOLEAN /\ default' \in Roles /\ roles' \subseteq Roles
    BY <2>1, <2>2 DEF S!SetActive
  <2>3. ASSUME NEW x \in Roles, S!GrantRole(x)
        PROVE  active' \in BOOLEAN /\ default' \in Roles /\ roles' \subseteq Roles
    BY <2>1, <2>3 DEF S!GrantRole
  <2>4. ASSUME NEW x \in Roles, S!RevokeRole(x)
        PROVE  active' \in BOOLEAN /\ default' \in Roles /\ roles' \subseteq Roles
    BY <2>1, <2>4 DEF S!RevokeRole
  <2> QED
    BY <2>2, <2>3, <2>4
<1>3. S!StoreTypeOK' /\ faulty' = faulty /\ redis' = redis
  BY <1>1 DEF S!SessionsInv, S!SessionsTypeOK, S!StoreTypeOK
<1> QED
  BY <1>1, <1>2, <1>3, TokensStep

\* After a fault the store promises nothing; requests stand where they stood, or are lost.
LEMMA FaultyStep ==
  ASSUME S!SessionsInv, UNCHANGED <<limit, active, default, roles, pair, alive, ended>>,
         S!StoreTypeOK', faulty' = TRUE, request' = [r \in Operators |-> request'[r]],
         \A r \in Operators : request'[r] \in {S!Idle, request[r]}
  PROVE  S!SessionsInv'
<1>1. S!Issued' = S!Issued
  BY DEF S!Issued
<1>2. S!Idle \in S!Call /\ S!Idle.at = "idle"
  BY DEF S!Idle, S!Call, S!Step
<1>3. S!SessionsTypeOK'
  BY <1>1 DEF S!SessionsInv, S!SessionsTypeOK
<1>4. S!RequestsAreSound'
  <2>1. request' \in [Operators -> S!Call]
    BY <1>2, RequestType
  <2>2. ASSUME NEW r \in Operators
        PROVE  S!Sound(request[r])'
    <3>1. S!Sound(request'[r])
      BY <1>2, RequestType DEF S!Sound
    <3> QED
      BY <1>1, <3>1 DEF S!Sound, S!Idle
  <2> QED
    BY <1>1, <2>1, <2>2 DEF S!SessionsInv, S!RequestsAreSound
<1>5. S!EndedIsKept' /\ S!UsedIsKept'
  BY DEF S!EndedIsKept, S!UsedIsKept
<1>6. S!OneRequest'
  BY <1>2 DEF S!SessionsInv, S!OneRequest, S!Busy
<1>7. S!ActiveIsKept'
  BY <1>2 DEF S!SessionsInv, S!ActiveIsKept
<1>8. S!TokensAreFresh'
  BY <1>1 DEF S!SessionsInv, S!TokensAreFresh
<1> QED
  BY <1>3, <1>4, <1>5, <1>6, <1>7, <1>8 DEF S!SessionsInv

\* Redis does not answer, or answers again.
LEMMA OutageStep ==
  ASSUME S!SessionsInv, S!RedisOutage
  PROVE  S!SessionsInv'
<1>1. S!StoreTypeOK' /\ faulty' = TRUE
  BY DEF S!SessionsInv, S!SessionsTypeOK, S!StoreTypeOK, S!RedisOutage, S!Outage
<1>2. UNCHANGED <<limit, active, default, roles, pair, alive, request, ended>>
  BY DEF S!RedisOutage, S!UserStays, S!user
<1>3. request' = [r \in Operators |-> request'[r]]
  BY <1>2 DEF S!SessionsInv, S!RequestsAreSound
<1>4. \A r \in Operators : request'[r] \in {S!Idle, request[r]}
  BY <1>2
<1> QED
  BY <1>1, <1>2, <1>3, <1>4, FaultyStep

\* The requests of a process are lost with it.
LEMMA RestartStep ==
  ASSUME S!SessionsInv, NEW p \in Processes, S!RestartProcess(p)
  PROVE  S!SessionsInv'
<1>1. S!StoreTypeOK' /\ faulty' = TRUE
  BY DEF S!SessionsInv, S!SessionsTypeOK, S!StoreTypeOK, S!RestartProcess, S!Restart
<1>2. /\ UNCHANGED <<limit, active, default, roles, pair, alive, ended>>
      /\ request' = [r \in Operators |-> IF request[r].process = p THEN S!Idle ELSE request[r]]
  BY DEF S!RestartProcess, S!UserStays, S!user
<1>3. \A r \in Operators : request'[r] \in {S!Idle, request[r]}
  BY <1>2
<1> QED
  BY <1>1, <1>2, <1>3, FaultyStep

-----------------------------------------------------------------------------
(* Sessions: the theorems *)

\* Every step of the sessions keeps the invariant.
LEMMA SessionsStep ==
  ASSUME S!SessionsInv, S!SessionsNext
  PROVE  S!SessionsInv'
<1>1. ASSUME NEW r \in Operators, NEW p \in Processes, S!Login(r, p) \/ S!TelegramLogin(r, p)
      PROVE  S!SessionsInv'
  BY <1>1, LoginStep DEF S!TelegramLogin
<1>2. ASSUME NEW r \in Operators, NEW p \in Processes, NEW n \in S!Issued,
             S!CheckRefresh(r, p, n) \/ \E x \in Roles : S!CheckSwitch(r, p, n, x)
      PROVE  S!SessionsInv'
  BY <1>2, CheckRefreshStep, CheckSwitchStep
<1>3. ASSUME NEW r \in Operators, S!IssueTokens(r) \/ S!SwitchRole(r)
      PROVE  S!SessionsInv'
  BY <1>3, IssueStep, SwitchStep
<1>4. ASSUME NEW r \in Operators, S!CheckUser(r) \/ S!Rotate(r)
      PROVE  S!SessionsInv'
  BY <1>4, CheckUserStep, RotateStep
<1>5. ASSUME NEW r \in Operators, S!Abandon(r)
      PROVE  S!SessionsInv'
  <2>1. /\ S!Leave(r) /\ UNCHANGED <<limit, active, default, roles, pair, alive, ended>>
        /\ UNCHANGED <<up, redis, memory, client, faulty>>
    BY <1>5 DEF S!Abandon, S!UserStays, S!user, S!store
  <2> QED
    BY <2>1, LeaveStep
<1>6. ASSUME NEW p \in Processes, S!RestartProcess(p) \/ \E n \in S!Issued : S!Logout(p, n)
      PROVE  S!SessionsInv'
  BY <1>6, RestartStep, LogoutStep
<1>7. ASSUME NEW k \in alive, S!ExpireToken(k)
      PROVE  S!SessionsInv'
  BY <1>7, ExpireStep
<1> QED
  BY <1>1, <1>2, <1>3, <1>4, <1>5, <1>6, <1>7, ChangeStep, OutageStep DEF S!SessionsNext

\* The invariant holds before anybody has logged in.
LEMMA SessionsStart ==
  ASSUME S!SessionsInit
  PROVE  S!SessionsInv
<1>1. pair = <<>> /\ S!Issued = {}
  BY DEF S!SessionsInit, S!Issued
<1>2. S!Idle \in S!Call /\ S!Idle.at = "idle"
  BY DEF S!Idle, S!Call, S!Step
<1>3. S!SessionsTypeOK
  BY <1>1 DEF S!SessionsInit, S!StoreInit, S!SessionsTypeOK, S!StoreTypeOK
<1>4. S!RequestsAreSound
  BY <1>1, <1>2 DEF S!SessionsInit, S!RequestsAreSound, S!Sound
<1>5. S!EndedIsKept /\ S!OneRequest /\ S!UsedIsKept /\ S!ActiveIsKept /\ S!TokensAreFresh
  BY <1>1, <1>2 DEF S!SessionsInit, S!EndedIsKept, S!OneRequest, S!Busy, S!UsedIsKept,
       S!ActiveIsKept, S!TokensAreFresh
<1> QED
  BY <1>3, <1>4, <1>5 DEF S!SessionsInv

\* The invariant of the sessions holds in every state.
LEMMA SessionsAlways == S!SessionsSpec => []S!SessionsInv
<1>1. S!SessionsInit => S!SessionsInv
  BY SessionsStart
<1>2. S!SessionsInv /\ [S!SessionsNext]_<<limit, S!sessions>> => S!SessionsInv'
  <2>1. ASSUME S!SessionsInv, UNCHANGED <<limit, S!sessions>>
        PROVE  S!SessionsInv'
    <3>1. /\ UNCHANGED <<limit, active, default, roles, pair, alive, request, ended>>
          /\ UNCHANGED <<up, redis, memory, client, faulty>>
      BY <2>1 DEF S!sessions, S!store
    <3>2. S!StoreTypeOK' /\ active' \in BOOLEAN /\ default' \in Roles /\ roles' \subseteq Roles
      BY <2>1, <3>1 DEF S!SessionsInv, S!SessionsTypeOK, S!StoreTypeOK, S!RequestsAreSound
    <3> QED
      BY <2>1, <3>1, <3>2, TokensStep
  <2> QED
    BY <2>1, SessionsStep
<1> QED
  BY <1>1, <1>2, PTL DEF S!SessionsSpec

\* The types, and: with one request at a time and Redis answering, a refresh token
\* gives one pair.
THEOREM ARefreshTokenGivesOnePair == S!SessionsSpec => []RefreshOnce
<1>1. S!SessionsInv => RefreshOnce
  <2> SUFFICES ASSUME S!SessionsInv
               PROVE  S!SessionsTypeOK /\ S!RefreshOnce
    BY DEF RefreshOnce
  <2> QED
    BY DEF S!SessionsInv, S!RefreshOnce, S!UsedIsKept
<1> QED
  BY <1>1, SessionsAlways, PTL

\* While Redis answers no process lets through an access token that has ended,
\* however requests overlap.
THEOREM EndedTokensAreRefused == S!SessionsSpec => []EndedIsRefused
<1>1. S!SessionsInv => EndedIsRefused
  <2> SUFFICES ASSUME S!SessionsInv, ~faulty, NEW n \in ended, NEW p \in Processes,
                      S!Accepts(p, n)
               PROVE  FALSE
    BY DEF EndedIsRefused, S!EndedIsRefused
  <2>1. S!Access(n) \in alive /\ ~S!Found(p, S!Access(n))
    BY DEF S!Accepts
  <2>2. S!Access(n) \notin redis
    BY <2>1, FoundInRedis DEF S!SessionsInv, S!SessionsTypeOK
  <2> QED
    BY <2>1, <2>2 DEF S!SessionsInv, S!EndedIsKept
<1> QED
  BY <1>1, SessionsAlways, PTL

\* With one request at a time, whatever fails, tokens are issued to an active user
\* and carry a role of their list, or the role of the token they replace.
THEOREM TokensAreIssuedFresh == S!SessionsSpec => []TokensAreFresh
<1>1. S!SessionsInv => TokensAreFresh
  BY DEF S!SessionsInv, TokensAreFresh
<1> QED
  BY <1>1, SessionsAlways, PTL

-----------------------------------------------------------------------------
(* Tenants *)

\* What the dashboard agrees on, record by record.
LEMMA DashboardOfRecords ==
  ASSUME T!TenantsTypeOK
  PROVE  T!DashboardAgrees <=>
           \A t \in T!Known \ crossed : tenant[t].active <=> tenant[t].status \in {"active", "trial"}
BY DEF T!DashboardAgrees, T!InStatus, T!Served, T!Known, T!TenantsTypeOK

\* A request starts: it creates, and has made nothing, or it has read a record to write.
LEMMA StartKeeps ==
  ASSUME T!TenantsInv, NEW o \in Operators, NEW next, T!Start(o, next), next.made = {},
         next.kind = "create" =>
           next.slug \in Slugs /\ next.plan \in Plans \cup {None} /\ next.admin \in BOOLEAN,
         next.kind \in T!Writes =>
           /\ next.slug \in Slugs /\ next.plan \in Plans \cup {None}
           /\ next.saw \in T!Record /\ next.saw = tenant[next.slug]
           /\ T!Changing(next.slug) # {} => next.slug \in crossed',
         crossed \subseteq crossed'
  PROVE  T!TenantsInv'
<1>1. UNCHANGED <<limit, tenant, plan, schema>> /\ doing' = [doing EXCEPT ![o] = next]
  BY DEF T!Start
<1>2. \A x \in Operators : doing'[x] = IF x = o THEN next ELSE doing[x]
  BY <1>1 DEF T!TenantsInv, T!TenantsTypeOK
<1>3. T!TenantsTypeOK'
  <2>1. doing' = [x \in Operators |-> doing'[x]]
    BY <1>1 DEF T!TenantsInv, T!TenantsTypeOK
  <2> QED
    BY <1>1, <1>2, <2>1 DEF T!TenantsInv, T!TenantsTypeOK, T!Creating
<1>4. T!CreationsAreSound'
  BY <1>1, <1>2 DEF T!TenantsInv, T!CreationsAreSound, T!Creating, T!Made
<1>5. T!RecordIsFresh'
  BY <1>1, <1>2 DEF T!TenantsInv, T!RecordIsFresh, T!Changing
<1>6. T!TenantsAreWhole'
  BY <1>1 DEF T!TenantsInv, T!TenantsAreWhole, T!DashboardAgrees, T!InStatus, T!Served, T!Known,
       T!TenantIsComplete
<1> QED
  BY <1>3, <1>4, <1>5, <1>6 DEF T!TenantsInv

\* The record is not touched: plans are made, opened and closed, schemas grow, and
\* requests end.
LEMMA SchemasGrow ==
  ASSUME T!TenantsInv, UNCHANGED <<limit, tenant, crossed>>,
         schema' \in [Slugs -> SUBSET (Parts \cup Added)], \A s \in Slugs : schema[s] \subseteq schema'[s],
         doing' = [o \in Operators |-> doing'[o]],
         \A o \in Operators : doing'[o] \in {doing[o], T!Rest}
  PROVE  T!TenantsInv'
<1>1. T!Rest.kind # "create" /\ T!Rest.kind \notin T!Writes
  BY OfficeAssumption DEF T!Rest, T!Writes
<1>2. T!TenantsTypeOK'
  BY <1>1 DEF T!TenantsInv, T!TenantsTypeOK, T!Creating
<1>3. T!CreationsAreSound'
  BY <1>1 DEF T!TenantsInv, T!CreationsAreSound, T!Creating, T!Made
<1>4. T!RecordIsFresh'
  BY <1>1 DEF T!TenantsInv, T!RecordIsFresh, T!Changing
<1>5. T!TenantsAreWhole'
  BY DEF T!TenantsInv, T!TenantsAreWhole, T!DashboardAgrees, T!InStatus, T!Served, T!Known,
       T!TenantIsComplete
<1> QED
  BY <1>2, <1>3, <1>4, <1>5 DEF T!TenantsInv

\* A request ends with at most one record changed, which no other request holds or, if
\* the dashboard is to agree on it, has read; the record is active when the dashboard
\* counts it, if it was, and has its tables, its branch and its admin.
EndsWith(o, t, rec) ==
  /\ T!Finish(o) /\ UNCHANGED <<limit, crossed>>
  /\ tenant[t] \in T!Record => rec \in T!Record
  /\ tenant' = [tenant EXCEPT ![t] = rec]
  /\ tenant[t] = None /\ rec # None =>
       \A x \in Operators : x # o /\ T!Creating(x) /\ doing[x].slug = t => "row" \notin T!Made(x)
  /\ t \notin crossed /\ rec # tenant[t] => \A x \in T!Changing(t) : x = o
  /\ schema' \in [Slugs -> SUBSET (Parts \cup Added)]
  /\ \A s \in Slugs : s # t => schema[s] \subseteq schema'[s]
  /\ t \notin crossed /\ rec # None => (rec.active <=> rec.status \in {"active", "trial"})
  /\ rec # None => /\ Parts \ Added \subseteq schema'[t]
                   /\ rec.asked => rec.branch /\ rec.admin

\* Such an end keeps the invariant.
LEMMA FinishKeeps ==
  ASSUME T!TenantsInv, NEW o \in Operators, NEW t \in Slugs, NEW rec \in T!Record \cup {None},
         EndsWith(o, t, rec)
  PROVE  T!TenantsInv'
<1> USE DEF EndsWith
<1>1. /\ \A x \in Operators : doing'[x] = IF x = o THEN T!Rest ELSE doing[x]
      /\ doing' = [x \in Operators |-> doing'[x]]
  BY DEF T!Finish, T!TenantsInv, T!TenantsTypeOK
<1>2. /\ \A s \in Slugs : tenant'[s] = IF s = t THEN rec ELSE tenant[s]
      /\ tenant' \in [Slugs -> T!Record \cup {None}]
  BY DEF T!TenantsInv, T!TenantsTypeOK
<1>3. T!Rest.kind # "create" /\ T!Rest.kind \notin T!Writes
  BY OfficeAssumption DEF T!Rest, T!Writes
<1>4. T!TenantsTypeOK'
  BY <1>1, <1>2, <1>3 DEF T!TenantsInv, T!TenantsTypeOK, T!Creating
<1>5. T!CreationsAreSound'
  <2>1. ASSUME NEW x \in Operators, T!Creating(x)'
        PROVE  x # o /\ T!Creating(x) /\ doing'[x] = doing[x]
    BY <1>1, <1>3, <2>1 DEF T!Creating
  <2>2. ASSUME NEW x \in Operators, T!Creating(x)', "row" \in T!Made(x)'
        PROVE  tenant'[doing'[x].slug] = None
    <3>1. x # o /\ T!Creating(x) /\ doing'[x] = doing[x] /\ "row" \in T!Made(x)
      BY <2>1, <2>2 DEF T!Made
    <3>2. doing[x].slug \in Slugs /\ tenant[doing[x].slug] = None
      BY <3>1 DEF T!TenantsInv, T!TenantsTypeOK, T!CreationsAreSound
    <3> QED
      BY <1>2, <3>1, <3>2
  <2> QED
    BY <2>1, <2>2 DEF T!TenantsInv, T!CreationsAreSound, T!Made
<1>6. T!RecordIsFresh'
  <2> SUFFICES ASSUME NEW x \in Operators, doing'[x].kind \in T!Writes, doing'[x].slug \notin crossed
               PROVE  /\ doing'[x].saw = tenant'[doing'[x].slug]
                      /\ \A y \in Operators :
                           doing'[y].kind \in T!Writes /\ doing'[y].slug = doing'[x].slug => y = x
    BY DEF T!RecordIsFresh, T!Changing
  <2>1. x # o /\ doing'[x] = doing[x]
    BY <1>1, <1>3
  <2>2. /\ doing[x].saw = tenant[doing[x].slug] /\ doing[x].slug \in Slugs
        /\ \A y \in T!Changing(doing[x].slug) : y = x
    BY <2>1 DEF T!TenantsInv, T!RecordIsFresh, T!TenantsTypeOK
  <2>3. \A y \in Operators : doing'[y].kind \in T!Writes => doing'[y] = doing[y]
    BY <1>1, <1>3
  <2>4. tenant'[doing[x].slug] = tenant[doing[x].slug]
    BY <1>2, <2>1, <2>2 DEF T!Changing
  <2> QED
    BY <2>1, <2>2, <2>3, <2>4 DEF T!Changing
<1>7. T!DashboardAgrees'
  <2>1. \A s \in T!Known \ crossed : tenant[s].active <=> tenant[s].status \in {"active", "trial"}
    BY DashboardOfRecords DEF T!TenantsInv, T!TenantsAreWhole
  <2>2. \A s \in Slugs \ crossed : tenant'[s] # None =>
                       (tenant'[s].active <=> tenant'[s].status \in {"active", "trial"})
    BY <1>2, <2>1 DEF T!Known
  <2> QED
    BY <1>4, <2>2 DEF T!DashboardAgrees, T!InStatus, T!Served, T!Known, T!TenantsTypeOK
<1>8. T!TenantIsComplete'
  <2> SUFFICES ASSUME NEW s \in Slugs, tenant'[s] # None
               PROVE  /\ Parts \ Added \subseteq schema'[s]
                      /\ tenant'[s].asked => tenant'[s].branch /\ tenant'[s].admin
    BY DEF T!TenantIsComplete, T!Known
  <2>1. CASE s = t
    BY <1>2, <2>1
  <2>2. CASE s # t
    <3>1. s \in T!Known /\ tenant'[s] = tenant[s] /\ schema[s] \subseteq schema'[s]
      BY <1>2, <2>2 DEF T!Known
    <3> QED
      BY <3>1 DEF T!TenantsInv, T!TenantsAreWhole, T!TenantIsComplete
  <2> QED
    BY <2>1, <2>2
<1> QED
  BY <1>4, <1>5, <1>6, <1>7, <1>8 DEF T!TenantsInv, T!TenantsAreWhole

\* POST /tenants: the slug is looked at.
LEMMA CheckSlugStep ==
  ASSUME T!TenantsInv, NEW o \in Operators, NEW t \in Slugs, NEW p \in Plans \cup {None},
         NEW a \in BOOLEAN, T!CheckSlug(o, t, p, a)
  PROVE  T!TenantsInv'
<1> DEFINE next == [T!Rest EXCEPT !.kind = "create", !.slug = t, !.plan = p, !.admin = a]
<1>1. T!Start(o, next) /\ crossed \subseteq crossed'
  BY DEF T!CheckSlug
<1>2. next.kind = "create" /\ next.slug = t /\ next.plan = p /\ next.admin = a /\ next.made = {}
  BY DEF T!Rest
<1>3. next.kind \notin T!Writes
  BY <1>2 DEF T!Writes
<1> HIDE DEF next
<1> QED
  BY <1>1, <1>2, <1>3, StartKeeps

\* A record is read to be changed.
LEMMA ReadTenantStep ==
  ASSUME T!TenantsInv, NEW o \in Operators, NEW t \in Slugs, NEW p \in Plans \cup {None},
         NEW k \in T!Writes, T!ReadTenant(o, k, t, p)
  PROVE  T!TenantsInv'
<1> DEFINE next == [T!Rest EXCEPT !.kind = k, !.slug = t, !.plan = p, !.saw = tenant[t]]
<1>1. /\ T!Start(o, next) /\ tenant[t] \in T!Record
      /\ crossed \subseteq crossed' /\ (T!Changing(t) # {} => t \in crossed')
  BY DEF T!ReadTenant, T!TenantsInv, T!TenantsTypeOK, T!Known
<1>2. /\ next.kind = k /\ next.slug = t /\ next.plan = p /\ next.saw = tenant[t]
      /\ next.made = {}
  BY DEF T!Rest
<1>3. next.kind # "create"
  BY <1>2 DEF T!Writes
<1> HIDE DEF next
<1> QED
  BY <1>1, <1>2, <1>3, StartKeeps

\* The transaction of a creation makes one thing more.
LEMMA MakeKeeps ==
  ASSUME T!TenantsInv, NEW o \in Operators, NEW x, T!Creating(o), T!Make(o, x),
         x = "tables" => "row" \in T!Made(o),
         x = "admin" => "branch" \in T!Made(o),
         x = "row" =>
           /\ tenant[doing[o].slug] = None
           /\ \A y \in Operators : doing[y].slug = doing[o].slug => "row" \notin T!Made(y)
  PROVE  T!TenantsInv'
<1>1. /\ doing' = [doing EXCEPT ![o].made = @ \cup {x}]
      /\ UNCHANGED <<limit, tenant, plan, schema, crossed>>
  BY DEF T!Make
<1>2. doing = [y \in Operators |-> doing[y]]
  BY DEF T!TenantsInv, T!TenantsTypeOK
<1> DEFINE next == [doing[o] EXCEPT !.made = @ \cup {x}]
<1>3. doing' = [doing EXCEPT ![o] = next]
  BY <1>1
<1>4. \A y \in Operators : doing'[y] = IF y = o THEN next ELSE doing[y]
  BY <1>2, <1>3
<1>5. /\ next.kind = doing[o].kind /\ next.slug = doing[o].slug /\ next.plan = doing[o].plan
      /\ next.admin = doing[o].admin /\ next.made = T!Made(o) \cup {x}
  BY DEF T!Made
<1>6. "create" \notin T!Writes
  BY DEF T!Writes
<1> HIDE DEF next
<1>7. \A y \in Operators : /\ doing'[y].kind = doing[y].kind /\ doing'[y].slug = doing[y].slug
                           /\ y # o => doing'[y] = doing[y]
  BY <1>4, <1>5
<1>8. T!TenantsTypeOK'
  <2>1. doing' = [y \in Operators |-> doing'[y]]
    BY <1>2, <1>3
  <2> QED
    BY <1>1, <1>4, <1>5, <1>6, <1>7, <2>1 DEF T!TenantsInv, T!TenantsTypeOK, T!Creating
<1>9. T!CreationsAreSound'
  BY <1>1, <1>4, <1>5, <1>7 DEF T!TenantsInv, T!CreationsAreSound, T!Creating, T!Made
<1>10. T!RecordIsFresh'
  BY <1>1, <1>6, <1>7 DEF T!TenantsInv, T!RecordIsFresh, T!Creating, T!Changing
<1>11. T!TenantsAreWhole'
  BY <1>1 DEF T!TenantsInv, T!TenantsAreWhole, T!DashboardAgrees, T!InStatus, T!Served, T!Known,
       T!TenantIsComplete
<1> QED
  BY <1>8, <1>9, <1>10, <1>11 DEF T!TenantsInv

\* The statements of a creation, and a ROLLBACK.
LEMMA CreationStep ==
  ASSUME T!TenantsInv, NEW o \in Operators,
         \/ \E free \in BOOLEAN : T!FlushTenant(o, free)
         \/ T!ProvisionTenantSchema(o) \/ T!CreateDefaultBranch(o) \/ T!CreateAdminUser(o)
         \/ T!Abandon(o)
  PROVE  T!TenantsInv'
<1>1. CASE T!Creating(o) /\ T!Finish(o) /\ UNCHANGED <<limit, tenant, plan, schema, crossed>>
  <2>1. /\ schema \in [Slugs -> SUBSET (Parts \cup Added)]
        /\ doing' = [doing EXCEPT ![o] = T!Rest] /\ doing = [x \in Operators |-> doing[x]]
    BY <1>1 DEF T!TenantsInv, T!TenantsTypeOK, T!Finish
  <2>2. /\ doing' = [x \in Operators |-> doing'[x]]
        /\ \A x \in Operators : doing'[x] \in {doing[x], T!Rest}
    BY <2>1
  <2> QED
    BY <1>1, <2>1, <2>2, SchemasGrow
<1>2. ASSUME NEW free \in BOOLEAN, T!FlushTenant(o, free)
      PROVE  T!TenantsInv'
  <2>1. CASE free
    <3>1. /\ T!Creating(o) /\ T!Make(o, "row") /\ tenant[doing[o].slug] = None
          /\ \A y \in Operators : doing[y].slug = doing[o].slug => "row" \notin T!Made(y)
      BY <1>2, <2>1 DEF T!FlushTenant
    <3> QED
      BY <3>1, MakeKeeps
  <2>2. CASE ~free
    BY <1>1, <1>2, <2>2 DEF T!FlushTenant
  <2> QED
    BY <2>1, <2>2
<1>3. CASE T!ProvisionTenantSchema(o)
  <2>1. T!Creating(o) /\ T!Make(o, "tables") /\ "row" \in T!Made(o)
    BY <1>3 DEF T!ProvisionTenantSchema
  <2> QED
    BY <2>1, MakeKeeps
<1>4. CASE T!CreateDefaultBranch(o)
  <2>1. T!Creating(o) /\ T!Make(o, "branch")
    BY <1>4 DEF T!CreateDefaultBranch
  <2> QED
    BY <2>1, MakeKeeps
<1>5. CASE T!CreateAdminUser(o)
  <2>1. T!Creating(o) /\ T!Make(o, "admin") /\ "branch" \in T!Made(o)
    BY <1>5 DEF T!CreateAdminUser
  <2> QED
    BY <2>1, MakeKeeps
<1>6. CASE T!Abandon(o)
  BY <1>1, <1>6 DEF T!Abandon
<1> QED
  BY <1>2, <1>3, <1>4, <1>5, <1>6

\* COMMIT shows the record, the schema with its tables, the branch and the admin.
LEMMA CommitTenantStep ==
  ASSUME T!TenantsInv, NEW o \in Operators, T!CommitTenant(o)
  PROVE  T!TenantsInv'
<1>1. /\ T!Creating(o) /\ "row" \in T!Made(o) /\ doing[o].slug \in Slugs
      /\ doing[o].plan \in Plans \cup {None} /\ doing[o].admin \in BOOLEAN
      /\ doing[o].admin => "branch" \in T!Made(o) /\ "admin" \in T!Made(o)
      /\ T!Finish(o) /\ UNCHANGED <<limit, plan, crossed>>
  BY DEF T!CommitTenant, T!TenantsInv, T!TenantsTypeOK, T!CreationsAreSound
<1>2. PICK t \in Slugs : t = doing[o].slug
  BY <1>1
<1>3. PICK new \in T!Record :
        /\ new = T!Row(doing[o]) /\ new.active /\ new.status \in {"active", "trial"}
        /\ new.asked => new.branch /\ new.admin
  <2> DEFINE rec == T!Row(doing[o])
  <2>1. /\ rec \in T!Record /\ rec.active /\ rec.status \in {"active", "trial"}
        /\ rec.asked => rec.branch /\ rec.admin
    BY <1>1 DEF T!Row, T!Record, T!Made
  <2> HIDE DEF rec
  <2> QED
    BY <2>1 DEF rec
<1>4. T!CreateTables({}) = Parts
  BY DEF T!CreateTables
<1>5. tenant' = [tenant EXCEPT ![t] = new] /\ schema' = [schema EXCEPT ![t] = Parts]
  BY <1>2, <1>3, <1>4 DEF T!CommitTenant
<1>6. /\ schema' \in [Slugs -> SUBSET (Parts \cup Added)] /\ Parts \ Added \subseteq schema'[t]
      /\ \A s \in Slugs : s # t => schema[s] \subseteq schema'[s]
  BY <1>5 DEF T!TenantsInv, T!TenantsTypeOK
<1>7. \A x \in Operators : x # o /\ T!Creating(x) /\ doing[x].slug = t => "row" \notin T!Made(x)
  BY <1>1, <1>2 DEF T!TenantsInv, T!CreationsAreSound
<1>8. tenant[t] = None /\ \A x \in T!Changing(t) : x = o
  BY <1>1, <1>2, OfficeAssumption
  DEF T!TenantsInv, T!TenantsTypeOK, T!CreationsAreSound, T!Changing
<1>9. UNCHANGED <<limit, crossed>> /\ T!Finish(o) /\ new \in T!Record \cup {None}
  BY <1>1
<1>10. EndsWith(o, t, new)
  BY <1>3, <1>5, <1>6, <1>7, <1>8, <1>9 DEF EndsWith
<1> QED
  BY <1>10, FinishKeeps

\* Each handler keeps the columns of a tenant it does not set, and sets the status
\* together with the mark that the tenant is active.
LEMMA WantedAgrees ==
  ASSUME NEW kind \in T!Writes, NEW rec \in T!Record, NEW p \in Plans \cup {None}
  PROVE  LET new == T!Wanted(kind, rec, p)
         IN  /\ new \in T!Record
             /\ new.branch = rec.branch /\ new.admin = rec.admin /\ new.asked = rec.asked
             /\ (rec.active <=> rec.status \in {"active", "trial"}) =>
                  (new.active <=> new.status \in {"active", "trial"})
<1>1. CASE kind = "suspend"
  BY <1>1 DEF T!Wanted, T!SuspendTenant, T!Record
<1>2. CASE kind = "delete"
  BY <1>2 DEF T!Wanted, T!DeleteTenant, T!Record
<1>3. CASE kind = "activate"
  BY <1>3 DEF T!Wanted, T!ActivateTenant, T!Record
<1>4. CASE kind = "change_plan"
  BY <1>4 DEF T!Wanted, T!ChangeTenantPlan, T!Record
<1>5. CASE kind = "patch"
  BY <1>5 DEF T!Wanted, T!UpdateTenant, T!Record
<1> QED
  BY <1>1, <1>2, <1>3, <1>4, <1>5 DEF T!Writes

\* What changed since the record was read is written.
LEMMA WriteTenantStep ==
  ASSUME T!TenantsInv, NEW o \in Operators, T!WriteTenant(o)
  PROVE  T!TenantsInv'
<1> DEFINE t   == doing[o].slug
           saw == doing[o].saw
           new == T!Wanted(doing[o].kind, saw, doing[o].plan)
           rec == [c \in DOMAIN tenant[t] |-> IF new[c] # saw[c] THEN new[c] ELSE tenant[t][c]]
<1>1. /\ t \in Slugs /\ doing[o].plan \in Plans \cup {None} /\ doing[o].kind \in T!Writes
      /\ tenant[t] \in T!Record /\ saw \in T!Record
      /\ tenant' = [tenant EXCEPT ![t] = rec]
      /\ T!Finish(o) /\ UNCHANGED <<limit, plan, schema, crossed>>
  BY DEF T!WriteTenant, T!TenantsInv, T!TenantsTypeOK
<1>3. /\ new \in T!Record
      /\ new.branch = saw.branch /\ new.admin = saw.admin /\ new.asked = saw.asked
      /\ (saw.active <=> saw.status \in {"active", "trial"}) =>
           (new.active <=> new.status \in {"active", "trial"})
  BY <1>1, WantedAgrees
<1>4. t \notin crossed => saw = tenant[t] /\ \A x \in T!Changing(t) : x = o
  BY <1>1 DEF T!TenantsInv, T!RecordIsFresh
<1>5. t \in T!Known
  BY <1>1, OfficeAssumption DEF T!Known
<1> HIDE DEF new, saw
<1>6. /\ rec \in T!Record
      /\ rec.branch = tenant[t].branch /\ rec.admin = tenant[t].admin /\ rec.asked = tenant[t].asked
  <2>1. /\ DOMAIN tenant[t] = {"plan", "status", "active", "branch", "admin", "asked"}
        /\ tenant[t].plan \in Plans \cup {None} /\ tenant[t].active \in BOOLEAN
        /\ tenant[t].status \in {"trial", "active", "suspended", "cancelled"}
        /\ tenant[t].branch \in BOOLEAN /\ tenant[t].admin \in BOOLEAN /\ tenant[t].asked \in BOOLEAN
    BY <1>1 DEF T!Record
  <2>2. /\ new.plan \in Plans \cup {None} /\ new.active \in BOOLEAN
        /\ new.status \in {"trial", "active", "suspended", "cancelled"}
    BY <1>3 DEF T!Record
  <2>3. rec = [plan   |-> IF new.plan # saw.plan THEN new.plan ELSE tenant[t].plan,
               status |-> IF new.status # saw.status THEN new.status ELSE tenant[t].status,
               active |-> IF new.active # saw.active THEN new.active ELSE tenant[t].active,
               branch |-> tenant[t].branch, admin |-> tenant[t].admin, asked |-> tenant[t].asked]
    BY <1>3, <2>1
  <2> QED
    BY <2>1, <2>2, <2>3 DEF T!Record
<1>7. t \notin crossed => rec = new
  BY <1>1, <1>3, <1>4, <1>6 DEF T!Record
<1>8. \A s \in Slugs : s \in T!Known =>
        /\ s \notin crossed => (tenant[s].active <=> tenant[s].status \in {"active", "trial"})
        /\ Parts \ Added \subseteq schema[s]
        /\ tenant[s].asked => tenant[s].branch /\ tenant[s].admin
  BY DashboardOfRecords DEF T!TenantsInv, T!TenantsAreWhole, T!TenantIsComplete
<1>9. /\ t \notin crossed /\ rec # None => (rec.active <=> rec.status \in {"active", "trial"})
      /\ rec # None => /\ Parts \ Added \subseteq schema'[t]
                       /\ rec.asked => rec.branch /\ rec.admin
  BY <1>1, <1>3, <1>4, <1>5, <1>6, <1>7, <1>8
<1>10. schema' \in [Slugs -> SUBSET (Parts \cup Added)] /\ \A s \in Slugs : schema[s] \subseteq schema'[s]
  BY <1>1 DEF T!TenantsInv, T!TenantsTypeOK
<1>11. tenant[t] # None
  BY <1>1, OfficeAssumption
<1> HIDE DEF rec, t
<1>12. EndsWith(o, t, rec)
  BY <1>1, <1>4, <1>6, <1>9, <1>10, <1>11 DEF EndsWith
<1> QED
  BY <1>1, <1>6, <1>12, FinishKeeps

\* Plans do not touch the tenants.
LEMMA PlanStep ==
  ASSUME T!TenantsInv,
         \/ \E o \in Operators : T!DeletePlan(o)
         \/ \E p \in Plans : T!CreatePlan(p) \/ \E s \in {"open", "closed"} : T!UpdatePlan(p, s)
  PROVE  T!TenantsInv'
<1>1. schema \in [Slugs -> SUBSET (Parts \cup Added)] /\ doing = [x \in Operators |-> doing[x]]
  BY DEF T!TenantsInv, T!TenantsTypeOK
<1>2. CASE \E o \in Operators : T!DeletePlan(o)
  <2>1. PICK o \in Operators : T!DeletePlan(o)
    BY <1>2
  <2>2. UNCHANGED <<limit, tenant, schema, crossed>> /\ doing' = [doing EXCEPT ![o] = T!Rest]
    BY <2>1 DEF T!DeletePlan, T!Finish
  <2>3. /\ doing' = [x \in Operators |-> doing'[x]]
        /\ \A x \in Operators : doing'[x] \in {doing[x], T!Rest}
    BY <1>1, <2>2
  <2> QED
    BY <1>1, <2>2, <2>3, SchemasGrow
<1>3. CASE \E p \in Plans : T!CreatePlan(p) \/ \E s \in {"open", "closed"} : T!UpdatePlan(p, s)
  <2>1. UNCHANGED <<limit, tenant, schema, doing, crossed>>
    BY <1>3 DEF T!CreatePlan, T!UpdatePlan
  <2> QED
    BY <1>1, <2>1, SchemasGrow
<1> QED
  BY <1>2, <1>3

\* DELETE /plans only looks at the tenants.
LEMMA CheckPlanStep ==
  ASSUME T!TenantsInv, NEW o \in Operators, NEW p \in Plans, T!CheckPlan(o, p)
  PROVE  T!TenantsInv'
<1> DEFINE next == [T!Rest EXCEPT !.kind = "delete_plan", !.plan = p]
<1>1. T!Start(o, next) /\ crossed \subseteq crossed'
  BY DEF T!CheckPlan
<1>2. next.kind = "delete_plan" /\ next.made = {}
  BY DEF T!Rest
<1>3. next.kind # "create" /\ next.kind \notin T!Writes
  BY <1>2 DEF T!Writes
<1> HIDE DEF next
<1> QED
  BY <1>1, <1>2, <1>3, StartKeeps

\* Schemas are repaired and upgraded: no statement takes a part away.
LEMMA UpgradeStep ==
  ASSUME T!TenantsInv, NEW skipped \in SUBSET Added,
         \/ T!HealTenantSchemas(skipped)
         \/ \E broken \in BOOLEAN : \/ T!UpgradeAllSchemas(broken, skipped)
                                    \/ \E t \in Slugs : T!UpgradeTenantSchema(t, broken, skipped)
  PROVE  T!TenantsInv'
<1>1. schema \in [Slugs -> SUBSET (Parts \cup Added)] /\ doing = [x \in Operators |-> doing[x]]
  BY DEF T!TenantsInv, T!TenantsTypeOK
<1>2. ASSUME NEW has \in SUBSET (Parts \cup Added)
      PROVE  /\ has \subseteq T!AlterTables(has, skipped)
             /\ T!AlterTables(has, skipped) \in SUBSET (Parts \cup Added)
             /\ has \subseteq T!CreateTables(has) /\ T!CreateTables(has) \in SUBSET (Parts \cup Added)
  BY DEF T!AlterTables, T!CreateTables
<1>3. CASE T!HealTenantSchemas(skipped)
  <2>1. /\ UNCHANGED <<limit, tenant, crossed>>
        /\ schema' = [t \in Slugs |-> IF t \in T!Known THEN T!AlterTables(schema[t], skipped) ELSE schema[t]]
        /\ doing' = [o \in Operators |-> T!Rest]
    BY <1>3 DEF T!HealTenantSchemas
  <2>2. /\ schema' \in [Slugs -> SUBSET (Parts \cup Added)]
        /\ \A s \in Slugs : schema[s] \subseteq schema'[s]
    BY <1>1, <1>2, <2>1
  <2>3. /\ doing' = [x \in Operators |-> doing'[x]]
        /\ \A x \in Operators : doing'[x] \in {doing[x], T!Rest}
    BY <2>1
  <2> QED
    BY <2>1, <2>2, <2>3, SchemasGrow
<1>4. ASSUME NEW list, NEW broken \in BOOLEAN, T!Upgrade(list, broken, skipped)
      PROVE  T!TenantsInv'
  <2>1. /\ UNCHANGED <<limit, tenant, doing, crossed>>
        /\ schema' = [t \in Slugs |-> IF t \in list /\ ~broken
                                        THEN T!AlterTables(T!CreateTables(schema[t]), skipped)
                                        ELSE schema[t]]
    BY <1>4 DEF T!Upgrade
  <2>2. \A has \in SUBSET (Parts \cup Added) :
          /\ has \subseteq T!AlterTables(T!CreateTables(has), skipped)
          /\ T!AlterTables(T!CreateTables(has), skipped) \in SUBSET (Parts \cup Added)
    <3> TAKE has \in SUBSET (Parts \cup Added)
    <3>1. has \subseteq T!CreateTables(has) /\ T!CreateTables(has) \in SUBSET (Parts \cup Added)
      BY <1>2
    <3> QED
      BY <1>2, <3>1
  <2>3. /\ schema' \in [Slugs -> SUBSET (Parts \cup Added)]
        /\ \A s \in Slugs : schema[s] \subseteq schema'[s]
    BY <1>1, <2>1, <2>2
  <2>4. \A x \in Operators : doing'[x] \in {doing[x], T!Rest}
    BY <2>1
  <2> QED
    BY <1>1, <2>1, <2>3, <2>4, SchemasGrow
<1> QED
  BY <1>3, <1>4 DEF T!UpgradeAllSchemas, T!UpgradeTenantSchema

\* At first schemas may lack what was added; their tables are there.
LEMMA TenantsStart ==
  ASSUME T!TenantsInit
  PROVE  T!TenantsInv
<1>1. PICK old \in SUBSET Slugs :
        /\ tenant = [t \in Slugs |-> IF t \in old THEN T!Row(T!Rest) ELSE None]
        /\ schema = [t \in Slugs |-> IF t \in old THEN Parts \ Added ELSE {}]
  BY DEF T!TenantsInit
<1>2. /\ T!Row(T!Rest) \in T!Record /\ T!Row(T!Rest).active
      /\ T!Row(T!Rest).status \in {"active", "trial"} /\ ~T!Row(T!Rest).asked
  BY DEF T!Row, T!Record, T!Rest
<1>3. doing = [o \in Operators |-> T!Rest]
  BY DEF T!TenantsInit
<1>4. T!Rest.kind # "create" /\ T!Rest.kind \notin T!Writes
  BY OfficeAssumption DEF T!Rest, T!Writes
<1>5. T!TenantsTypeOK
  BY <1>1, <1>2, <1>3, <1>4 DEF T!TenantsTypeOK, T!Creating
<1>6. T!CreationsAreSound /\ T!RecordIsFresh
  BY <1>3, <1>4 DEF T!CreationsAreSound, T!Creating, T!RecordIsFresh
<1>7. T!DashboardAgrees
  <2>1. \A t \in T!Known : tenant[t].active <=> tenant[t].status \in {"active", "trial"}
    BY <1>1, <1>2 DEF T!Known
  <2> QED
    BY <1>5, <2>1, DashboardOfRecords
<1>8. T!TenantIsComplete
  BY <1>1, <1>2 DEF T!TenantIsComplete, T!Known
<1> QED
  BY <1>5, <1>6, <1>7, <1>8 DEF T!TenantsInv, T!TenantsAreWhole

\* However creations overlap, fail and are cut off, and whatever is repaired, a tenant
\* has its tables, its branch and its admin; and the dashboard counts those that are
\* served, but for the ones that two requests changed at once.
THEOREM TenantsStayWhole == T!TenantsSpec => []TenantsAreWhole
<1>1. T!TenantsInit => T!TenantsInv
  BY TenantsStart
<1>2. T!TenantsInv /\ [T!TenantsNext]_<<limit, T!tenants>> => T!TenantsInv'
  <2> SUFFICES ASSUME T!TenantsInv, [T!TenantsNext]_<<limit, T!tenants>>
               PROVE  T!TenantsInv'
    OBVIOUS
  <2>1. ASSUME NEW o \in Operators, NEW t \in Slugs, NEW p \in Plans \cup {None},
               \/ \E a \in BOOLEAN : T!CheckSlug(o, t, p, a)
               \/ \E k \in T!Writes : T!ReadTenant(o, k, t, p)
        PROVE  T!TenantsInv'
    BY <2>1, CheckSlugStep, ReadTenantStep
  <2>2. ASSUME NEW o \in Operators,
               \/ \E free \in BOOLEAN : T!FlushTenant(o, free)
               \/ T!ProvisionTenantSchema(o) \/ T!CreateDefaultBranch(o) \/ T!CreateAdminUser(o)
               \/ T!Abandon(o) \/ T!CommitTenant(o)
               \/ T!WriteTenant(o) \/ \E p \in Plans : T!CheckPlan(o, p)
        PROVE  T!TenantsInv'
    BY <2>2, CreationStep, CommitTenantStep, WriteTenantStep, CheckPlanStep
  <2>3. CASE UNCHANGED <<limit, T!tenants>>
    <3>1. UNCHANGED <<limit, tenant, schema, doing, crossed>>
      BY <2>3 DEF T!tenants
    <3>2. /\ schema' \in [Slugs -> SUBSET (Parts \cup Added)]
          /\ doing' = [x \in Operators |-> doing'[x]]
      BY <3>1 DEF T!TenantsInv, T!TenantsTypeOK
    <3> QED
      BY <3>1, <3>2, SchemasGrow
  <2> QED
    BY <2>1, <2>2, <2>3, PlanStep, UpgradeStep DEF T!TenantsNext
<1>3. T!TenantsInv => TenantsAreWhole
  BY DEF T!TenantsInv, TenantsAreWhole
<1> QED
  BY <1>1, <1>2, <1>3, PTL DEF T!TenantsSpec

-----------------------------------------------------------------------------
(* Branches *)

\* Expenses, branches and inspectors change; requests for a teacher do not.
LEMMA PapersStay ==
  ASSUME B!BranchesInv, UNCHANGED <<ask, hired>>, review' = [a \in Operators |-> review'[a]],
         \A a \in Operators : review'[a].of \in Asks =>
           ask[review'[a].of] \in B!Asked
  PROVE  B!BranchesInv'
BY DEF B!BranchesInv, B!ReviewsAreSound, B!ApprovedIsHired

\* A request for a teacher is written.
LEMMA RequestIsWritten ==
  ASSUME B!BranchesInv, NEW q \in Asks, NEW rec \in B!Asked, ask' = [ask EXCEPT ![q] = rec],
         review' = [a \in Operators |-> review'[a]],
         \A a \in Operators : review'[a].of \in Asks => ask[review'[a].of] \in B!Asked,
         rec.status = "approved" => rec.teacher,
         \A g, h \in hired' : g.phone # None /\ g.phone = h.phone => g = h
  PROVE  B!BranchesInv'
<1>1. \A x \in Asks : ask'[x] = IF x = q THEN rec ELSE ask[x]
  BY DEF B!BranchesInv, B!ReviewsAreSound
<1>2. B!ReviewsAreSound'
  <2>1. ask' \in [Asks -> B!Asked \cup {None}]
    BY DEF B!BranchesInv, B!ReviewsAreSound
  <2> QED
    BY <1>1, <2>1 DEF B!ReviewsAreSound
<1>3. B!ApprovedIsHired'
  BY <1>1 DEF B!BranchesInv, B!ApprovedIsHired
<1> QED
  BY <1>2, <1>3 DEF B!BranchesInv

\* A review reads a paper that is there.
LEMMA BeginReviewStep ==
  ASSUME B!BranchesInv, NEW a \in Operators, NEW x \in Costs \cup Asks, NEW approve \in BOOLEAN,
         B!BeginReview(a, x, approve)
  PROVE  B!BranchesInv'
<1>1. PICK saw \in {IF x \in Costs THEN cost[x] ELSE ask[x]} \ {None} :
        review' = [review EXCEPT ![a] = [of |-> x, approve |-> approve, saw |-> saw.status]]
  BY DEF B!BeginReview
<1>2. x \in Asks => ask[x] \in B!Asked
  BY <1>1, OfficeAssumption DEF B!BranchesInv, B!ReviewsAreSound
<1>3. \A o \in Operators : review'[o].of = IF o = a THEN x ELSE review[o].of
  BY <1>1 DEF B!BranchesInv, B!ReviewsAreSound
<1>4. review' = [o \in Operators |-> review'[o]]
  BY <1>1 DEF B!BranchesInv, B!ReviewsAreSound
<1>5. UNCHANGED <<ask, hired>>
  BY DEF B!BeginReview
<1>6. \A o \in Operators : review'[o].of \in Asks => ask[review'[o].of] \in B!Asked
  BY <1>2, <1>3 DEF B!BranchesInv, B!ReviewsAreSound
<1> QED
  BY <1>4, <1>5, <1>6, PapersStay

\* The review that ends is forgotten.
LEMMA ReviewEnds ==
  ASSUME B!BranchesInv, NEW a \in Operators, B!Done(a)
  PROVE  /\ review' = [o \in Operators |-> review'[o]]
         /\ \A o \in Operators : review'[o].of \in Asks => ask[review'[o].of] \in B!Asked
<1>1. \A o \in Operators : review'[o] = IF o = a THEN B!Calm ELSE review[o]
  BY DEF B!BranchesInv, B!ReviewsAreSound, B!Done
<1>2. B!Calm.of \notin Asks
  BY OfficeAssumption DEF B!Calm
<1> QED
  BY <1>1, <1>2 DEF B!BranchesInv, B!ReviewsAreSound, B!Done

\* A decision leaves the teacher of a request; one that was approved has it.
LEMMA DecidedKeeps ==
  ASSUME B!BranchesInv, NEW a \in Operators, NEW q \in Asks, ask[q] \in B!Asked,
         NEW status \in {"approved", "rejected"}
  PROVE  LET rec == B!Decided(a, ask[q], status)
         IN  /\ rec \in B!Asked /\ rec.teacher = ask[q].teacher
             /\ rec.status \in {status, ask[q].status}
<1> DEFINE rec == ask[q]
           new == IF status = review[a].saw THEN rec.status ELSE status
<1>1. rec \in B!Asked /\ new \in {status, rec.status}
  OBVIOUS
<1>2. B!Decided(a, rec, status) = [rec EXCEPT !.by = a, !.status = new]
  BY DEF B!Decided
<1> HIDE DEF rec, new
<1>3. /\ [rec EXCEPT !.by = a, !.status = new] \in B!Asked
      /\ [rec EXCEPT !.by = a, !.status = new].teacher = rec.teacher
      /\ [rec EXCEPT !.by = a, !.status = new].status = new
  BY <1>1 DEF B!Asked
<1> QED
  BY <1>1, <1>2, <1>3 DEF rec

\* A request for a teacher is decided.
LEMMA ReviewRequestStep ==
  ASSUME B!BranchesInv, NEW a \in Operators, NEW ok \in BOOLEAN, B!ReviewTeacherRequest(a, ok)
  PROVE  B!BranchesInv'
<1> DEFINE q == review[a].of
<1>1. q \in Asks /\ B!Done(a) /\ ask[q] \in B!Asked
  BY DEF B!ReviewTeacherRequest, B!BranchesInv, B!ReviewsAreSound
<1>2. /\ ask[q].status = "approved" => ask[q].teacher
      /\ \A g, h \in hired : g.phone # None /\ g.phone = h.phone => g = h
  <2>1. ask[q] # None
    BY <1>1, OfficeAssumption
  <2> QED
    BY <1>1, <2>1 DEF B!BranchesInv, B!ApprovedIsHired
<1>3. CASE ask' = [ask EXCEPT ![q] = B!Decided(a, @, "rejected")] /\ UNCHANGED hired
  <2> DEFINE rec == B!Decided(a, ask[q], "rejected")
  <2>1. rec \in B!Asked /\ (rec.status = "approved" => rec.teacher)
    BY <1>1, <1>2, DecidedKeeps
  <2>2. ask' = [ask EXCEPT ![q] = rec]
    BY <1>3
  <2> HIDE DEF rec, q
  <2> QED
    BY <1>1, <1>2, <1>3, <2>1, <2>2, ReviewEnds, RequestIsWritten
<1>4. CASE /\ B!PhoneIsFree(ask[q].phone)
           /\ ask' = [ask EXCEPT ![q] = [B!Decided(a, @, "approved") EXCEPT !.teacher = TRUE]]
           /\ hired' = hired \cup {[of |-> q, phone |-> ask[q].phone,
                                    n |-> B!Cardinality({h \in hired : h.of = q})]}
  <2> DEFINE decided == B!Decided(a, ask[q], "approved")
             rec     == [decided EXCEPT !.teacher = TRUE]
             new     == [of |-> q, phone |-> ask[q].phone,
                         n |-> B!Cardinality({h \in hired : h.of = q})]
  <2>1. decided \in B!Asked
    BY <1>1, DecidedKeeps
  <2>2. ask' = [ask EXCEPT ![q] = rec] /\ hired' = hired \cup {new} /\ new.phone = ask[q].phone
    BY <1>4
  <2> HIDE DEF decided, new
  <2>3. rec \in B!Asked /\ rec.teacher
    BY <2>1 DEF B!Asked
  <2>4. new.phone = None \/ \A h \in hired : h.phone # new.phone
    BY <1>4, <2>2 DEF B!PhoneIsFree
  <2>5. \A g, h \in hired' : g.phone # None /\ g.phone = h.phone => g = h
    BY <1>2, <2>2, <2>4
  <2> HIDE DEF rec, q
  <2> QED
    BY <1>1, <2>2, <2>3, <2>5, ReviewEnds, RequestIsWritten
<1>5. CASE UNCHANGED <<ask, hired>>
  BY <1>1, <1>5, ReviewEnds, PapersStay
<1> QED
  BY <1>3, <1>4, <1>5 DEF B!ReviewTeacherRequest

\* A new request for a teacher takes the place of none.
LEMMA CreateRequestStep ==
  ASSUME B!BranchesInv, NEW q \in Asks, NEW b \in Names, NEW phone \in Phones \cup {None},
         B!CreateTeacherRequest(q, b, phone)
  PROVE  B!BranchesInv'
<1> DEFINE rec == [branch |-> b, status |-> "pending", by |-> None, phone |-> phone, teacher |-> FALSE]
<1>1. ask' = [ask EXCEPT ![q] = rec] /\ UNCHANGED <<hired, review>>
  BY DEF B!CreateTeacherRequest
<1>2. rec \in B!Asked /\ rec.status # "approved"
  BY DEF B!Asked
<1>3. /\ review' = [a \in Operators |-> review'[a]]
      /\ \A a \in Operators : review'[a].of \in Asks => ask[review'[a].of] \in B!Asked
      /\ \A g, h \in hired' : g.phone # None /\ g.phone = h.phone => g = h
  BY <1>1 DEF B!BranchesInv, B!ReviewsAreSound, B!ApprovedIsHired
<1> HIDE DEF rec
<1> QED
  BY <1>1, <1>2, <1>3, RequestIsWritten

\* However reviews repeat and overlap, an approved request has its teacher and a
\* telephone number gives one.
THEOREM ApprovedRequestsAreHired == B!BranchesSpec => []ApprovedIsHired
<1>1. B!BranchesInit => B!BranchesInv
  <2> SUFFICES ASSUME B!BranchesInit
               PROVE  B!BranchesInv
    OBVIOUS
  <2>1. /\ ask = [q \in Asks |-> None] /\ hired = {} /\ review = [a \in Operators |-> B!Calm]
        /\ B!Calm.of \notin Asks
    BY OfficeAssumption DEF B!BranchesInit, B!Calm
  <2> QED
    BY <2>1 DEF B!BranchesInv, B!ReviewsAreSound, B!ApprovedIsHired
<1>2. B!BranchesInv /\ [B!BranchesNext]_<<limit, B!branches>> => B!BranchesInv'
  <2> SUFFICES ASSUME B!BranchesInv, [B!BranchesNext]_<<limit, B!branches>>
               PROVE  B!BranchesInv'
    OBVIOUS
  <2>1. UNCHANGED <<ask, hired, review>> => B!BranchesInv'
    BY PapersStay DEF B!BranchesInv, B!ReviewsAreSound
  <2>2. ASSUME NEW b \in Names,
               \/ \E main \in BOOLEAN :
                    B!UpdateBranch(b, main) \/ \E u \in Inspectors \cup {None} : B!CreateBranch(b, main, u)
               \/ \E u \in Inspectors : B!AssignInspector(b, u)
               \/ B!DeleteBranch(b) \/ B!RemoveInspector(b)
               \/ \E c \in Costs : B!CreateExpense(c, b)
        PROVE  UNCHANGED <<ask, hired, review>>
    BY <2>2 DEF B!UpdateBranch, B!CreateBranch, B!AssignInspector, B!DeleteBranch, B!RemoveInspector,
         B!CreateExpense, B!Staffing
  <2>3. ASSUME NEW a \in Operators, B!ReviewExpense(a)
        PROVE  B!BranchesInv'
    BY <2>3, ReviewEnds, PapersStay DEF B!ReviewExpense
  <2>4. UNCHANGED <<limit, B!branches>> => UNCHANGED <<ask, hired, review>>
    BY DEF B!branches
  <2> QED
    BY <2>1, <2>2, <2>3, <2>4, CreateRequestStep, BeginReviewStep, ReviewRequestStep DEF B!BranchesNext
<1>3. B!BranchesInv => ApprovedIsHired
  BY DEF B!BranchesInv, ApprovedIsHired
<1> QED
  BY <1>1, <1>2, <1>3, PTL DEF B!BranchesSpec

-----------------------------------------------------------------------------
(* Marketing: codes and invitations *)

\* The sizes the module speaks of are sizes.
LEMMA CountIsCount == ASSUME NEW X PROVE M!Cardinality(X) = Cardinality(X)
BY Zenon DEF M!Cardinality, Cardinality

\* The finite sets of the instance are the finite sets.
LEMMA FiniteIsFinite == ASSUME NEW X PROVE M!IsFiniteSet(X) <=> IsFiniteSet(X)
BY Zenon DEF M!IsFiniteSet, IsFiniteSet

\* A use that begins is alone when requests are served one at a time.
LEMMA AsksAlone ==
  ASSUME M!MarketingInv, limit = 1, NEW c \in Operators, NEW use, M!Ask(c, use)
  PROVE  \A o \in Operators : asking[o] = M!Quiet
<1>1. Cardinality(M!Asking) < limit
  BY CountIsCount DEF M!Ask
<1>2. IsFiniteSet(M!Asking)
  BY OfficeAssumption, FS_Subset DEF M!Asking
<1>3. Cardinality(M!Asking) = 0
  BY <1>1, <1>2, FS_CardinalityType
<1>4. M!Asking = {}
  BY <1>2, <1>3, FS_EmptySet
<1> QED
  BY <1>4 DEF M!Asking

\* A use begins as it was checked.
LEMMA AskKeeps ==
  ASSUME M!MarketingInv, NEW c \in Operators, NEW use, M!Ask(c, use),
         use.what = "code" =>
           /\ use.of \in Pupils /\ use.by \in Pupils /\ use.of # use.by /\ code[use.of] # None
           /\ use.saw \in Nat /\ use.saw <= M!Cardinality(M!UsesOf(use.of))
           /\ limit = 1 => use.saw = M!Cardinality(M!UsesOf(use.of)) /\ <<use.of, use.by>> \notin used,
         use.what = "invitation" =>
           /\ use.of \in 1..batch.made /\ use.by \in Pupils /\ \A f \in batch.flushed : f[1] # use.of
           /\ limit = 1 => invitation[use.of] = None \/ invitation[use.of].by = None
  PROVE  M!MarketingInv'
<1>1. /\ UNCHANGED <<limit, code, used, invitation, given, batch>>
      /\ asking' = [asking EXCEPT ![c] = use]
  BY DEF M!Ask
<1>2. /\ asking' = [o \in Operators |-> asking'[o]]
      /\ \A o \in Operators : asking'[o] = IF o = c THEN use ELSE asking[o]
  BY <1>1 DEF M!MarketingInv, M!CodesAreSound
<1>3. M!CodesAreSound'
  <2>1. \A s : M!UsesOf(s)' = M!UsesOf(s)
    BY <1>1 DEF M!UsesOf
  <2>2. ASSUME NEW o \in Operators, asking'[o].what = "code"
        PROVE  LET r == asking'[o]
               IN  /\ r.of \in Pupils /\ r.by \in Pupils /\ r.of # r.by /\ code[r.of] # None
                   /\ r.saw \in Nat /\ r.saw <= M!Cardinality(M!UsesOf(r.of))
                   /\ limit = 1 => r.saw = M!Cardinality(M!UsesOf(r.of)) /\ <<r.of, r.by>> \notin used
    BY <1>2, <2>2 DEF M!MarketingInv, M!CodesAreSound
  <2> QED
    BY <1>1, <1>2, <2>2 DEF M!MarketingInv, M!CodesAreSound, M!UsesOf
<1>4. M!BatchIsSound'
  BY <1>1 DEF M!MarketingInv, M!BatchIsSound
<1>5. M!InvitationsAreSound'
  BY <1>1, <1>2 DEF M!MarketingInv, M!InvitationsAreSound
<1>6. M!OneAsks'
  BY <1>1, <1>2, AsksAlone DEF M!OneAsks, M!Asking
<1>7. M!UsesAgree' /\ M!CreatedIsStored'
  BY <1>1 DEF M!MarketingInv, M!UsesAgree, M!CreatedIsStored
<1> QED
  BY <1>3, <1>4, <1>5, <1>6, <1>7 DEF M!MarketingInv

\* What a code counts is what has been read.
LEMMA CheckReferralStep ==
  ASSUME M!MarketingInv, NEW c \in Operators, NEW owner \in Pupils, NEW s \in Pupils,
         M!CheckReferral(c, owner, s)
  PROVE  M!MarketingInv'
<1> DEFINE use == [what |-> "code", of |-> owner, by |-> s, saw |-> code[owner]]
<1>1. M!Ask(c, use) /\ code[owner] # None /\ <<owner, s>> \notin used /\ owner # s
  BY DEF M!CheckReferral
<1>2. code[owner] \in Nat
  BY <1>1 DEF M!MarketingInv, M!CodesAreSound
<1>3. /\ code[owner] <= M!Cardinality(M!UsesOf(owner))
      /\ limit = 1 => code[owner] = M!Cardinality(M!UsesOf(owner))
  BY <1>1 DEF M!MarketingInv, M!UsesAgree, M!UsesOf
<1>4. use.what = "code" /\ use.of = owner /\ use.by = s /\ use.saw = code[owner]
  OBVIOUS
<1> HIDE DEF use
<1> QED
  BY <1>1, <1>2, <1>3, <1>4, AskKeeps

\* An invitation that is looked at has its number.
LEMMA CheckInvitationStep ==
  ASSUME M!MarketingInv, NEW c \in Operators, NEW i \in 1..MaxMade, NEW s \in Pupils,
         M!CheckInvitation(c, i, s)
  PROVE  M!MarketingInv'
<1> DEFINE use == [what |-> "invitation", of |-> i, by |-> s, saw |-> 0]
<1>1. M!Ask(c, use) /\ invitation[i] # None /\ invitation[i].by = None
  BY DEF M!CheckInvitation, M!Usable
<1>2. i \in 1..batch.made /\ \A f \in batch.flushed : f[1] # i
  BY <1>1 DEF M!MarketingInv, M!BatchIsSound
<1>3. use.what = "invitation" /\ use.of = i /\ use.by = s
  OBVIOUS
<1> HIDE DEF use
<1> QED
  BY <1>1, <1>2, <1>3, AskKeeps

\* Uses of codes do not count other uses.
LEMMA QuietIsNoUse == M!Quiet.what # "code" /\ M!Quiet.what # "invitation"
BY OfficeAssumption DEF M!Quiet

\* Uses that end leave the others as they are.
LEMMA AnswerKeeps ==
  ASSUME M!MarketingInv, NEW c \in Operators, M!Answer(c), limit' = limit
  PROVE  /\ asking' = [o \in Operators |-> asking'[o]]
         /\ \A o \in Operators : asking'[o] = IF o = c THEN M!Quiet ELSE asking[o]
         /\ M!OneAsks'
<1>1. /\ asking' = [o \in Operators |-> asking'[o]]
      /\ \A o \in Operators : asking'[o] = IF o = c THEN M!Quiet ELSE asking[o]
  BY DEF M!Answer, M!MarketingInv, M!CodesAreSound
<1> QED
  BY <1>1 DEF M!MarketingInv, M!OneAsks, M!Asking

\* Codes and their uses do not change.
LEMMA CodesStay ==
  ASSUME M!MarketingInv, UNCHANGED <<limit, code, used>>, asking' = [o \in Operators |-> asking'[o]],
         \A o \in Operators : asking'[o] \in {asking[o], M!Quiet}
  PROVE  /\ M!CodesAreSound'
         /\ \A s \in Pupils : code'[s] # None =>
              LET n == M!Cardinality({u \in used' : u[1] = s})
              IN code'[s] <= n /\ (limit' = 1 => code'[s] = n)
         /\ \A u \in used' : u[1] # u[2]
<1>1. ASSUME NEW o \in Operators, asking'[o].what = "code"
      PROVE  LET r == asking'[o]
             IN  /\ r.of \in Pupils /\ r.by \in Pupils /\ r.of # r.by /\ code[r.of] # None
                 /\ r.saw \in Nat /\ r.saw <= M!Cardinality(M!UsesOf(r.of))
                 /\ limit = 1 => r.saw = M!Cardinality(M!UsesOf(r.of)) /\ <<r.of, r.by>> \notin used
  BY <1>1, QuietIsNoUse DEF M!MarketingInv, M!CodesAreSound
<1>2. M!CodesAreSound'
  BY <1>1 DEF M!MarketingInv, M!CodesAreSound, M!UsesOf
<1> QED
  BY <1>2 DEF M!MarketingInv, M!UsesAgree

\* Invitations and the list do not change.
LEMMA InvitationsStay ==
  ASSUME M!MarketingInv, UNCHANGED <<limit, invitation, given, batch>>,
         \A o \in Operators : asking'[o] \in {asking[o], M!Quiet}
  PROVE  M!BatchIsSound' /\ M!InvitationsAreSound' /\ M!CreatedIsStored'
<1>1. M!BatchIsSound' /\ M!CreatedIsStored'
  BY DEF M!MarketingInv, M!BatchIsSound, M!CreatedIsStored
<1>2. M!InvitationsAreSound'
  BY QuietIsNoUse DEF M!MarketingInv, M!InvitationsAreSound
<1> QED
  BY <1>1, <1>2

\* The first look at a code makes it, with no use.
LEMMA GetCodeStep ==
  ASSUME M!MarketingInv, NEW s \in Pupils, M!GetReferralCode(s)
  PROVE  M!MarketingInv'
<1>1. /\ code[s] = None /\ code' = [code EXCEPT ![s] = 0]
      /\ UNCHANGED <<limit, used, invitation, given, asking, batch>>
  BY DEF M!GetReferralCode
<1>2. /\ code' \in [Pupils -> Nat \cup {None}] /\ \A t \in Pupils : code'[t] = IF t = s THEN 0 ELSE code[t]
      /\ code'[s] # None
  BY <1>1, NoneAssumption DEF M!MarketingInv, M!CodesAreSound
<1>3. {u \in used : u[1] = s} = {}
  BY <1>1 DEF M!MarketingInv, M!CodesAreSound
<1>4. M!Cardinality({u \in used : u[1] = s}) = 0
  BY <1>3, CountIsCount, FS_EmptySet
<1>5. M!CodesAreSound'
  <2>1. \A u \in used : code'[u[1]] # None
    BY <1>2 DEF M!MarketingInv, M!CodesAreSound
  <2>2. ASSUME NEW o \in Operators, asking[o].what = "code"
        PROVE  LET r == asking[o]
               IN  /\ r.of \in Pupils /\ r.by \in Pupils /\ r.of # r.by /\ code'[r.of] # None
                   /\ r.saw \in Nat /\ r.saw <= M!Cardinality(M!UsesOf(r.of))
                   /\ limit = 1 => r.saw = M!Cardinality(M!UsesOf(r.of)) /\ <<r.of, r.by>> \notin used
    BY <1>2, <2>2 DEF M!MarketingInv, M!CodesAreSound
  <2> QED
    BY <1>1, <1>2, <2>1, <2>2 DEF M!MarketingInv, M!CodesAreSound, M!UsesOf
<1>6. M!UsesAgree'
  <2>1. ASSUME NEW t \in Pupils, code'[t] # None
        PROVE  LET n == M!Cardinality({u \in used : u[1] = t})
               IN  code'[t] <= n /\ (limit = 1 => code'[t] = n)
    <3>1. CASE t = s
      BY <1>2, <1>4, <3>1
    <3>2. CASE t # s
      BY <1>2, <2>1, <3>2 DEF M!MarketingInv, M!UsesAgree
    <3> QED
      BY <3>1, <3>2
  <2> QED
    BY <1>1, <2>1 DEF M!MarketingInv, M!UsesAgree
<1>7. M!OneAsks'
  BY <1>1 DEF M!MarketingInv, M!OneAsks, M!Asking
<1> QED
  BY <1>1, <1>5, <1>6, <1>7, InvitationsStay DEF M!MarketingInv

\* The use is one more of its code, and none of another; the total is the one read
\* and one more.
LEMMA UseReferralStep ==
  ASSUME M!MarketingInv, NEW c \in Operators, M!UseReferral(c)
  PROVE  M!MarketingInv'
<1> DEFINE r   == asking[c]
           new == <<r.of, r.by>>
<1>1. /\ r.of \in Pupils /\ r.by \in Pupils /\ r.of # r.by /\ code[r.of] # None
      /\ r.saw \in Nat /\ r.saw <= M!Cardinality(M!UsesOf(r.of))
      /\ limit = 1 => r.saw = M!Cardinality(M!UsesOf(r.of)) /\ new \notin used
      /\ M!Answer(c) /\ UNCHANGED <<limit, invitation, given, batch>>
  BY DEF M!UseReferral, M!MarketingInv, M!CodesAreSound
<1>2. /\ asking' = [o \in Operators |-> asking'[o]]
      /\ \A o \in Operators : asking'[o] = IF o = c THEN M!Quiet ELSE asking[o]
      /\ M!OneAsks'
  BY <1>1, AnswerKeeps
<1>3. M!BatchIsSound' /\ M!InvitationsAreSound' /\ M!CreatedIsStored'
  BY <1>1, <1>2, InvitationsStay
<1>4. limit' = 1 => \A g, h \in given' : g[1] = h[1] => g = h
  BY <1>1 DEF M!MarketingInv, M!UsesAgree
<1>5. CASE new \in used
  <2>1. UNCHANGED <<code, used>>
    BY <1>5 DEF M!UseReferral
  <2>2. /\ M!CodesAreSound'
        /\ \A s \in Pupils : code'[s] # None =>
             LET n == M!Cardinality({u \in used' : u[1] = s})
             IN code'[s] <= n /\ (limit' = 1 => code'[s] = n)
        /\ \A u \in used' : u[1] # u[2]
    BY <1>1, <1>2, <2>1, CodesStay
  <2>3. M!UsesAgree'
    BY <1>4, <2>2 DEF M!UsesAgree
  <2> QED
    BY <1>2, <1>3, <2>2, <2>3 DEF M!MarketingInv
<1>6. CASE new \notin used
  <2>1. used' = used \cup {new} /\ code' = [code EXCEPT ![r.of] = r.saw + 1]
    BY <1>6 DEF M!UseReferral
  <2>2. /\ code' \in [Pupils -> Nat \cup {None}]
        /\ \A s \in Pupils : code'[s] = IF s = r.of THEN r.saw + 1 ELSE code[s]
        /\ code'[r.of] # None
    BY <1>1, <2>1, NoneAssumption DEF M!MarketingInv, M!CodesAreSound
  <2>3. IsFiniteSet(used) /\ IsFiniteSet(used')
    <3>1. IsFiniteSet(used)
      BY FiniteIsFinite DEF M!MarketingInv, M!CodesAreSound
    <3> QED
      BY <2>1, <3>1, FS_AddElement
  <2>4. new[1] = r.of /\ new[2] = r.by
    OBVIOUS
  <2> HIDE DEF new
  <2> DEFINE Of(s) == {u \in used : u[1] = s}
  <2>5. ASSUME NEW s \in Pupils
        PROVE  /\ Cardinality(Of(s)) \in Nat
               /\ {u \in used' : u[1] = s} = IF s = r.of THEN Of(s) \cup {new} ELSE Of(s)
               /\ Cardinality({u \in used' : u[1] = s}) = Cardinality(Of(s)) + (IF s = r.of THEN 1 ELSE 0)
    <3>1. IsFiniteSet(Of(s))
      BY <2>3, FS_Subset
    <3>2. Cardinality(Of(s)) \in Nat
      BY <3>1, FS_CardinalityType
    <3>3. {u \in used' : u[1] = s} = IF s = r.of THEN Of(s) \cup {new} ELSE Of(s)
      BY <2>1, <2>4
    <3>4. new \notin Of(s)
      BY <1>6
    <3>5. Cardinality(Of(s) \cup {new}) = Cardinality(Of(s)) + 1
      BY <3>1, <3>4, FS_AddElement
    <3> HIDE DEF Of
    <3>6. CASE s = r.of
      BY <3>2, <3>3, <3>5, <3>6
    <3>7. CASE s # r.of
      <4>1. {u \in used' : u[1] = s} = Of(s)
        BY <3>3, <3>7
      <4>2. Cardinality({u \in used' : u[1] = s}) = Cardinality(Of(s))
        BY <4>1, Zenon
      <4>3. Cardinality(Of(s)) + 0 = Cardinality(Of(s))
        BY <3>2
      <4> QED
        BY <3>2, <3>7, <4>1, <4>2, <4>3, Zenon
    <3> QED
      BY <3>6, <3>7
  <2>6. \A s \in Pupils : M!Cardinality(M!UsesOf(s)) = Cardinality(Of(s))
    BY CountIsCount DEF M!UsesOf
  <2>7. \A s \in Pupils : M!Cardinality({u \in used' : u[1] = s}) = Cardinality({u \in used' : u[1] = s})
    BY CountIsCount
  <2>8. \A s \in Pupils : M!Cardinality(M!UsesOf(s)') = Cardinality({u \in used' : u[1] = s})
    BY CountIsCount DEF M!UsesOf
  <2>9. \A s \in Pupils : code[s] # None =>
          code[s] \in Nat /\ code[s] <= Cardinality(Of(s)) /\ (limit = 1 => code[s] = Cardinality(Of(s)))
    BY CountIsCount DEF M!MarketingInv, M!UsesAgree, M!CodesAreSound
  <2> HIDE DEF Of
  <2>10. M!CodesAreSound'
    <3>1. used' \subseteq Pupils \X Pupils
      BY <1>1, <2>1 DEF M!MarketingInv, M!CodesAreSound, new
    <3>2. \A u \in used' : code'[u[1]] # None
      BY <2>1, <2>2, <2>4 DEF M!MarketingInv, M!CodesAreSound
    <3>3. limit = 1 => \A o \in Operators : asking'[o].what # "code"
      <4>1. limit = 1 => \A o \in Operators : o # c => asking[o] = M!Quiet
        BY QuietIsNoUse DEF M!MarketingInv, M!OneAsks, M!Asking, M!UseReferral
      <4> QED
        BY <1>2, <4>1, QuietIsNoUse
    <3>4. ASSUME NEW o \in Operators, asking'[o].what = "code"
          PROVE  LET q == asking'[o]
                 IN  /\ q.of \in Pupils /\ q.by \in Pupils /\ q.of # q.by /\ code'[q.of] # None
                     /\ q.saw \in Nat /\ q.saw <= Cardinality({u \in used' : u[1] = q.of})
                     /\ limit # 1
      <4>1. o # c /\ asking'[o] = asking[o]
        BY <1>2, <3>4, QuietIsNoUse
      <4>2. /\ asking[o].of \in Pupils /\ asking[o].by \in Pupils /\ asking[o].of # asking[o].by
            /\ code[asking[o].of] # None
            /\ asking[o].saw \in Nat /\ asking[o].saw <= M!Cardinality(M!UsesOf(asking[o].of))
        BY <3>4, <4>1 DEF M!MarketingInv, M!CodesAreSound
      <4> QED
        BY <2>2, <2>5, <2>6, <3>3, <3>4, <4>1, <4>2
    <3>5. M!IsFiniteSet(used')
      BY <2>3, FiniteIsFinite
    <3> QED
      BY <1>1, <1>2, <2>2, <3>1, <3>2, <3>4, <3>5, <2>7 DEF M!CodesAreSound, M!UsesOf
  <2>11. M!UsesAgree'
    <3>1. ASSUME NEW s \in Pupils, code'[s] # None
          PROVE  LET n == Cardinality({u \in used' : u[1] = s})
                 IN  code'[s] <= n /\ (limit = 1 => code'[s] = n)
      BY <1>1, <2>2, <2>5, <2>6, <2>9, <3>1
    <3>2. \A u \in used' : u[1] # u[2]
      BY <1>1, <2>1, <2>4 DEF M!MarketingInv, M!UsesAgree
    <3> QED
      BY <1>1, <1>4, <2>7, <3>1, <3>2 DEF M!UsesAgree
  <2> QED
    BY <1>2, <1>3, <2>10, <2>11 DEF M!MarketingInv
<1> QED
  BY <1>5, <1>6

\* What is known of the parts when only invitations change.
LEMMA InvitationStep ==
  ASSUME M!MarketingInv, UNCHANGED <<limit, code, used>>, asking' = [o \in Operators |-> asking'[o]],
         \A o \in Operators : asking'[o] \in {asking[o], M!Quiet},
         M!BatchIsSound', M!InvitationsAreSound', M!CreatedIsStored', M!OneAsks',
         limit = 1 => \A g, h \in given' : g[1] = h[1] => g = h
  PROVE  M!MarketingInv'
<1>1. /\ M!CodesAreSound'
      /\ \A s \in Pupils : code'[s] # None =>
           LET n == M!Cardinality({u \in used' : u[1] = s})
           IN code'[s] <= n /\ (limit' = 1 => code'[s] = n)
      /\ \A u \in used' : u[1] # u[2]
  BY CodesStay
<1>2. M!UsesAgree'
  BY <1>1 DEF M!UsesAgree
<1> QED
  BY <1>1, <1>2 DEF M!MarketingInv

\* With one request at a time the invitation is as it was when it was checked.
LEMMA UseInvitationStep ==
  ASSUME M!MarketingInv, NEW c \in Operators, M!UseInvitation(c)
  PROVE  M!MarketingInv'
<1> DEFINE i == asking[c].of
           s == asking[c].by
<1>1. /\ asking[c].what = "invitation" /\ M!Answer(c) /\ UNCHANGED <<limit, code, used, batch>>
      /\ i \in 1..batch.made /\ s \in Pupils /\ \A f \in batch.flushed : f[1] # i
      /\ limit = 1 => invitation[i] = None \/ invitation[i].by = None
  BY DEF M!UseInvitation, M!MarketingInv, M!InvitationsAreSound
<1>2. /\ asking' = [o \in Operators |-> asking'[o]]
      /\ \A o \in Operators : asking'[o] = IF o = c THEN M!Quiet ELSE asking[o]
      /\ M!OneAsks'
  BY <1>1, AnswerKeeps
<1>3. CASE invitation[i] = None
  <2>1. UNCHANGED <<invitation, given>>
    BY <1>3 DEF M!UseInvitation
  <2>2. M!BatchIsSound' /\ M!InvitationsAreSound' /\ M!CreatedIsStored'
    BY <1>1, <1>2, <2>1, InvitationsStay
  <2>3. limit = 1 => \A g, h \in given' : g[1] = h[1] => g = h
    BY <2>1 DEF M!MarketingInv, M!UsesAgree
  <2> QED
    BY <1>1, <1>2, <2>2, <2>3, InvitationStep
<1>4. CASE invitation[i] # None
  <2> DEFINE rec == [invitation[i] EXCEPT !.by = s]
             new == <<i, s>>
  <2>1. invitation' = [invitation EXCEPT ![i] = rec] /\ given' = given \cup {new}
    BY <1>4 DEF M!UseInvitation
  <2>2. i \in 1..MaxMade
    BY <1>1, OfficeAssumption DEF M!MarketingInv, M!BatchIsSound
  <2>3. invitation[i] \in M!Invitation
    BY <2>2, <1>4 DEF M!MarketingInv, M!BatchIsSound
  <2>4. rec \in M!Invitation /\ rec.by = s /\ rec # None /\ s # None
    <3>1. rec \in M!Invitation /\ rec.by = s
      BY <1>1, <2>3 DEF M!Invitation
    <3>2. s # None
      BY <1>1, OfficeAssumption
    <3> HIDE DEF rec
    <3> QED
      BY <3>1, <3>2, OfficeAssumption
  <2>5. new[1] = i /\ new[2] = s /\ new \in (1..batch.made) \X Pupils
    BY <1>1
  <2> HIDE DEF rec, new
  <2>6. \A j \in 1..MaxMade : invitation'[j] = IF j = i THEN rec ELSE invitation[j]
    BY <2>1, <2>2 DEF M!MarketingInv, M!BatchIsSound
  <2>7. M!BatchIsSound'
    <3>1. invitation' \in [1..MaxMade -> M!Invitation \cup {None}]
      BY <2>1, <2>2, <2>4 DEF M!MarketingInv, M!BatchIsSound
    <3>2. ASSUME NEW f \in batch.flushed
          PROVE  invitation'[f[1]] = None /\ \A g \in given' : g[1] # f[1]
      <4>1. f[1] # i /\ f[1] \in 1..batch.made
        BY <1>1 DEF M!MarketingInv, M!BatchIsSound
      <4>2. f[1] \in 1..MaxMade
        BY <4>1, OfficeAssumption DEF M!MarketingInv, M!BatchIsSound
      <4> QED
        BY <2>1, <2>5, <2>6, <4>1, <4>2 DEF M!MarketingInv, M!BatchIsSound
    <3>3. \A j \in 1..MaxMade : invitation'[j] # None => j <= batch.made
      BY <1>4, <2>2, <2>6 DEF M!MarketingInv, M!BatchIsSound
    <3> QED
      BY <1>1, <3>1, <3>2, <3>3 DEF M!MarketingInv, M!BatchIsSound
  <2>8. M!InvitationsAreSound'
    <3>1. given' \subseteq (1..batch.made) \X Pupils
      BY <2>1, <2>5 DEF M!MarketingInv, M!InvitationsAreSound
    <3>2. ASSUME NEW g \in given'
          PROVE  invitation'[g[1]] # None /\ invitation'[g[1]].by # None
      <4>1. g[1] \in 1..MaxMade
        BY <3>1, OfficeAssumption DEF M!MarketingInv, M!BatchIsSound
      <4> QED
        BY <2>1, <2>4, <2>5, <2>6, <4>1 DEF M!MarketingInv, M!InvitationsAreSound
    <3>3. limit = 1 => \A o \in Operators : asking'[o] = M!Quiet
      BY <1>2, <1>1, QuietIsNoUse DEF M!MarketingInv, M!OneAsks, M!Asking
    <3>4. ASSUME NEW o \in Operators, asking'[o].what = "invitation"
          PROVE  /\ limit # 1
                 /\ asking'[o].of \in 1..batch.made /\ asking'[o].by \in Pupils
                 /\ \A f \in batch.flushed : f[1] # asking'[o].of
      BY <1>2, <3>3, <3>4, QuietIsNoUse DEF M!MarketingInv, M!InvitationsAreSound
    <3> QED
      BY <1>1, <3>1, <3>2, <3>4 DEF M!InvitationsAreSound
  <2>9. M!CreatedIsStored'
    <3>1. batch.created \subseteq 1..MaxMade
      BY OfficeAssumption DEF M!MarketingInv, M!BatchIsSound
    <3> QED
      BY <1>1, <2>4, <2>6, <3>1 DEF M!MarketingInv, M!CreatedIsStored
  <2>10. limit = 1 => \A g, h \in given' : g[1] = h[1] => g = h
    <3>1. limit = 1 => \A g \in given : g[1] # i
      BY <1>1, <1>4 DEF M!MarketingInv, M!InvitationsAreSound
    <3> QED
      BY <2>1, <2>5, <3>1 DEF M!MarketingInv, M!UsesAgree
  <2> QED
    BY <1>1, <1>2, <2>7, <2>8, <2>9, <2>10, InvitationStep
<1> QED
  BY <1>3, <1>4

\* An invitation is deleted with its discounts.
LEMMA DeleteInvitationStep ==
  ASSUME M!MarketingInv, NEW i \in 1..MaxMade, M!DeleteInvitation(i)
  PROVE  M!MarketingInv'
<1>1. /\ invitation' = [invitation EXCEPT ![i] = None]
      /\ given' = {g \in given : g[1] # i}
      /\ batch' = [batch EXCEPT !.created = @ \ {i}]
      /\ UNCHANGED <<limit, code, used, asking>>
  BY DEF M!DeleteInvitation
<1>2. /\ \A j \in 1..MaxMade : invitation'[j] = IF j = i THEN None ELSE invitation[j]
      /\ invitation' \in [1..MaxMade -> M!Invitation \cup {None}]
  BY <1>1 DEF M!MarketingInv, M!BatchIsSound
<1>3. /\ batch'.todo = batch.todo /\ batch'.expires = batch.expires /\ batch'.flushed = batch.flushed
      /\ batch'.dead = batch.dead /\ batch'.made = batch.made /\ batch'.created = batch.created \ {i}
      /\ batch' = [todo |-> batch'.todo, expires |-> batch'.expires, flushed |-> batch'.flushed,
                   created |-> batch'.created, dead |-> batch'.dead, made |-> batch'.made]
  <2>1. batch = [todo |-> batch.todo, expires |-> batch.expires, flushed |-> batch.flushed,
                 created |-> batch.created, dead |-> batch.dead, made |-> batch.made]
    BY DEF M!MarketingInv, M!BatchIsSound
  <2> QED
    BY <1>1, <2>1
<1>4. \A j \in 1..batch.made : j \in 1..MaxMade
  BY OfficeAssumption DEF M!MarketingInv, M!BatchIsSound
<1>5. M!BatchIsSound'
  <2>1. ASSUME NEW f \in batch.flushed
        PROVE  invitation'[f[1]] = None /\ \A g \in given' : g[1] # f[1]
    <3>1. f[1] \in 1..MaxMade
      BY <1>4 DEF M!MarketingInv, M!BatchIsSound
    <3> QED
      BY <1>1, <1>2, <3>1 DEF M!MarketingInv, M!BatchIsSound
  <2>2. \A j \in 1..MaxMade : invitation'[j] # None => j <= batch.made
    BY <1>2 DEF M!MarketingInv, M!BatchIsSound
  <2> QED
    BY <1>2, <1>3, <2>1, <2>2 DEF M!MarketingInv, M!BatchIsSound
<1>6. M!InvitationsAreSound'
  <2>1. ASSUME NEW g \in given'
        PROVE  invitation'[g[1]] # None /\ invitation'[g[1]].by # None
    <3>1. g[1] \in 1..MaxMade /\ g[1] # i
      BY <1>1, <1>4 DEF M!MarketingInv, M!InvitationsAreSound
    <3> QED
      BY <1>1, <1>2, <3>1 DEF M!MarketingInv, M!InvitationsAreSound
  <2>2. ASSUME NEW o \in Operators, asking[o].what = "invitation", limit = 1
        PROVE  invitation'[asking[o].of] = None \/ invitation'[asking[o].of].by = None
    BY <1>2, <1>4, <2>2 DEF M!MarketingInv, M!InvitationsAreSound
  <2>3. given' \subseteq (1..batch.made) \X Pupils
    BY <1>1 DEF M!MarketingInv, M!InvitationsAreSound
  <2> QED
    BY <1>1, <1>3, <2>1, <2>2, <2>3 DEF M!MarketingInv, M!InvitationsAreSound
<1>7. M!CreatedIsStored'
  <2>1. batch.created \subseteq 1..MaxMade
    BY <1>4 DEF M!MarketingInv, M!BatchIsSound
  <2> QED
    BY <1>2, <1>3, <2>1 DEF M!MarketingInv, M!CreatedIsStored
<1>8. limit = 1 => \A g, h \in given' : g[1] = h[1] => g = h
  BY <1>1 DEF M!MarketingInv, M!UsesAgree
<1>9. M!OneAsks'
  BY <1>1 DEF M!MarketingInv, M!OneAsks, M!Asking
<1>10. asking' = [o \in Operators |-> asking'[o]]
  BY <1>1 DEF M!MarketingInv, M!CodesAreSound
<1> QED
  BY <1>1, <1>5, <1>6, <1>7, <1>8, <1>9, <1>10, InvitationStep

\* A step of the list stores rows that have a number no invitation has had.
LEMMA BatchMoves ==
  ASSUME M!MarketingInv, UNCHANGED <<limit, code, used, given, asking>>,
         batch' = [todo |-> batch'.todo, expires |-> batch'.expires, flushed |-> batch'.flushed,
                   created |-> batch'.created, dead |-> batch'.dead, made |-> batch'.made],
         batch'.todo \subseteq Pupils, batch'.expires \in BOOLEAN, batch'.made \in batch.made..MaxMade,
         batch'.made + M!Cardinality(batch'.todo) <= MaxMade,
         NEW rows \in SUBSET ((1..batch'.made) \X Pupils),
         \A r \in rows : r \in batch.flushed \/ r[1] > batch.made,
         invitation' \in [1..MaxMade -> M!Invitation \cup {None}],
         \A j \in 1..MaxMade :
           IF \E r \in rows : r[1] = j THEN invitation'[j] # None
                                       ELSE invitation'[j] = invitation[j],
         batch'.flushed \subseteq (1..batch'.made) \X Pupils,
         \A f \in batch'.flushed : (f \in batch.flushed \/ f[1] > batch.made) /\ \A r \in rows : r[1] # f[1],
         \A j \in batch'.created : j \in batch.created \/ \E r \in rows : r[1] = j
  PROVE  M!MarketingInv'
<1>1. /\ \A j \in 1..batch.made : j \in 1..batch'.made /\ j \in 1..MaxMade
      /\ \A j \in 1..batch'.made : j \in 1..MaxMade
      /\ batch.made \in Nat /\ batch'.made \in 0..MaxMade
  BY OfficeAssumption DEF M!MarketingInv, M!BatchIsSound
<1>2. M!BatchIsSound'
  <2>1. batch'.created \subseteq 1..batch'.made
    BY <1>1 DEF M!MarketingInv, M!BatchIsSound
  <2>2. ASSUME NEW f \in batch'.flushed
        PROVE  invitation'[f[1]] = None /\ \A g \in given : g[1] # f[1]
    <3>1. f[1] \in 1..MaxMade
      BY <1>1
    <3>2. invitation'[f[1]] = invitation[f[1]]
      BY <3>1
    <3>3. CASE f \in batch.flushed
      BY <3>2, <3>3 DEF M!MarketingInv, M!BatchIsSound
    <3>4. CASE f[1] > batch.made
      <4>1. invitation[f[1]] = None
        BY <1>1, <3>1, <3>4 DEF M!MarketingInv, M!BatchIsSound
      <4>2. \A g \in given : g[1] # f[1]
        BY <1>1, <3>1, <3>4 DEF M!MarketingInv, M!InvitationsAreSound
      <4> QED
        BY <3>2, <4>1, <4>2
    <3> QED
      BY <3>3, <3>4
  <2>3. ASSUME NEW j \in 1..MaxMade, invitation'[j] # None
        PROVE  j <= batch'.made
    <3>1. CASE \E r \in rows : r[1] = j
      BY <3>1
    <3>2. CASE ~\E r \in rows : r[1] = j
      <4>1. j <= batch.made
        BY <2>3, <3>2 DEF M!MarketingInv, M!BatchIsSound
      <4> QED
        BY <1>1, <4>1
    <3> QED
      BY <3>1, <3>2
  <2> QED
    BY <1>1, <2>1, <2>2, <2>3 DEF M!BatchIsSound
<1>3. ASSUME NEW j \in 1..batch.made, \A f \in batch.flushed : f[1] # j
      PROVE  invitation'[j] = invitation[j] /\ \A f \in batch'.flushed : f[1] # j
  BY <1>1, <1>3
<1>4. M!InvitationsAreSound'
  <2>1. ASSUME NEW g \in given
        PROVE  invitation'[g[1]] # None /\ invitation'[g[1]].by # None
    BY <1>3 DEF M!MarketingInv, M!InvitationsAreSound, M!BatchIsSound
  <2>2. ASSUME NEW o \in Operators, asking[o].what = "invitation"
        PROVE  /\ asking[o].of \in 1..batch'.made /\ asking[o].by \in Pupils
               /\ \A f \in batch'.flushed : f[1] # asking[o].of
               /\ limit = 1 => invitation'[asking[o].of] = None \/ invitation'[asking[o].of].by = None
    BY <1>1, <1>3, <2>2 DEF M!MarketingInv, M!InvitationsAreSound
  <2>3. given' \subseteq (1..batch'.made) \X Pupils
    BY <1>1 DEF M!MarketingInv, M!InvitationsAreSound
  <2> QED
    BY <2>1, <2>2, <2>3 DEF M!InvitationsAreSound
<1>5. M!CreatedIsStored'
  <2> SUFFICES ASSUME NEW j \in batch'.created
               PROVE  invitation'[j] # None
    BY DEF M!CreatedIsStored
  <2>1. j \in 1..MaxMade
    BY <1>1 DEF M!MarketingInv, M!BatchIsSound
  <2>2. CASE \E r \in rows : r[1] = j
    BY <2>1, <2>2
  <2>3. CASE ~\E r \in rows : r[1] = j
    BY <2>1, <2>3 DEF M!MarketingInv, M!CreatedIsStored
  <2> QED
    BY <2>2, <2>3
<1>6. limit = 1 => \A g, h \in given' : g[1] = h[1] => g = h
  BY DEF M!MarketingInv, M!UsesAgree
<1>7. M!OneAsks'
  BY DEF M!MarketingInv, M!OneAsks, M!Asking
<1>8. asking' = [o \in Operators |-> asking'[o]]
  BY DEF M!MarketingInv, M!CodesAreSound
<1> QED
  BY <1>2, <1>4, <1>5, <1>6, <1>7, <1>8, InvitationStep

\* What is stored of a list of rows.
LEMMA StoredRows ==
  ASSUME M!MarketingInv, NEW rows \in SUBSET ((1..MaxMade) \X Pupils), M!Stored(rows)
  PROVE  /\ invitation' \in [1..MaxMade -> M!Invitation \cup {None}]
         /\ \A j \in 1..MaxMade :
              IF \E r \in rows : r[1] = j THEN invitation'[j] # None
                                          ELSE invitation'[j] = invitation[j]
<1> DEFINE Row(j) == [of |-> (CHOOSE r \in rows : r[1] = j)[2], expires |-> batch.expires, by |-> None]
<1>1. invitation' = [j \in 1..MaxMade |-> IF \E r \in rows : r[1] = j THEN Row(j) ELSE invitation[j]]
  BY DEF M!Stored, M!MarketingInv, M!BatchIsSound
<1>2. ASSUME NEW j \in 1..MaxMade, \E r \in rows : r[1] = j
      PROVE  Row(j) \in M!Invitation
  <2>1. (CHOOSE r \in rows : r[1] = j) \in rows
    BY <1>2
  <2>2. (CHOOSE r \in rows : r[1] = j)[2] \in Pupils
    BY <2>1
  <2> QED
    BY <2>2 DEF M!Invitation, M!MarketingInv, M!BatchIsSound
<1> HIDE DEF Row
<1>3. \A j \in 1..MaxMade : (\E r \in rows : r[1] = j) => Row(j) \in M!Invitation /\ Row(j) # None
  BY <1>2, OfficeAssumption
<1> QED
  BY <1>1, <1>3 DEF M!MarketingInv, M!BatchIsSound

\* The fields of the list.
LEMMA BatchType ==
  ASSUME M!MarketingInv
  PROVE  /\ batch = [todo |-> batch.todo, expires |-> batch.expires, flushed |-> batch.flushed,
                     created |-> batch.created, dead |-> batch.dead, made |-> batch.made]
         /\ batch.todo \subseteq Pupils /\ IsFiniteSet(batch.todo) /\ Cardinality(batch.todo) \in Nat
         /\ batch.made \in Nat /\ batch.made + Cardinality(batch.todo) <= MaxMade
         /\ batch.expires \in BOOLEAN /\ batch.flushed \subseteq (1..batch.made) \X Pupils
<1>1. IsFiniteSet(batch.todo)
  BY OfficeAssumption, FS_Subset DEF M!MarketingInv, M!BatchIsSound
<1>2. Cardinality(batch.todo) \in Nat
  BY <1>1, FS_CardinalityType
<1> QED
  BY <1>1, <1>2, CountIsCount DEF M!MarketingInv, M!BatchIsSound

\* A list is asked for.
LEMMA GenerateListStep ==
  ASSUME M!MarketingInv, NEW list \in SUBSET Pupils, NEW expires \in BOOLEAN,
         M!GenerateInvitations(list, expires)
  PROVE  M!MarketingInv'
<1>1. /\ batch.flushed = {} /\ batch.made + M!Cardinality(list) <= MaxMade
      /\ batch' = [batch EXCEPT !.todo = list, !.expires = expires, !.created = {}, !.dead = FALSE]
      /\ UNCHANGED <<limit, code, used, invitation, given, asking>>
  BY DEF M!GenerateInvitations
<1>2. /\ batch'.todo = list /\ batch'.expires = expires /\ batch'.created = {}
      /\ batch'.made = batch.made /\ batch'.flushed = {}
      /\ batch' = [todo |-> batch'.todo, expires |-> batch'.expires, flushed |-> batch'.flushed,
                   created |-> batch'.created, dead |-> batch'.dead, made |-> batch'.made]
  BY <1>1, BatchType
<1>3. batch.made \in batch.made..MaxMade
  BY BatchType, OfficeAssumption DEF M!MarketingInv, M!BatchIsSound
<1> DEFINE rows == {}
<1>4. /\ rows \in SUBSET ((1..batch'.made) \X Pupils)
      /\ invitation' \in [1..MaxMade -> M!Invitation \cup {None}]
      /\ \A j \in 1..MaxMade : invitation'[j] = invitation[j]
  BY <1>1 DEF M!MarketingInv, M!BatchIsSound
<1>5. \A r \in rows : FALSE
  OBVIOUS
<1> HIDE DEF rows
<1> QED
  BY <1>1, <1>2, <1>3, <1>4, <1>5, BatchMoves

\* One student of the list: the number of the row is new.
LEMMA GenerateOneStep ==
  ASSUME M!MarketingInv, NEW s \in Pupils, NEW outcome, M!GenerateInvitation(s, outcome)
  PROVE  M!MarketingInv'
<1> DEFINE n    == batch.made + 1
           todo == batch.todo \ {s}
           new  == <<n, s>>
<1>1. s \in batch.todo /\ UNCHANGED <<limit, code, used, given, asking>>
  BY DEF M!GenerateInvitation
<1>2. /\ todo \subseteq Pupils
      /\ Cardinality(todo) = Cardinality(batch.todo) - 1 /\ Cardinality(todo) \in Nat
      /\ M!Cardinality(todo) = Cardinality(todo)
  <2>1. Cardinality(todo) = Cardinality(batch.todo) - 1
    BY <1>1, BatchType, FS_RemoveElement
  <2>2. IsFiniteSet(todo) /\ Cardinality(todo) \in Nat
    BY BatchType, FS_Subset, FS_CardinalityType
  <2> QED
    BY <2>1, <2>2, CountIsCount, BatchType
<1> HIDE DEF todo
<1>3. /\ n \in Nat /\ n \in batch.made..MaxMade /\ batch.made \in batch.made..MaxMade
      /\ n + M!Cardinality(todo) <= MaxMade /\ batch.made + M!Cardinality(todo) <= MaxMade
  BY <1>2, BatchType, OfficeAssumption
<1>4. /\ new \in (1..n) \X Pupils /\ new[1] = n /\ n > batch.made
      /\ \A f \in batch.flushed : f \in (1..n) \X Pupils /\ f[1] # n
  BY <1>3, BatchType
<1>5. (1..n) \X Pupils \subseteq (1..MaxMade) \X Pupils
  BY <1>3, OfficeAssumption
<1>6. CASE /\ M!Stored(batch.flushed \cup {new})
           /\ batch' = [[batch EXCEPT !.todo = @ \ {s}] EXCEPT !.created = @ \cup {n}, !.flushed = {}, !.made = n]
  <2>1. /\ batch'.todo = todo /\ batch'.created = batch.created \cup {n} /\ batch'.flushed = {}
        /\ batch'.made = n /\ batch'.expires = batch.expires
        /\ batch' = [todo |-> batch'.todo, expires |-> batch'.expires, flushed |-> batch'.flushed,
                     created |-> batch'.created, dead |-> batch'.dead, made |-> batch'.made]
    BY <1>6, BatchType DEF todo
  <2> DEFINE rows == batch.flushed \cup {new}
  <2>2. /\ rows \in SUBSET ((1..n) \X Pupils) /\ rows \in SUBSET ((1..MaxMade) \X Pupils)
        /\ \A r \in rows : r \in batch.flushed \/ r[1] > batch.made
        /\ \E r \in rows : r[1] = n
    BY <1>4, <1>5
  <2>3. M!Stored(rows)
    BY <1>6
  <2> HIDE DEF rows, n, new
  <2>4. /\ invitation' \in [1..MaxMade -> M!Invitation \cup {None}]
        /\ \A j \in 1..MaxMade :
             IF \E r \in rows : r[1] = j THEN invitation'[j] # None
                                         ELSE invitation'[j] = invitation[j]
    BY <2>2, <2>3, StoredRows
  <2>5. \A j \in batch'.created : j \in batch.created \/ \E r \in rows : r[1] = j
    BY <2>1, <2>2
  <2> QED
    BY <1>1, <1>2, <1>3, <2>1, <2>2, <2>4, <2>5, BatchType, BatchMoves
<1>7. ASSUME UNCHANGED invitation, batch'.todo = todo, batch'.created = batch.created,
             batch'.flushed \subseteq batch.flushed \cup {new}, batch'.expires = batch.expires,
             batch'.made = n \/ (batch'.made = batch.made /\ batch'.flushed = {}),
             batch' = [todo |-> batch'.todo, expires |-> batch'.expires, flushed |-> batch'.flushed,
                       created |-> batch'.created, dead |-> batch'.dead, made |-> batch'.made]
      PROVE  M!MarketingInv'
  <2> DEFINE rows == {}
  <2>1. /\ rows \in SUBSET ((1..batch'.made) \X Pupils)
        /\ invitation' \in [1..MaxMade -> M!Invitation \cup {None}]
        /\ \A j \in 1..MaxMade : invitation'[j] = invitation[j]
    BY <1>7 DEF M!MarketingInv, M!BatchIsSound
  <2>2. \A r \in rows : FALSE
    OBVIOUS
  <2>3. /\ batch'.made \in batch.made..MaxMade /\ batch'.made + M!Cardinality(batch'.todo) <= MaxMade
        /\ batch'.flushed \subseteq (1..batch'.made) \X Pupils
        /\ \A f \in batch'.flushed : f \in batch.flushed \/ f[1] > batch.made
    BY <1>3, <1>4, <1>7
  <2> HIDE DEF rows, n, new
  <2> QED
    BY <1>1, <1>2, <1>7, <2>1, <2>2, <2>3, BatchType, BatchMoves
<1>8. CASE /\ UNCHANGED invitation
           /\ batch' = [[batch EXCEPT !.todo = @ \ {s}] EXCEPT !.flushed = @ \cup {new}, !.made = n]
  <2>1. /\ batch'.todo = todo /\ batch'.created = batch.created
        /\ batch'.flushed = batch.flushed \cup {new} /\ batch'.expires = batch.expires /\ batch'.made = n
        /\ batch' = [todo |-> batch'.todo, expires |-> batch'.expires, flushed |-> batch'.flushed,
                     created |-> batch'.created, dead |-> batch'.dead, made |-> batch'.made]
    BY <1>8, BatchType DEF todo
  <2>2. UNCHANGED invitation /\ batch'.flushed \subseteq batch.flushed \cup {new}
    BY <1>8, <2>1
  <2> HIDE DEF n, new
  <2> QED
    BY <1>7, <2>1, <2>2
<1>9. CASE /\ UNCHANGED invitation
           /\ batch' = [[batch EXCEPT !.todo = @ \ {s}] EXCEPT !.flushed = {}, !.dead = TRUE]
  BY <1>7, <1>9, BatchType DEF todo
<1> QED
  BY <1>6, <1>8, <1>9 DEF M!GenerateInvitation

\* What is left is stored.
LEMMA EndBatchStep ==
  ASSUME M!MarketingInv, M!EndBatch
  PROVE  M!MarketingInv'
<1> DEFINE rows == batch.flushed
<1>1. /\ M!Stored(rows) /\ batch' = [batch EXCEPT !.flushed = {}]
      /\ UNCHANGED <<limit, code, used, given, asking>>
  BY DEF M!EndBatch
<1>2. /\ batch'.todo = batch.todo /\ batch'.created = batch.created /\ batch'.flushed = {}
      /\ batch'.made = batch.made /\ batch'.expires = batch.expires
      /\ batch' = [todo |-> batch'.todo, expires |-> batch'.expires, flushed |-> batch'.flushed,
                   created |-> batch'.created, dead |-> batch'.dead, made |-> batch'.made]
  BY <1>1, BatchType
<1>3. /\ rows \in SUBSET ((1..batch'.made) \X Pupils) /\ rows \in SUBSET ((1..MaxMade) \X Pupils)
      /\ batch.made \in batch.made..MaxMade /\ batch.made + M!Cardinality(batch.todo) <= MaxMade
  BY <1>2, BatchType, CountIsCount, OfficeAssumption
<1>4. /\ invitation' \in [1..MaxMade -> M!Invitation \cup {None}]
      /\ \A j \in 1..MaxMade :
           IF \E r \in rows : r[1] = j THEN invitation'[j] # None
                                       ELSE invitation'[j] = invitation[j]
  BY <1>1, <1>3, StoredRows
<1>5. \A r \in rows : r \in batch.flushed
  OBVIOUS
<1> HIDE DEF rows
<1> QED
  BY <1>1, <1>2, <1>3, <1>4, <1>5, BatchType, BatchMoves

-----------------------------------------------------------------------------
(* Churn *)

\* Without a debt a student gets at most 65 points, and 75 make the risk critical.
LEMMA CriticalScore ==
  ASSUME NEW s \in Learners, owes[s] \in C!Debt
  PROVE  /\ C!Level(C!Score(s)) \in {"critical", "high", "medium", "low"}
         /\ C!Level(C!Score(s)) = "critical" => owes[s] # "none"
<1>1. C!AbsenceScore(s) \in {0, 20, 30, 40}
  BY DEF C!AbsenceScore
<1>2. C!MissedScore(s) \in {0, 25}
  BY DEF C!MissedScore
<1>3. C!DebtScore(s) \in {0, 15, 35} /\ (owes[s] = "none" => C!DebtScore(s) = 0)
  BY DEF C!DebtScore, C!Debt
<1>4. C!Score(s) \in Nat /\ (owes[s] = "none" => C!Score(s) <= 65)
  BY <1>1, <1>2, <1>3 DEF C!Score
<1> QED
  BY <1>4 DEF C!Level

\* Everybody is computed.
LEMMA ComputeStep ==
  ASSUME C!ChurnInv, NEW r \in Operators, C!ComputeRisks(r)
  PROVE  C!ChurnInv'
<1>1. /\ run' = [run EXCEPT ![r] = [s \in Learners |->
                   [level |-> C!Level(C!Score(s)), owed |-> owes[s], old |-> risk[s]]]]
      /\ UNCHANGED <<limit, mark, recent, owes, risk>>
  BY DEF C!ComputeRisks
<1>2. ASSUME NEW s \in Learners
      PROVE  /\ run'[r][s].level = C!Level(C!Score(s)) /\ run'[r][s].owed = owes[s]
             /\ run'[r][s].old = risk[s]
  BY <1>1 DEF C!ChurnInv, C!RunsAreSound
<1>3. \A x \in Operators : x # r => run'[x] = run[x]
  BY <1>1 DEF C!ChurnInv, C!RunsAreSound
<1>4. \A s \in Learners : owes[s] \in C!Debt /\ risk[s] \in C!Risk \cup {None}
  BY DEF C!ChurnInv, C!RunsAreSound
<1>5. ASSUME NEW x \in Operators, NEW s \in Learners, run'[x] # None
      PROVE  /\ run'[x][s].level \in {"critical", "high", "medium", "low"} /\ run'[x][s].owed \in C!Debt
             /\ run'[x][s].level = "critical" => run'[x][s].owed # "none"
             /\ run'[x][s].old # None => risk[s] \in C!Risk
  <2>1. CASE x = r
    BY <1>2, <1>4, <2>1, CriticalScore
  <2>2. CASE x # r
    BY <1>3, <1>5, <2>2 DEF C!ChurnInv, C!RunsAreSound
  <2> QED
    BY <2>1, <2>2
<1>6. run' = [x \in Operators |-> run'[x]]
  BY <1>1 DEF C!ChurnInv, C!RunsAreSound
<1>7. C!RunsAreSound'
  BY <1>1, <1>5, <1>6 DEF C!ChurnInv, C!RunsAreSound
<1>8. C!CriticalOwes'
  BY <1>1 DEF C!ChurnInv, C!CriticalOwes
<1> QED
  BY <1>7, <1>8 DEF C!ChurnInv

\* The rows that are written carry the debt they were computed from, or keep theirs.
LEMMA RisksWritten ==
  ASSUME C!ChurnInv, NEW r \in Operators, C!CommitRisks(r)
  PROVE  /\ risk' \in [Learners -> C!Risk \cup {None}]
         /\ \A s \in Learners : /\ risk[s] \in C!Risk => risk'[s] \in C!Risk
                                /\ risk'[s] # None /\ risk'[s].level = "critical" => risk'[s].owed # "none"
<1>1. CASE risk' = risk
  BY <1>1 DEF C!ChurnInv, C!RunsAreSound, C!CriticalOwes
<1>2. CASE risk' # risk
  <2> DEFINE Row(s) ==
        LET new == run[r][s]
        IN  CASE new.old = None -> [level |-> new.level, owed |-> new.owed, resolved |-> FALSE]
              [] new.old # None /\ new.level # new.old.level ->
                   [risk[s] EXCEPT !.level = new.level, !.owed = new.owed]
              [] new.old # None /\ new.level = new.old.level ->
                   [risk[s] EXCEPT !.owed = IF risk[s].level = new.level THEN new.owed ELSE @]
  <2>1. risk' = [s \in Learners |-> Row(s)]
    BY <1>2 DEF C!CommitRisks
  <2>2. ASSUME NEW s \in Learners
        PROVE  Row(s) \in C!Risk /\ (Row(s).level = "critical" => Row(s).owed # "none")
    <3> DEFINE new == run[r][s]
    <3>1. /\ new.level \in {"critical", "high", "medium", "low"} /\ new.owed \in C!Debt
          /\ new.level = "critical" => new.owed # "none"
          /\ new.old # None => risk[s] \in C!Risk
      BY DEF C!CommitRisks, C!ChurnInv, C!RunsAreSound
    <3>2. risk[s] # None /\ risk[s].level = "critical" => risk[s].owed # "none"
      BY DEF C!ChurnInv, C!CriticalOwes
    <3>3. CASE new.old = None
      <4>1. Row(s) = [level |-> new.level, owed |-> new.owed, resolved |-> FALSE]
        BY <3>3
      <4> QED
        BY <3>1, <4>1 DEF C!Risk
    <3>4. CASE new.old # None /\ new.level # new.old.level
      <4>1. Row(s) = [risk[s] EXCEPT !.level = new.level, !.owed = new.owed]
        BY <3>4
      <4> HIDE DEF new, Row
      <4> QED
        BY <3>1, <3>4, <4>1 DEF C!Risk
    <3>5. CASE new.old # None /\ new.level = new.old.level
      <4>1. Row(s) = [risk[s] EXCEPT !.owed = IF risk[s].level = new.level THEN new.owed ELSE @]
        BY <3>5
      <4>2. risk[s] \in C!Risk /\ risk[s] # None
        BY <3>1, <3>5, OfficeAssumption
      <4> HIDE DEF new, Row
      <4> QED
        BY <3>1, <3>2, <4>1, <4>2 DEF C!Risk
    <3> QED
      BY <3>3, <3>4, <3>5
  <2> HIDE DEF Row
  <2> QED
    BY <2>1, <2>2
<1> QED
  BY <1>1, <1>2

\* The calculation is over.
LEMMA CommitRisksStep ==
  ASSUME C!ChurnInv, NEW r \in Operators, C!CommitRisks(r)
  PROVE  C!ChurnInv'
<1>1. run' = [run EXCEPT ![r] = None] /\ UNCHANGED <<limit, mark, recent, owes>>
  BY DEF C!CommitRisks
<1>2. \A x \in Operators : run'[x] = IF x = r THEN None ELSE run[x]
  BY <1>1 DEF C!ChurnInv, C!RunsAreSound
<1>3. run' = [x \in Operators |-> run'[x]]
  BY <1>1 DEF C!ChurnInv, C!RunsAreSound
<1>4. C!RunsAreSound'
  BY <1>1, <1>2, <1>3, RisksWritten DEF C!ChurnInv, C!RunsAreSound
<1>5. C!CriticalOwes'
  BY RisksWritten DEF C!CriticalOwes
<1> QED
  BY <1>4, <1>5 DEF C!ChurnInv

\* Marks, debts, and a risk that is marked as resolved.
LEMMA OtherChurnStep ==
  ASSUME C!ChurnInv, NEW s \in Learners,
         \/ \E m \in {"present", "absent"} : C!Attend(s, m)
         \/ \E d \in {"none", "some", "much"} : C!Owe(s, d)
         \/ C!Age(s) \/ C!ResolveRisk(s)
  PROVE  C!ChurnInv'
<1>1. CASE \/ \E m \in {"present", "absent"} : C!Attend(s, m)
           \/ \E d \in {"none", "some", "much"} : C!Owe(s, d)
           \/ C!Age(s)
  <2>1. UNCHANGED <<risk, run>> /\ owes' \in [Learners -> C!Debt]
    BY <1>1 DEF C!Attend, C!Owe, C!Age, C!Aside, C!ChurnInv, C!RunsAreSound, C!Debt
  <2> QED
    BY <2>1 DEF C!ChurnInv, C!RunsAreSound, C!CriticalOwes
<1>2. CASE C!ResolveRisk(s)
  <2>1. risk[s] # None /\ risk' = [risk EXCEPT ![s].resolved = TRUE] /\ UNCHANGED <<owes, run>>
    BY <1>2 DEF C!ResolveRisk
  <2>2. risk[s] \in C!Risk
    BY <2>1 DEF C!ChurnInv, C!RunsAreSound
  <2> DEFINE new == [risk[s] EXCEPT !.resolved = TRUE]
  <2>3. new \in C!Risk /\ new.level = risk[s].level /\ new.owed = risk[s].owed
    BY <2>2 DEF C!Risk
  <2>4. risk' = [risk EXCEPT ![s] = new]
    BY <2>1
  <2> HIDE DEF new
  <2>5. \A t \in Learners : risk'[t] = IF t = s THEN new ELSE risk[t]
    BY <2>4 DEF C!ChurnInv, C!RunsAreSound
  <2>6. risk' \in [Learners -> C!Risk \cup {None}]
    BY <2>3, <2>4 DEF C!ChurnInv, C!RunsAreSound
  <2>7. C!RunsAreSound'
    BY <2>1, <2>3, <2>5, <2>6 DEF C!ChurnInv, C!RunsAreSound
  <2>8. C!CriticalOwes'
    BY <2>1, <2>3, <2>5 DEF C!ChurnInv, C!CriticalOwes
  <2> QED
    BY <2>7, <2>8 DEF C!ChurnInv
<1> QED
  BY <1>1, <1>2

-----------------------------------------------------------------------------
(* Marketing: the theorem *)

\* The invariant holds before any code or invitation exists.
LEMMA MarketingStart ==
  ASSUME M!MarketingInit
  PROVE  M!MarketingInv
<1>1. /\ code = [s \in Pupils |-> None] /\ used = {} /\ invitation = [i \in 1..MaxMade |-> None]
      /\ given = {} /\ asking = [c \in Operators |-> M!Quiet]
      /\ batch = [todo |-> {}, expires |-> FALSE, flushed |-> {}, created |-> {}, dead |-> FALSE, made |-> 0]
  BY DEF M!MarketingInit, M!NoBatch
<1>2. /\ M!IsFiniteSet({}) /\ M!Cardinality({}) = 0
  BY FiniteIsFinite, CountIsCount, FS_EmptySet
<1>3. M!CodesAreSound
  BY <1>1, <1>2, QuietIsNoUse DEF M!CodesAreSound
<1>4. M!BatchIsSound
  BY <1>1, <1>2, OfficeAssumption DEF M!BatchIsSound
<1>5. M!InvitationsAreSound /\ M!OneAsks /\ M!CreatedIsStored /\ M!UsesAgree
  BY <1>1, QuietIsNoUse DEF M!InvitationsAreSound, M!OneAsks, M!Asking, M!CreatedIsStored, M!UsesAgree
<1> QED
  BY <1>3, <1>4, <1>5 DEF M!MarketingInv

\* The invariant of codes and invitations holds in every state.
LEMMA MarketingAlways == M!MarketingSpec => []M!MarketingInv
<1>1. M!MarketingInit => M!MarketingInv
  BY MarketingStart
<1>2. M!MarketingInv /\ [M!MarketingNext]_<<limit, M!marketing>> => M!MarketingInv'
  <2> SUFFICES ASSUME M!MarketingInv, [M!MarketingNext]_<<limit, M!marketing>>
               PROVE  M!MarketingInv'
    OBVIOUS
  <2>1. ASSUME NEW c \in Operators,
               \/ \E s \in Pupils : \/ \E owner \in Pupils : M!CheckReferral(c, owner, s)
                                    \/ \E i \in 1..MaxMade : M!CheckInvitation(c, i, s)
               \/ M!UseReferral(c) \/ M!UseInvitation(c)
        PROVE  M!MarketingInv'
    BY <2>1, CheckReferralStep, CheckInvitationStep, UseReferralStep, UseInvitationStep
  <2>2. CASE UNCHANGED <<limit, M!marketing>>
    <3>1. UNCHANGED <<limit, code, used, invitation, given, asking, batch>>
      BY <2>2 DEF M!marketing
    <3>2. asking' = [o \in Operators |-> asking'[o]] /\ M!OneAsks'
      BY <3>1 DEF M!MarketingInv, M!CodesAreSound, M!OneAsks, M!Asking
    <3>3. M!BatchIsSound' /\ M!InvitationsAreSound' /\ M!CreatedIsStored'
      BY <3>1, InvitationsStay
    <3>4. limit = 1 => \A g, h \in given' : g[1] = h[1] => g = h
      BY <3>1 DEF M!MarketingInv, M!UsesAgree
    <3> QED
      BY <3>1, <3>2, <3>3, <3>4, InvitationStep
  <2> QED
    BY <2>1, <2>2, GetCodeStep, DeleteInvitationStep, GenerateListStep, GenerateOneStep, EndBatchStep
    DEF M!MarketingNext
<1> QED
  BY <1>1, <1>2, PTL DEF M!MarketingSpec

\* The invariant of the risks holds in every state.
LEMMA ChurnAlways == C!ChurnSpec => []C!ChurnInv
<1>1. C!ChurnInit => C!ChurnInv
  BY DEF C!ChurnInit, C!ChurnInv, C!RunsAreSound, C!CriticalOwes, C!Debt
<1>2. C!ChurnInv /\ [C!ChurnNext]_<<limit, C!churn>> => C!ChurnInv'
  <2>1. ASSUME C!ChurnInv, UNCHANGED <<limit, C!churn>>
        PROVE  C!ChurnInv'
    BY <2>1 DEF C!churn, C!ChurnInv, C!RunsAreSound, C!CriticalOwes
  <2> QED
    BY <2>1, ComputeStep, CommitRisksStep, OtherChurnStep DEF C!ChurnNext
<1> QED
  BY <1>1, <1>2, PTL DEF C!ChurnSpec

\* However requests and calculations overlap and whatever fails: a code counts no use
\* it did not have, and every use with one request at a time, when an invitation also
\* gives one discount; an answer names invitations that are there; and missed lessons
\* alone make no student critical.
THEOREM MarketingStaysInAgreement == M!MarketingSpec /\ C!ChurnSpec => []MarketingAgrees
<1>1. M!MarketingInv /\ C!ChurnInv => MarketingAgrees
  BY DEF M!MarketingInv, C!ChurnInv, MarketingAgrees
<1> QED
  BY <1>1, MarketingAlways, ChurnAlways, PTL

-----------------------------------------------------------------------------
(* Pooled connections: what they are *)

\* The pool by itself, for any limit on the open sessions.
PoolSpec == limit \in Nat /\ PoolInit /\ [][PoolNext]_<<limit, poolVars>>

\* An open session.
Handling ==
  [tenant : Tenants \cup {Public}, on : Connections \cup {Nothing}, commits : {0, 1},
   first : Tenants \cup {Public}]

Types ==
  /\ limit \in Nat
  /\ path \in [Connections -> Tenants \cup {Public}]
  /\ pool \in Seq(Connections)
  /\ session \in [AsyncSessions -> Handling \cup {Off}]
  /\ \A q \in AsyncSessions : session[q] # Off =>
       /\ session[q].tenant # Public => session[q].first = session[q].tenant
       /\ session[q].on = Nothing => session[q].commits = 1

\* No connection is idle twice, idle and in use, or used by two sessions.
OwnedOnce ==
  /\ IsInjective(pool) /\ ToSet(pool) \cap InUse = {}
  /\ \A q, r \in AsyncSessions : session[q].on # Nothing /\ session[q].on = session[r].on => q = r

\* One session at a time: the only connection there is has the path of a tenant session.
Alone ==
  limit = 1 =>
    /\ strayed = {} /\ Len(pool) <= 1
    /\ \A q, r \in AsyncSessions : session[q] # Off /\ session[r] # Off => q = r
    /\ \A q \in AsyncSessions : session[q] # Off =>
         LET Own(c) == session[q].tenant # Public => path[c] = session[q].tenant
         IN  IF session[q].on = Nothing THEN Len(pool) = 1 /\ Own(Head(pool))
             ELSE pool = <<>> /\ (session[q].commits = 1 => Own(session[q].on))

PoolInv == Types /\ OwnedOnce /\ strayed \subseteq {1} /\ Alone

-----------------------------------------------------------------------------
(* The pool as a sequence *)

\* Taking the first of distinct connections.
LEMMA TailProperties ==
  ASSUME NEW s \in Seq(Connections), IsInjective(s), s # <<>>
  PROVE  /\ Tail(s) \in Seq(Connections) /\ IsInjective(Tail(s))
         /\ Len(Tail(s)) = Len(s) - 1
         /\ Head(s) \in ToSet(s) /\ Head(s) \in Connections
         /\ ToSet(Tail(s)) = ToSet(s) \ {Head(s)}
<1>1. /\ Tail(s) \in Seq(Connections) /\ Head(s) \in Connections /\ Head(s) = s[1]
      /\ Len(s) \in Nat \ {0} /\ Len(Tail(s)) = Len(s) - 1
      /\ \A i \in 1 .. Len(Tail(s)) : Tail(s)[i] = s[i + 1]
  BY HeadTailProperties, EmptySeq
<1>2. DOMAIN s = 1 .. Len(s) /\ DOMAIN Tail(s) = 1 .. Len(s) - 1
  BY <1>1, LenProperties
<1>3. IsInjective(Tail(s))
  BY <1>1, <1>2 DEF IsInjective
<1>4. Head(s) \in ToSet(s)
  BY <1>1, <1>2 DEF ToSet
<1>5. ASSUME NEW c \in ToSet(Tail(s)) PROVE c \in ToSet(s) \ {Head(s)}
  <2>1. PICK i \in 1 .. Len(s) - 1 : c = s[i + 1]
    BY <1>1, <1>2, <1>5 DEF ToSet
  <2>2. i + 1 \in DOMAIN s /\ 1 \in DOMAIN s /\ i + 1 # 1
    BY <1>1, <1>2
  <2>3. s[i + 1] # s[1]
    BY <2>2 DEF IsInjective
  <2> QED
    BY <1>1, <2>1, <2>2, <2>3 DEF ToSet
<1>6. ASSUME NEW c \in ToSet(s), c # Head(s) PROVE c \in ToSet(Tail(s))
  <2>1. PICK i \in 1 .. Len(s) : c = s[i]
    BY <1>2 DEF ToSet
  <2>2. i - 1 \in DOMAIN Tail(s) /\ Tail(s)[i - 1] = c
    BY <1>1, <1>2, <1>6, <2>1
  <2> QED
    BY <2>2 DEF ToSet
<1> QED
  BY <1>1, <1>3, <1>4, <1>5, <1>6

\* Giving one back that is not idle.
LEMMA AppendDistinct ==
  ASSUME NEW s \in Seq(Connections), IsInjective(s), NEW c \in Connections, c \notin ToSet(s)
  PROVE  /\ Append(s, c) \in Seq(Connections) /\ IsInjective(Append(s, c))
         /\ ToSet(Append(s, c)) = ToSet(s) \cup {c}
<1> DEFINE a == Append(s, c)
<1>1. /\ a \in Seq(Connections) /\ Len(a) = Len(s) + 1 /\ Len(s) \in Nat
      /\ \A i \in 1 .. Len(s) : a[i] = s[i]
      /\ a[Len(s) + 1] = c
  BY AppendProperties, LenProperties
<1>2. DOMAIN s = 1 .. Len(s) /\ DOMAIN a = 1 .. Len(s) + 1
  BY <1>1, LenProperties
<1> HIDE DEF a
<1>3. \A i \in 1 .. Len(s) : a[i] # c
  BY <1>1, <1>2 DEF ToSet
<1>4. IsInjective(a)
  <2> SUFFICES ASSUME NEW i \in DOMAIN a, NEW j \in DOMAIN a, a[i] = a[j] PROVE i = j
    BY DEF IsInjective
  <2>1. CASE i \in 1 .. Len(s) /\ j \in 1 .. Len(s)
    BY <1>1, <1>2, <2>1 DEF IsInjective
  <2>2. CASE i = Len(s) + 1 \/ j = Len(s) + 1
    BY <1>1, <1>2, <1>3, <2>2
  <2> QED
    BY <1>1, <1>2, <2>1, <2>2
<1>5. ToSet(a) = ToSet(s) \cup {c}
  BY <1>1, <1>2 DEF ToSet
<1> QED
  BY <1>1, <1>4, <1>5 DEF a

\* What a session gets is owned by nobody, and what is left is idle.
LEMMA CheckoutProperties ==
  ASSUME PoolInv, NEW c \in Checkout, Nothing \notin Connections
  PROVE  /\ c \in Connections /\ c \notin InUse
         /\ Taken \in Seq(Connections) /\ IsInjective(Taken)
         /\ c \notin ToSet(Taken) /\ ToSet(Taken) \subseteq ToSet(pool)
         /\ Len(pool) <= 1 => Taken = <<>>
         /\ Len(pool) = 1 => c = Head(pool)
<1>1. pool \in Seq(Connections) /\ IsInjective(pool) /\ ToSet(pool) \cap InUse = {}
  BY DEF PoolInv, Types, OwnedOnce
<1>2. CASE pool # <<>>
  <2>1. c = Head(pool) /\ Taken = Tail(pool)
    BY <1>2 DEF Checkout, Taken
  <2>2. Len(Tail(pool)) = 0 => Tail(pool) = <<>>
    BY <1>1, <1>2, TailProperties, EmptySeq
  <2>3. Len(pool) \in Nat \ {0}
    BY <1>1, <1>2, EmptySeq
  <2> QED
    BY <1>1, <1>2, <2>1, <2>2, <2>3, TailProperties
<1>3. CASE pool = <<>>
  <2>1. c \in Connections \ Made /\ Taken = <<>> /\ Len(pool) = 0
    BY <1>3, EmptySeq DEF Checkout, Taken
  <2>2. ToSet(<<>>) = {}
    BY DEF ToSet
  <2> QED
    BY <1>1, <1>3, <2>1, <2>2 DEF Made
<1> QED
  BY <1>2, <1>3

-----------------------------------------------------------------------------
(* Steps *)

\* When sessions come one at a time, one that begins finds no other.
LEMMA LoneBegin ==
  ASSUME IsFiniteSet(AsyncSessions), limit = 1,
         Cardinality({o \in AsyncSessions : session[o] # Off}) < limit
  PROVE  \A o \in AsyncSessions : session[o] = Off
<1> DEFINE R == {o \in AsyncSessions : session[o] # Off}
<1>1. IsFiniteSet(R)
  BY FS_Subset
<1>2. Cardinality(R) = 0
  BY <1>1, FS_CardinalityType
<1> QED
  BY <1>1, <1>2, FS_EmptySet

\* A session that begins, with any connection it is given, keeps the invariant: one of a
\* tenant has set the path, one of the public schema has what the connection has.
LEMMA BeginStep ==
  ASSUME PoolInv, Nothing \notin Connections, IsFiniteSet(AsyncSessions),
         NEW q \in AsyncSessions, NEW c \in Connections,
         BeginPublic(q, c) \/ \E t \in Tenants : Begin(q, t, c)
  PROVE  PoolInv'
<1>1. PICK t \in Tenants \cup {Public}, first \in Tenants \cup {Public} :
        /\ t # Public => first = t
        /\ session[q] = Off /\ c \in Checkout /\ pool' = Taken
        /\ session' = [session EXCEPT ![q] =
                         [tenant |-> t, on |-> c, commits |-> 0, first |-> first]]
        /\ UNCHANGED <<limit, path, strayed>>
        /\ Cardinality({o \in AsyncSessions : session[o] # Off}) < limit
  <2>1. CASE BeginPublic(q, c)
    <3>1. path[c] \in Tenants \cup {Public}
      BY DEF PoolInv, Types
    <3> QED
      BY <2>1, <3>1 DEF BeginPublic
  <2>2. CASE \E t \in Tenants : Begin(q, t, c)
    BY <2>2 DEF Begin
  <2> QED
    BY <2>1, <2>2
<1> DEFINE r == [tenant |-> t, on |-> c, commits |-> 0, first |-> first]
<1>2. /\ r \in Handling /\ r # Off /\ r.on = c /\ r.commits = 0 /\ r.tenant = t
      /\ r.first = first /\ c # Nothing
  BY DEF Handling, Off
<1>a. session' = [session EXCEPT ![q] = r]
  BY <1>1
<1>3. session \in [AsyncSessions -> Handling \cup {Off}]
  BY DEF PoolInv, Types
<1> HIDE DEF r
<1>4. \A o \in AsyncSessions : session'[o] = IF o = q THEN r ELSE session[o]
  BY <1>a, <1>3
<1>5. Types'
  BY <1>1, <1>a, <1>2, <1>3, <1>4, CheckoutProperties DEF PoolInv, Types
<1>6. InUse' = InUse \cup {c}
  BY <1>1, <1>2, <1>4 DEF InUse, Off
<1>7. OwnedOnce'
  <2>1. \A o \in AsyncSessions : session[o].on # c
    BY <1>1, <1>2, CheckoutProperties DEF InUse
  <2> QED
    BY <1>1, <1>2, <1>4, <1>6, <2>1, CheckoutProperties DEF PoolInv, OwnedOnce
<1>8. Alone'
  <2> SUFFICES ASSUME limit' = 1 PROVE Alone'
    BY DEF Alone
  <2>1. \A o \in AsyncSessions : session[o] = Off
    BY <1>1, LoneBegin
  <2>2. \A o \in AsyncSessions : session'[o] # Off => o = q
    BY <1>4, <2>1
  <2>3. Len(pool) <= 1 /\ Len(<<>>) = 0
    BY <1>1 DEF PoolInv, Alone
  <2>4. pool' = <<>>
    BY <1>1, <2>3, CheckoutProperties
  <2> QED
    BY <1>1, <1>2, <1>4, <2>2, <2>3, <2>4 DEF PoolInv, Alone
<1> QED
  BY <1>1, <1>5, <1>7, <1>8 DEF PoolInv

\* So does a transaction that goes on with another connection.
LEMMA ReconnectStep ==
  ASSUME PoolInv, Nothing \notin Connections,
         NEW q \in AsyncSessions, NEW c \in Connections, Reconnect(q, c)
  PROVE  PoolInv'
<1>1. /\ session[q] # Off /\ session[q].on = Nothing /\ c \in Checkout /\ pool' = Taken
      /\ session' = [session EXCEPT ![q].on = c] /\ UNCHANGED <<limit, path, strayed>>
  BY DEF Reconnect
<1>2. session \in [AsyncSessions -> Handling \cup {Off}] /\ session[q] \in Handling
  BY <1>1 DEF PoolInv, Types
<1>3. /\ session'[q] \in Handling /\ session'[q].on = c /\ session'[q].tenant = session[q].tenant
      /\ session'[q].commits = session[q].commits /\ session'[q].first = session[q].first
      /\ \A o \in AsyncSessions \ {q} : session'[o] = session[o]
      /\ c # Nothing /\ session'[q] # Off
  BY <1>1, <1>2 DEF Handling, Off
<1>4. Types'
  <2>1. session' \in [AsyncSessions -> Handling \cup {Off}]
    BY <1>1, <1>2, <1>3
  <2> QED
    BY <1>1, <1>2, <1>3, <2>1, CheckoutProperties DEF PoolInv, Types
<1>5. InUse' = InUse \cup {c}
  BY <1>1, <1>3 DEF InUse
<1>6. OwnedOnce'
  <2>1. \A o \in AsyncSessions : session[o].on # c
    BY <1>1, <1>3, CheckoutProperties DEF InUse
  <2>2. IsInjective(pool') /\ ToSet(pool') \cap InUse' = {}
    BY <1>1, <1>5, CheckoutProperties DEF PoolInv, OwnedOnce
  <2> QED
    BY <1>3, <2>1, <2>2 DEF PoolInv, OwnedOnce
<1>7. Alone'
  <2> SUFFICES ASSUME limit' = 1 PROVE Alone'
    BY DEF Alone
  <2>1. Len(pool) = 1 /\ (session[q].tenant # Public => path[Head(pool)] = session[q].tenant)
    BY <1>1 DEF PoolInv, Alone
  <2>2. pool' = <<>> /\ c = Head(pool) /\ Len(<<>>) = 0
    BY <1>1, <2>1, CheckoutProperties
  <2>3. \A o, p \in AsyncSessions : session'[o] # Off /\ session'[p] # Off => o = p
    BY <1>1, <1>3 DEF PoolInv, Alone
  <2> QED
    BY <1>1, <1>3, <2>1, <2>2, <2>3 DEF PoolInv, Alone
<1> QED
  BY <1>1, <1>4, <1>6, <1>7 DEF PoolInv

\* A session gives its connection back and either goes on without one or ends.
LEMMA GiveBack ==
  ASSUME PoolInv, Nothing \notin Connections, NEW q \in AsyncSessions, session[q].on # Nothing,
         pool' = Append(pool, session[q].on),
         NEW r, session' = [session EXCEPT ![q] = r], r.on = Nothing, r = Off \/ r \in Handling
  PROVE  /\ pool' \in Seq(Connections) /\ OwnedOnce'
         /\ session[q] \in Handling /\ session[q].on \in Connections
         /\ session' \in [AsyncSessions -> Handling \cup {Off}]
         /\ \A o \in AsyncSessions : session'[o] = IF o = q THEN r ELSE session[o]
<1>1. /\ session \in [AsyncSessions -> Handling \cup {Off}] /\ pool \in Seq(Connections)
      /\ session[q] # Off
  BY DEF PoolInv, Types, Off
<1>2. session[q] \in Handling /\ session[q].on \in Connections
  BY <1>1 DEF Handling
<1>3. /\ session' \in [AsyncSessions -> Handling \cup {Off}]
      /\ \A o \in AsyncSessions : session'[o] = IF o = q THEN r ELSE session[o]
  BY <1>1
<1>4. session[q].on \in InUse
  BY DEF InUse
<1>5. /\ pool' \in Seq(Connections) /\ IsInjective(pool')
      /\ ToSet(pool') = ToSet(pool) \cup {session[q].on}
  BY <1>1, <1>2, <1>4, AppendDistinct DEF PoolInv, OwnedOnce
<1>6. InUse' \subseteq InUse \ {session[q].on}
  BY <1>3 DEF InUse, PoolInv, OwnedOnce
<1>7. OwnedOnce'
  BY <1>3, <1>5, <1>6 DEF PoolInv, OwnedOnce
<1> QED
  BY <1>2, <1>3, <1>5, <1>7

\* So does a COMMIT, which gives the connection back.
LEMMA CommitStep ==
  ASSUME PoolInv, Nothing \notin Connections, NEW q \in AsyncSessions, Commit(q)
  PROVE  PoolInv'
<1> DEFINE r == [session[q] EXCEPT !.on = Nothing, !.commits = 1]
           c == session[q].on
<1>1. /\ c # Nothing /\ path' = [path EXCEPT ![c] = Sees(q)] /\ pool' = Append(pool, c)
      /\ session' = [session EXCEPT ![q] = r] /\ UNCHANGED <<limit, strayed>>
  BY DEF Commit
<1>2. session[q] \in Handling /\ session[q] # Off
  BY <1>1 DEF PoolInv, Types, Off
<1>3. /\ r \in Handling /\ r.on = Nothing /\ r.commits = 1 /\ r.tenant = session[q].tenant
      /\ r.first = session[q].first
  BY <1>2 DEF Handling
<1> HIDE DEF r
<1>4. /\ pool' \in Seq(Connections) /\ OwnedOnce' /\ c \in Connections
      /\ session' \in [AsyncSessions -> Handling \cup {Off}]
      /\ \A o \in AsyncSessions : session'[o] = IF o = q THEN r ELSE session[o]
  BY <1>1, <1>3, GiveBack
<1>5. /\ session[q].tenant # Public => session[q].first = session[q].tenant
      /\ session[q].tenant \in Tenants \cup {Public}
      /\ session[q].first \in Tenants \cup {Public}
      /\ path \in [Connections -> Tenants \cup {Public}]
      /\ limit = 1 /\ session[q].commits = 1 /\ session[q].tenant # Public =>
           path[c] = session[q].tenant
      /\ limit = 1 => pool = <<>>
      /\ session[q].commits \in {0, 1}
  BY <1>1, <1>2 DEF PoolInv, Types, Alone, Handling
<1>6. Sees(q) \in Tenants \cup {Public} /\ (limit = 1 /\ session[q].tenant # Public => Sees(q) = session[q].tenant)
  BY <1>4, <1>5 DEF Sees
<1>7. Types'
  BY <1>1, <1>3, <1>4, <1>5, <1>6 DEF PoolInv, Types
<1>8. Alone'
  <2> SUFFICES ASSUME limit' = 1 PROVE Alone'
    BY DEF Alone
  <2>1. pool = <<>> /\ (session[q].tenant # Public => path'[c] = session[q].tenant)
    BY <1>1, <1>4, <1>5, <1>6
  <2>2. Len(pool') = 1 /\ Head(pool') = c
    BY <1>1, <1>4, <2>1
  <2>3. \A o \in AsyncSessions : session'[o] # Off => o = q
    BY <1>1, <1>2, <1>4 DEF PoolInv, Alone
  <2> QED
    BY <1>1, <1>3, <1>4, <2>1, <2>2, <2>3 DEF PoolInv, Alone
<1> QED
  BY <1>1, <1>4, <1>7, <1>8 DEF PoolInv

\* So does a ROLLBACK, which gives it back as well.
LEMMA RollbackStep ==
  ASSUME PoolInv, Nothing \notin Connections, NEW q \in AsyncSessions, Rollback(q)
  PROVE  PoolInv'
<1>1. /\ session[q].on # Nothing /\ pool' = Append(pool, session[q].on)
      /\ session' = [session EXCEPT ![q] = Off] /\ UNCHANGED <<limit, path, strayed>>
  BY DEF Rollback
<1>2. session[q] # Off /\ Off.on = Nothing
  BY <1>1 DEF Off
<1>3. /\ pool' \in Seq(Connections) /\ OwnedOnce' /\ session[q].on \in Connections
      /\ session' \in [AsyncSessions -> Handling \cup {Off}]
      /\ \A o \in AsyncSessions : session'[o] = IF o = q THEN Off ELSE session[o]
  BY <1>1, <1>2, GiveBack
<1>4. Types'
  BY <1>1, <1>3 DEF PoolInv, Types
<1>5. Alone'
  <2> SUFFICES ASSUME limit' = 1 PROVE Alone'
    BY DEF Alone
  <2>1. pool = <<>> /\ \A o \in AsyncSessions : session'[o] = Off
    BY <1>1, <1>2, <1>3 DEF PoolInv, Alone
  <2>2. Len(pool') = 1
    BY <1>1, <1>3, <2>1
  <2> QED
    BY <1>1, <2>1, <2>2 DEF PoolInv, Alone
<1> QED
  BY <1>1, <1>3, <1>4, <1>5 DEF PoolInv

\* A statement that meets another schema belongs to a session that has committed,
\* and to none when sessions come one at a time.
LEMMA StatementStep ==
  ASSUME PoolInv, NEW q \in AsyncSessions, Statement(q)
  PROVE  PoolInv'
<1>1. /\ session[q].on # Nothing /\ session[q].tenant # Public /\ Sees(q) # session[q].tenant
      /\ strayed' = strayed \cup {session[q].commits} /\ UNCHANGED <<limit, path, pool, session>>
  BY DEF Statement
<1>2. session[q] # Off /\ session[q] \in Handling
  BY <1>1 DEF PoolInv, Types, Off
<1>3. session[q].commits = 1
  BY <1>1, <1>2 DEF PoolInv, Types, Handling, Sees
<1>4. limit # 1
  BY <1>1, <1>2, <1>3 DEF PoolInv, Alone, Sees
<1>5. Types' /\ OwnedOnce'
  BY <1>1 DEF PoolInv, Types, OwnedOnce, InUse
<1> QED
  BY <1>1, <1>3, <1>4, <1>5 DEF PoolInv, Alone

\* So does the end of the session.
LEMMA EndStep ==
  ASSUME PoolInv, NEW q \in AsyncSessions, End(q)
  PROVE  PoolInv'
<1>1. /\ session[q].on = Nothing /\ session' = [session EXCEPT ![q] = Off]
      /\ UNCHANGED <<limit, path, pool, strayed>>
  BY DEF End
<1>2. session \in [AsyncSessions -> Handling \cup {Off}] /\ Off.on = Nothing
  BY DEF PoolInv, Types, Off
<1>3. \A o \in AsyncSessions : session'[o] = IF o = q THEN Off ELSE session[o]
  BY <1>1, <1>2
<1>4. Types'
  BY <1>1, <1>2, <1>3 DEF PoolInv, Types
<1>5. InUse' = InUse
  BY <1>1, <1>2, <1>3 DEF InUse
<1>6. OwnedOnce'
  BY <1>1, <1>2, <1>3, <1>5 DEF PoolInv, OwnedOnce
<1>7. Alone'
  BY <1>1, <1>3 DEF PoolInv, Alone
<1> QED
  BY <1>1, <1>4, <1>6, <1>7 DEF PoolInv

\* Every step preserves PoolInv.
LEMMA PoolStep ==
  ASSUME PoolInv, Nothing \notin Connections, IsFiniteSet(AsyncSessions),
         [PoolNext]_<<limit, poolVars>>
  PROVE  PoolInv'
<1>1. CASE UNCHANGED <<limit, poolVars>>
  BY <1>1 DEF poolVars, PoolInv, Types, OwnedOnce, InUse, Alone
<1>2. ASSUME NEW q \in AsyncSessions, NEW c \in Connections,
             Reconnect(q, c) \/ BeginPublic(q, c) \/ \E t \in Tenants : Begin(q, t, c)
      PROVE  PoolInv'
  BY <1>2, ReconnectStep, BeginStep
<1>3. ASSUME NEW q \in AsyncSessions, Statement(q) \/ Commit(q) \/ Rollback(q) \/ End(q)
      PROVE  PoolInv'
  BY <1>3, StatementStep, CommitStep, RollbackStep, EndStep
<1> QED
  BY <1>1, <1>2, <1>3 DEF PoolNext

\* Initially no connection is made.
LEMMA PoolStart ==
  ASSUME limit \in Nat, PoolInit
  PROVE  PoolInv
<1>1. /\ Off.on = Nothing /\ pool = <<>> /\ Len(pool) = 0 /\ pool \in Seq(Connections)
      /\ session = [q \in AsyncSessions |-> Off]
      /\ path = [c \in Connections |-> Public] /\ strayed = {}
  BY EmptySeq DEF PoolInit, Off
<1>2. Types
  BY <1>1 DEF Types
<1>3. InUse = {} /\ IsInjective(pool)
  BY <1>1 DEF InUse, IsInjective
<1>4. OwnedOnce
  BY <1>1, <1>3 DEF OwnedOnce
<1> QED
  BY <1>1, <1>2, <1>4 DEF PoolInv, Alone

-----------------------------------------------------------------------------

\* The pool never lends a connection twice, and what its variables hold is what
\* get_tenant_session and the services leave in them.
THEOREM PoolTypesCorrect ==
  ASSUME Nothing \notin Connections, IsFiniteSet(AsyncSessions)
  PROVE  PoolSpec => []PoolTypeOK
<1>1. PoolInv => PoolTypeOK
  BY DEF PoolInv, Types, OwnedOnce, PoolTypeOK
<1> QED
  BY <1>1, PoolStart, PoolStep, PTL DEF PoolSpec

\* Until its first COMMIT a tenant session works in the schema of its tenant, however
\* sessions of one request or of several overlap, fail and hand connections on; and to
\* its end when sessions come one at a time, which is a request that opens no second one.
THEOREM FirstTransactionCorrect ==
  ASSUME Nothing \notin Connections, IsFiniteSet(AsyncSessions)
  PROVE  PoolSpec => []FirstTransactionIsOwn
<1>1. PoolInv => FirstTransactionIsOwn
  BY DEF PoolInv, Types, OwnedOnce, PoolTypeOK, Alone, FirstTransactionIsOwn
<1> QED
  BY <1>1, PoolStart, PoolStep, PTL DEF PoolSpec

-----------------------------------------------------------------------------
(* Arithmetic *)

\* Quotient and remainder by the length of a day.
LEMMA DivMod ==
  ASSUME NEW n \in Nat
  PROVE  /\ n = Day * (n \div Day) + (n % Day)
         /\ n % Day \in TimeOfDay
         /\ n \div Day \in Nat
BY DayAssumption DEF TimeOfDay

\* Whole days apart.
LEMMA MulBound ==
  ASSUME NEW a \in Int, NEW b \in Int, a < b
  PROVE  Day * a + Day <= Day * b
BY DayAssumption

\* Quotient and remainder are unique.
LEMMA UniqueRemainder ==
  ASSUME NEW q1 \in Int, NEW q2 \in Int, NEW r1 \in TimeOfDay, NEW r2 \in TimeOfDay,
         Day * q1 + r1 = Day * q2 + r2
  PROVE  r1 = r2
<1>1. ~(q1 < q2)
  BY MulBound, DayAssumption DEF TimeOfDay
<1>2. ~(q2 < q1)
  BY MulBound, DayAssumption DEF TimeOfDay
<1> QED
  BY <1>1, <1>2, DayAssumption DEF TimeOfDay

\* A decomposition into days and a time of day gives the time of day.
LEMMA RemainderIs ==
  ASSUME NEW n \in Nat, NEW q \in Int, NEW r \in TimeOfDay, n = Day * q + r
  PROVE  n % Day = r
<1>1. PICK q1 \in Nat, r1 \in TimeOfDay : n = Day * q1 + r1 /\ n % Day = r1
  BY DivMod
<1>2. Day * q1 + r1 = Day * q + r
  BY <1>1
<1> QED
  BY <1>1, <1>2, UniqueRemainder

\* The time of day one tick later.
LEMMA NextTimeOfDay ==
  ASSUME NEW n \in Nat
  PROVE  (n + 1) % Day = IF n % Day = Day - 1 THEN 0 ELSE (n % Day) + 1
<1>1. PICK q \in Nat, r \in TimeOfDay : n = Day * q + r /\ n % Day = r
  BY DivMod
<1>2. n + 1 \in Nat
  OBVIOUS
<1>3. CASE r = Day - 1
  <2>1. n + 1 = Day * (q + 1) + 0
    BY <1>1, <1>3, DayAssumption
  <2>2. 0 \in TimeOfDay /\ q + 1 \in Int
    BY DayAssumption DEF TimeOfDay
  <2> QED
    BY <1>1, <1>2, <1>3, <2>1, <2>2, RemainderIs
<1>4. CASE r # Day - 1
  <2>1. r + 1 \in TimeOfDay /\ n + 1 = Day * q + (r + 1)
    BY <1>1, <1>4, DayAssumption DEF TimeOfDay
  <2> QED
    BY <1>1, <1>2, <1>4, <2>1, RemainderIs
<1> QED
  BY <1>3, <1>4

\* The end of the quiet hours by the time of day.
LEMMA NextQuietEndCases ==
  ASSUME NEW n \in Nat, NEW e \in TimeOfDay, NEW r \in TimeOfDay, n % Day = r
  PROVE  NextQuietEnd(n, e) = IF e <= r THEN n - r + e + Day ELSE n - r + e
<1>1. Day \in Int /\ e \in Int /\ r \in Int
  BY DayAssumption DEF TimeOfDay
<1>2. NextQuietEnd(n, e) = IF (n - r) + e <= n THEN (n - r) + e + Day ELSE (n - r) + e
  BY Zenon DEF NextQuietEnd
<1> QED
  BY <1>1, <1>2

\* The end of the quiet hours is the next instant with that time of day.
LEMMA NextQuietEndIsNext ==
  ASSUME NEW n \in Nat, NEW e \in TimeOfDay
  PROVE  /\ NextQuietEnd(n, e) \in Nat
         /\ n < NextQuietEnd(n, e)
         /\ NextQuietEnd(n, e) <= n + Day
         /\ n % Day # e => NextQuietEnd(n, e) < n + Day
         /\ NextQuietEnd(n, e) % Day = e
<1>1. PICK q \in Nat, r \in TimeOfDay : n = Day * q + r /\ n % Day = r
  BY DivMod
<1>2. CASE e <= r
  <2>1. NextQuietEnd(n, e) = Day * q + e + Day
    BY <1>1, <1>2, DayAssumption DEF NextQuietEnd, TimeOfDay
  <2>2. Day * q \in Nat /\ Day * (q + 1) = Day * q + Day
    BY <1>1, DayAssumption
  <2>3. NextQuietEnd(n, e) \in Nat /\ NextQuietEnd(n, e) = Day * (q + 1) + e
    BY <2>1, <2>2, DayAssumption DEF TimeOfDay
  <2>4. NextQuietEnd(n, e) % Day = e
    BY <2>3, RemainderIs
  <2> QED
    BY <1>1, <1>2, <2>1, <2>2, <2>3, <2>4, DayAssumption DEF TimeOfDay
<1>3. CASE r < e
  <2>1. NextQuietEnd(n, e) = Day * q + e
    BY <1>1, <1>3, DayAssumption DEF NextQuietEnd, TimeOfDay
  <2>2. Day * q \in Nat
    BY <1>1, DayAssumption
  <2>3. NextQuietEnd(n, e) \in Nat
    BY <2>1, <2>2 DEF TimeOfDay
  <2>4. NextQuietEnd(n, e) % Day = e
    BY <2>1, <2>3, RemainderIs
  <2> QED
    BY <1>1, <1>3, <2>1, <2>2, <2>3, <2>4, DayAssumption DEF TimeOfDay
<1> QED
  BY <1>1, <1>2, <1>3, DayAssumption DEF TimeOfDay

\* One tick later in quiet hours: their end is reached, or they still hold and
\* end at the same instant.
LEMMA OneTickOfQuiet ==
  ASSUME NEW n \in Nat, NEW s \in TimeOfDay, NEW e \in TimeOfDay,
         InQuietHours(n, s, e)
  PROVE  \/ n + 1 = NextQuietEnd(n, e)
         \/ InQuietHours(n + 1, s, e) /\ NextQuietEnd(n + 1, e) = NextQuietEnd(n, e)
<1>1. PICK q \in Nat, r \in TimeOfDay : n = Day * q + r /\ n % Day = r
  BY DivMod
<1>2. IF s <= e THEN s <= r /\ r < e ELSE s <= r \/ r < e
  BY <1>1 DEF InQuietHours
<1>3. s # None /\ e # None
  BY NoneAssumption DEF TimeOfDay
<1>4. Day * q \in Nat
  BY <1>1, DayAssumption
<1>5. CASE r = Day - 1
  <2>1. (n + 1) % Day = 0
    BY <1>1, <1>5, NextTimeOfDay
  <2>2. e < s /\ e <= r
    BY <1>2, <1>5, DayAssumption DEF TimeOfDay
  <2>3. NextQuietEnd(n, e) = n + 1 + e
    <3>1. NextQuietEnd(n, e) = n - r + e + Day
      BY <1>1, <2>2, NextQuietEndCases DEF TimeOfDay
    <3> QED
      BY <1>5, <3>1, DayAssumption DEF TimeOfDay
  <2>4. CASE e = 0
    BY <2>3, <2>4
  <2>5. CASE e # 0
    <3>1. InQuietHours(n + 1, s, e)
      BY <1>3, <2>1, <2>2, <2>5 DEF InQuietHours, TimeOfDay
    <3>2. NextQuietEnd(n + 1, e) = n + 1 + e
      BY <2>1, <2>5 DEF NextQuietEnd, TimeOfDay
    <3> QED
      BY <2>3, <3>1, <3>2
  <2> QED
    BY <2>4, <2>5
<1>6. CASE r # Day - 1
  <2>1. (n + 1) % Day = r + 1
    BY <1>1, <1>6, NextTimeOfDay
  <2>2. NextQuietEnd(n, e) = IF e <= r THEN n - r + e + Day ELSE n - r + e
    BY <1>1, NextQuietEndCases
  <2>3. NextQuietEnd(n + 1, e) = IF e <= r + 1 THEN n - r + e + Day ELSE n - r + e
    BY <1>1, <2>1, DayAssumption DEF NextQuietEnd, TimeOfDay
  <2>4. CASE e = r + 1
    BY <1>1, <2>2, <2>4 DEF TimeOfDay
  <2>5. CASE e # r + 1
    <3>1. InQuietHours(n + 1, s, e)
      BY <1>2, <1>3, <2>1, <2>5 DEF InQuietHours, TimeOfDay
    <3>2. NextQuietEnd(n + 1, e) = NextQuietEnd(n, e)
      BY <1>1, <2>2, <2>3, <2>5 DEF TimeOfDay
    <3> QED
      BY <3>1, <3>2
  <2> QED
    BY <2>4, <2>5
<1> QED
  BY <1>5, <1>6

-----------------------------------------------------------------------------
(* The delayed notification *)

\* The invariant holds at the enqueue.
LEMMA InitQuiet == Init => QInv
<1> SUFFICES ASSUME Init PROVE QInv
  OBVIOUS
<1>1. now \in Nat /\ start \in TimeOfDay /\ end \in TimeOfDay /\ since = now
  BY DayAssumption, OffsetAssumption DEF Init, TimeOfDay
<1>2. CASE ~InQuietHours(now, start, end)
  BY <1>1, <1>2 DEF Init, DelayedUntil, QInv, TypeOK, DelayIsShort
<1>3. CASE InQuietHours(now, start, end)
  <2>1. wake = NextQuietEnd(now, end)
    BY <1>3 DEF Init, DelayedUntil
  <2>2. now % Day \in TimeOfDay
    BY <1>1, DivMod
  <2>3. now % Day # end
    BY <1>1, <1>3, <2>2 DEF InQuietHours, TimeOfDay
  <2>4. /\ wake \in Nat /\ now < wake /\ wake < now + Day
    BY <1>1, <2>1, <2>3, NextQuietEndIsNext
  <2>5. DelayIsShort
    BY <1>1, <2>4, DayAssumption DEF DelayIsShort
  <2> QED
    BY <1>1, <1>3, <2>1, <2>4, <2>5 DEF QInv, TypeOK
<1> QED
  BY <1>2, <1>3

\* Waiting one tick preserves the invariant.
LEMMA WaitQuiet == QInv /\ [Next]_vars => QInv'
<1> SUFFICES ASSUME QInv, [Next]_vars PROVE QInv'
  OBVIOUS
<1>1. CASE Wait
  <2>1. /\ now \in Nat /\ start \in TimeOfDay /\ end \in TimeOfDay
        /\ InQuietHours(now, start, end) /\ NextQuietEnd(now, end) = wake
        /\ now < wake /\ wake # None
    BY <1>1, DayAssumption DEF Wait, QInv, TypeOK
  <2>2. now' = now + 1 /\ UNCHANGED <<start, end, since, wake>>
    BY <1>1 DEF Wait
  <2>3. wake % Day = end /\ wake \in Nat
    BY <2>1, NextQuietEndIsNext
  <2>4. TypeOK' /\ DelayIsShort'
    BY <2>1, <2>2 DEF QInv, TypeOK, DelayIsShort
  <2>5. CASE now + 1 = wake
    BY <2>2, <2>3, <2>4, <2>5 DEF QInv
  <2>6. CASE now + 1 # wake
    <3>1. InQuietHours(now + 1, start, end) /\ NextQuietEnd(now + 1, end) = wake
      BY <2>1, <2>6, OneTickOfQuiet
    <3>2. now + 1 < wake
      BY <2>1, <2>3, <2>6
    <3>3. InQuietHours(now, start, end)' /\ NextQuietEnd(now, end)' = wake'
      BY <2>2, <3>1 DEF InQuietHours, NextQuietEnd
    <3> QED
      BY <2>2, <2>4, <3>2, <3>3 DEF QInv
  <2> QED
    BY <2>5, <2>6
<1>2. CASE UNCHANGED vars
  BY <1>2 DEF vars, QInv, TypeOK, DelayIsShort, InQuietHours, NextQuietEnd
<1> QED
  BY <1>1, <1>2 DEF Next

\* While a delayed notification waits, the quiet hours that delayed it hold.
THEOREM QuietInvariant == Spec => []QInv
<1> QED
  BY InitQuiet, WaitQuiet, PTL DEF Spec

\* A delayed notification waits through quiet hours only and wakes up outside
\* of them, for bounds on one day and across midnight.
THEOREM WaitsCorrect == Spec => []WaitsOutQuietHours
<1>1. QInv => WaitsOutQuietHours
  <2> SUFFICES ASSUME QInv, wake # None PROVE WaitsOutQuietHours
    BY DEF WaitsOutQuietHours
  <2>1. now \in Nat /\ start \in TimeOfDay /\ end \in TimeOfDay
    BY DEF QInv, TypeOK
  <2>2. CASE now < wake
    <3>1. now # wake
      BY <2>1, <2>2 DEF QInv, TypeOK
    <3> QED
      BY <2>2, <3>1 DEF QInv, WaitsOutQuietHours
  <2>3. CASE ~(now < wake)
    <3>1. now % Day = end
      BY <2>3 DEF QInv
    <3>2. ~InQuietHours(now, start, end)
      BY <2>1, <3>1 DEF InQuietHours, TimeOfDay
    <3> QED
      BY <2>3, <3>2 DEF WaitsOutQuietHours
  <2> QED
    BY <2>2, <2>3
<1> QED
  BY <1>1, QuietInvariant, PTL

\* No delay lasts a whole day, none is empty.
THEOREM DelayCorrect == Spec => []DelayIsShort
<1>1. QInv => DelayIsShort
  BY DEF QInv
<1> QED
  BY <1>1, QuietInvariant, PTL

-----------------------------------------------------------------------------
(* Reminders: days and slots *)

\* A day has slots, and there are days.
LEMMA SlotsAndNights == Slots \in Nat \ {0} /\ Nights \in Nat \ {0}
<1>1. {Slots, Nights} \subseteq Nat \ {0}
  BY OfficeAssumption
<1> QED
  BY <1>1

\* Days and slots of a moment.
LEMMA SlotOf ==
  ASSUME NEW t \in Nat
  PROVE  /\ t = Slots * (t \div Slots) + (t % Slots)
         /\ t % Slots \in 0..Slots - 1
         /\ t \div Slots \in Nat
BY SlotsAndNights

\* Slots of whole days.
LEMMA SlotsOfDays ==
  ASSUME NEW p \in Nat, NEW q \in Nat
  PROVE  Slots * p \in Nat /\ (p < q => Slots * p + Slots <= Slots * q)
<1>1. Slots * p \in Nat
  BY SlotsAndNights
<1>2. p < q => Slots * p + Slots <= Slots * q
  BY SlotsAndNights
<1> QED
  BY <1>1, <1>2

\* Of two moments of one day, the first is less than a day after the second.
LEMMA SameDay ==
  ASSUME NEW t \in Nat, NEW u \in Nat, t \div Slots = u \div Slots
  PROVE  t < u + Slots
<1> DEFINE a == Slots * (t \div Slots)
<1>1. a \in Nat
  BY SlotOf, SlotsOfDays
<1>2. t = a + (t % Slots) /\ u = a + (u % Slots)
  BY SlotOf
<1>3. t % Slots \in 0..Slots - 1 /\ u % Slots \in 0..Slots - 1
  BY SlotOf
<1> HIDE DEF a
<1> QED
  BY <1>1, <1>2, <1>3, SlotsAndNights

\* The next slot of the day says which moment of the day it is.
LEMMA SameSlot ==
  ASSUME NEW t \in Nat, NEW u \in Nat, t \div Slots = u \div Slots, (t + 1) % Slots = (u + 1) % Slots
  PROVE  t = u
<1> DEFINE p == (t + 1) \div Slots
           q == (u + 1) \div Slots
           z == (t + 1) % Slots
           y == (u + 1) % Slots
<1>1. t + 1 = Slots * p + z /\ p \in Nat /\ z \in 0..Slots - 1
  <2>1. t + 1 \in Nat
    OBVIOUS
  <2> QED
    BY <2>1, SlotOf
<1>2. u + 1 = Slots * q + y /\ q \in Nat
  <2>1. u + 1 \in Nat
    OBVIOUS
  <2> QED
    BY <2>1, SlotOf
<1>3. z = y /\ t < u + Slots /\ u < t + Slots
  BY SameDay
<1> DEFINE a == Slots * p
           b == Slots * q
<1>4. /\ a \in Nat /\ b \in Nat /\ (p < q => a + Slots <= b) /\ (q < p => b + Slots <= a)
  BY <1>1, <1>2, SlotsOfDays
<1>5. t + 1 = a + z /\ u + 1 = b + z
  BY <1>1, <1>2, <1>3
<1>6. p = q => a = b
  OBVIOUS
<1> HIDE DEF a, b, p, q, z, y
<1> QED
  BY <1>1, <1>2, <1>3, <1>4, <1>5, <1>6, SlotsAndNights

-----------------------------------------------------------------------------
(* Reminders: what can be due, and its key *)

\* Of what may be due, the key says which reminder it is and when it may come again:
\* within a day, and only while all that is due at the two moments is the same.
LEMMA Twins ==
  ASSUME reminder \in D!Reminders, last \in Int, NEW t \in Nat, NEW u \in Nat,
         NEW i \in D!Possible(t), NEW j \in D!Possible(u), D!Same(i, j)
  PROVE  /\ i = j /\ t < u + Slots
         /\ \A g, s : D!DueWith(t, g, s) = D!DueWith(u, g, s)
<1>1. i.to = j.to /\ i.key = j.key
  BY DEF D!Same
<1>2. CASE reminder = "lesson"
  <2>1. /\ i \in D!LessonReminders(t, Debtors) /\ j \in D!LessonReminders(u, Debtors)
        /\ \A g, s : /\ D!DueWith(t, g, s) = D!LessonReminders(t, g)
                     /\ D!DueWith(u, g, s) = D!LessonReminders(u, g)
    BY <1>2 DEF D!Possible, D!DueWith
  <2>2. /\ i.what = <<"lesson", t + 1>> /\ i.key \in {D!LessonKey(t, "lesson"), D!LessonKey(t, "lesson_t")}
        /\ i = D!Item(i.to, i.what, i.key)
    BY <2>1 DEF D!LessonReminders, D!Item
  <2>3. /\ j.what = <<"lesson", u + 1>> /\ j.key \in {D!LessonKey(u, "lesson"), D!LessonKey(u, "lesson_t")}
        /\ j = D!Item(j.to, j.what, j.key)
    BY <2>1 DEF D!LessonReminders, D!Item
  <2>4. t \div Slots = u \div Slots /\ (t + 1) % Slots = (u + 1) % Slots
    BY <1>1, <2>2, <2>3 DEF D!LessonKey, D!Date
  <2>5. t = u
    BY <2>4, SameSlot
  <2> QED
    BY <1>1, <2>1, <2>2, <2>3, <2>5, OfficeAssumption
<1>3. CASE reminder = "attendance"
  <2>1. /\ i \in D!AttendancePending(t, {}) /\ j \in D!AttendancePending(u, {})
        /\ \A g, s : /\ D!DueWith(t, g, s) = D!AttendancePending(t, s)
                     /\ D!DueWith(u, g, s) = D!AttendancePending(u, s)
    BY <1>3 DEF D!Possible, D!DueWith
  <2>2. /\ i = D!Item("teacher", <<"attendance", D!Date(t)>>, <<"att_pending", D!Date(t)>>)
        /\ j = D!Item("teacher", <<"attendance", D!Date(u)>>, <<"att_pending", D!Date(u)>>)
    BY <2>1 DEF D!AttendancePending
  <2>3. D!Date(t) = D!Date(u)
    BY <1>1, <2>2 DEF D!Item
  <2>4. \A s : D!AttendancePending(t, s) = D!AttendancePending(u, s)
    BY <2>3 DEF D!AttendancePending
  <2> QED
    BY <2>1, <2>2, <2>3, <2>4, SameDay DEF D!Date
<1>4. CASE reminder = "progress"
  <2>1. /\ i \in D!ProgressDeadline(t, Debtors, {}) /\ j \in D!ProgressDeadline(u, Debtors, {})
        /\ \A g, s : /\ D!DueWith(t, g, s) = D!ProgressDeadline(t, g, s)
                     /\ D!DueWith(u, g, s) = D!ProgressDeadline(u, g, s)
    BY <1>4 DEF D!Possible, D!DueWith
  <2> DEFINE a == last - D!Date(t)
             b == last - D!Date(u)
  <2>2. /\ i = D!Item("teacher", <<"grades", a>>, <<"progress_dl", last, a>>)
        /\ j = D!Item("teacher", <<"grades", b>>, <<"progress_dl", last, b>>)
    BY <2>1 DEF D!ProgressDeadline
  <2>3. a = b
    BY <1>1, <2>2 DEF D!Item
  <2>4. D!Date(t) = D!Date(u)
    BY <2>3, OfficeAssumption DEF D!Date
  <2>5. \A g, s : D!ProgressDeadline(t, g, s) = D!ProgressDeadline(u, g, s)
    BY <2>4 DEF D!ProgressDeadline
  <2> QED
    BY <2>1, <2>2, <2>3, <2>4, <2>5, SameDay DEF D!Date
<1>5. CASE reminder = "payment"
  <2>1. /\ i \in D!PaymentReminders(t, {}) /\ j \in D!PaymentReminders(u, {})
        /\ \A g, s : /\ D!DueWith(t, g, s) = D!PaymentReminders(t, s)
                     /\ D!DueWith(u, g, s) = D!PaymentReminders(u, s)
    BY <1>5 DEF D!Possible, D!DueWith
  <2>2. PICK x : i = D!Item(x[1], <<"fee", D!Date(t), x[2]>>, <<"pay_remind", D!Date(t), x[2]>>)
    BY <2>1 DEF D!PaymentReminders
  <2>3. PICK y : j = D!Item(y[1], <<"fee", D!Date(u), y[2]>>, <<"pay_remind", D!Date(u), y[2]>>)
    BY <2>1 DEF D!PaymentReminders
  <2>4. D!Date(t) = D!Date(u) /\ x[1] = y[1] /\ x[2] = y[2]
    BY <1>1, <2>2, <2>3 DEF D!Item
  <2>5. \A s : D!PaymentReminders(t, s) = D!PaymentReminders(u, s)
    BY <2>4 DEF D!PaymentReminders
  <2> QED
    BY <2>1, <2>2, <2>3, <2>4, <2>5, SameDay DEF D!Date
<1>6. CASE reminder = "overdue"
  <2>1. /\ i \in D!OverdueReminders(t, {}) /\ j \in D!OverdueReminders(u, {})
        /\ \A g, s : /\ D!DueWith(t, g, s) = D!OverdueReminders(t, s)
                     /\ D!DueWith(u, g, s) = D!OverdueReminders(u, s)
    BY <1>6 DEF D!Possible, D!DueWith
  <2>2. PICK x : i = D!Item(x[1], <<"debt", D!Date(t), x[2]>>, <<"overdue", D!Date(t), x[2]>>)
    BY <2>1 DEF D!OverdueReminders
  <2>3. PICK y : j = D!Item(y[1], <<"debt", D!Date(u), y[2]>>, <<"overdue", D!Date(u), y[2]>>)
    BY <2>1 DEF D!OverdueReminders
  <2>4. D!Date(t) = D!Date(u) /\ x[1] = y[1] /\ x[2] = y[2]
    BY <1>1, <2>2, <2>3 DEF D!Item
  <2>5. \A s : D!OverdueReminders(t, s) = D!OverdueReminders(u, s)
    BY <2>4 DEF D!OverdueReminders
  <2> QED
    BY <2>1, <2>2, <2>3, <2>4, <2>5, SameDay DEF D!Date
<1>7. CASE reminder = "trial"
  <2>1. /\ i \in D!SubscriptionWarning(t) /\ j \in D!SubscriptionWarning(u)
        /\ \A g, s : /\ D!DueWith(t, g, s) = D!SubscriptionWarning(t)
                     /\ D!DueWith(u, g, s) = D!SubscriptionWarning(u)
    BY <1>7 DEF D!Possible, D!DueWith
  <2>2. /\ ~(t >= last) /\ ~(u >= last)
        /\ i = D!Item("admin", <<"trial", D!Date(last - t)>>, <<"sub_warn", D!Date(last - t)>>)
        /\ j = D!Item("admin", <<"trial", D!Date(last - u)>>, <<"sub_warn", D!Date(last - u)>>)
    BY <2>1 DEF D!SubscriptionWarning
  <2>3. D!Date(last - t) = D!Date(last - u)
    BY <1>1, <2>2 DEF D!Item
  <2>4. last - u < (last - t) + Slots
    BY <2>2, <2>3, SameDay DEF D!Date
  <2>5. D!SubscriptionWarning(t) = D!SubscriptionWarning(u)
    BY <2>2, <2>3 DEF D!SubscriptionWarning
  <2> QED
    BY <2>1, <2>2, <2>3, <2>4, <2>5, OfficeAssumption
<1> QED
  BY <1>2, <1>3, <1>4, <1>5, <1>6, <1>7 DEF D!Reminders

\* The second of a pair.
LEMMA SecondOf ==
  ASSUME NEW a, NEW b, NEW c, NEW d, <<a, b>> = <<c, d>>
  PROVE  b = d
OBVIOUS

\* What a reminder is about gives its key.
LEMMA KeyOf ==
  ASSUME reminder \in D!Reminders, last \in Int, NEW t \in Nat, NEW u \in Nat,
         NEW i \in D!Possible(t), NEW j \in D!Possible(u), i.to = j.to, i.what = j.what
  PROVE  D!Same(i, j)
<1> SUFFICES i.key = j.key
  BY DEF D!Same
<1>2. CASE reminder = "lesson"
  <2>1. i \in D!LessonReminders(t, Debtors) /\ j \in D!LessonReminders(u, Debtors)
    BY <1>2 DEF D!Possible, D!DueWith
  <2>2. i.what = <<"lesson", t + 1>> /\ j.what = <<"lesson", u + 1>>
    BY <2>1 DEF D!LessonReminders, D!Item
  <2>7. <<"lesson", t + 1>> = <<"lesson", u + 1>>
    BY <2>2, Zenon
  <2>3. t + 1 = u + 1
    BY <2>7, SecondOf, Zenon
  <2>6. t = u
    BY <2>3
  <2>4. i.key = IF i.to = "teacher" THEN D!LessonKey(t, "lesson_t") ELSE D!LessonKey(t, "lesson")
    BY <2>1, OfficeAssumption DEF D!LessonReminders, D!Item
  <2>5. j.key = IF j.to = "teacher" THEN D!LessonKey(u, "lesson_t") ELSE D!LessonKey(u, "lesson")
    BY <2>1, OfficeAssumption DEF D!LessonReminders, D!Item
  <2> QED
    BY <2>4, <2>5, <2>6
<1>3. CASE reminder = "attendance"
  BY <1>3 DEF D!Possible, D!DueWith, D!AttendancePending, D!Item
<1>4. CASE reminder = "progress"
  BY <1>4 DEF D!Possible, D!DueWith, D!ProgressDeadline, D!Item
<1>5. CASE reminder = "payment"
  BY <1>5 DEF D!Possible, D!DueWith, D!PaymentReminders, D!Item
<1>6. CASE reminder = "overdue"
  BY <1>6 DEF D!Possible, D!DueWith, D!OverdueReminders, D!Item
<1>7. CASE reminder = "trial"
  BY <1>7 DEF D!Possible, D!DueWith, D!SubscriptionWarning, D!Item
<1> QED
  BY <1>2, <1>3, <1>4, <1>5, <1>6, <1>7 DEF D!Reminders

\* What is due can be due, and is due to somebody who has an item of it.
LEMMA DueIsPossible ==
  ASSUME reminder \in D!Reminders, group \subseteq Debtors, NEW t \in Nat, NEW i \in D!Due(t)
  PROVE  i \in D!Possible(t) /\ i = D!Item(i.to, i.what, i.key)
<1>2. CASE reminder = "lesson"
  BY <1>2 DEF D!Possible, D!Due, D!DueWith, D!LessonReminders, D!Item
<1>3. CASE reminder = "attendance"
  BY <1>3 DEF D!Possible, D!Due, D!DueWith, D!AttendancePending, D!Item
<1>4. CASE reminder = "progress"
  BY <1>4 DEF D!Possible, D!Due, D!DueWith, D!ProgressDeadline, D!Item
<1>5. CASE reminder = "payment"
  BY <1>5 DEF D!Possible, D!Due, D!DueWith, D!PaymentReminders, D!Item
<1>6. CASE reminder = "overdue"
  BY <1>6 DEF D!Possible, D!Due, D!DueWith, D!OverdueReminders, D!Item
<1>7. CASE reminder = "trial"
  BY <1>7 DEF D!Possible, D!Due, D!DueWith, D!SubscriptionWarning, D!Item
<1> QED
  BY <1>2, <1>3, <1>4, <1>5, <1>6, <1>7 DEF D!Reminders

\* What can be due is a reminder with its three parts.
LEMMA PossibleIsItem ==
  ASSUME reminder \in D!Reminders, NEW t \in Nat, NEW i \in D!Possible(t)
  PROVE  i = [to |-> i.to, what |-> i.what, key |-> i.key]
<1>2. CASE reminder = "lesson"
  BY <1>2 DEF D!Possible, D!DueWith, D!LessonReminders, D!Item
<1>3. CASE reminder = "attendance"
  BY <1>3 DEF D!Possible, D!DueWith, D!AttendancePending, D!Item
<1>4. CASE reminder = "progress"
  BY <1>4 DEF D!Possible, D!DueWith, D!ProgressDeadline, D!Item
<1>5. CASE reminder = "payment"
  BY <1>5 DEF D!Possible, D!DueWith, D!PaymentReminders, D!Item
<1>6. CASE reminder = "overdue"
  BY <1>6 DEF D!Possible, D!DueWith, D!OverdueReminders, D!Item
<1>7. CASE reminder = "trial"
  BY <1>7 DEF D!Possible, D!DueWith, D!SubscriptionWarning, D!Item
<1> QED
  BY <1>2, <1>3, <1>4, <1>5, <1>6, <1>7 DEF D!Reminders

-----------------------------------------------------------------------------
(* Reminders: what a step leaves alone *)

\* What can be due depends on the timetable and the deadline only.
LEMMA PossibleStays ==
  ASSUME UNCHANGED <<reminder, lessons, last>>
  PROVE  \A t : D!Possible(t)' = D!Possible(t)
BY DEF D!Possible, D!DueWith, D!LessonReminders, D!AttendancePending, D!ProgressDeadline,
       D!PaymentReminders, D!OverdueReminders, D!SubscriptionWarning

\* What is due depends also on who is in the group and what is settled.
LEMMA DueStays ==
  ASSUME UNCHANGED <<reminder, lessons, last, group, settled>>
  PROVE  \A t : D!Due(t)' = D!Due(t)
BY DEF D!Due, D!DueWith, D!LessonReminders, D!AttendancePending, D!ProgressDeadline,
       D!PaymentReminders, D!OverdueReminders, D!SubscriptionWarning

\* An idle execution has nothing.
LEMMA IdleHasNothing ==
  /\ D!Idle.at = 0 /\ D!Idle.todo = {} /\ D!Idle.next = {} /\ D!Idle.staged = {}
  /\ D!Idle = [at |-> D!Idle.at, todo |-> D!Idle.todo, next |-> D!Idle.next, staged |-> D!Idle.staged]
BY DEF D!Idle

\* A notification is the reminder it has the key of, and no older than a day.
LEMMA NoteOf ==
  ASSUME reminder \in D!Reminders, last \in Int, NEW N, D!NotesAreSound(N), NEW n \in N,
         NEW t \in Nat, NEW i \in D!Possible(t), D!Same(i, n)
  PROVE  /\ i = D!Reminder(n) /\ i.to = n.to /\ i.what = n.what /\ n.at \in Nat
         /\ t < n.at + Slots /\ D!Due(t) = D!Due(n.at)
<1> DEFINE j == D!Reminder(n)
<1>1. n.at \in Nat /\ j \in D!Possible(n.at)
  BY DEF D!NotesAreSound
<1>2. j.to = n.to /\ j.what = n.what /\ j.key = n.key
  BY DEF D!Reminder, D!Item
<1>3. D!Same(i, j)
  BY <1>2 DEF D!Same
<1> HIDE DEF j
<1>4. /\ i = j /\ t < n.at + Slots
      /\ \A g, s : D!DueWith(t, g, s) = D!DueWith(n.at, g, s)
  BY <1>1, <1>3, Twins
<1> QED
  BY <1>1, <1>2, <1>4 DEF j, D!Due

\* A notification about what can be due has its key.
LEMMA NoteKey ==
  ASSUME reminder \in D!Reminders, last \in Int, NEW N, D!NotesAreSound(N), NEW n \in N,
         NEW t \in Nat, NEW i \in D!Possible(t), i.to = n.to, i.what = n.what
  PROVE  D!Same(i, n)
<1> DEFINE j == D!Reminder(n)
<1>1. n.at \in Nat /\ j \in D!Possible(n.at)
  BY DEF D!NotesAreSound
<1>2. j.to = n.to /\ j.what = n.what /\ j.key = n.key
  BY DEF D!Reminder, D!Item
<1> HIDE DEF j
<1>3. D!Same(i, j)
  BY <1>1, <1>2, KeyOf
<1> QED
  BY <1>2, <1>3 DEF D!Same

\* Notifications stay what they are while time passes.
LEMMA NotesStay ==
  ASSUME NEW N, D!NotesAreSound(N), clock \in Nat, clock' \in Nat, clock <= clock',
         UNCHANGED <<reminder, lessons, last>>
  PROVE  \A n \in N : /\ n = [to |-> n.to, what |-> n.what, key |-> n.key, at |-> n.at]
                      /\ n.at \in 0..clock' /\ D!Reminder(n) \in D!Possible(n.at)'
BY PossibleStays DEF D!NotesAreSound

\* So does an execution that is not touched.
LEMMA SoundStays ==
  ASSUME NEW o \in Operators, D!ExecutionIsSound(o), execution'[o] = execution[o],
         clock \in Nat, clock' \in Nat, clock <= clock', UNCHANGED <<reminder, lessons, last>>,
         due \subseteq due'
  PROVE  D!ExecutionIsSound(o)'
<1>1. \A t : D!Possible(t)' = D!Possible(t)
  BY PossibleStays
<1>2. \A n \in execution[o].staged :
         /\ n = [to |-> n.to, what |-> n.what, key |-> n.key, at |-> n.at]
         /\ n.at \in 0..clock' /\ D!Reminder(n) \in D!Possible(n.at)'
  BY NotesStay DEF D!ExecutionIsSound
<1>3. (D!NotesAreSound(execution[o].staged))'
  BY <1>2 DEF D!NotesAreSound, D!Reminder
<1>4. execution[o].at \in 0..clock' /\ execution[o].todo \cup execution[o].next \subseteq D!Possible(execution[o].at)' \cap due'
  BY <1>1 DEF D!ExecutionIsSound
<1>5. (execution[o].todo \cup execution[o].next \subseteq D!Possible(execution[o].at) \cap due)'
  BY <1>4
<1> QED
  BY <1>3, <1>4, <1>5 DEF D!ExecutionIsSound, D!Same

\* The types of what has not changed.
LEMMA RestStays ==
  ASSUME D!DispatchIsSound, D!KeysAreKept, UNCHANGED <<reminder, last, lessons, row>>,
         clock' \in 0..Nights * Slots - 1, clock <= clock', undone' \in Nat, edits' \in Nat,
         group' \subseteq Debtors, due \subseteq due',
         execution' = [e \in Operators |-> execution'[e]],
         \A e \in Operators : D!ExecutionIsSound(e)'
  PROVE  D!DispatchIsSound'
<1>1. clock \in Nat /\ clock' \in Nat
  BY DEF D!DispatchIsSound, D!DispatchTypeOK
<1>2. \A n \in row : /\ n = [to |-> n.to, what |-> n.what, key |-> n.key, at |-> n.at]
                     /\ n.at \in 0..clock' /\ D!Reminder(n) \in D!Possible(n.at)'
  BY <1>1, NotesStay DEF D!DispatchIsSound
<1>3. D!NotesAreSound(row)'
  BY <1>2 DEF D!NotesAreSound, D!Reminder
<1>4. D!DispatchTypeOK'
  BY DEF D!DispatchIsSound, D!DispatchTypeOK, D!ExecutionIsSound, D!Same
<1> QED
  BY <1>3, <1>4 DEF D!DispatchIsSound

\* Nobody stages or commits anything.
LEMMA KeysStay ==
  ASSUME D!KeysAreKept, row' = row, \A o \in Operators : execution'[o].staged = execution[o].staged
  PROVE  D!KeysAreKept' /\ D!Kept' = D!Kept
BY DEF D!KeysAreKept, D!Kept, D!Same

\* Nor is anything sent.
LEMMA SentStays ==
  ASSUME D!SentIsKept, sent' = sent, D!Kept' = D!Kept, undone' = undone
  PROVE  D!SentIsKept'
BY DEF D!SentIsKept, D!About

\* Nothing has begun.
LEMMA DispatchStart ==
  ASSUME D!DispatchInit
  PROVE  D!DispatchInv
<1>1. Nights * Slots \in Nat /\ Nights * Slots >= 1
  BY SlotsAndNights
<1>2. execution = [e \in Operators |-> D!Idle] /\ row = {} /\ sent = {} /\ due = {} /\ clock = 0
      /\ undone = 0 /\ edits = 0 /\ reminder \in D!Reminders
  BY DEF D!DispatchInit
<1>3. group \subseteq Debtors
  BY DEF D!DispatchInit
<1>4. last \in Int
  <2>1. CASE reminder = "progress"
    BY <2>1 DEF D!DispatchInit
  <2>2. CASE reminder = "trial"
    <3>1. last \in 1..Nights * Slots
      BY <2>2 DEF D!DispatchInit
    <3> QED
      BY <1>1, <3>1
  <2>3. CASE reminder \notin {"progress", "trial"}
    BY <2>3 DEF D!DispatchInit
  <2> QED
    BY <2>1, <2>2, <2>3
<1>5. D!DispatchTypeOK
  BY <1>1, <1>2, IdleHasNothing DEF D!DispatchTypeOK
<1>6. \A e \in Operators : D!ExecutionIsSound(e)
  BY <1>2, IdleHasNothing DEF D!ExecutionIsSound, D!NotesAreSound
<1>7. D!DispatchIsSound
  BY <1>2, <1>3, <1>4, <1>5, <1>6 DEF D!DispatchIsSound, D!NotesAreSound
<1>8. D!KeysAreKept
  BY <1>2, IdleHasNothing DEF D!KeysAreKept
<1>9. D!SentIsKept
  BY <1>2, FS_EmptySet, Zenon DEF D!SentIsKept, D!IsFiniteSet, IsFiniteSet
<1>10. D!SerialIsTold
  BY <1>2, IdleHasNothing DEF D!SerialIsTold, D!Active
<1>11. D!SteadyIsTold
  BY <1>2 DEF D!SteadyIsTold, D!Active
<1> QED
  BY <1>7, <1>8, <1>9, <1>10, <1>11 DEF D!DispatchInv

-----------------------------------------------------------------------------
(* Reminders: the steps of an execution *)

\* Counting in Dispatchers is counting.
LEMMA SentIsFinite == (D!SentIsKept => IsFiniteSet(sent)) /\ \A Past : D!Cardinality(Past) = Cardinality(Past)
BY Zenon DEF D!SentIsKept, D!IsFiniteSet, IsFiniteSet, D!Cardinality, Cardinality

\* What is sent is kept, in counts.
LEMMA SentIs ==
  D!SentIsKept <=>
    /\ IsFiniteSet(sent)
    /\ \A m \in sent :
         LET N == Cardinality(D!About(sent, m.to, m.what))
         IN  /\ m = [to |-> m.to, what |-> m.what, n |-> m.n] /\ m.n \in 1..N
             /\ N <= undone \/ (N = undone + 1 /\ D!About(D!Kept, m.to, m.what) # {})
BY Zenon DEF D!SentIsKept, D!IsFiniteSet, IsFiniteSet, D!Cardinality, Cardinality

\* Time passes.
LEMMA DispatchTick ==
  ASSUME D!DispatchInv, D!Tick
  PROVE  D!DispatchInv'
<1>1. clock \in 0..Nights * Slots - 1 /\ clock < Nights * Slots - 1 /\ clock' = clock + 1
  BY DEF D!DispatchInv, D!DispatchIsSound, D!DispatchTypeOK, D!Tick
<1>2. Nights * Slots \in Nat
  BY SlotsAndNights
<1>3. UNCHANGED <<limit, reminder, lessons, last, group, settled, row, execution, sent, due, undone, failed, edits>>
  BY DEF D!Tick
<1>4. \A e \in Operators : D!ExecutionIsSound(e)'
  BY <1>1, <1>3, SoundStays DEF D!DispatchInv, D!DispatchIsSound
<1>5. D!DispatchIsSound'
  <2>1. clock' \in 0..Nights * Slots - 1 /\ clock <= clock'
    BY <1>1, <1>2
  <2> QED
    BY <1>3, <1>4, <2>1, RestStays DEF D!DispatchInv, D!DispatchIsSound, D!DispatchTypeOK
<1>6. D!KeysAreKept' /\ D!Kept' = D!Kept
  BY <1>3, KeysStay DEF D!DispatchInv
<1>7. D!SentIsKept'
  BY <1>3, <1>6, SentStays DEF D!DispatchInv
<1>8. D!SerialIsTold'
  BY <1>3 DEF D!DispatchInv, D!SerialIsTold, D!Active, D!Told, D!About, D!TakenUp, D!Same
<1>9. D!SteadyIsTold'
  <2>1. \A t : D!Due(t)' = D!Due(t)
    BY <1>3, DueStays
  <2> QED
    BY <1>3, <2>1 DEF D!DispatchInv, D!SteadyIsTold, D!Active, D!Told, D!About, D!TakenUp
<1> QED
  BY <1>5, <1>6, <1>7, <1>8, <1>9 DEF D!DispatchInv

\* What is due changes.
LEMMA DispatchChange ==
  ASSUME D!DispatchInv, D!ChangeDue
  PROVE  D!DispatchInv'
<1>1. /\ edits' = edits + 1
      /\ UNCHANGED <<limit, reminder, clock, lessons, last, row, execution, sent, due, undone, failed>>
  BY DEF D!ChangeDue
<1>2. group' \subseteq Debtors /\ edits \in Nat /\ clock \in Nat
  BY DEF D!ChangeDue, D!DispatchInv, D!DispatchIsSound, D!DispatchTypeOK
<1>3. \A e \in Operators : D!ExecutionIsSound(e)'
  BY <1>1, <1>2, SoundStays DEF D!DispatchInv, D!DispatchIsSound
<1>4. D!DispatchIsSound'
  BY <1>1, <1>2, <1>3, RestStays DEF D!DispatchInv, D!DispatchIsSound, D!DispatchTypeOK
<1>5. D!KeysAreKept' /\ D!Kept' = D!Kept
  BY <1>1, KeysStay DEF D!DispatchInv
<1>6. D!SentIsKept'
  BY <1>1, <1>5, SentStays DEF D!DispatchInv
<1>7. D!SerialIsTold'
  BY <1>1 DEF D!DispatchInv, D!SerialIsTold, D!Active, D!Told, D!About, D!TakenUp, D!Same
<1>8. D!SteadyIsTold'
  BY <1>1, <1>2 DEF D!SteadyIsTold
<1> QED
  BY <1>4, <1>5, <1>6, <1>7, <1>8 DEF D!DispatchInv

\* An execution that has just begun.
LEMMA Begun ==
  ASSUME NEW t, NEW N, NEW y, y = [D!Idle EXCEPT !.at = t, !.todo = N]
  PROVE  y = [at |-> t, todo |-> N, next |-> {}, staged |-> {}]
<1>1. D!Idle = [at |-> 0, todo |-> {}, next |-> {}, staged |-> {}]
  BY DEF D!Idle
<1>2. [D!Idle EXCEPT !.at = t] = [at |-> t, todo |-> {}, next |-> {}, staged |-> {}]
  BY <1>1
<1> QED
  BY <1>2

\* An execution reads the clock and what is due.
LEMMA StartStep ==
  ASSUME D!DispatchInv, NEW e \in Operators, D!Start(e)
  PROVE  D!DispatchInv'
<1> DEFINE y == [D!Idle EXCEPT !.at = clock, !.todo = D!Due(clock)]
<1>1. y = [at |-> clock, todo |-> D!Due(clock), next |-> {}, staged |-> {}]
  BY Begun
<1>2. /\ execution[e] = D!Idle /\ D!Due(clock) # {} /\ due' = due \cup D!Due(clock)
      /\ execution' = [execution EXCEPT ![e] = y]
      /\ UNCHANGED <<limit, reminder, clock, lessons, last, group, settled, row, sent, undone, failed, edits>>
  BY Zenon DEF D!Start
<1>3. y.at = clock /\ y.todo = D!Due(clock) /\ y.next = {} /\ y.staged = {}
  BY <1>1
<1> HIDE DEF y
<1>4. /\ execution' = [o \in Operators |-> execution'[o]] /\ execution'[e] = y
      /\ \A o \in Operators \ {e} : execution'[o] = execution[o]
  BY <1>2 DEF D!DispatchInv, D!DispatchIsSound
<1>5. clock \in Nat /\ reminder \in D!Reminders /\ group \subseteq Debtors
  BY DEF D!DispatchInv, D!DispatchIsSound, D!DispatchTypeOK
<1>6. \A t : D!Due(t)' = D!Due(t) /\ D!Possible(t)' = D!Possible(t)
  BY <1>2, DueStays, PossibleStays
<1>7. D!ExecutionIsSound(e)'
  <2>1. D!Due(clock) \subseteq D!Possible(clock)
    BY <1>5, DueIsPossible
  <2> QED
    BY <1>1, <1>2, <1>3, <1>4, <1>5, <1>6, <2>1 DEF D!ExecutionIsSound, D!NotesAreSound
<1>8. \A o \in Operators : D!ExecutionIsSound(o)'
  BY <1>2, <1>4, <1>5, <1>7, SoundStays DEF D!DispatchInv, D!DispatchIsSound
<1>9. D!DispatchIsSound'
  BY <1>2, <1>4, <1>5, <1>8, RestStays DEF D!DispatchInv, D!DispatchIsSound, D!DispatchTypeOK
<1>10. \A o \in Operators : execution'[o].staged = execution[o].staged
  BY <1>2, <1>3, <1>4, IdleHasNothing
<1>11. D!KeysAreKept' /\ D!Kept' = D!Kept
  BY <1>2, <1>10, KeysStay DEF D!DispatchInv
<1>12. D!SentIsKept'
  BY <1>2, <1>11, SentStays DEF D!DispatchInv
<1>13. \A i : D!Told(i)' = D!Told(i)
  BY <1>2 DEF D!Told, D!About
<1>14. \A o \in Operators \ {e} : \A i : D!TakenUp(o, i)' = D!TakenUp(o, i)
  BY <1>4 DEF D!TakenUp, D!About
<1>15. \A i \in D!Due(clock) : D!TakenUp(e, i)'
  BY <1>3, <1>4 DEF D!TakenUp
<1>16. \A i : ~D!TakenUp(e, i)
  BY <1>2, IdleHasNothing DEF D!TakenUp, D!About
<1>17. y # D!Idle
  BY <1>2, <1>3, IdleHasNothing
<1>18. D!Active' = D!Active \cup {e} /\ e \notin D!Active
  BY <1>2, <1>4, <1>17 DEF D!Active, D!Idle
<1>19. limit = 1 => D!Active = {}
  <2>1. limit = 1 => Cardinality(D!Active) < 1
    BY Zenon DEF D!Start, D!Cardinality, Cardinality
  <2>2. IsFiniteSet(D!Active)
    BY OfficeAssumption, FS_Subset DEF D!Active
  <2> QED
    BY <2>1, <2>2, FS_CardinalityType, FS_EmptySet
<1>20. D!SerialIsTold'
  <2> SUFFICES ASSUME limit = 1, ~failed
               PROVE  /\ \A o, x \in D!Active' : o = x
                      /\ \A o \in Operators : \A i \in execution'[o].next : \A r \in row' : ~D!Same(i, r)
                      /\ \A i \in due' : D!Told(i)' \/ \E o \in Operators : D!TakenUp(o, i)'
    BY <1>2 DEF D!SerialIsTold, D!Same
  <2>1. \A o, x \in D!Active' : o = x
    BY <1>18, <1>19
  <2>2. \A o \in Operators : execution'[o].next = {}
    BY <1>3, <1>4, <1>19, IdleHasNothing DEF D!Active
  <2>3. \A i \in due' : D!Told(i)' \/ \E o \in Operators : D!TakenUp(o, i)'
    <3> TAKE i \in due'
    <3>1. CASE i \in D!Due(clock)
      BY <1>15, <3>1
    <3>2. CASE i \in due
      <4>1. D!Told(i) \/ \E o \in Operators : D!TakenUp(o, i)
        BY <3>2 DEF D!DispatchInv, D!SerialIsTold
      <4> QED
        BY <4>1, <1>13, <1>14, <1>16
    <3> QED
      BY <1>2, <3>1, <3>2
  <2> QED
    BY <2>1, <2>2, <2>3
<1>21. D!SteadyIsTold'
  <2> SUFFICES ASSUME edits = 0, ~failed
               PROVE  /\ \A i \in due' : D!Told(i)' \/ \E o \in D!Active' : i \in D!Due(execution'[o].at)
                      /\ \A r \in row' : \A i \in D!Due(r.at) : D!Told(i)'
                      /\ \A o \in D!Active' : \A i \in D!Due(execution'[o].at) : D!Told(i)' \/ D!TakenUp(o, i)'
    BY <1>2, <1>6 DEF D!SteadyIsTold
  <2>1. /\ \A i \in due : D!Told(i) \/ \E o \in D!Active : i \in D!Due(execution[o].at)
        /\ \A r \in row : \A i \in D!Due(r.at) : D!Told(i)
        /\ \A o \in D!Active : \A i \in D!Due(execution[o].at) : D!Told(i) \/ D!TakenUp(o, i)
    BY DEF D!DispatchInv, D!SteadyIsTold
  <2>2. \A o \in D!Active : o \in Operators \ {e}
    BY <1>18 DEF D!Active
  <2>3. \A i \in due' : D!Told(i)' \/ \E o \in D!Active' : i \in D!Due(execution'[o].at)
    BY <1>2, <1>3, <1>4, <1>13, <1>18, <2>1, <2>2
  <2>4. \A r \in row' : \A i \in D!Due(r.at) : D!Told(i)'
    BY <1>2, <1>13, <2>1
  <2>5. \A o \in D!Active' : \A i \in D!Due(execution'[o].at) : D!Told(i)' \/ D!TakenUp(o, i)'
    BY <1>3, <1>4, <1>13, <1>14, <1>15, <1>18, <2>1, <2>2
  <2> QED
    BY <2>3, <2>4, <2>5
<1> QED
  BY <1>9, <1>11, <1>12, <1>20, <1>21 DEF D!DispatchInv

\* One execution is replaced.
LEMMA Replaced ==
  ASSUME D!DispatchIsSound, NEW e \in Operators, NEW y, execution' = [execution EXCEPT ![e] = y]
  PROVE  /\ execution' = [o \in Operators |-> execution'[o]] /\ execution'[e] = y
         /\ \A o \in Operators \ {e} : execution'[o] = execution[o]
BY DEF D!DispatchIsSound

\* The types that every step starts from.
LEMMA DispatchFacts ==
  ASSUME D!DispatchIsSound
  PROVE  /\ clock \in Nat /\ clock \in 0..Nights * Slots - 1 /\ undone \in Nat /\ edits \in Nat
         /\ reminder \in D!Reminders /\ last \in Int /\ group \subseteq Debtors
         /\ D!NotesAreSound(row) /\ \A o \in Operators : D!ExecutionIsSound(o)
BY DEF D!DispatchIsSound, D!DispatchTypeOK

\* What an execution holds.
LEMMA ExecutionFacts ==
  ASSUME D!DispatchIsSound, NEW e \in Operators
  PROVE  /\ execution[e] = [at |-> execution[e].at, todo |-> execution[e].todo,
                            next |-> execution[e].next, staged |-> execution[e].staged]
         /\ execution[e].at \in Nat
         /\ \A i \in execution[e].todo \cup execution[e].next : i \in D!Possible(execution[e].at) /\ i \in due
         /\ D!NotesAreSound(execution[e].staged)
         /\ \A n \in execution[e].staged : n.at = execution[e].at
         /\ \A i, j \in execution[e].next : i = j
         /\ \A i \in execution[e].next : \A n \in execution[e].staged : ~D!Same(i, n)
<1>1. D!ExecutionIsSound(e) /\ clock \in Nat
  BY DispatchFacts
<1> QED
  BY <1>1 DEF D!ExecutionIsSound

\* Of an execution a reminder is taken off the list.
LEMMA Checked ==
  ASSUME NEW x, x = [at |-> x.at, todo |-> x.todo, next |-> x.next, staged |-> x.staged], NEW N, NEW kept,
         NEW y, y = [x EXCEPT !.todo = N, !.next = kept]
  PROVE  y = [at |-> x.at, todo |-> N, next |-> kept, staged |-> x.staged]
<1>1. [x EXCEPT !.todo = N] = [at |-> x.at, todo |-> N, next |-> x.next, staged |-> x.staged]
  OBVIOUS
<1> QED
  BY <1>1

\* An execution looks for the key of a reminder.
LEMMA CheckKeyStep ==
  ASSUME D!DispatchInv, NEW e \in Operators, NEW i \in execution[e].todo, D!CheckKey(e, i)
  PROVE  D!DispatchInv'
<1> DEFINE x == execution[e]
           found == \/ \E n \in row : D!Same(i, n) /\ n.at >= x.at - Slots
                    \/ \E n \in x.staged : D!Same(i, n)
           kept == IF found THEN {} ELSE {i}
           N == x.todo \ {i}
           y == [at |-> x.at, todo |-> N, next |-> kept, staged |-> x.staged]
<1>1. D!DispatchIsSound
  BY DEF D!DispatchInv
<1>2. /\ x.next = {}
      /\ execution' = [execution EXCEPT ![e] = [x EXCEPT !.todo = N, !.next = kept]]
      /\ UNCHANGED <<limit, reminder, clock, lessons, last, group, settled, row, sent, due, undone, failed, edits>>
  <2>1. execution' = [execution EXCEPT ![e].todo = @ \ {i}, ![e].next = kept]
    BY Zenon DEF D!CheckKey
  <2>2. execution = [o \in Operators |-> execution[o]]
    BY <1>1 DEF D!DispatchIsSound
  <2>3. [execution EXCEPT ![e].todo = @ \ {i}, ![e].next = kept] = [execution EXCEPT ![e] = [x EXCEPT !.todo = N, !.next = kept]]
    <3> HIDE DEF kept
    <3> QED
      BY <2>2
  <2> QED
    BY <2>1, <2>3 DEF D!CheckKey
<1>3. x = [at |-> x.at, todo |-> x.todo, next |-> x.next, staged |-> x.staged]
  BY <1>1, ExecutionFacts
<1>4. execution' = [execution EXCEPT ![e] = y]
  <2> HIDE DEF x, kept, N
  <2> QED
    BY <1>2, <1>3, Checked DEF y
<1>5. /\ execution' = [o \in Operators |-> execution'[o]] /\ execution'[e] = y
      /\ \A o \in Operators \ {e} : execution'[o] = execution[o]
  <2> HIDE DEF y
  <2> QED
    BY <1>1, <1>4, Replaced
<1>6. y.at = x.at /\ y.todo = x.todo \ {i} /\ y.next = kept /\ y.staged = x.staged
  OBVIOUS
<1>7. y = [at |-> y.at, todo |-> y.todo, next |-> y.next, staged |-> y.staged]
  OBVIOUS
<1>8. i \in x.todo
  OBVIOUS
<1>9. (found => kept = {}) /\ (~found => kept = {i})
  OBVIOUS
<1> HIDE DEF y, kept, N
<1>10. /\ clock \in Nat /\ reminder \in D!Reminders /\ last \in Int /\ D!NotesAreSound(row)
       /\ \A o \in Operators : D!ExecutionIsSound(o)
  BY <1>1, DispatchFacts
<1>11. /\ x.at \in Nat /\ i \in D!Possible(x.at) /\ i \in due /\ D!NotesAreSound(x.staged)
  BY <1>1, <1>8, ExecutionFacts
<1>12. /\ \A n \in row : D!Same(i, n) => x.at < n.at + Slots /\ n.at \in Nat /\ i.to = n.to /\ i.what = n.what
       /\ \A n \in x.staged : D!Same(i, n) => i.to = n.to /\ i.what = n.what
  BY <1>10, <1>11, NoteOf
<1>13. /\ \A n \in row : D!Same(i, n) => n.at >= x.at - Slots
  BY <1>11, <1>12, SlotsAndNights
<1>14. /\ ~found => /\ \A n \in row : ~D!Same(i, n)
                    /\ \A n \in x.staged : ~D!Same(i, n)
       /\ found => D!Told(i) \/ D!About(x.staged, i.to, i.what) # {}
  BY <1>12, <1>13 DEF D!Told, D!About
<1>15. kept \subseteq {i} /\ \A j \in kept : (\A n \in row : ~D!Same(j, n)) /\ \A n \in x.staged : ~D!Same(j, n)
  BY <1>9, <1>14
<1>16. i \in kept \/ D!Told(i) \/ D!About(x.staged, i.to, i.what) # {}
  BY <1>9, <1>14
<1> HIDE DEF found
<1>17. \A t : D!Due(t)' = D!Due(t) /\ D!Possible(t)' = D!Possible(t)
  BY <1>2, DueStays, PossibleStays
<1>18. D!ExecutionIsSound(e)'
  <2>1. /\ x.at \in 0..clock /\ x.todo \cup x.next \subseteq D!Possible(x.at) \cap due
        /\ \A n \in x.staged : n.at = x.at
        /\ \A n \in x.staged : /\ n = [to |-> n.to, what |-> n.what, key |-> n.key, at |-> n.at]
                               /\ n.at \in 0..clock /\ D!Reminder(n) \in D!Possible(n.at)
    BY <1>10 DEF D!ExecutionIsSound, D!NotesAreSound
  <2>2. y.todo \cup y.next \subseteq D!Possible(x.at) \cap due
    BY <1>6, <1>8, <1>15, <2>1
  <2>3. D!NotesAreSound(execution[e].staged)'
    BY <1>2, <1>5, <1>6, <1>17, <2>1 DEF D!NotesAreSound, D!Reminder
  <2> HIDE DEF x
  <2>4. \A j, k \in y.next : j = k
    BY <1>6, <1>15
  <2>5. \A j \in y.next : \A n \in y.staged : ~D!Same(j, n)
    BY <1>6, <1>15
  <2> QED
    BY <1>2, <1>5, <1>6, <1>7, <1>17, <2>1, <2>2, <2>3, <2>4, <2>5 DEF D!ExecutionIsSound, D!Same
<1>19. \A o \in Operators : D!ExecutionIsSound(o)'
  BY <1>2, <1>5, <1>10, <1>18, SoundStays
<1>20. D!DispatchIsSound'
  BY <1>1, <1>2, <1>5, <1>10, <1>19, RestStays, DispatchFacts DEF D!DispatchInv
<1>21. D!KeysAreKept' /\ D!Kept' = D!Kept
  BY <1>2, <1>5, <1>6, KeysStay DEF D!DispatchInv
<1>22. D!SentIsKept'
  BY <1>2, <1>21, SentStays DEF D!DispatchInv
<1>23. \A j : D!Told(j)' = D!Told(j)
  BY <1>2 DEF D!Told, D!About
<1>24. \A o \in Operators \ {e} : \A j : D!TakenUp(o, j)' = D!TakenUp(o, j)
  BY <1>5 DEF D!TakenUp, D!About
<1>25. \A j : D!TakenUp(e, j) => D!Told(j) \/ D!TakenUp(e, j)'
  <2> SUFFICES ASSUME NEW j, D!TakenUp(e, j), ~D!Told(j)
               PROVE  D!TakenUp(e, j)'
    OBVIOUS
  <2>1. CASE j = i
    <3>1. i \in kept \/ D!About(x.staged, i.to, i.what) # {}
      BY <1>16, <2>1
    <3> QED
      BY <1>5, <1>6, <2>1, <3>1 DEF D!TakenUp, D!About
  <2>2. CASE j # i
    BY <1>2, <1>5, <1>6, <2>2 DEF D!TakenUp, D!About
  <2> QED
    BY <2>1, <2>2
<1>26. D!Active' \subseteq D!Active /\ e \in D!Active
  BY <1>5, <1>8, IdleHasNothing DEF D!Active, D!Idle
<1>27. D!SerialIsTold'
  <2> SUFFICES ASSUME limit = 1, ~failed
               PROVE  /\ \A o, z \in D!Active' : o = z
                      /\ \A o \in Operators : \A j \in execution'[o].next : \A r \in row' : ~D!Same(j, r)
                      /\ \A j \in due' : D!Told(j)' \/ \E o \in Operators : D!TakenUp(o, j)'
    BY <1>2 DEF D!SerialIsTold, D!Same
  <2>1. /\ \A o, z \in D!Active : o = z
        /\ \A o \in Operators : \A j \in execution[o].next : \A r \in row : ~D!Same(j, r)
        /\ \A j \in due : D!Told(j) \/ \E o \in Operators : D!TakenUp(o, j)
    BY DEF D!DispatchInv, D!SerialIsTold
  <2>2. \A o, z \in D!Active' : o = z
    BY <1>26, <2>1
  <2>3. \A o \in Operators : \A j \in execution'[o].next : \A r \in row' : ~D!Same(j, r)
    BY <1>2, <1>5, <1>6, <1>15, <2>1
  <2>4. \A j \in due' : D!Told(j)' \/ \E o \in Operators : D!TakenUp(o, j)'
    BY <1>2, <1>23, <1>24, <1>25, <2>1
  <2> QED
    BY <2>2, <2>3, <2>4
<1>28. D!SteadyIsTold'
  <2> SUFFICES ASSUME edits = 0, ~failed
               PROVE  /\ \A j \in due' : D!Told(j)' \/ \E o \in D!Active' : j \in D!Due(execution'[o].at)
                      /\ \A r \in row' : \A j \in D!Due(r.at) : D!Told(j)'
                      /\ \A o \in D!Active' : \A j \in D!Due(execution'[o].at) : D!Told(j)' \/ D!TakenUp(o, j)'
    BY <1>2, <1>17 DEF D!SteadyIsTold
  <2>1. /\ \A j \in due : D!Told(j) \/ \E o \in D!Active : j \in D!Due(execution[o].at)
        /\ \A r \in row : \A j \in D!Due(r.at) : D!Told(j)
        /\ \A o \in D!Active : \A j \in D!Due(execution[o].at) : D!Told(j) \/ D!TakenUp(o, j)
    BY DEF D!DispatchInv, D!SteadyIsTold
  <2>2. \A o \in Operators : execution'[o].at = execution[o].at
    BY <1>5, <1>6
  <2>3. \A o \in D!Active \ {e} : o \in D!Active' /\ o \in Operators
    BY <1>5 DEF D!Active, D!Idle
  <2>4. ASSUME NEW j \in due, ~D!Told(j)
        PROVE  \E o \in D!Active' : j \in D!Due(execution'[o].at)
    <3>1. PICK o \in D!Active : j \in D!Due(execution[o].at)
      BY <2>1, <2>4
    <3>2. o \in Operators /\ D!TakenUp(o, j)
      BY <2>1, <2>4, <3>1 DEF D!Active
    <3>3. o = e => D!TakenUp(e, j)'
      BY <1>25, <2>4, <3>2
    <3>4. o = e => execution'[e] # D!Idle
      BY <3>3, IdleHasNothing DEF D!TakenUp, D!About
    <3>5. o \in D!Active'
      BY <2>3, <3>1, <3>2, <3>4 DEF D!Active, D!Idle
    <3> QED
      BY <2>2, <3>1, <3>2, <3>5
  <2>5. \A j \in due' : D!Told(j)' \/ \E o \in D!Active' : j \in D!Due(execution'[o].at)
    BY <1>2, <1>23, <2>4
  <2>6. \A r \in row' : \A j \in D!Due(r.at) : D!Told(j)'
    BY <1>2, <1>23, <2>1
  <2>7. \A o \in D!Active' : \A j \in D!Due(execution'[o].at) : D!Told(j)' \/ D!TakenUp(o, j)'
    <3> TAKE o \in D!Active'
    <3>1. o \in D!Active /\ o \in Operators
      BY <1>26 DEF D!Active
    <3> TAKE j \in D!Due(execution'[o].at)
    <3>2. D!Told(j) \/ D!TakenUp(o, j)
      BY <2>1, <2>2, <3>1
    <3> QED
      BY <1>23, <1>24, <1>25, <3>1, <3>2
  <2> QED
    BY <2>5, <2>6, <2>7
<1> QED
  BY <1>20, <1>21, <1>22, <1>27, <1>28 DEF D!DispatchInv

\* A rollback keeps the types, the keys and the counts: what was sent for nothing is
\* counted as undone.
LEMMA DispatchRollback ==
  ASSUME D!DispatchInv, NEW e \in Operators, D!Rollback(e)
  PROVE  D!DispatchIsSound' /\ D!KeysAreKept' /\ D!SentIsKept'
<1>1. D!DispatchIsSound
  BY DEF D!DispatchInv
<1>2. /\ execution' = [execution EXCEPT ![e] = D!Idle] /\ undone' = undone + 1
      /\ UNCHANGED <<limit, reminder, clock, lessons, last, group, settled, row, sent, due, edits>>
  BY DEF D!Rollback
<1>3. /\ execution' = [o \in Operators |-> execution'[o]] /\ execution'[e] = D!Idle
      /\ \A o \in Operators \ {e} : execution'[o] = execution[o]
  BY <1>1, <1>2, Replaced
<1>4. /\ clock \in Nat /\ clock \in 0..Nights * Slots - 1 /\ undone \in Nat /\ edits \in Nat
      /\ group \subseteq Debtors /\ \A o \in Operators : D!ExecutionIsSound(o)
  BY <1>1, DispatchFacts
<1>5. D!ExecutionIsSound(e)'
  BY <1>2, <1>3, <1>4, IdleHasNothing DEF D!ExecutionIsSound, D!NotesAreSound
<1>6. \A o \in Operators : D!ExecutionIsSound(o)'
  BY <1>2, <1>3, <1>4, <1>5, SoundStays
<1>7. D!DispatchIsSound'
  BY <1>1, <1>2, <1>3, <1>4, <1>6, RestStays DEF D!DispatchInv
<1>8. \A o \in Operators : execution'[o].staged \subseteq execution[o].staged
  BY <1>3, IdleHasNothing
<1>9. D!KeysAreKept'
  BY <1>2, <1>8 DEF D!DispatchInv, D!KeysAreKept, D!Same
<1>10. D!SentIsKept'
  <2>1. /\ IsFiniteSet(sent)
        /\ \A m \in sent :
             LET N == Cardinality(D!About(sent, m.to, m.what))
             IN  /\ m = [to |-> m.to, what |-> m.what, n |-> m.n] /\ m.n \in 1..N
                 /\ N <= undone \/ (N = undone + 1 /\ D!About(D!Kept, m.to, m.what) # {})
    BY SentIs DEF D!DispatchInv
  <2>2. ASSUME NEW m \in sent
        PROVE  Cardinality(D!About(sent, m.to, m.what)) \in Nat
    <3>1. D!About(sent, m.to, m.what) \subseteq sent
      BY DEF D!About
    <3> QED
      BY <2>1, <3>1, FS_Subset, FS_CardinalityType
  <2>3. \A m \in sent : D!About(sent, m.to, m.what)' = D!About(sent, m.to, m.what)
    BY <1>2 DEF D!About
  <2>4. /\ IsFiniteSet(sent')
        /\ \A m \in sent' :
             /\ m = [to |-> m.to, what |-> m.what, n |-> m.n]
             /\ m.n \in 1..Cardinality(D!About(sent, m.to, m.what)')
             /\ Cardinality(D!About(sent, m.to, m.what)') <= undone'
    BY <1>2, <1>4, <2>1, <2>2, <2>3
  <2> QED
    BY <2>4, Zenon DEF D!SentIsKept, D!IsFiniteSet, IsFiniteSet, D!Cardinality, Cardinality
<1> QED
  BY <1>7, <1>9, <1>10

\* An error loses what an execution has taken up.
LEMMA FailStep ==
  ASSUME D!DispatchInv, NEW e \in Operators, D!Fail(e)
  PROVE  D!DispatchInv'
<1>1. D!Rollback(e) /\ failed' = TRUE
  BY DEF D!Fail
<1>2. D!DispatchIsSound' /\ D!KeysAreKept' /\ D!SentIsKept'
  BY <1>1, DispatchRollback
<1>3. D!SerialIsTold' /\ D!SteadyIsTold'
  BY <1>1 DEF D!SerialIsTold, D!SteadyIsTold
<1> QED
  BY <1>2, <1>3 DEF D!DispatchInv

\* A conflict is with a row that tells all that this execution would, or with another
\* execution that has taken up the same.
LEMMA ConflictStep ==
  ASSUME D!DispatchInv, NEW e \in Operators, D!Conflict(e)
  PROVE  D!DispatchInv'
<1>1. D!DispatchIsSound
  BY DEF D!DispatchInv
<1>2. D!Rollback(e) /\ failed' = failed
  BY DEF D!Conflict
<1>3. D!DispatchIsSound' /\ D!KeysAreKept' /\ D!SentIsKept'
  BY <1>2, DispatchRollback
<1>4. /\ execution' = [execution EXCEPT ![e] = D!Idle]
      /\ UNCHANGED <<limit, reminder, clock, lessons, last, group, settled, row, sent, due, edits>>
  BY <1>2 DEF D!Rollback
<1>5. /\ execution'[e] = D!Idle
      /\ \A o \in Operators \ {e} : execution'[o] = execution[o]
  BY <1>1, <1>4, Replaced
<1>6. /\ reminder \in D!Reminders /\ last \in Int /\ D!NotesAreSound(row)
  BY <1>1, DispatchFacts
<1>7. /\ \A t : D!Due(t)' = D!Due(t)
      /\ \A j : D!Told(j)' = D!Told(j)
      /\ \A o \in Operators \ {e} : \A j : D!TakenUp(o, j)' = D!TakenUp(o, j)
  BY <1>4, <1>5, DueStays DEF D!Told, D!About, D!TakenUp
<1>8. D!Active' = D!Active \ {e}
  BY <1>5 DEF D!Active, D!Idle
<1>9. \/ \E i \in execution[e].next : \E r \in row : D!Same(i, r)
      \/ \E i \in execution[e].next : \E o \in D!Active \ {e} : \E n \in execution[o].staged : D!Same(i, n)
  <2>1. CASE D!Rivals(e) = {} /\ \E i \in execution[e].next : \E r \in row : D!Same(i, r)
    BY <2>1
  <2>2. CASE D!WaitsInCircle(e)
    <3>1. D!Rivals(e) # {}
      BY <2>2 DEF D!WaitsInCircle
    <3> QED
      BY <3>1 DEF D!Rivals
  <2> QED
    BY <2>1, <2>2 DEF D!Conflict
<1>10. e \in D!Active
  BY <1>9, IdleHasNothing DEF D!Active, D!Idle
<1>11. D!SerialIsTold'
  <2> SUFFICES ASSUME limit = 1, ~failed PROVE FALSE
    BY <1>2, <1>4 DEF D!SerialIsTold
  <2>1. /\ \A o, z \in D!Active : o = z
        /\ \A o \in Operators : \A j \in execution[o].next : \A r \in row : ~D!Same(j, r)
    BY DEF D!DispatchInv, D!SerialIsTold
  <2> QED
    BY <1>9, <1>10, <2>1
<1>12. D!SteadyIsTold'
  <2> SUFFICES ASSUME edits = 0, ~failed
               PROVE  /\ \A j \in due' : D!Told(j)' \/ \E o \in D!Active' : j \in D!Due(execution'[o].at)
                      /\ \A r \in row' : \A j \in D!Due(r.at) : D!Told(j)'
                      /\ \A o \in D!Active' : \A j \in D!Due(execution'[o].at) : D!Told(j)' \/ D!TakenUp(o, j)'
    BY <1>2, <1>4, <1>7 DEF D!SteadyIsTold
  <2>1. /\ \A j \in due : D!Told(j) \/ \E o \in D!Active : j \in D!Due(execution[o].at)
        /\ \A r \in row : \A j \in D!Due(r.at) : D!Told(j)
        /\ \A o \in D!Active : \A j \in D!Due(execution[o].at) : D!Told(j) \/ D!TakenUp(o, j)
    BY DEF D!DispatchInv, D!SteadyIsTold
  <2>2. \A i \in execution[e].next : i \in D!Possible(execution[e].at) /\ execution[e].at \in Nat
    BY <1>1, ExecutionFacts
  <2>3. \/ \A j \in D!Due(execution[e].at) : D!Told(j)
        \/ \E o \in D!Active \ {e} : D!Due(execution[o].at) = D!Due(execution[e].at)
    <3>1. ASSUME NEW i \in execution[e].next, NEW r \in row, D!Same(i, r)
          PROVE  \A j \in D!Due(execution[e].at) : D!Told(j)
      <4>1. D!Due(execution[e].at) = D!Due(r.at)
        BY <1>6, <2>2, <3>1, NoteOf
      <4> QED
        BY <2>1, <4>1
    <3>2. ASSUME NEW i \in execution[e].next, NEW o \in D!Active \ {e}, NEW n \in execution[o].staged, D!Same(i, n)
          PROVE  D!Due(execution[o].at) = D!Due(execution[e].at)
      <4>1. o \in Operators
        BY DEF D!Active
      <4>2. D!NotesAreSound(execution[o].staged) /\ n.at = execution[o].at
        BY <1>1, <4>1, ExecutionFacts
      <4>3. D!Due(execution[e].at) = D!Due(n.at)
        BY <1>6, <2>2, <3>2, <4>2, NoteOf
      <4> QED
        BY <4>2, <4>3
    <3> QED
      BY <1>9, <3>1, <3>2
  <2>4. \A o \in D!Active' : o \in D!Active /\ o \in Operators \ {e}
    BY <1>8 DEF D!Active
  <2>5. ASSUME NEW j \in due, ~D!Told(j)
        PROVE  \E o \in D!Active' : j \in D!Due(execution'[o].at)
    <3>1. PICK o \in D!Active : j \in D!Due(execution[o].at)
      BY <2>1, <2>5
    <3>2. CASE o # e
      BY <1>8, <2>4, <1>5, <3>1, <3>2
    <3>3. CASE o = e
      <4>1. PICK z \in D!Active \ {e} : D!Due(execution[z].at) = D!Due(execution[e].at)
        BY <2>3, <2>5, <3>1, <3>3
      <4>2. z \in D!Active' /\ execution'[z] = execution[z]
        BY <1>5, <1>8, <2>4
      <4> QED
        BY <3>1, <3>3, <4>1, <4>2
    <3> QED
      BY <3>2, <3>3
  <2>6. \A j \in due' : D!Told(j)' \/ \E o \in D!Active' : j \in D!Due(execution'[o].at)
    BY <1>4, <1>7, <2>5
  <2>7. \A r \in row' : \A j \in D!Due(r.at) : D!Told(j)'
    BY <1>4, <1>7, <2>1
  <2>8. \A o \in D!Active' : \A j \in D!Due(execution'[o].at) : D!Told(j)' \/ D!TakenUp(o, j)'
    BY <1>5, <1>7, <2>1, <2>4
  <2> QED
    BY <2>6, <2>7, <2>8
<1> QED
  BY <1>3, <1>11, <1>12 DEF D!DispatchInv

\* An execution commits when it has nothing left to do: all it has taken up is told.
LEMMA DispatchCommit ==
  ASSUME D!DispatchInv, NEW e \in Operators, D!Commit(e)
  PROVE  D!DispatchInv'
<1> DEFINE x == execution[e]
<1>1. D!DispatchIsSound
  BY DEF D!DispatchInv
<1>2. /\ x # D!Idle /\ x.todo = {} /\ x.next = {} /\ row' = row \cup x.staged
      /\ execution' = [execution EXCEPT ![e] = D!Idle]
      /\ UNCHANGED <<limit, reminder, clock, lessons, last, group, settled, sent, due, undone, failed, edits>>
  BY DEF D!Commit
<1>3. /\ execution' = [o \in Operators |-> execution'[o]] /\ execution'[e] = D!Idle
      /\ \A o \in Operators \ {e} : execution'[o] = execution[o]
  BY <1>1, <1>2, Replaced
<1>4. /\ clock \in Nat /\ clock \in 0..Nights * Slots - 1 /\ undone \in Nat /\ edits \in Nat
      /\ reminder \in D!Reminders /\ last \in Int
      /\ group \subseteq Debtors /\ D!NotesAreSound(row) /\ \A o \in Operators : D!ExecutionIsSound(o)
  BY <1>1, DispatchFacts
<1>5. D!NotesAreSound(x.staged) /\ \A n \in x.staged : n.at = x.at
  BY <1>1, ExecutionFacts
<1> HIDE DEF x
<1>6. D!ExecutionIsSound(e)'
  BY <1>2, <1>3, <1>4, IdleHasNothing DEF D!ExecutionIsSound, D!NotesAreSound
<1>7. \A o \in Operators : D!ExecutionIsSound(o)'
  BY <1>2, <1>3, <1>4, <1>6, SoundStays
<1>8. /\ \A o \in Operators : \A n \in execution[o].staged :
           /\ \A m \in execution[o].staged : D!Same(n, m) => n = m
           /\ \A z \in Operators \ {o} : \A m \in execution[z].staged : ~D!Same(n, m)
           /\ \A r \in row : ~D!Same(n, r)
      /\ \A r, n \in row : D!Same(r, n) => r = n
  BY <1>1 DEF D!DispatchInv, D!KeysAreKept, D!DispatchIsSound, D!DispatchTypeOK
<1>9. \A r, n \in row' : D!Same(r, n) => r = n
  BY <1>2, <1>8 DEF x, D!Same
<1>10. D!NotesAreSound(row)'
  <2>1. \A t : D!Possible(t)' = D!Possible(t)
    BY <1>2, PossibleStays
  <2> QED
    BY <1>2, <1>4, <1>5, <2>1 DEF D!NotesAreSound, D!Reminder
<1>11. D!DispatchIsSound'
  <2>1. D!DispatchTypeOK'
    BY <1>2, <1>4, <1>7, <1>9 DEF D!DispatchTypeOK, D!ExecutionIsSound, D!Same
  <2> QED
    BY <1>2, <1>3, <1>4, <1>7, <1>10, <2>1 DEF D!DispatchIsSound
<1>12. D!KeysAreKept'
  <2>1. ASSUME NEW o \in Operators, NEW n \in execution'[o].staged
        PROVE  /\ o # e /\ n \in execution[o].staged
               /\ \A z \in Operators : \A m \in execution'[z].staged : z # e /\ m \in execution[z].staged
    BY <1>3, <2>1, IdleHasNothing
  <2>2. ASSUME NEW o \in Operators, NEW n \in execution'[o].staged
        PROVE  /\ \A m \in execution'[o].staged : D!Same(n, m) => n = m
               /\ \A z \in Operators \ {o} : \A m \in execution'[z].staged : ~D!Same(n, m)
    BY <1>8, <2>1, <2>2
  <2>3. ASSUME NEW o \in Operators, NEW n \in execution'[o].staged
        PROVE  \A r \in row' : ~D!Same(n, r)
    BY <1>2, <1>8, <2>1, <2>3 DEF x
  <2> QED
    BY <2>2, <2>3 DEF D!KeysAreKept, D!Same
<1>13. D!Kept' = D!Kept
  <2>1. \A n : (\E o \in Operators : n \in execution[o].staged)
               <=> n \in x.staged \/ \E o \in Operators : n \in execution'[o].staged
    BY <1>3, IdleHasNothing DEF x
  <2>2. \A n : n \in D!Kept <=> n \in row \/ \E o \in Operators : n \in execution[o].staged
    BY DEF D!Kept
  <2>3. \A n : n \in D!Kept' <=> n \in row' \/ \E o \in Operators : n \in execution'[o].staged
    BY DEF D!Kept
  <2>4. \A n : n \in D!Kept' <=> n \in D!Kept
    BY <1>2, <2>1, <2>2, <2>3
  <2> QED
    BY <2>4
<1>14. D!SentIsKept'
  BY <1>2, <1>13, SentStays DEF D!DispatchInv
<1>15. /\ \A t : D!Due(t)' = D!Due(t)
       /\ \A j : D!Told(j) => D!Told(j)'
       /\ \A j : D!TakenUp(e, j) => D!Told(j)'
       /\ \A o \in Operators \ {e} : \A j : D!TakenUp(o, j)' = D!TakenUp(o, j)
  BY <1>2, <1>3, DueStays DEF D!Told, D!About, D!TakenUp, x
<1>16. D!Active' = D!Active \ {e} /\ e \in D!Active
  BY <1>2, <1>3 DEF D!Active, D!Idle, x
<1>17. D!SerialIsTold'
  <2> SUFFICES ASSUME limit = 1, ~failed
               PROVE  /\ \A o, z \in D!Active' : o = z
                      /\ \A o \in Operators : \A j \in execution'[o].next : \A r \in row' : ~D!Same(j, r)
                      /\ \A j \in due' : D!Told(j)' \/ \E o \in Operators : D!TakenUp(o, j)'
    BY <1>2 DEF D!SerialIsTold, D!Same
  <2>1. /\ \A o, z \in D!Active : o = z
        /\ \A j \in due : D!Told(j) \/ \E o \in Operators : D!TakenUp(o, j)
    BY DEF D!DispatchInv, D!SerialIsTold
  <2>2. D!Active' = {}
    BY <1>16, <2>1
  <2>3. \A o \in Operators : execution'[o].next = {}
    BY <2>2, IdleHasNothing DEF D!Active, D!Idle
  <2>4. \A j \in due' : D!Told(j)' \/ \E o \in Operators : D!TakenUp(o, j)'
    BY <1>2, <1>15, <2>1
  <2> QED
    BY <2>2, <2>3, <2>4
<1>18. D!SteadyIsTold'
  <2> SUFFICES ASSUME edits = 0, ~failed
               PROVE  /\ \A j \in due' : D!Told(j)' \/ \E o \in D!Active' : j \in D!Due(execution'[o].at)
                      /\ \A r \in row' : \A j \in D!Due(r.at) : D!Told(j)'
                      /\ \A o \in D!Active' : \A j \in D!Due(execution'[o].at) : D!Told(j)' \/ D!TakenUp(o, j)'
    BY <1>2, <1>15 DEF D!SteadyIsTold
  <2>1. /\ \A j \in due : D!Told(j) \/ \E o \in D!Active : j \in D!Due(execution[o].at)
        /\ \A r \in row : \A j \in D!Due(r.at) : D!Told(j)
        /\ \A o \in D!Active : \A j \in D!Due(execution[o].at) : D!Told(j) \/ D!TakenUp(o, j)
    BY DEF D!DispatchInv, D!SteadyIsTold
  <2>2. \A j \in D!Due(x.at) : D!Told(j)'
    BY <1>15, <1>16, <2>1 DEF x
  <2>3. \A o \in D!Active' : o \in D!Active /\ o \in Operators \ {e} /\ execution'[o] = execution[o]
    BY <1>3, <1>16 DEF D!Active
  <2>4. ASSUME NEW j \in due, ~(D!Told(j)')
        PROVE  \E o \in D!Active' : j \in D!Due(execution'[o].at)
    <3>1. PICK o \in D!Active : j \in D!Due(execution[o].at)
      BY <1>15, <2>1, <2>4
    <3>2. o # e
      BY <2>2, <2>4, <3>1 DEF x
    <3>3. o \in D!Active'
      BY <1>16, <3>2
    <3> QED
      BY <2>3, <3>1, <3>3
  <2>5. \A j \in due' : D!Told(j)' \/ \E o \in D!Active' : j \in D!Due(execution'[o].at)
    BY <1>2, <2>4
  <2>6. \A r \in row' : \A j \in D!Due(r.at) : D!Told(j)'
    BY <1>2, <1>5, <1>15, <2>1, <2>2
  <2>7. \A o \in D!Active' : \A j \in D!Due(execution'[o].at) : D!Told(j)' \/ D!TakenUp(o, j)'
    BY <1>15, <2>1, <2>3
  <2> QED
    BY <2>5, <2>6, <2>7
<1> QED
  BY <1>11, <1>12, <1>14, <1>17, <1>18 DEF D!DispatchInv

\* Of an execution a reminder is staged.
LEMMA Staged ==
  ASSUME NEW x, x = [at |-> x.at, todo |-> x.todo, next |-> x.next, staged |-> x.staged], NEW N,
         NEW y, y = [x EXCEPT !.next = {}, !.staged = N]
  PROVE  y = [at |-> x.at, todo |-> x.todo, next |-> {}, staged |-> N]
<1>1. [x EXCEPT !.next = {}] = [at |-> x.at, todo |-> x.todo, next |-> {}, staged |-> x.staged]
  OBVIOUS
<1> QED
  BY <1>1

\* A reminder that is staged nowhere and has no row was only sent by executions that
\* were rolled back.
LEMMA SentBefore ==
  ASSUME D!DispatchInv, NEW e \in Operators, NEW i \in execution[e].next,
         D!Rivals(e) = {}, \A r \in row : ~D!Same(i, r)
  PROVE  /\ D!About(D!Kept, i.to, i.what) = {}
         /\ Cardinality(D!About(sent, i.to, i.what)) \in Nat
         /\ Cardinality(D!About(sent, i.to, i.what)) <= undone
<1>1. D!DispatchIsSound
  BY DEF D!DispatchInv
<1>2. /\ reminder \in D!Reminders /\ last \in Int /\ D!NotesAreSound(row) /\ undone \in Nat
  BY <1>1, DispatchFacts
<1>3. /\ execution[e].at \in Nat /\ i \in D!Possible(execution[e].at)
      /\ \A n \in execution[e].staged : ~D!Same(i, n)
  BY <1>1, ExecutionFacts
<1>4. \A o \in Operators : \A n \in execution[o].staged : ~D!Same(i, n)
  <2> TAKE o \in Operators
  <2>1. CASE o = e
    BY <1>3, <2>1
  <2>2. CASE o # e /\ o \in D!Active
    BY <2>2 DEF D!Rivals
  <2>3. CASE o \notin D!Active
    BY <2>3, IdleHasNothing DEF D!Active, D!Idle
  <2> QED
    BY <2>1, <2>2, <2>3
<1>5. \A o \in Operators : D!NotesAreSound(execution[o].staged)
  BY <1>1, ExecutionFacts
<1>6. ASSUME NEW n \in D!About(D!Kept, i.to, i.what)
      PROVE  FALSE
  <2>1. n \in D!Kept /\ n.to = i.to /\ n.what = i.what
    BY DEF D!About
  <2>2. CASE n \in row
    <3>1. D!Same(i, n)
      BY <1>2, <1>3, <2>1, <2>2, NoteKey
    <3> QED
      BY <2>2, <3>1
  <2>3. CASE \E o \in Operators : n \in execution[o].staged
    <3>1. PICK o \in Operators : n \in execution[o].staged
      BY <2>3
    <3>2. D!NotesAreSound(execution[o].staged)
      BY <1>5
    <3>3. D!Same(i, n)
      BY <1>2, <1>3, <2>1, <3>1, <3>2, NoteKey
    <3> QED
      BY <1>4, <3>1, <3>3
  <2> QED
    BY <2>1, <2>2, <2>3 DEF D!Kept
<1>7. D!About(D!Kept, i.to, i.what) = {}
  BY <1>6
<1>8. /\ IsFiniteSet(sent)
      /\ \A m \in sent :
           LET N == Cardinality(D!About(sent, m.to, m.what))
           IN  /\ m = [to |-> m.to, what |-> m.what, n |-> m.n] /\ m.n \in 1..N
               /\ N <= undone \/ (N = undone + 1 /\ D!About(D!Kept, m.to, m.what) # {})
  BY SentIs DEF D!DispatchInv
<1> DEFINE Past == D!About(sent, i.to, i.what)
<1>9. Past \subseteq sent /\ \A m \in Past : m \in sent /\ m.to = i.to /\ m.what = i.what
  BY DEF D!About
<1>10. IsFiniteSet(Past) /\ Cardinality(Past) \in Nat
  BY <1>8, <1>9, FS_Subset, FS_CardinalityType
<1>11. Cardinality(Past) <= undone
  <2>1. CASE Past = {}
    BY <1>2, <2>1, FS_EmptySet
  <2>2. CASE Past # {}
    <3>1. PICK m \in Past : TRUE
      BY <2>2
    <3>2. m \in sent /\ m.to = i.to /\ m.what = i.what
      BY <1>9, <3>1
    <3>3. \/ Cardinality(D!About(sent, m.to, m.what)) <= undone
          \/ D!About(D!Kept, m.to, m.what) # {}
      BY <1>8, <3>2
    <3> QED
      BY <1>7, <3>2, <3>3
  <2> QED
    BY <2>1, <2>2
<1> QED
  BY <1>7, <1>10, <1>11

\* An execution stages a reminder and sends it.
LEMMA EnqueueSyncStep ==
  ASSUME D!DispatchInv, NEW e \in Operators, NEW i \in execution[e].next, D!EnqueueSync(e, i)
  PROVE  D!DispatchInv'
<1> DEFINE x == execution[e]
           note == [to |-> i.to, what |-> i.what, key |-> i.key, at |-> x.at]
           N == x.staged \cup {note}
           y == [at |-> x.at, todo |-> x.todo, next |-> {}, staged |-> N]
           Past == D!About(sent, i.to, i.what)
           message == [to |-> i.to, what |-> i.what, n |-> Cardinality(Past) + 1]
<1>1. D!DispatchIsSound
  BY DEF D!DispatchInv
<1>2. /\ D!Rivals(e) = {} /\ \A r \in row : ~D!Same(i, r)
      /\ execution' = [execution EXCEPT ![e] = [x EXCEPT !.next = {}, !.staged = N]]
      /\ sent' = sent \cup {message}
      /\ UNCHANGED <<limit, reminder, clock, lessons, last, group, settled, row, due, undone, failed, edits>>
  <2>1. execution' = [execution EXCEPT ![e].next = {}, ![e].staged = @ \cup {note}]
    BY Zenon DEF D!EnqueueSync
  <2>2. execution = [o \in Operators |-> execution[o]]
    BY <1>1 DEF D!DispatchIsSound
  <2>3. [execution EXCEPT ![e].next = {}, ![e].staged = @ \cup {note}]
          = [execution EXCEPT ![e] = [x EXCEPT !.next = {}, !.staged = N]]
    <3>1. x = [at |-> x.at, todo |-> x.todo, next |-> x.next, staged |-> x.staged]
      BY <1>1, ExecutionFacts
    <3> HIDE DEF note
    <3> QED
      BY <2>2, <3>1
  <2>4. sent' = sent \cup {message}
    BY Zenon DEF D!EnqueueSync, D!Cardinality, Cardinality, D!About
  <2>5. /\ D!Rivals(e) = {} /\ ~\E r \in row : D!Same(i, r)
        /\ UNCHANGED <<limit, reminder, clock, lessons, last, group, settled, row, due, undone, failed, edits>>
    BY Zenon DEF D!EnqueueSync
  <2> QED
    BY <2>1, <2>3, <2>4, <2>5
<1>3. x = [at |-> x.at, todo |-> x.todo, next |-> x.next, staged |-> x.staged]
  BY <1>1, ExecutionFacts
<1>4. execution' = [execution EXCEPT ![e] = y]
  <2> HIDE DEF x, N
  <2> QED
    BY <1>2, <1>3, Staged DEF y
<1>5. /\ execution' = [o \in Operators |-> execution'[o]] /\ execution'[e] = y
      /\ \A o \in Operators \ {e} : execution'[o] = execution[o]
  <2> HIDE DEF y
  <2> QED
    BY <1>1, <1>4, Replaced
<1>6. /\ y.at = x.at /\ y.todo = x.todo /\ y.next = {} /\ y.staged = x.staged \cup {note}
      /\ y = [at |-> y.at, todo |-> y.todo, next |-> y.next, staged |-> y.staged]
  OBVIOUS
<1>7. /\ note = [to |-> note.to, what |-> note.what, key |-> note.key, at |-> note.at]
      /\ note.to = i.to /\ note.what = i.what /\ note.key = i.key /\ note.at = x.at
  OBVIOUS
<1>8. /\ message = [to |-> message.to, what |-> message.what, n |-> message.n]
      /\ message.to = i.to /\ message.what = i.what /\ message.n = Cardinality(Past) + 1
  OBVIOUS
<1>9. i \in x.next
  OBVIOUS
<1> HIDE DEF y, N, note, message
<1>10. /\ clock \in Nat /\ clock \in 0..Nights * Slots - 1 /\ undone \in Nat /\ edits \in Nat
       /\ reminder \in D!Reminders /\ last \in Int
       /\ group \subseteq Debtors /\ D!NotesAreSound(row) /\ \A o \in Operators : D!ExecutionIsSound(o)
  BY <1>1, DispatchFacts
<1>11. /\ x.at \in Nat /\ i \in D!Possible(x.at) /\ D!NotesAreSound(x.staged)
       /\ \A n \in x.staged : n.at = x.at /\ ~D!Same(i, n)
       /\ \A j \in x.next : j = i
  BY <1>1, <1>9, ExecutionFacts
<1>12. D!Reminder(note) = i
  BY <1>7, <1>10, <1>11, PossibleIsItem DEF D!Reminder, D!Item
<1>13. /\ \A t : D!Due(t)' = D!Due(t) /\ D!Possible(t)' = D!Possible(t)
       /\ \A j : D!Told(j)' = D!Told(j)
  BY <1>2, DueStays, PossibleStays DEF D!Told, D!About
<1>14. D!ExecutionIsSound(e)'
  <2>1. /\ x.at \in 0..clock /\ x.todo \subseteq D!Possible(x.at) \cap due
        /\ \A n \in x.staged : /\ n = [to |-> n.to, what |-> n.what, key |-> n.key, at |-> n.at]
                               /\ n.at \in 0..clock /\ D!Reminder(n) \in D!Possible(n.at)
    BY <1>10 DEF D!ExecutionIsSound, D!NotesAreSound
  <2>2. \A n \in y.staged : /\ n = [to |-> n.to, what |-> n.what, key |-> n.key, at |-> n.at]
                            /\ n.at \in 0..clock /\ D!Reminder(n) \in D!Possible(n.at) /\ n.at = x.at
    BY <1>6, <1>7, <1>11, <1>12, <2>1
  <2>3. D!NotesAreSound(execution[e].staged)'
    BY <1>2, <1>5, <1>13, <2>2 DEF D!NotesAreSound, D!Reminder
  <2> HIDE DEF x
  <2> QED
    BY <1>2, <1>5, <1>6, <1>13, <2>1, <2>2, <2>3 DEF D!ExecutionIsSound
<1>15. \A o \in Operators : D!ExecutionIsSound(o)'
  BY <1>2, <1>5, <1>10, <1>14, SoundStays
<1>16. D!DispatchIsSound'
  BY <1>1, <1>2, <1>5, <1>10, <1>15, RestStays DEF D!DispatchInv
<1>17. \A n : D!Same(note, n) = D!Same(i, n)
  BY <1>7 DEF D!Same
<1>18. \A n, m : D!Same(n, m) = D!Same(m, n)
  BY DEF D!Same
<1>19. \A o \in Operators \ {e} : \A n \in execution[o].staged : ~D!Same(i, n)
  BY <1>2, <1>9, IdleHasNothing DEF D!Rivals, D!Active, D!Idle
<1>20. D!KeysAreKept'
  <2>1. \A o \in Operators : \A n \in execution[o].staged :
           /\ \A m \in execution[o].staged : D!Same(n, m) => n = m
           /\ \A z \in Operators \ {o} : \A m \in execution[z].staged : ~D!Same(n, m)
           /\ \A r \in row : ~D!Same(n, r)
    BY DEF D!DispatchInv, D!KeysAreKept
  <2>2. ASSUME NEW o \in Operators, NEW n \in execution'[o].staged
        PROVE  /\ \A m \in execution'[o].staged : D!Same(n, m) => n = m
               /\ \A z \in Operators \ {o} : \A m \in execution'[z].staged : ~D!Same(n, m)
               /\ \A r \in row : ~D!Same(n, r)
    <3>1. CASE o # e
      <4>1. n \in execution[o].staged /\ execution'[o] = execution[o]
        BY <1>5, <2>2, <3>1
      <4>2. \A z \in Operators \ {o} : \A m \in execution'[z].staged : m \in execution[z].staged \/ m = note
        BY <1>5, <1>6
      <4>3. ~D!Same(n, note)
        BY <1>17, <1>18, <1>19, <3>1, <4>1
      <4> QED
        BY <2>1, <4>1, <4>2, <4>3
    <3>2. CASE o = e /\ n \in x.staged
      <4>1. \A m \in execution'[o].staged : m \in x.staged \/ m = note
        BY <1>5, <1>6, <3>2
      <4>2. ~D!Same(n, note)
        BY <1>11, <1>17, <1>18, <3>2
      <4>3. \A z \in Operators \ {o} : execution'[z] = execution[z]
        BY <1>5, <3>2
      <4> QED
        BY <2>1, <3>2, <4>1, <4>2, <4>3
    <3>3. CASE o = e /\ n = note
      <4>1. \A m \in execution'[o].staged : m \in x.staged \/ m = note
        BY <1>5, <1>6, <3>3
      <4>2. \A z \in Operators \ {o} : execution'[z] = execution[z]
        BY <1>5, <3>3
      <4> QED
        BY <1>2, <1>11, <1>17, <1>19, <3>3, <4>1, <4>2
    <3> QED
      BY <1>5, <1>6, <2>2, <3>1, <3>2, <3>3
  <2> QED
    BY <1>2, <2>2 DEF D!KeysAreKept, D!Same
<1>21. D!SentIsKept'
  <2>1. /\ D!About(D!Kept, i.to, i.what) = {} /\ Cardinality(Past) \in Nat /\ Cardinality(Past) <= undone
    BY <1>2, <1>9, SentBefore
  <2>2. /\ IsFiniteSet(sent)
        /\ \A m \in sent :
             LET count == Cardinality(D!About(sent, m.to, m.what))
             IN  /\ m = [to |-> m.to, what |-> m.what, n |-> m.n] /\ m.n \in 1..count
                 /\ count <= undone \/ (count = undone + 1 /\ D!About(D!Kept, m.to, m.what) # {})
    BY SentIs DEF D!DispatchInv
  <2>3. IsFiniteSet(sent')
    BY <1>2, <2>2, FS_AddElement
  <2>4. Past \subseteq sent /\ IsFiniteSet(Past)
    BY <2>2, FS_Subset DEF D!About
  <2>5. message \notin Past
    <3>1. SUFFICES ASSUME message \in Past PROVE FALSE
      OBVIOUS
    <3>2. message \in sent /\ message.n \in 1..Cardinality(D!About(sent, message.to, message.what))
      BY <2>2, <2>4, <3>1
    <3> QED
      BY <1>8, <2>1, <3>2
  <2>6. D!About(sent, i.to, i.what)' = Past \cup {message}
    BY <1>2, <1>8 DEF D!About
  <2> HIDE DEF Past
  <2>7. Cardinality(D!About(sent, i.to, i.what)') = Cardinality(Past) + 1
    BY <2>4, <2>5, <2>6, FS_AddElement
  <2>8. note \in D!Kept'
    BY <1>5, <1>6 DEF D!Kept
  <2>9. D!Kept \subseteq D!Kept'
    <3>1. \A o \in Operators : execution[o].staged \subseteq execution'[o].staged
      BY <1>5, <1>6
    <3> QED
      BY <1>2, <3>1 DEF D!Kept
  <2>10. /\ D!About(D!Kept, i.to, i.what)' # {}
         /\ \A m \in sent : D!About(D!Kept, m.to, m.what) # {} => D!About(D!Kept, m.to, m.what)' # {}
    BY <1>7, <2>8, <2>9 DEF D!About
  <2>11. ASSUME NEW m \in sent'
         PROVE  /\ m = [to |-> m.to, what |-> m.what, n |-> m.n]
                /\ m.n \in 1..Cardinality(D!About(sent, m.to, m.what)')
                /\ \/ Cardinality(D!About(sent, m.to, m.what)') <= undone'
                   \/ /\ Cardinality(D!About(sent, m.to, m.what)') = undone' + 1
                      /\ D!About(D!Kept, m.to, m.what)' # {}
    <3>1. CASE m = message
      BY <1>2, <1>8, <1>10, <2>1, <2>7, <2>10, <3>1
    <3>2. CASE m \in sent /\ m.to = i.to /\ m.what = i.what
      <4>1. m = [to |-> m.to, what |-> m.what, n |-> m.n] /\ m.n \in 1..Cardinality(Past)
        BY <2>2, <3>2 DEF Past
      <4> QED
        BY <1>2, <1>10, <2>1, <2>7, <2>10, <3>2, <4>1
    <3>3. CASE m \in sent /\ ~(m.to = i.to /\ m.what = i.what)
      <4>1. D!About(sent, m.to, m.what)' = D!About(sent, m.to, m.what)
        BY <1>2, <1>8, <3>3 DEF D!About
      <4> QED
        BY <1>2, <2>2, <2>10, <3>3, <4>1
    <3> QED
      BY <1>2, <2>11, <3>1, <3>2, <3>3
  <2> QED
    BY <2>3, <2>11, Zenon DEF D!SentIsKept, D!IsFiniteSet, IsFiniteSet, D!Cardinality, Cardinality
<1>22. \A o \in Operators \ {e} : \A j : D!TakenUp(o, j)' = D!TakenUp(o, j)
  BY <1>5 DEF D!TakenUp, D!About
<1>23. \A j : D!TakenUp(e, j) => D!TakenUp(e, j)'
  <2> SUFFICES ASSUME NEW j, D!TakenUp(e, j) PROVE D!TakenUp(e, j)'
    OBVIOUS
  <2>1. j \in x.todo \/ j = i \/ D!About(x.staged, j.to, j.what) # {}
    BY <1>11 DEF D!TakenUp
  <2> QED
    BY <1>5, <1>6, <1>7, <2>1 DEF D!TakenUp, D!About
<1>24. execution'[e] # D!Idle /\ e \in D!Active
  BY <1>5, <1>6, <1>9, IdleHasNothing DEF D!Active, D!Idle
<1>25. D!Active' = D!Active
  BY <1>5, <1>24 DEF D!Active, D!Idle
<1>26. D!SerialIsTold'
  <2> SUFFICES ASSUME limit = 1, ~failed
               PROVE  /\ \A o, z \in D!Active' : o = z
                      /\ \A o \in Operators : \A j \in execution'[o].next : \A r \in row' : ~D!Same(j, r)
                      /\ \A j \in due' : D!Told(j)' \/ \E o \in Operators : D!TakenUp(o, j)'
    BY <1>2 DEF D!SerialIsTold, D!Same
  <2>1. /\ \A o, z \in D!Active : o = z
        /\ \A o \in Operators : \A j \in execution[o].next : \A r \in row : ~D!Same(j, r)
        /\ \A j \in due : D!Told(j) \/ \E o \in Operators : D!TakenUp(o, j)
    BY DEF D!DispatchInv, D!SerialIsTold
  <2> QED
    BY <1>2, <1>5, <1>6, <1>13, <1>22, <1>23, <1>25, <2>1
<1>27. D!SteadyIsTold'
  <2> SUFFICES ASSUME edits = 0, ~failed
               PROVE  /\ \A j \in due' : D!Told(j)' \/ \E o \in D!Active' : j \in D!Due(execution'[o].at)
                      /\ \A r \in row' : \A j \in D!Due(r.at) : D!Told(j)'
                      /\ \A o \in D!Active' : \A j \in D!Due(execution'[o].at) : D!Told(j)' \/ D!TakenUp(o, j)'
    BY <1>2, <1>13 DEF D!SteadyIsTold
  <2>1. /\ \A j \in due : D!Told(j) \/ \E o \in D!Active : j \in D!Due(execution[o].at)
        /\ \A r \in row : \A j \in D!Due(r.at) : D!Told(j)
        /\ \A o \in D!Active : \A j \in D!Due(execution[o].at) : D!Told(j) \/ D!TakenUp(o, j)
    BY DEF D!DispatchInv, D!SteadyIsTold
  <2>2. \A o \in D!Active : o \in Operators /\ execution'[o].at = execution[o].at
    BY <1>5, <1>6 DEF D!Active
  <2> QED
    BY <1>2, <1>13, <1>22, <1>23, <1>25, <2>1, <2>2
<1> QED
  BY <1>16, <1>20, <1>21, <1>26, <1>27 DEF D!DispatchInv

-----------------------------------------------------------------------------
(* Reminders: the theorem *)

\* Every step.
LEMMA DispatchStep ==
  ASSUME D!DispatchInv, [D!DispatchNext]_<<limit, D!dispatch>>
  PROVE  D!DispatchInv'
<1>1. CASE D!Tick
  BY <1>1, DispatchTick
<1>2. CASE D!ChangeDue
  BY <1>2, DispatchChange
<1>3. ASSUME NEW e \in Operators, \/ D!Start(e) \/ D!Conflict(e) \/ D!Fail(e) \/ D!Commit(e)
                                  \/ \E i \in execution[e].todo : D!CheckKey(e, i)
                                  \/ \E i \in execution[e].next : D!EnqueueSync(e, i)
      PROVE  D!DispatchInv'
  BY <1>3, StartStep, ConflictStep, FailStep, DispatchCommit, CheckKeyStep, EnqueueSyncStep
<1>4. CASE UNCHANGED <<limit, D!dispatch>>
  <2>1. UNCHANGED <<limit, reminder, clock, lessons, last, group, settled, row, execution, sent, due, undone, failed, edits>>
    BY <1>4 DEF D!dispatch
  <2>2. clock \in 0..Nights * Slots - 1 /\ clock \in Nat
    BY DEF D!DispatchInv, D!DispatchIsSound, D!DispatchTypeOK
  <2>3. \A e \in Operators : D!ExecutionIsSound(e)'
    BY <2>1, <2>2, SoundStays DEF D!DispatchInv, D!DispatchIsSound
  <2>4. D!DispatchIsSound'
    BY <2>1, <2>2, <2>3, RestStays DEF D!DispatchInv, D!DispatchIsSound, D!DispatchTypeOK
  <2>5. D!KeysAreKept' /\ D!Kept' = D!Kept
    BY <2>1, KeysStay DEF D!DispatchInv
  <2>6. D!SentIsKept'
    BY <2>1, <2>5, SentStays DEF D!DispatchInv
  <2>7. D!SerialIsTold'
    BY <2>1 DEF D!DispatchInv, D!SerialIsTold, D!Active, D!Told, D!About, D!TakenUp, D!Same
  <2>8. D!SteadyIsTold'
    <3>1. \A t : D!Due(t)' = D!Due(t)
      BY <2>1, DueStays
    <3> QED
      BY <2>1, <3>1 DEF D!DispatchInv, D!SteadyIsTold, D!Active, D!Told, D!About, D!TakenUp
  <2> QED
    BY <2>4, <2>5, <2>6, <2>7, <2>8 DEF D!DispatchInv
<1> QED
  BY <1>1, <1>2, <1>3, <1>4 DEF D!DispatchNext

\* What the invariant says of what is told, and how often.
LEMMA DispatchTells == D!DispatchInv => D!DispatchTypeOK /\ D!RemindersAgree
<1> SUFFICES ASSUME D!DispatchInv PROVE D!DispatchTypeOK /\ D!RemindersAgree
  OBVIOUS
<1>1. D!DispatchTypeOK /\ undone \in Nat
  BY DEF D!DispatchInv, D!DispatchIsSound, D!DispatchTypeOK
<1>2. D!ToldOnce
  <2> SUFFICES ASSUME NEW m \in sent PROVE m.n <= 1 + undone
    BY DEF D!ToldOnce
  <2>1. /\ m.n \in 1..Cardinality(D!About(sent, m.to, m.what))
        /\ \/ Cardinality(D!About(sent, m.to, m.what)) <= undone
           \/ Cardinality(D!About(sent, m.to, m.what)) = undone + 1
    BY SentIs DEF D!DispatchInv
  <2>2. IsFiniteSet(sent) /\ D!About(sent, m.to, m.what) \subseteq sent
    BY SentIs DEF D!DispatchInv, D!About
  <2>3. Cardinality(D!About(sent, m.to, m.what)) \in Nat
    BY <2>2, FS_Subset, FS_CardinalityType
  <2> QED
    BY <1>1, <2>1, <2>3
<1>3. D!DueIsTold
  <2> SUFFICES ASSUME D!Active = {}, ~failed, limit = 1 \/ edits = 0, NEW i \in due
               PROVE  \E n \in row : n.to = i.to /\ n.what = i.what
    BY DEF D!DueIsTold
  <2>1. \A e \in Operators : ~D!TakenUp(e, i)
    BY IdleHasNothing DEF D!Active, D!Idle, D!TakenUp, D!About
  <2>2. D!Told(i)
    BY <2>1 DEF D!DispatchInv, D!SerialIsTold, D!SteadyIsTold
  <2> QED
    BY <2>2 DEF D!Told, D!About
<1> QED
  BY <1>1, <1>2, <1>3 DEF D!RemindersAgree

\* However late, often and overlapping the executions of beat are: each reminder is
\* sent once for each that was rolled back and once more, and what executions one after
\* the other, or while nothing changes, found due is told when they have ended.
THEOREM RemindersStayTold == D!DispatchSpec => []RemindersAgree
<1>1. D!DispatchInit => D!DispatchInv
  BY DispatchStart
<1>2. D!DispatchInv /\ [D!DispatchNext]_<<limit, D!dispatch>> => D!DispatchInv'
  BY DispatchStep
<1>3. D!DispatchInv => RemindersAgree
  BY DispatchTells DEF RemindersAgree
<1> QED
  BY <1>1, <1>2, <1>3, PTL DEF D!DispatchSpec

=============================================================================
