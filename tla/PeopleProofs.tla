---------------------------- MODULE PeopleProofs ------------------------------
(***************************************************************************)
(* Proofs about invitations, students and groups, the staff and Telegram   *)
(* links, each by itself and for any values of its constants: an invitation *)
(* serves one, an approval is written whole, the books outlive the groups, *)
(* and a token is good for one binding until it is revoked.                *)
(***************************************************************************)
EXTENDS MCPeople, Sums, FiniteSetTheorems, TLAPS

-----------------------------------------------------------------------------
(* Invitations: what does not change them *)

\* A step that leaves the codes, their use and what Redis has of them alone keeps
\* the invariant, whatever becomes of the memories of the processes.
LEMMA InvitesStay ==
  ASSUME I!InvitesInv, I!StoreTypeOK', faulty' = faulty \/ faulty' = TRUE, redis' = redis,
         memory' = [p \in Processes |-> memory'[p]], \A p \in Processes : memory'[p] \subseteq memory[p],
         UNCHANGED <<limit, account, parent, visit, issued, gone, used, shown>>
  PROVE  I!InvitesInv'
<1>1. I!InvitesTypeOK'
  BY DEF I!InvitesInv, I!InvitesTypeOK
<1>2. I!VisitsAreSound'
  BY DEF I!InvitesInv, I!VisitsAreSound
<1>3. I!GoodIsKept'
  BY DEF I!InvitesInv, I!GoodIsKept, I!InvitesTypeOK, I!StoreTypeOK
<1>4. I!OneVisit'
  BY DEF I!InvitesInv, I!OneVisit, I!Underway
<1>5. I!UsedIsDeleted'
  BY DEF I!InvitesInv, I!UsedIsDeleted, I!InvitesTypeOK, I!StoreTypeOK
<1> QED
  BY <1>1, <1>2, <1>3, <1>4, <1>5 DEF I!InvitesInv

\* The page of an invitation only looks.
LEMMA InfoStep ==
  ASSUME I!InvitesInv, NEW p \in Processes, I!GetInviteInfo(p)
  PROVE  I!InvitesInv'
<1>1. /\ UNCHANGED <<up, redis, memory, faulty>>
      /\ UNCHANGED <<limit, account, parent, visit, issued, gone, used, shown>>
  BY DEF I!GetInviteInfo, I!Get, I!OnlyVisits
<1>2. I!StoreTypeOK'
  BY DEF I!InvitesInv, I!InvitesTypeOK, I!StoreTypeOK, I!GetInviteInfo, I!Get, I!Connect
<1>3. memory' = [q \in Processes |-> memory'[q]]
  BY <1>1 DEF I!InvitesInv, I!VisitsAreSound
<1> QED
  BY <1>1, <1>2, <1>3, InvitesStay

\* Redis stops answering or answers again.
LEMMA InvitesOutage ==
  ASSUME I!InvitesInv, I!RedisOutage
  PROVE  I!InvitesInv'
<1>1. /\ faulty' = TRUE /\ UNCHANGED <<redis, memory, client>> /\ up' = ~up
      /\ UNCHANGED <<limit, account, parent, visit, issued, gone, used, shown>>
  BY DEF I!RedisOutage, I!Outage, I!OnlyVisits
<1>2. I!StoreTypeOK'
  BY <1>1 DEF I!InvitesInv, I!InvitesTypeOK, I!StoreTypeOK
<1>3. memory' = [q \in Processes |-> memory'[q]]
  BY <1>1 DEF I!InvitesInv, I!VisitsAreSound
<1> QED
  BY <1>1, <1>2, <1>3, InvitesStay

-----------------------------------------------------------------------------
(* Invitations: a request moves *)

\* A request that begins is alone when requests are served one at a time.
LEMMA VisitBeginsAlone ==
  ASSUME limit = 1, I!Cardinality(I!Underway) < limit
  PROVE  \A o \in Visits : visit[o].at = "idle"
<1>1. Cardinality(I!Underway) < limit
  BY Zenon DEF I!Cardinality, Cardinality
<1>2. IsFiniteSet(I!Underway)
  BY PeopleAssumption, FS_Subset DEF I!Underway
<1>3. Cardinality(I!Underway) = 0
  BY <1>1, <1>2, FS_CardinalityType
<1>4. I!Underway = {}
  BY <1>2, <1>3, FS_EmptySet
<1> QED
  BY <1>4 DEF I!Underway

\* The others are idle while one request is under way, when they are served one
\* at a time.
LEMMA OtherVisitsIdle ==
  ASSUME I!InvitesInv, limit = 1, NEW v \in Visits, visit[v].at # "idle"
  PROVE  \A o \in Visits : o # v => visit[o].at = "idle"
BY DEF I!InvitesInv, I!OneVisit, I!Underway

\* A request that was not about to delete its code goes where it may go.
LEMMA VisitMoves ==
  ASSUME I!InvitesInv, NEW v \in Visits, NEW next \in I!Visit, visit' = [visit EXCEPT ![v] = next],
         visit[v].at # "delete",
         I!StoreTypeOK', UNCHANGED <<redis, memory, faulty>>,
         UNCHANGED <<limit, account, parent, issued, gone, used>>,
         shown \subseteq shown', shown' \subseteq issued,
         next.at # "idle" => next.code \in issued /\ next.who \in People /\ next.process \in Processes,
         next.at = "delete" => next.code \in shown',
         limit = 1 /\ next.at # "idle" => \A o \in Visits : o # v => visit[o].at = "idle",
         limit = 1 /\ ~faulty /\ next.at = "use" => used[next.code] = {}
  PROVE  I!InvitesInv'
<1>0. \A o \in Visits : visit'[o] = IF o = v THEN next ELSE visit[o]
  BY DEF I!InvitesInv, I!VisitsAreSound
<1>1. I!InvitesTypeOK'
  BY DEF I!InvitesInv, I!InvitesTypeOK
<1>2. I!VisitsAreSound'
  BY <1>0 DEF I!InvitesInv, I!VisitsAreSound
<1>3. I!GoodIsKept'
  BY DEF I!InvitesInv, I!GoodIsKept
<1>4. I!OneVisit'
  BY <1>0 DEF I!InvitesInv, I!OneVisit, I!Underway
<1>5. I!UsedIsDeleted'
  BY <1>0 DEF I!InvitesInv, I!UsedIsDeleted
<1> QED
  BY <1>1, <1>2, <1>3, <1>4, <1>5 DEF I!InvitesInv

\* A request finds its code in Redis: nobody has used it.
LEMMA ReadCodeStep ==
  ASSUME I!InvitesInv, NEW v \in Visits, NEW p \in Processes, NEW i \in I!Codes, NEW t \in People,
         I!ReadCode(v, p, i, t)
  PROVE  I!InvitesInv'
<1> DEFINE next == [at |-> "use", code |-> i, who |-> t, process |-> p]
<1>1. /\ visit[v].at = "idle" /\ I!Cardinality(I!Underway) < limit /\ I!Found(p, i) /\ I!Get(p)
      /\ visit' = [visit EXCEPT ![v] = next]
      /\ UNCHANGED <<limit, account, parent, issued, gone, used, shown>>
  BY DEF I!ReadCode, I!OnlyVisits
<1>2. UNCHANGED <<redis, memory, faulty>> /\ I!StoreTypeOK'
  BY <1>1 DEF I!InvitesInv, I!InvitesTypeOK, I!StoreTypeOK, I!Get, I!Connect
<1>3. next \in I!Visit
  BY DEF I!Visit
<1>4. i \in issued
  BY <1>1 DEF I!Found, I!InvitesInv, I!VisitsAreSound
<1>5. limit = 1 => \A o \in Visits : visit[o].at = "idle"
  BY <1>1, VisitBeginsAlone
<1>6. ~faulty => i \in redis
  BY <1>1 DEF I!Found, I!InvitesInv, I!InvitesTypeOK, I!StoreTypeOK
<1>7. limit = 1 /\ ~faulty => used[i] = {}
  BY <1>5, <1>6 DEF I!InvitesInv, I!UsedIsDeleted
<1>8. shown' \subseteq issued
  BY <1>1 DEF I!InvitesInv, I!InvitesTypeOK
<1> QED
  BY <1>1, <1>2, <1>3, <1>4, <1>5, <1>7, <1>8, VisitMoves

\* A request that breaks off does nothing.
LEMMA GiveUpStep ==
  ASSUME I!InvitesInv, NEW v \in Visits, I!GiveUp(v)
  PROVE  I!InvitesInv'
<1>1. /\ visit[v].at = "use" /\ visit' = [visit EXCEPT ![v] = I!NoVisit]
      /\ UNCHANGED <<up, redis, memory, client, faulty>>
      /\ UNCHANGED <<limit, account, parent, issued, gone, used, shown>>
  BY DEF I!GiveUp, I!Leave, I!OnlyVisits, I!store
<1>2. I!NoVisit \in I!Visit /\ I!NoVisit.at = "idle"
  BY DEF I!NoVisit, I!Visit
<1>3. I!StoreTypeOK' /\ shown' \subseteq issued
  BY <1>1 DEF I!InvitesInv, I!InvitesTypeOK, I!StoreTypeOK
<1> QED
  BY <1>1, <1>2, <1>3, VisitMoves

\* Somebody who is registered wastes the code.
LEMMA RegisterAgainStep ==
  ASSUME I!InvitesInv, NEW v \in Visits, I!RegisterAgain(v)
  PROVE  I!InvitesInv'
<1> DEFINE next == [visit[v] EXCEPT !.at = "delete"]
<1>1. /\ visit[v].at = "use" /\ visit' = [visit EXCEPT ![v].at = "delete"]
      /\ shown' = shown \cup {visit[v].code}
      /\ UNCHANGED <<up, redis, memory, client, faulty>>
      /\ UNCHANGED <<limit, account, parent, issued, gone, used>>
  BY DEF I!RegisterAgain, I!Goto, I!store
<1>2. /\ visit[v] \in I!Visit /\ visit \in [Visits -> I!Visit]
      /\ visit[v].code \in issued /\ visit[v].who \in People /\ visit[v].process \in Processes
  BY <1>1 DEF I!InvitesInv, I!VisitsAreSound
<1>3. /\ next \in I!Visit /\ next.at = "delete" /\ next.code = visit[v].code
      /\ next.who = visit[v].who /\ next.process = visit[v].process
  BY <1>2 DEF I!Visit
<1>4. visit' = [visit EXCEPT ![v] = next]
  BY <1>1, <1>2
<1>5. I!StoreTypeOK' /\ shown' \subseteq issued
  BY <1>1, <1>2 DEF I!InvitesInv, I!InvitesTypeOK, I!StoreTypeOK
<1>6. limit = 1 => \A o \in Visits : o # v => visit[o].at = "idle"
  BY <1>1, OtherVisitsIdle
<1> HIDE DEF next
<1> QED
  BY <1>1, <1>2, <1>3, <1>4, <1>5, <1>6, VisitMoves

\* A code is used: when requests are served one at a time and Redis answers, by
\* its first person.
LEMMA UseStep ==
  ASSUME I!InvitesInv, NEW v \in Visits, visit[v].at = "use", I!Used(v), I!Goto(v, "delete"),
         I!InvitesTypeOK', UNCHANGED <<up, redis, memory, client, faulty>>,
         UNCHANGED <<limit, issued, gone, shown>>
  PROVE  I!InvitesInv'
<1> DEFINE i == visit[v].code
           next == [visit[v] EXCEPT !.at = "delete"]
<1>1. /\ visit[v] \in I!Visit /\ visit \in [Visits -> I!Visit] /\ used \in [I!Codes -> SUBSET People]
      /\ i \in issued /\ i \in I!Codes /\ visit[v].who \in People /\ visit[v].process \in Processes
  BY DEF I!InvitesInv, I!VisitsAreSound
<1>2. /\ next \in I!Visit /\ next.at = "delete" /\ next.code = i
      /\ next.who = visit[v].who /\ next.process = visit[v].process
  BY <1>1 DEF I!Visit
<1>3. visit' = [visit EXCEPT ![v] = next]
  BY <1>1 DEF I!Goto
<1>4. \A o \in Visits : visit'[o] = IF o = v THEN next ELSE visit[o]
  BY <1>1, <1>3
<1>5. used' = [used EXCEPT ![i] = used[i] \cup {visit[v].who}]
  BY DEF I!Used
<1>6. /\ used' \in [I!Codes -> SUBSET People]
      /\ \A j \in I!Codes : used'[j] = IF j = i THEN used[i] \cup {visit[v].who} ELSE used[j]
  BY <1>1, <1>5
<1> HIDE DEF next, i
<1>7. I!VisitsAreSound'
  <2>1. visit' \in [Visits -> I!Visit]
    BY <1>1, <1>2, <1>3
  <2>2. used'[i] # {}
    BY <1>1, <1>6
  <2>3. ASSUME NEW o \in Visits
        PROVE  /\ visit'[o].at # "idle" => /\ visit'[o].code \in issued /\ visit'[o].who \in People
                                           /\ visit'[o].process \in Processes
               /\ visit'[o].at = "delete" => used'[visit'[o].code] # {} \/ visit'[o].code \in shown
    <3>1. CASE o = v
      BY <1>1, <1>2, <1>4, <2>2, <3>1
    <3>2. CASE o # v
      BY <1>1, <1>4, <1>6, <2>2, <3>2 DEF I!InvitesInv, I!VisitsAreSound
    <3> QED
      BY <3>1, <3>2
  <2>4. \A j \in I!Codes : used'[j] # {} => j \in issued
    BY <1>1, <1>6 DEF I!InvitesInv, I!VisitsAreSound
  <2> QED
    BY <1>6, <2>1, <2>3, <2>4 DEF I!InvitesInv, I!VisitsAreSound
<1>8. I!GoodIsKept'
  BY <1>6 DEF I!InvitesInv, I!GoodIsKept, I!VisitsAreSound
<1>9. I!OneVisit'
  BY <1>4, OtherVisitsIdle DEF I!InvitesInv, I!OneVisit, I!Underway
<1>10. I!UsedIsDeleted'
  <2> SUFFICES ASSUME limit = 1, ~faulty
               PROVE  I!UsedIsDeleted'
    BY DEF I!UsedIsDeleted
  <2>1. \A o \in Visits : o # v => visit'[o].at = "idle"
    BY <1>4, OtherVisitsIdle
  <2>2. used[i] = {} /\ used'[i] = {visit[v].who}
    BY <1>1, <1>6 DEF I!InvitesInv, I!UsedIsDeleted, i
  <2>3. \A o \in Visits : visit'[o].at # "use"
    BY <1>2, <1>4, <2>1
  <2>4. ASSUME NEW j \in I!Codes, used'[j] # {}
        PROVE  /\ j \notin redis \/ \E o \in Visits : visit'[o].at = "delete" /\ visit'[o].code = j
               /\ \E t \in People : used'[j] = {t}
    <3>1. CASE j = i
      BY <1>1, <1>2, <1>4, <2>2, <3>1
    <3>2. CASE j # i
      <4>1. used[j] # {} /\ used'[j] = used[j]
        BY <1>6, <2>4, <3>2
      <4>2. \A o \in Visits : visit[o].at # "delete"
        BY OtherVisitsIdle
      <4> QED
        BY <4>1, <4>2 DEF I!InvitesInv, I!UsedIsDeleted
    <3> QED
      BY <3>1, <3>2
  <2> QED
    BY <2>3, <2>4 DEF I!UsedIsDeleted
<1> QED
  BY <1>7, <1>8, <1>9, <1>10 DEF I!InvitesInv

\* A registration, and the binding of a user or of a parent, use the code.
LEMMA UsesStep ==
  ASSUME I!InvitesInv, NEW v \in Visits, I!Register(v) \/ I!LinkUser(v) \/ I!LinkParent(v)
  PROVE  I!InvitesInv'
<1>1. /\ visit[v].at = "use" /\ I!Used(v) /\ I!Goto(v, "delete")
      /\ UNCHANGED <<up, redis, memory, client, faulty>>
      /\ UNCHANGED <<limit, issued, gone, shown>>
  BY DEF I!Register, I!LinkUser, I!LinkParent, I!store
<1>2. visit[v].who \in People
  BY <1>1 DEF I!InvitesInv, I!VisitsAreSound
<1>3. I!StoreTypeOK' /\ gone' \subseteq issued' /\ shown' \subseteq issued'
  BY <1>1 DEF I!InvitesInv, I!InvitesTypeOK, I!StoreTypeOK
<1>4. /\ account' \in [People -> {None} \cup RoleCodes \cup LinkCodes]
      /\ parent' \in [ParentCodes -> {None} \cup People]
  <2>1. CASE I!Register(v)
    BY <1>2, <2>1 DEF I!Register, I!InvitesInv, I!InvitesTypeOK
  <2>2. CASE I!LinkUser(v)
    BY <1>2, <2>2 DEF I!LinkUser, I!InvitesInv, I!InvitesTypeOK
  <2>3. CASE I!LinkParent(v)
    BY <1>2, <2>3 DEF I!LinkParent, I!InvitesInv, I!InvitesTypeOK
  <2> QED
    BY <2>1, <2>2, <2>3
<1>5. I!InvitesTypeOK'
  BY <1>3, <1>4 DEF I!InvitesTypeOK
<1> QED
  BY <1>1, <1>5, UseStep

\* The code is deleted where the process looks for it: in Redis while it answers.
LEMMA DeleteStep ==
  ASSUME I!InvitesInv, NEW v \in Visits, I!DeleteCode(v)
  PROVE  I!InvitesInv'
<1> DEFINE p == visit[v].process
           i == visit[v].code
<1>1. /\ visit[v].at = "delete" /\ I!Remove(p, i) /\ visit' = [visit EXCEPT ![v] = I!NoVisit]
      /\ UNCHANGED <<limit, account, parent, issued, gone, used, shown>>
  BY DEF I!DeleteCode, I!Leave, I!OnlyVisits
<1>2. /\ visit \in [Visits -> I!Visit] /\ i \in issued /\ i \in I!Codes /\ p \in Processes
      /\ used[i] # {} \/ i \in shown
  BY <1>1 DEF I!InvitesInv, I!VisitsAreSound
<1> HIDE DEF p, i
<1>3. I!NoVisit \in I!Visit /\ I!NoVisit.at = "idle"
  BY DEF I!NoVisit, I!Visit
<1>4. \A o \in Visits : visit'[o] = IF o = v THEN I!NoVisit ELSE visit[o]
  BY <1>1, <1>2
<1>5. /\ faulty' = faulty /\ redis' \subseteq redis /\ redis \ {i} \subseteq redis'
      /\ ~faulty => redis' = redis \ {i}
      /\ memory' = [memory EXCEPT ![p] = memory[p] \ {i}]
  BY <1>1, <1>2 DEF I!Remove, I!Reaches, I!InvitesInv, I!InvitesTypeOK, I!StoreTypeOK
<1>6. /\ memory' = [q \in Processes |-> memory'[q]]
      /\ \A q \in Processes : memory'[q] \subseteq memory[q]
  BY <1>2, <1>5 DEF I!InvitesInv, I!VisitsAreSound
<1>7. I!StoreTypeOK'
  BY <1>1, <1>2, <1>5, <1>6 DEF I!Remove, I!Connect, I!InvitesInv, I!InvitesTypeOK, I!StoreTypeOK
<1>8. I!InvitesTypeOK'
  BY <1>1, <1>7 DEF I!InvitesInv, I!InvitesTypeOK
<1>9. I!VisitsAreSound'
  <2>1. visit' \in [Visits -> I!Visit]
    BY <1>1, <1>2, <1>3
  <2>2. redis' \subseteq issued /\ \A q \in Processes : memory'[q] \subseteq issued
    BY <1>5, <1>6 DEF I!InvitesInv, I!VisitsAreSound
  <2> QED
    BY <1>1, <1>3, <1>4, <1>6, <2>1, <2>2 DEF I!InvitesInv, I!VisitsAreSound
<1>10. I!GoodIsKept'
  BY <1>1, <1>2, <1>5 DEF I!InvitesInv, I!GoodIsKept
<1>11. I!OneVisit'
  BY <1>1, <1>3, <1>4 DEF I!InvitesInv, I!OneVisit, I!Underway
<1>12. I!UsedIsDeleted'
  <2> SUFFICES ASSUME limit = 1, ~faulty
               PROVE  I!UsedIsDeleted'
    BY <1>1, <1>5 DEF I!UsedIsDeleted
  <2>1. \A o \in Visits : visit'[o].at = "idle"
    BY <1>1, <1>3, <1>4, OtherVisitsIdle
  <2>2. ASSUME NEW j \in I!Codes, used[j] # {}
        PROVE  j \notin redis' /\ \E t \in People : used[j] = {t}
    <3>1. j \notin redis \/ \E o \in Visits : visit[o].at = "delete" /\ visit[o].code = j
      BY <2>2 DEF I!InvitesInv, I!UsedIsDeleted
    <3>2. j \notin redis \/ j = i
      BY <1>1, <3>1, OtherVisitsIdle DEF i
    <3> QED
      BY <1>5, <2>2, <3>2 DEF I!InvitesInv, I!UsedIsDeleted
  <2> QED
    BY <1>1, <2>1, <2>2 DEF I!UsedIsDeleted
<1> QED
  BY <1>8, <1>9, <1>10, <1>11, <1>12 DEF I!InvitesInv

-----------------------------------------------------------------------------
(* Invitations: codes come and go, and processes crash *)

\* A new code is in Redis, or in the memory of its process.
LEMMA GenerateStep ==
  ASSUME I!InvitesInv, NEW p \in Processes, NEW i \in I!Codes, I!Generate(p, i)
  PROVE  I!InvitesInv'
<1>1. /\ i \notin issued /\ I!Put(p, i) /\ issued' = issued \cup {i}
      /\ UNCHANGED <<limit, account, parent, visit, gone, used, shown>>
  BY DEF I!Generate
<1>2. /\ faulty' = faulty /\ redis \subseteq redis' /\ redis' \subseteq redis \cup {i}
      /\ ~faulty => redis' = redis \cup {i}
      /\ memory' = memory \/ memory' = [memory EXCEPT ![p] = memory[p] \cup {i}]
  BY <1>1 DEF I!Put, I!Reaches, I!InvitesInv, I!InvitesTypeOK, I!StoreTypeOK
<1>3. /\ memory' = [q \in Processes |-> memory'[q]]
      /\ \A q \in Processes : memory'[q] \subseteq memory[q] \cup {i}
  BY <1>2 DEF I!InvitesInv, I!VisitsAreSound
<1>4. I!StoreTypeOK'
  BY <1>1 DEF I!Put, I!Reaches, I!Connect, I!InvitesInv, I!InvitesTypeOK, I!StoreTypeOK
<1>5. I!InvitesTypeOK'
  BY <1>1, <1>4 DEF I!InvitesInv, I!InvitesTypeOK
<1>6. used[i] = {}
  BY <1>1 DEF I!InvitesInv, I!VisitsAreSound
<1>7. I!VisitsAreSound'
  BY <1>1, <1>2, <1>3 DEF I!InvitesInv, I!VisitsAreSound
<1>8. I!GoodIsKept'
  BY <1>1, <1>2 DEF I!InvitesInv, I!GoodIsKept
<1>9. I!OneVisit'
  BY <1>1 DEF I!InvitesInv, I!OneVisit, I!Underway
<1>10. I!UsedIsDeleted'
  BY <1>1, <1>2, <1>6 DEF I!InvitesInv, I!UsedIsDeleted
<1> QED
  BY <1>5, <1>7, <1>8, <1>9, <1>10 DEF I!InvitesInv

\* A code expires everywhere.
LEMMA RunOutStep ==
  ASSUME I!InvitesInv, NEW i \in I!Codes, I!RunOut(i)
  PROVE  I!InvitesInv'
<1>1. /\ i \in issued /\ gone' = gone \cup {i} /\ redis' = redis \ {i}
      /\ memory' = [p \in Processes |-> memory[p] \ {i}]
      /\ UNCHANGED <<up, client, faulty>>
      /\ UNCHANGED <<limit, account, parent, visit, issued, used, shown>>
  BY DEF I!RunOut, I!Expire
<1>2. I!InvitesTypeOK'
  BY <1>1 DEF I!InvitesInv, I!InvitesTypeOK, I!StoreTypeOK
<1>3. I!VisitsAreSound'
  BY <1>1 DEF I!InvitesInv, I!VisitsAreSound
<1>4. I!GoodIsKept'
  BY <1>1 DEF I!InvitesInv, I!GoodIsKept
<1>5. I!OneVisit'
  BY <1>1 DEF I!InvitesInv, I!OneVisit, I!Underway
<1>6. I!UsedIsDeleted'
  BY <1>1 DEF I!InvitesInv, I!UsedIsDeleted
<1> QED
  BY <1>2, <1>3, <1>4, <1>5, <1>6 DEF I!InvitesInv

\* A process crashes with its requests and its memory.
LEMMA CrashStep ==
  ASSUME I!InvitesInv, NEW p \in Processes, I!Crash(p)
  PROVE  I!InvitesInv'
<1>1. /\ memory' = [memory EXCEPT ![p] = {}] /\ client' = [client EXCEPT ![p] = "new"]
      /\ faulty' = TRUE /\ UNCHANGED <<up, redis>>
      /\ visit' = [v \in Visits |-> IF visit[v].process = p THEN I!NoVisit ELSE visit[v]]
      /\ UNCHANGED <<limit, account, parent, issued, gone, used, shown>>
  BY DEF I!Crash, I!Restart, I!OnlyVisits
<1>2. I!NoVisit \in I!Visit /\ I!NoVisit.at = "idle"
  BY DEF I!NoVisit, I!Visit
<1>3. \A v \in Visits : visit'[v] = I!NoVisit \/ visit'[v] = visit[v]
  BY <1>1
<1>4. I!InvitesTypeOK'
  BY <1>1 DEF I!InvitesInv, I!InvitesTypeOK, I!StoreTypeOK
<1>5. I!VisitsAreSound'
  <2>1. visit' \in [Visits -> I!Visit]
    BY <1>1, <1>2 DEF I!InvitesInv, I!VisitsAreSound
  <2>2. /\ memory' = [q \in Processes |-> memory'[q]]
        /\ \A q \in Processes : memory'[q] \subseteq issued
    BY <1>1 DEF I!InvitesInv, I!VisitsAreSound
  <2> QED
    BY <1>1, <1>2, <1>3, <2>1, <2>2 DEF I!InvitesInv, I!VisitsAreSound
<1>6. I!GoodIsKept' /\ I!UsedIsDeleted'
  BY <1>1 DEF I!GoodIsKept, I!UsedIsDeleted
<1>7. I!OneVisit'
  BY <1>1, <1>2, <1>3 DEF I!InvitesInv, I!OneVisit, I!Underway
<1> QED
  BY <1>4, <1>5, <1>6, <1>7 DEF I!InvitesInv

-----------------------------------------------------------------------------
(* Invitations: the theorem *)

\* The invariant holds at first.
LEMMA InvitesStart == I!InvitesInit => I!InvitesInv
<1> SUFFICES ASSUME I!InvitesInit
             PROVE  I!InvitesInv
  OBVIOUS
<1>1. \A v \in Visits : visit[v] = I!NoVisit
  BY DEF I!InvitesInit
<1>2. I!NoVisit \in I!Visit /\ I!NoVisit.at = "idle"
  BY DEF I!NoVisit, I!Visit
<1>3. I!InvitesTypeOK
  BY DEF I!InvitesInit, I!StoreInit, I!InvitesTypeOK, I!StoreTypeOK
<1>4. I!VisitsAreSound
  BY <1>1, <1>2 DEF I!InvitesInit, I!StoreInit, I!VisitsAreSound
<1>5. I!GoodIsKept
  BY DEF I!InvitesInit, I!GoodIsKept
<1>6. I!OneVisit
  BY <1>1, <1>2 DEF I!OneVisit, I!Underway
<1>7. I!UsedIsDeleted
  BY <1>1, <1>2 DEF I!InvitesInit, I!UsedIsDeleted
<1> QED
  BY <1>3, <1>4, <1>5, <1>6, <1>7 DEF I!InvitesInv

\* Every step of a request, of a process, of Redis or of time keeps it.
LEMMA InvitesStep ==
  ASSUME I!InvitesInv, I!InvitesNext
  PROVE  I!InvitesInv'
<1>1. ASSUME NEW p \in Processes, NEW i \in I!Codes,
             \/ I!GenerateInvite(p, i) \/ I!InviteStudent(p, i) \/ I!InviteTeacher(p, i)
             \/ I!InviteInspector(p, i) \/ I!GenerateParentLink(p, i)
      PROVE  I!InvitesInv'
  BY <1>1, GenerateStep DEF I!GenerateInvite, I!InviteStudent, I!InviteTeacher, I!InviteInspector,
                            I!GenerateParentLink
<1>2. ASSUME NEW p \in Processes, NEW i \in I!Codes, NEW v \in Visits, NEW t \in People,
             I!ReadCode(v, p, i, t)
      PROVE  I!InvitesInv'
  BY <1>2, ReadCodeStep
<1>3. ASSUME NEW i \in I!Codes, I!RunOut(i)
      PROVE  I!InvitesInv'
  BY <1>3, RunOutStep
<1>4. ASSUME NEW v \in Visits,
             I!Register(v) \/ I!LinkUser(v) \/ I!LinkParent(v) \/ I!ParentDeepLink(v)
      PROVE  I!InvitesInv'
  BY <1>4, UsesStep DEF I!ParentDeepLink
<1>5. ASSUME NEW v \in Visits, I!RegisterAgain(v)
      PROVE  I!InvitesInv'
  BY <1>5, RegisterAgainStep
<1>6. ASSUME NEW v \in Visits, I!DeleteCode(v)
      PROVE  I!InvitesInv'
  BY <1>6, DeleteStep
<1>7. ASSUME NEW v \in Visits, I!GiveUp(v)
      PROVE  I!InvitesInv'
  BY <1>7, GiveUpStep
<1>8. ASSUME NEW p \in Processes, I!Crash(p) \/ I!GetInviteInfo(p)
      PROVE  I!InvitesInv'
  BY <1>8, CrashStep, InfoStep
<1> QED
  BY <1>1, <1>2, <1>3, <1>4, <1>5, <1>6, <1>7, <1>8, InvitesOutage DEF I!InvitesNext

\* The invariant of invitations always holds.
LEMMA InvitesAlways == I!InvitesSpec => []I!InvitesInv
<1>1. ASSUME I!InvitesInv, UNCHANGED <<limit, I!invites>>
      PROVE  I!InvitesInv'
  <2>1. /\ UNCHANGED <<up, redis, memory, client, faulty>>
        /\ UNCHANGED <<limit, account, parent, visit, issued, gone, used, shown>>
    BY <1>1 DEF I!invites, I!store
  <2>2. I!StoreTypeOK'
    BY <1>1, <2>1 DEF I!InvitesInv, I!InvitesTypeOK, I!StoreTypeOK
  <2>3. memory' = [q \in Processes |-> memory'[q]]
    BY <1>1, <2>1 DEF I!InvitesInv, I!VisitsAreSound
  <2> QED
    BY <1>1, <2>1, <2>2, <2>3, InvitesStay
<1> QED
  BY <1>1, InvitesStart, InvitesStep, PTL DEF I!InvitesSpec

\* While Redis answers and no process crashes, a code that is not used and not too
\* old is found by every process, and with requests one at a time it serves one
\* person at most: for any codes, people, processes and requests.
THEOREM InvitesServeOne == I!InvitesSpec => []InviteServesOne
<1>1. ASSUME I!InvitesInv
      PROVE  InviteServesOne
  <2>1. ASSUME limit = 1, ~faulty, NEW i \in I!Codes
        PROVE  I!Cardinality(used[i]) <= 1
    <3>1. used[i] = {} \/ \E t : used[i] = {t}
      BY <1>1, <2>1 DEF I!InvitesInv, I!UsedIsDeleted
    <3>2. Cardinality(used[i]) <= 1
      BY <3>1, FS_EmptySet, FS_Singleton
    <3>3. I!Cardinality(used[i]) = Cardinality(used[i])
      BY Zenon DEF I!Cardinality, Cardinality
    <3> QED
      BY <3>2, <3>3
  <2>2. I!InviteIsUsedOnce
    BY <2>1 DEF I!InviteIsUsedOnce
  <2>3. I!InviteIsThere
    BY <1>1 DEF I!InviteIsThere, I!Found, I!Reaches, I!InvitesInv, I!GoodIsKept, I!InvitesTypeOK, I!StoreTypeOK
  <2> QED
    BY <1>1, <2>2, <2>3 DEF InviteServesOne, I!InviteServesOne, I!InvitesInv
<1> QED
  BY <1>1, InvitesAlways, PTL

-----------------------------------------------------------------------------
(* Students: sums and what a request has read *)

\* The sum of payments is the one that the lemmas are about.
LEMMA PaidIsSum == ASSUME NEW f, NEW X PROVE E!SumFunctionOnSet(f, X) = SumFunctionOnSet(f, X)
BY Zenon DEF E!SumFunctionOnSet, SumFunctionOnSet, E!FoldFunctionOnSet, FoldFunctionOnSet,
             E!MapThenFoldSet, MapThenFoldSet

\* Who has read something has read a student or a group.
LEMMA SeenType ==
  ASSUME E!EInv, NEW c \in Clerks
  PROVE  /\ seen[c] \in E!Seen /\ seen \in [Clerks -> E!Seen]
         /\ seen[c].student # None =>
              /\ seen[c].student \in Students /\ seen[c].row \in E!Rows
              /\ seen[c].login \in BOOLEAN /\ seen[c].member \in [Groups -> E!Marks]
         /\ seen[c].group # None => seen[c].group \in Groups /\ seen[c].status \in E!Statuses
<1>1. seen[c] \in E!Seen /\ seen \in [Clerks -> E!Seen]
  BY DEF E!EInv, E!RowsAreSound
<1> QED
  BY <1>1 DEF E!Seen, E!Nothing

\* A student who is there has a row.
LEMMA RowType ==
  ASSUME E!EInv, NEW s \in E!Enrolled
  PROVE  s \in Students /\ student[s] \in E!Rows /\ login[s] \in BOOLEAN
         /\ member[s] \in [Groups -> E!Marks]
BY DEF E!EInv, E!ETypeOK, E!RowsAreSound, E!Enrolled

\* A request that begins is alone when requests are served one at a time.
LEMMA ClerkBeginsAlone ==
  ASSUME limit = 1, NEW c \in Clerks, E!Free(c)
  PROVE  \A o \in Clerks : seen[o] = E!Nothing
<1> DEFINE Busy == {o \in Clerks : seen[o] # E!Nothing}
<1>1. E!Cardinality(Busy) < limit
  BY DEF E!Free
<1>2. E!Cardinality(Busy) = Cardinality(Busy)
  BY Zenon DEF E!Cardinality, Cardinality
<1>3. IsFiniteSet(Busy)
  BY PeopleAssumption, FS_Subset
<1>4. Cardinality(Busy) = 0
  BY <1>1, <1>2, <1>3, FS_CardinalityType
<1>5. Busy = {}
  BY <1>3, <1>4, FS_EmptySet
<1> QED
  BY <1>5

\* Payments stay as they are while no group goes.
LEMMA PaymentsKept ==
  ASSUME E!EInv, UNCHANGED <<payments, paid>>, E!Existing \subseteq E!Existing'
  PROVE  E!PaymentsStay'
BY DEF E!EInv, E!BooksOutliveGroups, E!PaymentsStay

-----------------------------------------------------------------------------
(* Students: what only reads *)

\* A request reads a student or a group, or ends without having done anything.
LEMMA SeenMoves ==
  ASSUME E!EInv, NEW c \in Clerks, NEW new \in E!Seen, seen' = [seen EXCEPT ![c] = new],
         UNCHANGED <<limit, status, student, login, member, payments>>,
         UNCHANGED <<wanted, rejected, decided, patched, linked, paid>>,
         new.student # None =>
           /\ new.student \in E!Enrolled /\ new.row = student[new.student]
           /\ new.login = login[new.student] /\ new.member = member[new.student],
         limit = 1 /\ new # E!Nothing => \A o \in Clerks : seen[o] = E!Nothing
  PROVE  E!EInv'
<1>1. \A o \in Clerks : seen'[o] = IF o = c THEN new ELSE seen[o]
  BY SeenType
<1>2. E!ETypeOK'
  BY DEF E!EInv, E!ETypeOK
<1>3. E!RowsAreSound'
  <2>1. seen' \in [Clerks -> E!Seen]
    BY SeenType
  <2> QED
    BY <2>1 DEF E!EInv, E!RowsAreSound, E!Enrolled
<1>4. E!AsRead'
  <2> SUFFICES ASSUME NEW o \in Clerks, NEW s \in E!Enrolled, seen'[o].student = s
               PROVE  /\ student[s].waiting \subseteq seen'[o].row.waiting
                      /\ \A g \in Groups : seen'[o].member[g] # "none" =>
                           status[g] # None /\ (status[g] = "deleted" \/ member[s][g] # "none")
    BY DEF E!AsRead, E!Enrolled
  <2>1. CASE o # c
    BY <1>1, <2>1 DEF E!EInv, E!AsRead
  <2>2. CASE o = c
    <3>1. s # None /\ seen'[o] = new
      BY <1>1, <2>2, PeopleAssumption DEF E!Enrolled
    <3>2. \A g \in Groups : member[s][g] # "none" => status[g] \in E!Statuses
      BY DEF E!EInv, E!BooksOutliveGroups, E!MembersExist, E!Existing, E!Enrolled
    <3> QED
      BY <3>1, <3>2, PeopleAssumption
  <2> QED
    BY <2>1, <2>2
<1>5. E!WantedUntilDeleted'
  BY DEF E!EInv, E!WantedUntilDeleted, E!Enrolled
<1>6. E!ReadIsCurrent'
  <2> SUFFICES ASSUME limit = 1
               PROVE  E!ReadIsCurrent'
    BY DEF E!ReadIsCurrent
  <2>1. ASSUME NEW a \in Clerks, NEW b \in Clerks, seen'[a] # E!Nothing, seen'[b] # E!Nothing
        PROVE  a = b
    BY <1>1, <2>1 DEF E!EInv, E!ReadIsCurrent
  <2>2. ASSUME NEW a \in Clerks, seen'[a].student # None
        PROVE  /\ seen'[a].student \in E!Enrolled
               /\ seen'[a].row = student[seen'[a].student]
               /\ seen'[a].student \in linked \/ seen'[a].login = login[seen'[a].student]
    BY <1>1, <2>2 DEF E!EInv, E!ReadIsCurrent
  <2> QED
    BY <2>1, <2>2 DEF E!ReadIsCurrent, E!Enrolled, E!Nothing
<1>7. E!LoginMeansActive' /\ E!ListedUntilDecided'
  BY DEF E!EInv, E!LoginMeansActive, E!ListedUntilDecided, E!Listed, E!Enrolled
<1>8. E!MembersExist'
  BY DEF E!EInv, E!BooksOutliveGroups, E!MembersExist, E!Enrolled, E!Existing
<1>9. E!PaymentsStay'
  BY PaymentsKept DEF E!Existing
<1> QED
  BY <1>2, <1>3, <1>4, <1>5, <1>6, <1>7, <1>8, <1>9 DEF E!EInv, E!BooksOutliveGroups

\* A request reads a student with his user and memberships.
LEMMA LoadStep ==
  ASSUME E!EInv, NEW c \in Clerks, NEW s \in Students, E!Load(c, s)
  PROVE  E!EInv'
<1> DEFINE new == [student |-> s, group |-> None, row |-> student[s], login |-> login[s],
                   member |-> member[s]]
<1>1. /\ E!Free(c) /\ s \in E!Enrolled /\ seen' = [seen EXCEPT ![c] = new]
      /\ UNCHANGED <<limit, status, student, login, member, payments>>
      /\ UNCHANGED <<wanted, rejected, decided, patched, linked, paid>>
  BY DEF E!Load, E!history
<1>2. new \in E!Seen
  BY <1>1, RowType DEF E!Seen
<1>3. limit = 1 => \A o \in Clerks : seen[o] = E!Nothing
  BY <1>1, ClerkBeginsAlone
<1> QED
  BY <1>1, <1>2, <1>3, SeenMoves

\* A request reads a group.
LEMMA LoadGroupStep ==
  ASSUME E!EInv, NEW c \in Clerks, NEW g \in Groups, E!LoadGroup(c, g)
  PROVE  E!EInv'
<1> DEFINE new == [student |-> None, group |-> g, status |-> status[g]]
<1>1. /\ E!Free(c) /\ g \in E!Existing /\ seen' = [seen EXCEPT ![c] = new]
      /\ UNCHANGED <<limit, status, student, login, member, payments>>
      /\ UNCHANGED <<wanted, rejected, decided, patched, linked, paid>>
  BY DEF E!LoadGroup, E!history
<1>2. new \in E!Seen
  BY <1>1 DEF E!Seen, E!Existing
<1>3. limit = 1 => \A o \in Clerks : seen[o] = E!Nothing
  BY <1>1, ClerkBeginsAlone
<1> QED
  BY <1>1, <1>2, <1>3, SeenMoves

\* A request ends with an error.
LEMMA AbortStep ==
  ASSUME E!EInv, NEW c \in Clerks, E!Abort(c)
  PROVE  E!EInv'
<1>1. /\ seen' = [seen EXCEPT ![c] = E!Nothing]
      /\ UNCHANGED <<limit, status, student, login, member, payments>>
      /\ UNCHANGED <<wanted, rejected, decided, patched, linked, paid>>
  BY DEF E!Abort, E!Done, E!history
<1>2. E!Nothing \in E!Seen /\ E!Nothing.student = None
  BY DEF E!Seen, E!Nothing
<1> QED
  BY <1>1, <1>2, SeenMoves

-----------------------------------------------------------------------------
(* Students: a request writes a student and his memberships *)

\* What a request may write of a student: no group that he waits for or is in is lost,
\* and one request at a time his row, his user and the decision agree.
StudentIsWritten(c, s, row, on, m) ==
  /\ seen[c].student = s /\ seen' = [seen EXCEPT ![c] = E!Nothing]
  /\ student' = [student EXCEPT ![s] = row] /\ login' = [login EXCEPT ![s] = on]
  /\ member' = [member EXCEPT ![s] = m]
  /\ UNCHANGED <<limit, status, payments, wanted, linked, paid>>
  /\ \A g \in Groups : m[g] # "none" => g \in E!Existing
  /\ \A g \in Groups : member[s][g] # "none" => m[g] # "none"
  /\ row.waiting \subseteq student[s].waiting
  /\ \/ s \in rejected'
     \/ \A g \in student[s].waiting \ row.waiting : m[g] # "none" \/ status[g] = "deleted"
  /\ rejected \subseteq rejected' /\ decided \subseteq decided' /\ patched \subseteq patched'
  /\ decided' \subseteq decided \cup {s}
  /\ limit = 1 /\ s \notin linked /\ on => row.active
  /\ limit = 1 /\ s \notin patched' =>
       /\ ~row.approved /\ ~row.rejected <=> s \notin decided'
       /\ ~(row.approved /\ row.rejected)

\* A request that has read a student and writes him so keeps the invariant.
LEMMA StudentStep ==
  ASSUME E!EInv, NEW c \in Clerks, NEW s \in E!Enrolled,
         NEW row \in E!Rows, NEW on \in BOOLEAN, NEW m \in [Groups -> E!Marks],
         StudentIsWritten(c, s, row, on, m)
  PROVE  E!EInv'
<1> USE DEF StudentIsWritten
<1>0. s \in Students /\ E!Nothing \in E!Seen /\ E!Nothing.student = None
  BY RowType DEF E!Seen, E!Nothing
<1>1. \A o \in Clerks : seen'[o] = IF o = c THEN E!Nothing ELSE seen[o]
  BY SeenType
<1>2. /\ \A t \in Students : student'[t] = IF t = s THEN row ELSE student[t]
      /\ \A t \in Students : login'[t] = IF t = s THEN on ELSE login[t]
      /\ \A t \in Students : member'[t] = IF t = s THEN m ELSE member[t]
  BY DEF E!EInv, E!ETypeOK, E!RowsAreSound
<1>3. E!Enrolled' = E!Enrolled /\ E!Existing' = E!Existing
  BY <1>2, PeopleAssumption DEF E!Enrolled, E!Existing
<1>4. E!ETypeOK'
  BY <1>0, <1>2 DEF E!EInv, E!ETypeOK, E!Marks
<1>5. E!RowsAreSound'
  <2>1. seen' \in [Clerks -> E!Seen]
    BY <1>0, SeenType
  <2>2. member' \in [Students -> [Groups -> E!Marks]]
    BY DEF E!EInv, E!RowsAreSound
  <2>3. decided' \subseteq E!Enrolled
    BY DEF E!EInv, E!RowsAreSound
  <2> QED
    BY <1>3, <2>1, <2>2, <2>3 DEF E!EInv, E!RowsAreSound
<1>6. E!AsRead'
  <2> SUFFICES ASSUME NEW a \in Clerks, NEW t \in E!Enrolled, seen'[a].student = t
               PROVE  /\ student'[t].waiting \subseteq seen'[a].row.waiting
                      /\ \A g \in Groups : seen'[a].member[g] # "none" =>
                           status[g] # None /\ (status[g] = "deleted" \/ member'[t][g] # "none")
    BY <1>3 DEF E!AsRead
  <2>1. t \in Students /\ t # None
    BY PeopleAssumption DEF E!Enrolled
  <2>2. seen'[a] = seen[a]
    BY <1>0, <1>1, <2>1
  <2>3. student[t].waiting \subseteq seen[a].row.waiting
    BY <2>2 DEF E!EInv, E!AsRead
  <2>4. \A g \in Groups : seen[a].member[g] # "none" =>
          status[g] # None /\ (status[g] = "deleted" \/ member[t][g] # "none")
    BY <2>2 DEF E!EInv, E!AsRead
  <2>5. student'[t].waiting \subseteq student[t].waiting
    BY <1>2, <2>1
  <2>6. \A g \in Groups : member[t][g] # "none" => member'[t][g] # "none"
    BY <1>2, <2>1
  <2> QED
    BY <2>2, <2>3, <2>4, <2>5, <2>6
<1>7. E!WantedUntilDeleted'
  <2> SUFFICES ASSUME NEW t \in E!Enrolled, t \notin rejected', NEW g \in wanted[t]
               PROVE  g \in student'[t].waiting \/ member'[t][g] # "none" \/ status[g] = "deleted"
    BY <1>3 DEF E!WantedUntilDeleted
  <2>1. t \in Students /\ g \in Groups
    BY DEF E!EInv, E!RowsAreSound, E!Enrolled
  <2>2. g \in student[t].waiting \/ member[t][g] # "none" \/ status[g] = "deleted"
    BY DEF E!EInv, E!WantedUntilDeleted
  <2>3. CASE t = s
    BY <1>2, <2>1, <2>2, <2>3
  <2>4. CASE t # s
    BY <1>2, <2>1, <2>2, <2>4
  <2> QED
    BY <2>3, <2>4
<1>8. E!ReadIsCurrent'
  <2> SUFFICES ASSUME limit = 1
               PROVE  E!ReadIsCurrent'
    BY DEF E!ReadIsCurrent
  <2>1. \A o \in Clerks : seen'[o] = E!Nothing
    BY <1>0, <1>1, PeopleAssumption DEF E!EInv, E!ReadIsCurrent, E!Nothing
  <2> QED
    BY <1>0, <2>1 DEF E!ReadIsCurrent, E!Nothing
<1>9. E!LoginMeansActive'
  BY <1>0, <1>2, <1>3 DEF E!EInv, E!LoginMeansActive, E!Enrolled
<1>10. E!ListedUntilDecided'
  <2> SUFFICES ASSUME limit = 1, NEW t \in E!Enrolled, t \notin patched'
               PROVE  /\ ~student'[t].approved /\ ~student'[t].rejected <=> t \notin decided'
                      /\ ~(student'[t].approved /\ student'[t].rejected)
    BY <1>3 DEF E!ListedUntilDecided, E!Listed
  <2>1. t \in Students
    BY DEF E!Enrolled
  <2>2. CASE t = s
    BY <1>2, <2>1, <2>2
  <2>3. CASE t # s
    BY <1>2, <2>1, <2>3 DEF E!EInv, E!ListedUntilDecided, E!Listed
  <2> QED
    BY <2>2, <2>3
<1>11. E!MembersExist'
  BY <1>2, <1>3 DEF E!EInv, E!BooksOutliveGroups, E!MembersExist
<1>12. E!PaymentsStay'
  BY <1>3, PaymentsKept
<1> QED
  BY <1>4, <1>5, <1>6, <1>7, <1>8, <1>9, <1>10, <1>11, <1>12 DEF E!EInv, E!BooksOutliveGroups

\* COMMIT of what differs from what was read; one request at a time, that is all of it.
LEMMA SaveMerges ==
  ASSUME E!EInv, NEW c \in Clerks, seen[c].student # None, NEW row \in E!Rows, NEW on \in BOOLEAN,
         E!Save(c, row, on)
  PROVE  LET s == seen[c].student IN
         /\ s \in E!Enrolled /\ seen' = [seen EXCEPT ![c] = E!Nothing]
         /\ \E new \in E!Rows, now \in BOOLEAN :
              /\ student' = [student EXCEPT ![s] = new] /\ login' = [login EXCEPT ![s] = now]
              /\ new.waiting = IF row.waiting = seen[c].row.waiting THEN student[s].waiting
                               ELSE row.waiting
              /\ limit = 1 => new = row
              /\ limit = 1 /\ s \notin linked => now = on
<1> DEFINE s   == seen[c].student
           was == seen[c].row
           new == [x \in DOMAIN row |-> IF row[x] = was[x] THEN student[s][x] ELSE row[x]]
           now == IF on = seen[c].login THEN login[s] ELSE on
           keep == [active   |-> IF row.active = was.active THEN student[s].active ELSE row.active,
                    approved |-> IF row.approved = was.approved THEN student[s].approved
                                 ELSE row.approved,
                    rejected |-> IF row.rejected = was.rejected THEN student[s].rejected
                                 ELSE row.rejected,
                    waiting  |-> IF row.waiting = was.waiting THEN student[s].waiting
                                 ELSE row.waiting]
<1>1. /\ s \in E!Enrolled /\ seen' = [seen EXCEPT ![c] = E!Nothing]
      /\ student' = [student EXCEPT ![s] = new] /\ login' = [login EXCEPT ![s] = now]
  BY DEF E!Save, E!Done
<1>2. student[s] \in E!Rows /\ login[s] \in BOOLEAN
  BY <1>1, RowType
<1>3. new = keep
  BY <1>2 DEF E!Rows
<1>4. keep \in E!Rows
  BY <1>2 DEF E!Rows
<1>5. limit = 1 => new = row
  <2> SUFFICES ASSUME limit = 1
               PROVE  new = row
    OBVIOUS
  <2>1. was = student[s]
    BY DEF E!EInv, E!ReadIsCurrent
  <2> QED
    BY <1>2, <1>3, <2>1 DEF E!Rows
<1>6. limit = 1 /\ s \notin linked => now = on
  BY DEF E!EInv, E!ReadIsCurrent
<1>7. now \in BOOLEAN
  BY <1>2
<1>8. new.waiting = IF row.waiting = was.waiting THEN student[s].waiting ELSE row.waiting
  BY <1>3
<1>9. new \in E!Rows
  BY <1>3, <1>4
<1> HIDE DEF new, keep, now
<1> QED
  BY <1>1, <1>5, <1>6, <1>7, <1>8, <1>9

\* Who joins groups is in them afterwards, unless they were deleted, and in no group
\* that is not there.
LEMMA JoinKeeps ==
  ASSUME E!EInv, NEW c \in Clerks, seen[c].student \in E!Enrolled, NEW gs \in SUBSET Groups,
         E!Join(c, gs)
  PROVE  LET s == seen[c].student IN
         \E m \in [Groups -> E!Marks] :
           /\ member' = [member EXCEPT ![s] = m]
           /\ \A g \in Groups : m[g] # "none" => g \in E!Existing
           /\ \A g \in Groups : member[s][g] # "none" => m[g] # "none"
           /\ \A g \in gs : m[g] # "none" \/ status[g] = "deleted"
<1> DEFINE s   == seen[c].student
           was == seen[c].member
           m   == [g \in Groups |-> IF g \in gs /\ was[g] # "on" THEN "on" ELSE member[s][g]]
<1>1. s \in Students /\ member[s] \in [Groups -> E!Marks] /\ s # None
  BY RowType, PeopleAssumption
<1>2. was \in [Groups -> E!Marks]
  BY <1>1, SeenType
<1>3. member' = [member EXCEPT ![s] = m]
  BY DEF E!Join
<1>4. \A g \in gs :
        /\ was[g] = "none" => g \in E!Existing
        /\ was[g] = "off" => member[s][g] # "none"
  BY DEF E!Join
<1>5. \A g \in Groups : member[s][g] # "none" => g \in E!Existing
  BY <1>1 DEF E!EInv, E!BooksOutliveGroups, E!MembersExist
<1>6. \A g \in Groups : was[g] # "none" => status[g] = "deleted" \/ member[s][g] # "none"
  BY DEF E!EInv, E!AsRead
<1>7. m \in [Groups -> E!Marks]
  BY <1>1 DEF E!Marks
<1>8. \A g \in Groups : m[g] # "none" => g \in E!Existing
  <2> SUFFICES ASSUME NEW g \in Groups, m[g] # "none"
               PROVE  g \in E!Existing
    OBVIOUS
  <2>1. CASE g \in gs /\ was[g] # "on"
    <3> HIDE DEF was, s, m
    <3>1. was[g] = "none" \/ was[g] = "off"
      BY <1>2, <2>1 DEF E!Marks
    <3>2. /\ was[g] = "none" => g \in E!Existing
          /\ was[g] = "off" => member[s][g] # "none"
      BY <1>4, <2>1
    <3> QED
      BY <1>5, <3>1, <3>2
  <2>2. CASE ~(g \in gs /\ was[g] # "on")
    BY <1>5, <2>2
  <2> QED
    BY <2>1, <2>2
<1>9. \A g \in Groups : member[s][g] # "none" => m[g] # "none"
  OBVIOUS
<1>10. \A g \in gs : m[g] # "none" \/ status[g] = "deleted"
  BY <1>6
<1> HIDE DEF m, was
<1> QED
  BY <1>3, <1>7, <1>8, <1>9, <1>10

\* What a student is in stays.
LEMMA MembersStand ==
  ASSUME E!EInv, NEW s \in E!Enrolled
  PROVE  /\ member[s] \in [Groups -> E!Marks] /\ member = [member EXCEPT ![s] = member[s]]
         /\ \A g \in Groups : member[s][g] # "none" => g \in E!Existing
<1>1. s \in Students /\ member[s] \in [Groups -> E!Marks]
  BY RowType
<1>2. member = [member EXCEPT ![s] = member[s]]
  BY DEF E!EInv, E!RowsAreSound
<1> QED
  BY <1>1, <1>2 DEF E!EInv, E!BooksOutliveGroups, E!MembersExist

\* PATCH of a student: who may log in is active.
LEMMA UpdateStep ==
  ASSUME E!EInv, NEW c \in Clerks, NEW active \in BOOLEAN \cup {None},
         NEW approved \in BOOLEAN \cup {None}, E!Update(c, active, approved)
  PROVE  E!EInv'
<1> DEFINE s   == seen[c].student
           was == seen[c].row
           on  == approved = TRUE \/ (active = TRUE \/ (active = None /\ seen[c].login))
           row == [was EXCEPT !.approved = IF approved = None THEN @ ELSE approved,
                              !.active   = approved = TRUE \/ (IF active = None THEN @ ELSE active)]
<1>1. /\ s # None /\ E!Save(c, row, on)
      /\ patched' = IF approved = None THEN patched ELSE patched \cup {s}
      /\ UNCHANGED <<limit, status, member, payments, wanted, rejected, decided, linked, paid>>
  BY DEF E!Update
<1>2. was \in E!Rows /\ seen[c].login \in BOOLEAN
  BY <1>1, SeenType
<1>3. /\ row \in E!Rows /\ on \in BOOLEAN /\ row.waiting = was.waiting
      /\ row.rejected = was.rejected /\ approved = None => row.approved = was.approved
      /\ row.active = (approved = TRUE \/ (IF active = None THEN was.active ELSE active))
  BY <1>2 DEF E!Rows
<1>4. limit = 1 => /\ was = student[s]
                   /\ s \notin linked => seen[c].login = login[s]
  BY <1>1 DEF E!EInv, E!ReadIsCurrent
<1>5. s \in E!Enrolled
  BY <1>1 DEF E!Save
<1>6. limit = 1 /\ s \notin linked /\ on => row.active
  BY <1>3, <1>4, <1>5, PeopleAssumption DEF E!EInv, E!LoginMeansActive
<1>7. limit = 1 /\ s \notin patched' =>
        /\ ~row.approved /\ ~row.rejected <=> s \notin decided
        /\ ~(row.approved /\ row.rejected)
  BY <1>1, <1>3, <1>4, <1>5 DEF E!EInv, E!ListedUntilDecided, E!Listed
<1> HIDE DEF on, row
<1>8. PICK new \in E!Rows, now \in BOOLEAN :
        /\ student' = [student EXCEPT ![s] = new] /\ login' = [login EXCEPT ![s] = now]
        /\ new.waiting = IF row.waiting = was.waiting THEN student[s].waiting ELSE row.waiting
        /\ limit = 1 => new = row
        /\ limit = 1 /\ s \notin linked => now = on
  BY <1>1, <1>3, SaveMerges
<1>9. seen' = [seen EXCEPT ![c] = E!Nothing]
  BY <1>1 DEF E!Save, E!Done
<1>10. new.waiting = student[s].waiting
  BY <1>3, <1>8
<1>11. member' = [member EXCEPT ![s] = member[s]]
  BY <1>1, <1>5, MembersStand
<1>12. /\ limit = 1 /\ s \notin linked /\ now => new.active
       /\ limit = 1 /\ s \notin patched' =>
            /\ ~new.approved /\ ~new.rejected <=> s \notin decided'
            /\ ~(new.approved /\ new.rejected)
  BY <1>1, <1>6, <1>7, <1>8
<1>13. patched \subseteq patched'
  BY <1>1
<1>14. /\ member[s] \in [Groups -> E!Marks] /\ seen[c].student = s
       /\ \A g \in Groups : member[s][g] # "none" => g \in E!Existing
  BY <1>5, MembersStand
<1>15. /\ UNCHANGED <<limit, status, payments, wanted, linked, paid>>
       /\ rejected \subseteq rejected' /\ decided \subseteq decided'
       /\ decided' \subseteq decided \cup {s}
  BY <1>1
<1> HIDE DEF s, was
<1>16. StudentIsWritten(c, s, new, now, member[s])
  BY <1>5, <1>8, <1>9, <1>10, <1>11, <1>12, <1>13, <1>14, <1>15 DEF StudentIsWritten
<1> QED
  BY <1>5, <1>8, <1>9, <1>10, <1>11, <1>12, <1>13, <1>14, <1>15, <1>16, StudentStep

\* The approval puts a student in the groups that he waited for.
LEMMA ApproveStep ==
  ASSUME E!EInv, NEW c \in Clerks, E!Approve(c)
  PROVE  E!EInv'
<1> DEFINE s   == seen[c].student
           was == seen[c].row
           row == [active |-> TRUE, approved |-> TRUE, rejected |-> FALSE, waiting |-> {}]
<1>1. /\ s # None /\ E!Save(c, row, TRUE) /\ E!Join(c, was.waiting) /\ decided' = decided \cup {s}
      /\ UNCHANGED <<limit, status, payments, wanted, rejected, patched, linked, paid>>
  BY DEF E!Approve
<1>2. row \in E!Rows /\ row.active /\ row.approved /\ ~row.rejected /\ row.waiting = {}
  BY DEF E!Rows
<1> HIDE DEF row
<1>3. s \in E!Enrolled /\ seen' = [seen EXCEPT ![c] = E!Nothing]
  BY <1>1 DEF E!Save, E!Done
<1>4. was.waiting \in SUBSET Groups
  BY <1>1, SeenType DEF E!Rows
<1>5. student[s].waiting \subseteq was.waiting
  BY <1>3 DEF E!EInv, E!AsRead
<1>6. PICK new \in E!Rows, now \in BOOLEAN :
        /\ student' = [student EXCEPT ![s] = new] /\ login' = [login EXCEPT ![s] = now]
        /\ new.waiting = IF row.waiting = was.waiting THEN student[s].waiting ELSE row.waiting
        /\ limit = 1 => new = row
        /\ limit = 1 /\ s \notin linked => now = TRUE
  BY <1>1, <1>2, SaveMerges
<1>7. PICK m \in [Groups -> E!Marks] :
        /\ member' = [member EXCEPT ![s] = m]
        /\ \A g \in Groups : m[g] # "none" => g \in E!Existing
        /\ \A g \in Groups : member[s][g] # "none" => m[g] # "none"
        /\ \A g \in was.waiting : m[g] # "none" \/ status[g] = "deleted"
  BY <1>1, <1>3, <1>4, JoinKeeps
<1>8. /\ new.waiting \subseteq student[s].waiting
      /\ \A g \in student[s].waiting \ new.waiting : m[g] # "none" \/ status[g] = "deleted"
  BY <1>2, <1>5, <1>6, <1>7
<1>9. limit = 1 => new.active /\ new.approved /\ ~new.rejected
  BY <1>2, <1>6
<1>10. seen[c].student = s
  OBVIOUS
<1>11. /\ UNCHANGED <<limit, status, payments, wanted, linked, paid>>
       /\ rejected \subseteq rejected' /\ decided \subseteq decided' /\ patched \subseteq patched'
       /\ decided' \subseteq decided \cup {s} /\ s \in decided'
  BY <1>1
<1>12. /\ limit = 1 /\ s \notin linked /\ now => new.active
       /\ limit = 1 /\ s \notin patched' =>
            /\ ~new.approved /\ ~new.rejected <=> s \notin decided'
            /\ ~(new.approved /\ new.rejected)
  BY <1>9, <1>11
<1> HIDE DEF s, was
<1>13. StudentIsWritten(c, s, new, now, m)
  BY <1>3, <1>6, <1>7, <1>8, <1>10, <1>11, <1>12 DEF StudentIsWritten
<1> QED
  BY <1>3, <1>6, <1>7, <1>8, <1>10, <1>11, <1>12, <1>13, StudentStep

\* A rejected student waits for nothing and may not log in.
LEMMA RejectStep ==
  ASSUME E!EInv, NEW c \in Clerks, E!Reject(c)
  PROVE  E!EInv'
<1> DEFINE s   == seen[c].student
           row == [active |-> FALSE, approved |-> FALSE, rejected |-> TRUE, waiting |-> {}]
<1>1. /\ s # None /\ E!Save(c, row, FALSE)
      /\ rejected' = rejected \cup {s} /\ decided' = decided \cup {s}
      /\ UNCHANGED <<limit, status, member, payments, wanted, patched, linked, paid>>
  BY DEF E!Reject
<1>2. row \in E!Rows /\ ~row.active /\ ~row.approved /\ row.rejected /\ row.waiting = {}
  BY DEF E!Rows
<1> HIDE DEF row
<1>3. s \in E!Enrolled /\ seen' = [seen EXCEPT ![c] = E!Nothing]
  BY <1>1 DEF E!Save, E!Done
<1>4. PICK new \in E!Rows, now \in BOOLEAN :
        /\ student' = [student EXCEPT ![s] = new] /\ login' = [login EXCEPT ![s] = now]
        /\ new.waiting = IF row.waiting = seen[c].row.waiting THEN student[s].waiting
                         ELSE row.waiting
        /\ limit = 1 => new = row
        /\ limit = 1 /\ s \notin linked => now = FALSE
  BY <1>1, <1>2, SaveMerges
<1>5. new.waiting \subseteq student[s].waiting
  BY <1>2, <1>4
<1>6. limit = 1 => ~new.approved /\ new.rejected
  BY <1>2, <1>4
<1>7. /\ member' = [member EXCEPT ![s] = member[s]] /\ member[s] \in [Groups -> E!Marks]
      /\ \A g \in Groups : member[s][g] # "none" => g \in E!Existing
  BY <1>1, <1>3, MembersStand
<1>8. seen[c].student = s
  OBVIOUS
<1>9. /\ UNCHANGED <<limit, status, payments, wanted, linked, paid>>
      /\ rejected \subseteq rejected' /\ decided \subseteq decided' /\ patched \subseteq patched'
      /\ decided' \subseteq decided \cup {s} /\ s \in decided' /\ s \in rejected'
  BY <1>1
<1> HIDE DEF s
<1>10. StudentIsWritten(c, s, new, now, member[s])
  BY <1>3, <1>4, <1>5, <1>6, <1>7, <1>8, <1>9 DEF StudentIsWritten
<1> QED
  BY <1>3, <1>4, <1>5, <1>6, <1>7, <1>8, <1>9, <1>10, StudentStep

\* A student leaves the trash, and the decision about him is as it was.
LEMMA RestoreStep ==
  ASSUME E!EInv, NEW c \in Clerks, E!RestoreStudent(c)
  PROVE  E!EInv'
<1> DEFINE s   == seen[c].student
           was == seen[c].row
           row == [was EXCEPT !.active = TRUE]
<1>1. /\ s # None /\ E!Save(c, row, TRUE)
      /\ UNCHANGED <<limit, status, member, payments>>
      /\ UNCHANGED <<wanted, rejected, decided, patched, linked, paid>>
  BY DEF E!RestoreStudent, E!history
<1>2. was \in E!Rows
  BY <1>1, SeenType
<1>3. /\ row \in E!Rows /\ row.active /\ row.approved = was.approved
      /\ row.rejected = was.rejected /\ row.waiting = was.waiting
  BY <1>2 DEF E!Rows
<1> HIDE DEF row
<1>4. s \in E!Enrolled /\ seen' = [seen EXCEPT ![c] = E!Nothing]
  BY <1>1 DEF E!Save, E!Done
<1>5. PICK new \in E!Rows, now \in BOOLEAN :
        /\ student' = [student EXCEPT ![s] = new] /\ login' = [login EXCEPT ![s] = now]
        /\ new.waiting = IF row.waiting = was.waiting THEN student[s].waiting ELSE row.waiting
        /\ limit = 1 => new = row
        /\ limit = 1 /\ s \notin linked => now = TRUE
  BY <1>1, <1>3, SaveMerges
<1>6. new.waiting = student[s].waiting
  BY <1>3, <1>5
<1>7. limit = 1 => was = student[s]
  BY <1>1 DEF E!EInv, E!ReadIsCurrent
<1>8. limit = 1 /\ s \notin patched =>
        /\ ~new.approved /\ ~new.rejected <=> s \notin decided
        /\ ~(new.approved /\ new.rejected)
  BY <1>3, <1>4, <1>5, <1>7 DEF E!EInv, E!ListedUntilDecided, E!Listed
<1>9. limit = 1 => new.active
  BY <1>3, <1>5
<1>10. /\ member' = [member EXCEPT ![s] = member[s]] /\ member[s] \in [Groups -> E!Marks]
       /\ \A g \in Groups : member[s][g] # "none" => g \in E!Existing
  BY <1>1, <1>4, MembersStand
<1>11. seen[c].student = s
  OBVIOUS
<1>12. /\ UNCHANGED <<limit, status, payments, wanted, linked, paid>>
       /\ rejected \subseteq rejected' /\ decided \subseteq decided' /\ patched \subseteq patched'
       /\ decided' = decided /\ patched' = patched /\ decided' \subseteq decided \cup {s}
  BY <1>1
<1> HIDE DEF s, was
<1>13. StudentIsWritten(c, s, new, now, member[s])
  BY <1>4, <1>5, <1>6, <1>8, <1>9, <1>10, <1>11, <1>12 DEF StudentIsWritten
<1> QED
  BY <1>4, <1>5, <1>6, <1>8, <1>9, <1>10, <1>11, <1>12, <1>13, StudentStep

\* Memberships change, and the student does not.
LEMMA MemberStep ==
  ASSUME E!EInv, NEW c \in Clerks, NEW s \in E!Enrolled, seen[c].student = s,
         NEW m \in [Groups -> E!Marks], member' = [member EXCEPT ![s] = m],
         seen' = [seen EXCEPT ![c] = E!Nothing],
         UNCHANGED <<limit, status, student, login, payments>>,
         UNCHANGED <<wanted, rejected, decided, patched, linked, paid>>,
         \A g \in Groups : m[g] # "none" => g \in E!Existing,
         \A g \in Groups : member[s][g] # "none" => m[g] # "none"
  PROVE  E!EInv'
<1>1. s \in Students /\ student[s] \in E!Rows /\ login[s] \in BOOLEAN
  BY RowType
<1>2. student' = [student EXCEPT ![s] = student[s]] /\ login' = [login EXCEPT ![s] = login[s]]
  BY DEF E!EInv, E!ETypeOK
<1>3. limit = 1 /\ s \notin linked /\ login[s] => student[s].active
  BY DEF E!EInv, E!LoginMeansActive
<1>4. limit = 1 /\ s \notin patched =>
        /\ ~student[s].approved /\ ~student[s].rejected <=> s \notin decided
        /\ ~(student[s].approved /\ student[s].rejected)
  BY DEF E!EInv, E!ListedUntilDecided, E!Listed
<1>5. /\ rejected \subseteq rejected' /\ decided \subseteq decided' /\ patched \subseteq patched'
      /\ decided' \subseteq decided \cup {s} /\ student[s].waiting \subseteq student[s].waiting
      /\ \A g \in student[s].waiting \ student[s].waiting : m[g] # "none" \/ status[g] = "deleted"
  OBVIOUS
<1>6. limit = 1 /\ s \notin patched' =>
        /\ ~student[s].approved /\ ~student[s].rejected <=> s \notin decided'
        /\ ~(student[s].approved /\ student[s].rejected)
  BY <1>4
<1>7. StudentIsWritten(c, s, student[s], login[s], m)
  BY <1>1, <1>2, <1>3, <1>5, <1>6 DEF StudentIsWritten
<1> QED
  BY <1>1, <1>2, <1>3, <1>5, <1>6, <1>7, StudentStep

\* add_to_group, of an administrator or a teacher.
LEMMA AddToGroupStep ==
  ASSUME E!EInv, NEW c \in Clerks, NEW g \in Groups, E!AddToGroup(c, g)
  PROVE  E!EInv'
<1>1. /\ seen[c].student \in E!Enrolled /\ E!Join(c, {g}) /\ seen' = [seen EXCEPT ![c] = E!Nothing]
      /\ UNCHANGED <<limit, status, student, login, payments>>
      /\ UNCHANGED <<wanted, rejected, decided, patched, linked, paid>>
  BY DEF E!AddToGroup, E!Done, E!history
<1>2. PICK m \in [Groups -> E!Marks] :
        /\ member' = [member EXCEPT ![seen[c].student] = m]
        /\ \A x \in Groups : m[x] # "none" => x \in E!Existing
        /\ \A x \in Groups : member[seen[c].student][x] # "none" => m[x] # "none"
  BY <1>1, JoinKeeps
<1> QED
  BY <1>1, <1>2, MemberStep

\* Who is removed from a group has been in it.
LEMMA RemoveFromGroupStep ==
  ASSUME E!EInv, NEW c \in Clerks, NEW g \in Groups, E!RemoveFromGroup(c, g)
  PROVE  E!EInv'
<1> DEFINE s == seen[c].student
           m == [member[s] EXCEPT ![g] = "off"]
<1>1. /\ s # None /\ member[s][g] # "none" /\ member' = [member EXCEPT ![s][g] = "off"]
      /\ seen' = [seen EXCEPT ![c] = E!Nothing]
      /\ UNCHANGED <<limit, status, student, login, payments>>
      /\ UNCHANGED <<wanted, rejected, decided, patched, linked, paid>>
  BY DEF E!RemoveFromGroup, E!Done, E!history
<1>2. s \in Students
  BY <1>1, SeenType
<1>3. s \in E!Enrolled
  BY <1>1, <1>2 DEF E!EInv, E!BooksOutliveGroups, E!MembersExist
<1>4. member[s] \in [Groups -> E!Marks] /\ \A x \in Groups : member[s][x] # "none" => x \in E!Existing
  BY <1>3, MembersStand
<1>5. /\ m \in [Groups -> E!Marks] /\ m[g] = "off" /\ \A x \in Groups : x # g => m[x] = member[s][x]
      /\ member' = [member EXCEPT ![s] = m]
  BY <1>1, <1>2, <1>4 DEF E!Marks
<1>7. /\ seen[c].student = s /\ seen' = [seen EXCEPT ![c] = E!Nothing]
      /\ UNCHANGED <<limit, status, student, login, payments>>
      /\ UNCHANGED <<wanted, rejected, decided, patched, linked, paid>>
  BY <1>1
<1> HIDE DEF m, s
<1>6. /\ \A x \in Groups : m[x] # "none" => x \in E!Existing
      /\ \A x \in Groups : member[s][x] # "none" => m[x] # "none"
  BY <1>1, <1>4, <1>5
<1> QED
  BY <1>3, <1>5, <1>6, <1>7, MemberStep

-----------------------------------------------------------------------------
(* Students: they come and go *)

\* A new student, of whom no request has read anything.
LEMMA StudentComes ==
  ASSUME E!EInv, NEW s \in Students, E!New(s),
         NEW row \in E!Rows, NEW on \in BOOLEAN, NEW m \in [Groups -> E!Marks], NEW w \in SUBSET Groups,
         student' = [student EXCEPT ![s] = row], login' = [login EXCEPT ![s] = on],
         member' = [member EXCEPT ![s] = m], wanted' = [wanted EXCEPT ![s] = w],
         UNCHANGED <<limit, status, payments, seen, rejected, patched, linked, paid>>,
         \A g \in Groups : m[g] # "none" => g \in E!Existing,
         w \subseteq row.waiting, on => row.active,
         ~(row.approved /\ row.rejected),
         decided' = IF ~row.approved /\ ~row.rejected THEN decided ELSE decided \cup {s}
  PROVE  E!EInv'
<1>1. s \notin E!Enrolled /\ \A c \in Clerks : seen[c].student # s
  BY DEF E!New
<1>2. /\ \A t \in Students : student'[t] = IF t = s THEN row ELSE student[t]
      /\ \A t \in Students : login'[t] = IF t = s THEN on ELSE login[t]
      /\ \A t \in Students : member'[t] = IF t = s THEN m ELSE member[t]
      /\ \A t \in Students : wanted'[t] = IF t = s THEN w ELSE wanted[t]
  BY DEF E!EInv, E!ETypeOK, E!RowsAreSound
<1>3. E!Enrolled' = E!Enrolled \cup {s} /\ E!Existing' = E!Existing
  BY <1>2, PeopleAssumption DEF E!Enrolled, E!Existing
<1>4. E!ETypeOK'
  BY <1>2 DEF E!EInv, E!ETypeOK, E!Marks
<1>5. E!RowsAreSound'
  BY <1>2, <1>3 DEF E!EInv, E!RowsAreSound
<1>6. E!AsRead'
  BY <1>1, <1>2, <1>3 DEF E!EInv, E!AsRead, E!Enrolled
<1>7. E!WantedUntilDeleted'
  <2> SUFFICES ASSUME NEW t \in E!Enrolled', t \notin rejected, NEW g \in wanted'[t]
               PROVE  g \in student'[t].waiting \/ member'[t][g] # "none" \/ status[g] = "deleted"
    BY DEF E!WantedUntilDeleted
  <2>1. CASE t = s
    BY <1>2, <2>1
  <2>2. CASE t # s
    <3>1. t \in Students /\ t \in E!Enrolled
      BY <1>3, <2>2 DEF E!Enrolled
    <3> QED
      BY <1>2, <2>2, <3>1 DEF E!EInv, E!WantedUntilDeleted
  <2> QED
    BY <2>1, <2>2
<1>8. E!ReadIsCurrent'
  BY <1>1, <1>2, <1>3 DEF E!EInv, E!ReadIsCurrent, E!Enrolled, E!Nothing
<1>9. E!LoginMeansActive'
  BY <1>2, <1>3 DEF E!EInv, E!LoginMeansActive, E!Enrolled
<1>10. E!ListedUntilDecided'
  <2>1. s \notin decided
    BY <1>1 DEF E!EInv, E!RowsAreSound
  <2> SUFFICES ASSUME limit = 1, NEW t \in E!Enrolled', t \notin patched
               PROVE  /\ ~student'[t].approved /\ ~student'[t].rejected <=> t \notin decided'
                      /\ ~(student'[t].approved /\ student'[t].rejected)
    BY DEF E!ListedUntilDecided, E!Listed
  <2>2. CASE t = s
    BY <1>2, <2>1, <2>2
  <2>3. CASE t # s
    <3>1. t \in Students /\ t \in E!Enrolled
      BY <1>3, <2>3 DEF E!Enrolled
    <3>2. student'[t] = student[t] /\ (t \in decided' <=> t \in decided)
      BY <1>2, <2>3, <3>1
    <3> QED
      BY <3>1, <3>2 DEF E!EInv, E!ListedUntilDecided, E!Listed
  <2> QED
    BY <2>2, <2>3
<1>11. E!MembersExist'
  BY <1>2, <1>3 DEF E!EInv, E!BooksOutliveGroups, E!MembersExist
<1>12. E!PaymentsStay'
  BY <1>3, PaymentsKept
<1> QED
  BY <1>4, <1>5, <1>6, <1>7, <1>8, <1>9, <1>10, <1>11, <1>12 DEF E!EInv, E!BooksOutliveGroups

\* Administrators and inspectors put a student in his groups at once.
LEMMA CreateApprovedStep ==
  ASSUME E!EInv, NEW s \in Students, NEW gs \in SUBSET Groups, E!CreateApproved(s, gs)
  PROVE  E!EInv'
<1> DEFINE row == [active |-> TRUE, approved |-> TRUE, rejected |-> FALSE, waiting |-> {}]
           m   == [g \in Groups |-> IF g \in gs THEN "on" ELSE "none"]
<1>1. /\ E!New(s) /\ gs \subseteq E!Existing /\ student' = [student EXCEPT ![s] = row]
      /\ login' = [login EXCEPT ![s] = TRUE] /\ member' = [member EXCEPT ![s] = m]
      /\ decided' = decided \cup {s}
      /\ UNCHANGED <<limit, status, payments, seen, wanted, rejected, patched, linked, paid>>
  BY DEF E!CreateApproved
<1>2. row \in E!Rows /\ row.active /\ row.approved /\ ~row.rejected
  BY DEF E!Rows
<1>3. m \in [Groups -> E!Marks] /\ \A g \in Groups : m[g] # "none" => g \in E!Existing
  BY <1>1 DEF E!Marks
<1>4. wanted' = [wanted EXCEPT ![s] = {}]
  BY <1>1 DEF E!EInv, E!RowsAreSound, E!New
<1>5. {} \in SUBSET Groups /\ {} \subseteq row.waiting
  OBVIOUS
<1> HIDE DEF row, m
<1> QED
  BY <1>1, <1>2, <1>3, <1>4, <1>5, StudentComes

\* The groups that a teacher asks for wait.
LEMMA CreateByTeacherStep ==
  ASSUME E!EInv, NEW s \in Students, NEW gs \in SUBSET Groups, E!CreateByTeacher(s, gs)
  PROVE  E!EInv'
<1> DEFINE row == [active |-> TRUE, approved |-> FALSE, rejected |-> FALSE, waiting |-> gs]
           m   == member[s]
<1>1. /\ E!New(s) /\ student' = [student EXCEPT ![s] = row] /\ login' = [login EXCEPT ![s] = FALSE]
      /\ wanted' = [wanted EXCEPT ![s] = gs]
      /\ UNCHANGED <<limit, status, member, payments, seen, rejected, decided, patched, linked, paid>>
  BY DEF E!CreateByTeacher
<1>2. row \in E!Rows /\ row.active /\ ~row.approved /\ ~row.rejected /\ row.waiting = gs
  BY DEF E!Rows
<1>3. m \in [Groups -> E!Marks] /\ \A g \in Groups : m[g] # "none" => g \in E!Existing
  BY DEF E!EInv, E!RowsAreSound, E!BooksOutliveGroups, E!MembersExist
<1>4. member' = [member EXCEPT ![s] = m]
  BY <1>1 DEF E!EInv, E!RowsAreSound
<1> HIDE DEF row, m
<1> QED
  BY <1>1, <1>2, <1>3, <1>4, StudentComes

\* A student goes with everything that was his.
LEMMA DeleteStudentStep ==
  ASSUME E!EInv, NEW c \in Clerks, E!DeleteStudent(c)
  PROVE  E!EInv'
<1> DEFINE s == seen[c].student
<1>1. /\ s \in E!Enrolled
      /\ student' = [student EXCEPT ![s] = None] /\ login' = [login EXCEPT ![s] = FALSE]
      /\ member' = [member EXCEPT ![s] = E!Out] /\ payments' = [payments EXCEPT ![s] = E!NoMoney]
      /\ wanted' = [wanted EXCEPT ![s] = {}] /\ paid' = [paid EXCEPT ![s] = 0]
      /\ rejected' = rejected \ {s} /\ decided' = decided \ {s}
      /\ patched' = patched \ {s} /\ linked' = linked \ {s}
      /\ seen' = [seen EXCEPT ![c] = E!Nothing] /\ UNCHANGED <<limit, status>>
  BY DEF E!DeleteStudent, E!Done
<1>2. /\ s \in Students /\ s # None /\ E!Nothing \in E!Seen /\ E!Nothing.student = None
      /\ E!Out \in [Groups -> E!Marks] /\ \A g \in Groups : E!Out[g] = "none"
      /\ E!NoMoney \in [Groups \cup {None} -> Nat] /\ \A g \in Groups \cup {None} : E!NoMoney[g] = 0
  BY <1>1, RowType, PeopleAssumption DEF E!Seen, E!Nothing, E!Out, E!Marks, E!NoMoney
<1>3. /\ \A t \in Students : student'[t] = IF t = s THEN None ELSE student[t]
      /\ \A t \in Students : login'[t] = IF t = s THEN FALSE ELSE login[t]
      /\ \A t \in Students : member'[t] = IF t = s THEN E!Out ELSE member[t]
      /\ \A t \in Students : wanted'[t] = IF t = s THEN {} ELSE wanted[t]
      /\ \A t \in Students : payments'[t] = IF t = s THEN E!NoMoney ELSE payments[t]
      /\ \A t \in Students : paid'[t] = IF t = s THEN 0 ELSE paid[t]
      /\ \A o \in Clerks : seen'[o] = IF o = c THEN E!Nothing ELSE seen[o]
  BY <1>1, SeenType DEF E!EInv, E!ETypeOK, E!RowsAreSound
<1>4. E!Enrolled' = E!Enrolled \ {s} /\ E!Existing' = E!Existing
  BY <1>1, <1>3 DEF E!Enrolled, E!Existing
<1>5. \A t \in E!Enrolled \ {s} : t \in Students /\ t # None /\ student'[t] = student[t]
        /\ login'[t] = login[t] /\ member'[t] = member[t] /\ wanted'[t] = wanted[t]
  BY <1>3, PeopleAssumption DEF E!Enrolled
<1>6. E!ETypeOK'
  BY <1>1, <1>2, <1>3 DEF E!EInv, E!ETypeOK, E!Marks
<1>7. E!RowsAreSound'
  <2>1. /\ seen' \in [Clerks -> E!Seen] /\ member' \in [Students -> [Groups -> E!Marks]]
        /\ payments' \in [Students -> [Groups \cup {None} -> Nat]] /\ paid' \in [Students -> Nat]
        /\ wanted' \in [Students -> SUBSET Groups]
    BY <1>1, <1>2 DEF E!EInv, E!RowsAreSound
  <2>2. decided' \subseteq E!Enrolled' /\ \A t \in Students \ E!Enrolled' : wanted'[t] = {}
    BY <1>1, <1>3, <1>4 DEF E!EInv, E!RowsAreSound
  <2> QED
    BY <2>1, <2>2 DEF E!RowsAreSound
<1> HIDE DEF s
<1>8. E!AsRead'
  BY <1>1, <1>2, <1>3, <1>4, <1>5 DEF E!EInv, E!AsRead
<1>9. E!WantedUntilDeleted'
  BY <1>1, <1>4, <1>5 DEF E!EInv, E!WantedUntilDeleted
<1>10. E!ReadIsCurrent'
  <2> SUFFICES ASSUME limit = 1
               PROVE  E!ReadIsCurrent'
    BY <1>1 DEF E!ReadIsCurrent
  <2>1. \A o \in Clerks : seen'[o] = E!Nothing
    BY <1>2, <1>3, PeopleAssumption DEF E!EInv, E!ReadIsCurrent, E!Nothing, s
  <2> QED
    BY <1>2, <2>1 DEF E!ReadIsCurrent, E!Nothing
<1>11. E!LoginMeansActive' /\ E!ListedUntilDecided'
  BY <1>1, <1>4, <1>5 DEF E!EInv, E!LoginMeansActive, E!ListedUntilDecided, E!Listed
<1>12. E!MembersExist'
  BY <1>2, <1>3, <1>4 DEF E!EInv, E!BooksOutliveGroups, E!MembersExist
<1>13. E!PaymentsStay'
  <2>1. IsFiniteSet(Groups \cup {None})
    BY PeopleAssumption, FS_AddElement
  <2>2. SumFunctionOnSet(E!NoMoney, Groups \cup {None}) = 0
    BY <1>2, <2>1, SumZero
  <2>3. E!SumFunctionOnSet(E!NoMoney, Groups \cup {None}) = 0
    BY <2>2, PaidIsSum
  <2> SUFFICES ASSUME NEW t \in Students
               PROVE  /\ \A g \in Groups : payments'[t][g] > 0 => g \in E!Existing
                      /\ E!SumFunctionOnSet(payments'[t], Groups \cup {None}) = paid'[t]
    BY <1>4 DEF E!PaymentsStay
  <2>4. CASE t = s
    BY <1>2, <1>3, <2>3, <2>4
  <2>5. CASE t # s
    BY <1>3, <2>5 DEF E!EInv, E!BooksOutliveGroups, E!PaymentsStay
  <2> QED
    BY <2>4, <2>5
<1> QED
  BY <1>6, <1>7, <1>8, <1>9, <1>10, <1>11, <1>12, <1>13 DEF E!EInv, E!BooksOutliveGroups

\* An invitation activates the user of a student alone.
LEMMA RegisterLinkedStep ==
  ASSUME E!EInv, NEW s \in Students, E!RegisterLinked(s)
  PROVE  E!EInv'
<1>1. /\ login' = [login EXCEPT ![s] = TRUE] /\ linked' = linked \cup {s}
      /\ UNCHANGED <<limit, status, student, member, payments, seen>>
      /\ UNCHANGED <<wanted, rejected, decided, patched, paid>>
  BY DEF E!RegisterLinked
<1>2. \A t \in Students : login'[t] = IF t = s THEN TRUE ELSE login[t]
  BY <1>1 DEF E!EInv, E!ETypeOK
<1>3. E!Enrolled' = E!Enrolled /\ E!Existing' = E!Existing
  BY <1>1 DEF E!Enrolled, E!Existing
<1>4. E!ETypeOK'
  BY <1>1 DEF E!EInv, E!ETypeOK
<1>5. E!RowsAreSound'
  BY <1>1, <1>3 DEF E!EInv, E!RowsAreSound
<1>6. E!AsRead' /\ E!WantedUntilDeleted'
  BY <1>1, <1>3 DEF E!EInv, E!AsRead, E!WantedUntilDeleted
<1>7. E!ReadIsCurrent'
  BY <1>1, <1>2, <1>3 DEF E!EInv, E!ReadIsCurrent, E!Nothing, E!Enrolled
<1>8. E!LoginMeansActive'
  BY <1>1, <1>2, <1>3 DEF E!EInv, E!LoginMeansActive, E!Enrolled
<1>9. E!ListedUntilDecided'
  BY <1>1, <1>3 DEF E!EInv, E!ListedUntilDecided, E!Listed
<1>10. E!MembersExist'
  BY <1>1, <1>3 DEF E!EInv, E!BooksOutliveGroups, E!MembersExist
<1>11. E!PaymentsStay'
  BY <1>1, <1>3, PaymentsKept
<1> QED
  BY <1>4, <1>5, <1>6, <1>7, <1>8, <1>9, <1>10, <1>11 DEF E!EInv, E!BooksOutliveGroups

-----------------------------------------------------------------------------
(* Students: payments and groups *)

\* What is there besides payments stays.
LEMMA OnlyPayments ==
  ASSUME E!EInv, UNCHANGED <<limit, status, student, login, member, seen>>,
         UNCHANGED <<wanted, rejected, decided, patched, linked>>,
         payments' \in [Students -> [Groups \cup {None} -> Nat]], paid' \in [Students -> Nat],
         E!PaymentsStay'
  PROVE  E!EInv'
<1>1. E!Enrolled' = E!Enrolled /\ E!Existing' = E!Existing
  BY DEF E!Enrolled, E!Existing
<1>2. E!ETypeOK' /\ E!RowsAreSound'
  BY <1>1 DEF E!EInv, E!ETypeOK, E!RowsAreSound
<1>3. E!AsRead' /\ E!WantedUntilDeleted'
  BY <1>1 DEF E!EInv, E!AsRead, E!WantedUntilDeleted
<1>4. E!ReadIsCurrent'
  BY <1>1 DEF E!EInv, E!ReadIsCurrent, E!Nothing
<1>5. E!LoginMeansActive' /\ E!ListedUntilDecided'
  BY <1>1 DEF E!EInv, E!LoginMeansActive, E!ListedUntilDecided, E!Listed
<1>6. E!MembersExist'
  BY <1>1 DEF E!EInv, E!BooksOutliveGroups, E!MembersExist
<1> QED
  BY <1>2, <1>3, <1>4, <1>5, <1>6 DEF E!EInv, E!BooksOutliveGroups

\* A payment is one more, of its group or of none.
LEMMA PayStep ==
  ASSUME E!EInv, NEW s \in Students, NEW g \in Groups \cup {None}, E!Pay(s, g)
  PROVE  E!EInv'
<1> DEFINE All == Groups \cup {None}
           was == payments[s]
           now == [payments[s] EXCEPT ![g] = payments[s][g] + 1]
<1>1. /\ g \in E!Existing \cup {None} /\ payments' = [payments EXCEPT ![s] = now]
      /\ paid' = [paid EXCEPT ![s] = paid[s] + 1]
      /\ UNCHANGED <<limit, status, student, login, member, seen>>
      /\ UNCHANGED <<wanted, rejected, decided, patched, linked>>
  BY DEF E!Pay
<1>2. payments \in [Students -> [All -> Nat]] /\ paid \in [Students -> Nat]
  BY DEF E!EInv, E!RowsAreSound
<1>3. /\ now \in [All -> Nat] /\ now[g] = was[g] + 1
      /\ \A x \in All \ {g} : now[x] = was[x]
      /\ \A x \in All : was[x] \in Int
  BY <1>2
<1>4. IsFiniteSet(All)
  BY PeopleAssumption, FS_AddElement
<1> HIDE DEF All, was, now
<1>5. SumFunctionOnSet(now, All) = SumFunctionOnSet(was, All) + 1
  BY <1>3, <1>4, SumChange DEF All
<1>6. \A t \in Students : /\ payments'[t] = IF t = s THEN now ELSE payments[t]
                          /\ paid'[t] = IF t = s THEN paid[s] + 1 ELSE paid[t]
  BY <1>1, <1>2
<1>7. E!Existing' = E!Existing
  BY <1>1 DEF E!Existing
<1>8. E!PaymentsStay'
  <2> SUFFICES ASSUME NEW t \in Students
               PROVE  /\ \A x \in Groups : payments'[t][x] > 0 => x \in E!Existing
                      /\ E!SumFunctionOnSet(payments'[t], All) = paid'[t]
    BY <1>7 DEF E!PaymentsStay, All
  <2>1. CASE t = s
    <3>1. \A x \in Groups : was[x] > 0 => x \in E!Existing
      BY DEF E!EInv, E!BooksOutliveGroups, E!PaymentsStay, was
    <3>2. E!SumFunctionOnSet(was, All) = paid[s]
      BY DEF E!EInv, E!BooksOutliveGroups, E!PaymentsStay, was, All
    <3>3. E!SumFunctionOnSet(now, All) = paid[s] + 1
      BY <1>5, <3>2, PaidIsSum
    <3>4. \A x \in Groups : now[x] > 0 => x \in E!Existing
      BY <1>1, <1>3, <3>1, PeopleAssumption DEF All
    <3> QED
      BY <1>6, <2>1, <3>3, <3>4
  <2>2. CASE t # s
    BY <1>6, <2>2 DEF E!EInv, E!BooksOutliveGroups, E!PaymentsStay, All
  <2> QED
    BY <2>1, <2>2
<1>9. payments' \in [Students -> [Groups \cup {None} -> Nat]] /\ paid' \in [Students -> Nat]
  BY <1>1, <1>2, <1>3 DEF All
<1> QED
  BY <1>1, <1>8, <1>9, OnlyPayments

\* A group comes or changes its status; the request that changes it ends.
LEMMA GroupStep ==
  ASSUME E!EInv, NEW g \in Groups, NEW to \in E!Statuses, status' = [status EXCEPT ![g] = to],
         status[g] # "deleted",
         \/ seen' = seen
         \/ \E c \in Clerks : seen' = [seen EXCEPT ![c] = E!Nothing],
         UNCHANGED <<limit, student, login, member, payments>>,
         UNCHANGED <<wanted, rejected, decided, patched, linked, paid>>
  PROVE  E!EInv'
<1>1. /\ \A x \in Groups : status'[x] = IF x = g THEN to ELSE status[x]
      /\ to # None /\ to # "deleted"
  BY PeopleAssumption DEF E!EInv, E!ETypeOK, E!Statuses
<1>2. /\ E!Nothing \in E!Seen /\ E!Nothing.student = None
      /\ seen' \in [Clerks -> E!Seen] /\ \A o \in Clerks : seen'[o] = seen[o] \/ seen'[o] = E!Nothing
  BY DEF E!EInv, E!RowsAreSound, E!Seen, E!Nothing
<1>3. E!Enrolled' = E!Enrolled /\ E!Existing \subseteq E!Existing'
  BY <1>1 DEF E!Enrolled, E!Existing
<1>4. E!ETypeOK'
  BY <1>3 DEF E!EInv, E!ETypeOK
<1>5. E!RowsAreSound'
  BY <1>2, <1>3 DEF E!EInv, E!RowsAreSound
<1>6. E!AsRead'
  <2> SUFFICES ASSUME NEW a \in Clerks, NEW t \in E!Enrolled, seen'[a].student = t
               PROVE  /\ student[t].waiting \subseteq seen'[a].row.waiting
                      /\ \A x \in Groups : seen'[a].member[x] # "none" =>
                           status'[x] # None /\ (status'[x] = "deleted" \/ member[t][x] # "none")
    BY <1>3 DEF E!AsRead
  <2>1. seen'[a] = seen[a]
    BY <1>2, PeopleAssumption DEF E!Enrolled
  <2>2. /\ student[t].waiting \subseteq seen[a].row.waiting
        /\ \A x \in Groups : seen[a].member[x] # "none" =>
             status[x] # None /\ (status[x] = "deleted" \/ member[t][x] # "none")
    BY <2>1 DEF E!EInv, E!AsRead
  <2> QED
    BY <1>1, <2>1, <2>2
<1>7. E!WantedUntilDeleted'
  <2> SUFFICES ASSUME NEW t \in E!Enrolled, t \notin rejected, NEW x \in wanted[t]
               PROVE  x \in student[t].waiting \/ member[t][x] # "none" \/ status'[x] = "deleted"
    BY <1>3 DEF E!WantedUntilDeleted
  <2>1. x \in student[t].waiting \/ member[t][x] # "none" \/ status[x] = "deleted"
    BY DEF E!EInv, E!WantedUntilDeleted
  <2>2. x \in Groups
    BY DEF E!EInv, E!RowsAreSound, E!Enrolled
  <2> QED
    BY <1>1, <2>1, <2>2
<1>8. E!ReadIsCurrent'
  BY <1>2, <1>3 DEF E!EInv, E!ReadIsCurrent, E!Nothing
<1>9. E!LoginMeansActive' /\ E!ListedUntilDecided'
  BY <1>3 DEF E!EInv, E!LoginMeansActive, E!ListedUntilDecided, E!Listed
<1>10. E!MembersExist'
  BY <1>3 DEF E!EInv, E!BooksOutliveGroups, E!MembersExist
<1>11. E!PaymentsStay'
  BY <1>3, PaymentsKept
<1> QED
  BY <1>4, <1>5, <1>6, <1>7, <1>8, <1>9, <1>10, <1>11 DEF E!EInv, E!BooksOutliveGroups

\* A group is created.
LEMMA CreateGroupStep ==
  ASSUME E!EInv, NEW g \in Groups, E!CreateGroup(g)
  PROVE  E!EInv'
<1>1. /\ status[g] = None /\ status' = [status EXCEPT ![g] = "active"]
      /\ UNCHANGED <<limit, student, login, member, payments, seen>>
      /\ UNCHANGED <<wanted, rejected, decided, patched, linked, paid>>
  BY DEF E!CreateGroup, E!history
<1>2. "active" \in E!Statuses /\ status[g] # "deleted"
  BY <1>1, PeopleAssumption DEF E!Statuses
<1> QED
  BY <1>1, <1>2, GroupStep

\* PATCH of a group writes the status that differs from the one it read.
LEMMA UpdateGroupStep ==
  ASSUME E!EInv, NEW c \in Clerks, NEW to \in E!Statuses, E!UpdateGroup(c, to)
  PROVE  E!EInv'
<1> DEFINE g   == seen[c].group
           new == IF to = seen[c].status THEN status[g] ELSE to
<1>1. /\ g # None /\ g \in E!Existing /\ status' = [status EXCEPT ![g] = new]
      /\ seen' = [seen EXCEPT ![c] = E!Nothing]
      /\ UNCHANGED <<limit, student, login, member, payments>>
      /\ UNCHANGED <<wanted, rejected, decided, patched, linked, paid>>
  BY DEF E!UpdateGroup, E!Done, E!history
<1>2. g \in Groups /\ status[g] \in E!Statuses
  BY <1>1 DEF E!Existing
<1>3. new \in E!Statuses /\ status[g] # "deleted"
  BY <1>2 DEF E!Statuses
<1> HIDE DEF g, new
<1> QED
  BY <1>1, <1>2, <1>3, GroupStep

\* A group goes with its memberships, and its payments stay without it.
LEMMA DeleteGroupStep ==
  ASSUME E!EInv, NEW c \in Clerks, E!DeleteGroup(c)
  PROVE  E!EInv'
<1> DEFINE g == seen[c].group
           All == Groups \cup {None}
<1>1. /\ g # None /\ g \in E!Existing /\ status' = [status EXCEPT ![g] = "deleted"]
      /\ payments' = [t \in Students |->
                        [payments[t] EXCEPT ![None] = @ + payments[t][g], ![g] = 0]]
      /\ member' = [t \in Students |-> [member[t] EXCEPT ![g] = "none"]]
      /\ seen' = [seen EXCEPT ![c] = E!Nothing] /\ UNCHANGED <<limit, student, login>>
      /\ UNCHANGED <<wanted, rejected, decided, patched, linked, paid>>
  BY DEF E!DeleteGroup, E!Done, E!history
<1>2. g \in Groups /\ status[g] \in E!Statuses
  BY <1>1 DEF E!Existing
<1> HIDE DEF g
<1>3. \A x \in Groups : status'[x] = IF x = g THEN "deleted" ELSE status[x]
  BY <1>1, <1>2 DEF E!EInv, E!ETypeOK
<1>4. /\ member' \in [Students -> [Groups -> E!Marks]]
      /\ \A t \in Students, x \in Groups : member'[t][x] = IF x = g THEN "none" ELSE member[t][x]
  BY <1>1, <1>2 DEF E!EInv, E!RowsAreSound, E!Marks
<1>5. /\ E!Nothing \in E!Seen /\ E!Nothing.student = None /\ seen' \in [Clerks -> E!Seen]
      /\ \A o \in Clerks : seen'[o] = seen[o] \/ seen'[o] = E!Nothing
  BY <1>1 DEF E!EInv, E!RowsAreSound, E!Seen, E!Nothing
<1>6. E!Enrolled' = E!Enrolled /\ E!Existing' = E!Existing \ {g}
  BY <1>1, <1>3 DEF E!Enrolled, E!Existing, E!Statuses
<1>7. payments \in [Students -> [All -> Nat]] /\ paid \in [Students -> Nat]
  BY DEF E!EInv, E!RowsAreSound
<1>8. payments' \in [Students -> [All -> Nat]]
  BY <1>1, <1>2, <1>7
<1>9. E!ETypeOK'
  <2>1. status' \in [Groups -> E!Statuses \cup {None, "deleted"}]
    BY <1>1 DEF E!EInv, E!ETypeOK
  <2> QED
    BY <1>1, <1>4, <2>1 DEF E!EInv, E!ETypeOK, E!Marks
<1>10. E!RowsAreSound'
  BY <1>1, <1>4, <1>5, <1>6, <1>8 DEF E!EInv, E!RowsAreSound
<1>11. E!AsRead'
  <2> SUFFICES ASSUME NEW a \in Clerks, NEW t \in E!Enrolled, seen'[a].student = t
               PROVE  /\ student[t].waiting \subseteq seen'[a].row.waiting
                      /\ \A x \in Groups : seen'[a].member[x] # "none" =>
                           status'[x] # None /\ (status'[x] = "deleted" \/ member'[t][x] # "none")
    BY <1>1, <1>6 DEF E!AsRead
  <2>1. seen'[a] = seen[a] /\ t \in Students
    BY <1>5, PeopleAssumption DEF E!Enrolled
  <2>2. /\ student[t].waiting \subseteq seen[a].row.waiting
        /\ \A x \in Groups : seen[a].member[x] # "none" =>
             status[x] # None /\ (status[x] = "deleted" \/ member[t][x] # "none")
    BY <2>1 DEF E!EInv, E!AsRead
  <2> QED
    BY <1>3, <1>4, <2>1, <2>2, PeopleAssumption
<1>12. E!WantedUntilDeleted'
  <2> SUFFICES ASSUME NEW t \in E!Enrolled, t \notin rejected, NEW x \in wanted[t]
               PROVE  x \in student[t].waiting \/ member'[t][x] # "none" \/ status'[x] = "deleted"
    BY <1>1, <1>6 DEF E!WantedUntilDeleted
  <2>1. x \in student[t].waiting \/ member[t][x] # "none" \/ status[x] = "deleted"
    BY DEF E!EInv, E!WantedUntilDeleted
  <2>2. x \in Groups /\ t \in Students
    BY DEF E!EInv, E!RowsAreSound, E!Enrolled
  <2> QED
    BY <1>3, <1>4, <2>1, <2>2
<1>13. E!ReadIsCurrent'
  BY <1>1, <1>5, <1>6 DEF E!EInv, E!ReadIsCurrent, E!Nothing
<1>14. E!LoginMeansActive' /\ E!ListedUntilDecided'
  BY <1>1, <1>6 DEF E!EInv, E!LoginMeansActive, E!ListedUntilDecided, E!Listed
<1>15. E!MembersExist'
  BY <1>4, <1>6 DEF E!EInv, E!BooksOutliveGroups, E!MembersExist
<1>16. E!PaymentsStay'
  <2> SUFFICES ASSUME NEW t \in Students
               PROVE  /\ \A x \in Groups : payments'[t][x] > 0 => x \in E!Existing \ {g}
                      /\ E!SumFunctionOnSet(payments'[t], All) = paid'[t]
    BY <1>6 DEF E!PaymentsStay
  <2> DEFINE f == payments[t]
             h == [f EXCEPT ![None] = f[None] + f[g]]
  <2>1. g \in All /\ g # None /\ None \in All /\ IsFiniteSet(All)
    BY <1>1, <1>2, PeopleAssumption, FS_AddElement
  <2>2. payments'[t] = [h EXCEPT ![g] = 0]
    BY <1>1
  <2>3. f \in [All -> Nat]
    BY <1>7
  <2> HIDE DEF All, f
  <2>4. /\ h[None] = f[None] + f[g] /\ \A x \in All \ {None} : h[x] = f[x]
        /\ h \in [All -> Nat] /\ f[g] \in Int
    BY <2>1, <2>3
  <2> HIDE DEF h
  <2>5. /\ payments'[t][g] = h[g] + (0 - h[g]) /\ \A x \in All \ {g} : payments'[t][x] = h[x]
        /\ h[g] \in Int /\ 0 - h[g] \in Int /\ h[g] = f[g] /\ payments'[t][g] = 0
    BY <2>1, <2>2, <2>4
  <2>6. SumFunctionOnSet(h, All) = SumFunctionOnSet(f, All) + f[g]
    BY <2>1, <2>3, <2>4, SumChange
  <2>7. SumFunctionOnSet(payments'[t], All) = SumFunctionOnSet(h, All) + (0 - h[g])
    BY <2>1, <2>4, <2>5, SumChange
  <2>8. SumFunctionOnSet(f, All) \in Int
    BY <2>1, <2>3, SumType
  <2>9. SumFunctionOnSet(payments'[t], All) = SumFunctionOnSet(f, All)
    BY <2>4, <2>5, <2>6, <2>7, <2>8
  <2>10. E!SumFunctionOnSet(payments'[t], All) = E!SumFunctionOnSet(f, All)
    BY <2>9, PaidIsSum
  <2>11. /\ E!SumFunctionOnSet(f, All) = paid[t]
         /\ \A x \in Groups : f[x] > 0 => x \in E!Existing
    BY DEF E!EInv, E!BooksOutliveGroups, E!PaymentsStay, All, f
  <2>12. \A x \in Groups : payments'[t][x] > 0 => x \in E!Existing \ {g}
    <3> SUFFICES ASSUME NEW x \in Groups, payments'[t][x] > 0
                 PROVE  x \in E!Existing \ {g}
      OBVIOUS
    <3>1. x # g
      BY <2>5
    <3>2. x \in All \ {g} /\ x \in All \ {None}
      BY <3>1, PeopleAssumption DEF All
    <3>3. payments'[t][x] = f[x]
      BY <2>4, <2>5, <3>2
    <3> QED
      BY <2>11, <3>1, <3>3
  <2> QED
    BY <1>1, <2>10, <2>11, <2>12
<1> QED
  BY <1>9, <1>10, <1>11, <1>12, <1>13, <1>14, <1>15, <1>16 DEF E!EInv, E!BooksOutliveGroups

-----------------------------------------------------------------------------
(* Students: the theorems *)

\* The invariant holds at first.
LEMMA StudentsStart == E!EInit => E!EInv
<1> SUFFICES ASSUME E!EInit
             PROVE  E!EInv
  OBVIOUS
<1>1. /\ status \in [Groups -> {"active", None}] /\ student = [s \in Students |-> None]
      /\ login = [s \in Students |-> FALSE] /\ member = [s \in Students |-> E!Out]
      /\ payments = [s \in Students |-> E!NoMoney] /\ seen = [c \in Clerks |-> E!Nothing]
      /\ wanted = [s \in Students |-> {}] /\ paid = [s \in Students |-> 0] /\ decided = {}
  BY DEF E!EInit
<1>2. /\ E!Nothing \in E!Seen /\ E!Nothing.student = None
      /\ E!Out \in [Groups -> E!Marks] /\ \A g \in Groups : E!Out[g] = "none"
      /\ E!NoMoney \in [Groups \cup {None} -> Nat] /\ \A g \in Groups \cup {None} : E!NoMoney[g] = 0
  BY DEF E!Seen, E!Nothing, E!Out, E!Marks, E!NoMoney
<1>3. E!Enrolled = {}
  BY <1>1 DEF E!Enrolled
<1>4. E!ETypeOK
  BY <1>1, <1>2 DEF E!ETypeOK, E!Marks, E!Statuses
<1>5. E!RowsAreSound
  BY <1>1, <1>2 DEF E!RowsAreSound
<1>6. E!AsRead /\ E!WantedUntilDeleted /\ E!LoginMeansActive /\ E!ListedUntilDecided
  BY <1>3 DEF E!AsRead, E!WantedUntilDeleted, E!LoginMeansActive, E!ListedUntilDecided
<1>7. E!ReadIsCurrent
  BY <1>1, <1>2 DEF E!ReadIsCurrent, E!Nothing
<1>8. E!MembersExist
  BY <1>1, <1>2 DEF E!MembersExist
<1>9. E!PaymentsStay
  <2>1. IsFiniteSet(Groups \cup {None})
    BY PeopleAssumption, FS_AddElement
  <2>2. SumFunctionOnSet(E!NoMoney, Groups \cup {None}) = 0
    BY <1>2, <2>1, SumZero
  <2>3. E!SumFunctionOnSet(E!NoMoney, Groups \cup {None}) = 0
    BY <2>2, PaidIsSum
  <2> QED
    BY <1>1, <1>2, <2>3 DEF E!PaymentsStay
<1> QED
  BY <1>4, <1>5, <1>6, <1>7, <1>8, <1>9 DEF E!EInv, E!BooksOutliveGroups

\* Every operation keeps it.
LEMMA StudentsStep ==
  ASSUME E!EInv, E!ENext
  PROVE  E!EInv'
<1>1. ASSUME NEW s \in Students, NEW gs \in SUBSET Groups,
             E!CreateApproved(s, gs) \/ E!CreateByTeacher(s, gs)
      PROVE  E!EInv'
  BY <1>1, CreateApprovedStep, CreateByTeacherStep
<1>2. ASSUME NEW s \in Students, E!RegisterLinked(s)
      PROVE  E!EInv'
  BY <1>2, RegisterLinkedStep
<1>3. ASSUME NEW s \in Students, NEW g \in Groups \cup {None}, E!Pay(s, g)
      PROVE  E!EInv'
  BY <1>3, PayStep
<1>4. ASSUME NEW g \in Groups, E!CreateGroup(g)
      PROVE  E!EInv'
  BY <1>4, CreateGroupStep
<1>5. ASSUME NEW c \in Clerks, NEW s \in Students, E!Load(c, s)
      PROVE  E!EInv'
  BY <1>5, LoadStep
<1>6. ASSUME NEW c \in Clerks, NEW g \in Groups,
             \/ E!LoadGroup(c, g) \/ E!AddToGroup(c, g) \/ E!RemoveFromGroup(c, g)
             \/ E!TeacherEnrolls(c, g) \/ E!TeacherRemoves(c, g)
      PROVE  E!EInv'
  BY <1>6, LoadGroupStep, AddToGroupStep, RemoveFromGroupStep DEF E!TeacherEnrolls, E!TeacherRemoves
<1>7. ASSUME NEW c \in Clerks, NEW a \in BOOLEAN \cup {None}, NEW b \in BOOLEAN \cup {None},
             E!Update(c, a, b)
      PROVE  E!EInv'
  BY <1>7, UpdateStep
<1>8. ASSUME NEW c \in Clerks, NEW to \in E!Statuses, E!UpdateGroup(c, to)
      PROVE  E!EInv'
  BY <1>8, UpdateGroupStep
<1>9. ASSUME NEW c \in Clerks, E!Approve(c) \/ E!Reject(c) \/ E!RestoreStudent(c) \/ E!DeleteStudent(c)
      PROVE  E!EInv'
  BY <1>9, ApproveStep, RejectStep, RestoreStep, DeleteStudentStep
<1>10. ASSUME NEW c \in Clerks,
              E!DeleteGroup(c) \/ E!RestoreGroup(c) \/ E!PermanentDeleteGroup(c) \/ E!Abort(c)
       PROVE  E!EInv'
  <2>1. "active" \in E!Statuses
    BY DEF E!Statuses
  <2> QED
    BY <1>10, <2>1, DeleteGroupStep, UpdateGroupStep, AbortStep DEF E!RestoreGroup, E!PermanentDeleteGroup
<1> QED
  BY <1>1, <1>2, <1>3, <1>4, <1>5, <1>6, <1>7, <1>8, <1>9, <1>10 DEF E!ENext

\* The invariant of students and groups always holds.
LEMMA StudentsAlways == E!ESpec => []E!EInv
<1>1. ASSUME E!EInv, UNCHANGED <<limit, E!evars>>
      PROVE  E!EInv'
  <2>1. /\ UNCHANGED <<limit, status, student, login, member, seen, payments>>
        /\ UNCHANGED <<wanted, rejected, decided, patched, linked, paid>>
    BY <1>1 DEF E!evars, E!history
  <2>2. payments' \in [Students -> [Groups \cup {None} -> Nat]] /\ paid' \in [Students -> Nat]
    BY <1>1, <2>1 DEF E!EInv, E!RowsAreSound
  <2>3. E!PaymentsStay'
    BY <1>1, <2>1, PaymentsKept DEF E!Existing
  <2> QED
    BY <1>1, <2>1, <2>2, <2>3, OnlyPayments
<1> QED
  BY <1>1, StudentsStart, StudentsStep, PTL DEF E!ESpec

\* For any students, groups and requests: one request at a time, who may log in is
\* active, and a student is in the list of approvals exactly until he is decided; and
\* in whatever overlap a group that was asked for waits, or the student was put in it.
THEOREM ApprovalsAreWhole == E!ESpec => []ApprovalIsWhole
<1>1. ASSUME E!EInv
      PROVE  ApprovalIsWhole
  <2>1. E!WantedIsKept
    BY <1>1 DEF E!EInv, E!WantedUntilDeleted, E!WantedIsKept, E!Existing, E!Statuses
  <2> QED
    BY <1>1, <2>1 DEF ApprovalIsWhole, E!ApprovalIsWhole, E!EInv
<1> QED
  BY <1>1, StudentsAlways, PTL

\* For any students, groups and requests, in whatever overlap: no membership and no
\* payment is of a group or a student that is gone, and no payment is lost.
THEOREM BooksOutliveTheirGroups == E!ESpec => []BooksOutliveGroups
<1>1. ASSUME E!EInv
      PROVE  BooksOutliveGroups
  BY <1>1 DEF BooksOutliveGroups, E!EInv
<1> QED
  BY <1>1, StudentsAlways, PTL

-----------------------------------------------------------------------------
(* Staff: what a request has read and writes *)

\* What a request under way has read.
LEMMA ReadType ==
  ASSUME S!StaffInv, NEW a \in Admins, request[a] # None
  PROVE  /\ request[a] \in S!Request /\ request[a].user \in Staffers
         /\ request[a].account \in S!Account /\ request[a].held \in [Roles -> S!Marks]
         /\ request[a].profile \in [Profiles -> {None} \cup S!ProfileRow]
         /\ a \in S!Reading
<1>1. request[a] \in S!Request
  BY DEF S!StaffInv, S!RowsAreSound
<1> QED
  BY <1>1 DEF S!Request, S!Reading

\* Who has an account has rows of the types of their columns.
LEMMA AccountType ==
  ASSUME S!StaffInv, NEW u \in S!Accounts
  PROVE  u \in Staffers /\ staffer[u] \in S!Account /\ held[u] \in [Roles -> S!Marks]
BY DEF S!StaffInv, S!RowsAreSound, S!Accounts

\* The repair and the notes of a step: who is not noted after it was not before, and
\* has an active row.
Noted ==
  /\ bare' = {u \in Staffers : staffer'[u] # None /\ (u \in bare \/ \A r \in Roles : held'[u][r] # "on")}
  /\ spare' = {u \in Staffers : staffer'[u] # None /\ (u \in spare \/
       (held'[u]["teacher"] # "none" /\ \A p \in Profiles : profile'[p] # None => profile'[p].user # u))}

\* A request that begins is alone when requests are served one at a time.
LEMMA AdminBeginsAlone ==
  ASSUME limit = 1, S!Cardinality({o \in Admins : request[o] # None}) < limit
  PROVE  \A o \in Admins : request[o] = None
<1> DEFINE Busy == {o \in Admins : request[o] # None}
<1>1. S!Cardinality(Busy) = Cardinality(Busy)
  BY Zenon DEF S!Cardinality, Cardinality
<1>2. IsFiniteSet(Busy)
  BY PeopleAssumption, FS_Subset
<1>3. Cardinality(Busy) = 0
  BY <1>1, <1>2, FS_CardinalityType
<1>4. Busy = {}
  BY <1>2, <1>3, FS_EmptySet
<1> QED
  BY <1>4

\* What is written of an account: the columns that were changed.
LEMMA WrittenAccount ==
  ASSUME NEW now \in S!Account, NEW was \in S!Account, NEW new \in S!Account
  PROVE  S!Written(now, was, new) \in S!Account /\ (now = was => S!Written(now, was, new) = new)
<1>1. was # None /\ new # None
  BY PeopleAssumption
<1> DEFINE both == [x \in DOMAIN new |-> IF new[x] = was[x] THEN now[x] ELSE new[x]]
           rec  == [active |-> IF new.active = was.active THEN now.active ELSE new.active,
                    role   |-> IF new.role = was.role THEN now.role ELSE new.role]
<1>2. both = rec
  BY DEF S!Account
<1>3. rec \in S!Account /\ (now = was => rec = new)
  BY DEF S!Account
<1>4. S!Written(now, was, new) = IF new = was THEN now ELSE both
  BY <1>1 DEF S!Written
<1> HIDE DEF both, rec
<1> QED
  BY <1>2, <1>3, <1>4

\* What is written of the rows of roles.
LEMMA WrittenRows ==
  ASSUME NEW now \in [Roles -> S!Marks], NEW was \in [Roles -> S!Marks], NEW new \in [Roles -> S!Marks]
  PROVE  /\ S!Written(now, was, new) \in [Roles -> S!Marks]
         /\ \A r \in Roles : S!Written(now, was, new)[r] = IF new[r] = was[r] THEN now[r] ELSE new[r]
         /\ now = was => S!Written(now, was, new) = new
<1>1. was # None /\ new # None
  BY PeopleAssumption
<1> DEFINE both == [x \in DOMAIN new |-> IF new[x] = was[x] THEN now[x] ELSE new[x]]
<1>2. both \in [Roles -> S!Marks] /\ \A r \in Roles : both[r] = IF new[r] = was[r] THEN now[r] ELSE new[r]
  OBVIOUS
<1>3. now = was => both = new
  BY <1>2
<1>4. S!Written(now, was, new) = IF new = was THEN now ELSE both
  BY <1>1 DEF S!Written
<1> HIDE DEF both
<1> QED
  BY <1>2, <1>3, <1>4

\* What is written of a profile stays one of the same user.
LEMMA WrittenProfile ==
  ASSUME NEW now \in S!ProfileRow, NEW was \in S!ProfileRow, NEW new \in S!ProfileRow,
         now.user = was.user, new.user = was.user
  PROVE  /\ S!Written(now, was, new) \in S!ProfileRow /\ S!Written(now, was, new).user = now.user
         /\ now = was => S!Written(now, was, new) = new
<1>1. was # None /\ new # None
  BY PeopleAssumption
<1> DEFINE both == [x \in DOMAIN new |-> IF new[x] = was[x] THEN now[x] ELSE new[x]]
           rec  == [user     |-> IF new.user = was.user THEN now.user ELSE new.user,
                    active   |-> IF new.active = was.active THEN now.active ELSE new.active,
                    approved |-> IF new.approved = was.approved THEN now.approved ELSE new.approved]
<1>2. both = rec
  BY DEF S!ProfileRow
<1>3. rec \in S!ProfileRow /\ (now = was => rec = new) /\ rec.user = now.user
  BY DEF S!ProfileRow
<1>4. S!Written(now, was, new) = IF new = was THEN now ELSE both
  BY <1>1 DEF S!Written
<1> HIDE DEF both, rec
<1> QED
  BY <1>2, <1>3, <1>4

-----------------------------------------------------------------------------
(* Staff: a COMMIT *)

\* A request that writes this account, these rows and these profiles of its user: no
\* row and no profile goes, one profile may come, with the row of a teacher, and the
\* default and the switch of roles are as they should be.
AccountIsWritten(a, acc, rows, profiles) ==
  /\ request[a] # None /\ acc \in S!Account /\ rows \in [Roles -> S!Marks]
  /\ profiles \in [Profiles -> {None} \cup S!ProfileRow]
  /\ S!Save(a, acc, rows, profiles)
  /\ \A r \in Roles : rows[r] = "none" => request[a].held[r] = "none"
  /\ \A p \in Profiles : request[a].profile[p] # None =>
       /\ profiles[p] # None /\ profiles[p].user = request[a].profile[p].user
       /\ profiles[p].user # request[a].user => profiles[p] = request[a].profile[p]
  /\ \A p \in Profiles : request[a].profile[p] = None /\ profiles[p] # None =>
       /\ profiles[p].user = request[a].user
       /\ S!Free(p) /\ S!Mine(a) = {} /\ rows["teacher"] = "on"
       /\ \A q \in Profiles \ {p} : request[a].profile[q] = None => profiles[q] = None
  /\ mixed \subseteq mixed'
  /\ limit = 1 /\ request[a].user \notin bare /\ (\E r \in Roles : rows[r] = "on") => rows[acc.role] = "on"
  /\ limit = 1 /\ request[a].user \notin bare \cup mixed' =>
       /\ acc.role \in {"teacher", "inspector"}
       /\ \A r \in Roles : rows[r] = "on" <=> r = acc.role
       /\ (\E p \in Profiles : profiles[p] # None /\ profiles[p].user = request[a].user
                               /\ profiles[p].active) <=> acc.role = "teacher"

\* What becomes of the account and of the rows.
LEMMA AccountWritten ==
  ASSUME S!StaffInv, NEW a \in Admins, NEW acc, NEW rows, NEW profiles,
         AccountIsWritten(a, acc, rows, profiles), NEW u, u = request[a].user
  PROVE  /\ u \in S!Accounts /\ S!Accounts' = S!Accounts
         /\ staffer' \in [Staffers -> {None} \cup S!Account]
         /\ held' \in [Staffers -> [Roles -> S!Marks]]
         /\ \A v \in Staffers \ {u} : staffer'[v] = staffer[v] /\ held'[v] = held[v]
         /\ \A r \in Roles : held[u][r] # "none" => held'[u][r] # "none"
         /\ rows["teacher"] = "on" /\ request[a].held["teacher"] = "none" =>
              held[u]["teacher"] = "none" /\ held'[u]["teacher"] = "on"
         /\ limit = 1 => staffer'[u] = acc
         /\ limit = 1 /\ u \notin bare => held'[u] = rows
<1> DEFINE was == request[a]
<1>1. /\ was \in S!Request /\ u \in Staffers /\ was.account \in S!Account
      /\ was.held \in [Roles -> S!Marks] /\ a \in S!Reading
  BY ReadType DEF AccountIsWritten
<1>2. /\ acc \in S!Account /\ rows \in [Roles -> S!Marks]
      /\ \A r \in Roles : rows[r] = "none" => was.held[r] = "none"
  BY DEF AccountIsWritten
<1>3. /\ u \in S!Accounts
      /\ \A r \in Roles : rows[r] # was.held[r] => (held[u][r] = "none") = (was.held[r] = "none")
      /\ staffer' = [staffer EXCEPT ![u] = S!Written(staffer[u], was.account, acc)]
      /\ held' = [held EXCEPT ![u] = S!Written(held[u], was.held, rows)]
      /\ limit' = limit
  BY DEF AccountIsWritten, S!Save
<1>4. staffer[u] \in S!Account /\ held[u] \in [Roles -> S!Marks]
  BY <1>3, AccountType
<1>5. /\ staffer \in [Staffers -> {None} \cup S!Account]
      /\ held \in [Staffers -> [Roles -> S!Marks]]
  BY DEF S!StaffInv, S!RowsAreSound
<1> DEFINE acc1 == S!Written(staffer[u], was.account, acc)
           rows1 == S!Written(held[u], was.held, rows)
<1>6. acc1 \in S!Account /\ (staffer[u] = was.account => acc1 = acc)
  BY <1>1, <1>2, <1>4, WrittenAccount
<1>7. /\ rows1 \in [Roles -> S!Marks]
      /\ \A r \in Roles : rows1[r] = IF rows[r] = was.held[r] THEN held[u][r] ELSE rows[r]
      /\ held[u] = was.held => rows1 = rows
  BY <1>1, <1>2, <1>4, WrittenRows
<1> HIDE DEF acc1, rows1
<1>8. /\ staffer' \in [Staffers -> {None} \cup S!Account] /\ held' \in [Staffers -> [Roles -> S!Marks]]
      /\ \A v \in Staffers \ {u} : staffer'[v] = staffer[v] /\ held'[v] = held[v]
      /\ staffer'[u] = acc1 /\ held'[u] = rows1
  BY <1>1, <1>3, <1>5, <1>6, <1>7 DEF acc1, rows1
<1>9. acc1 # None /\ staffer[u] # None
  BY <1>4, <1>6, PeopleAssumption
<1>10. S!Accounts' = S!Accounts
  BY <1>1, <1>8, <1>9 DEF S!Accounts
<1>11. \A r \in Roles : held[u][r] # "none" => rows1[r] # "none"
  BY <1>2, <1>7
<1>12. rows["teacher"] = "on" /\ was.held["teacher"] = "none" =>
         held[u]["teacher"] = "none" /\ rows1["teacher"] = "on"
  BY <1>3, <1>7, PeopleAssumption
<1>13. limit = 1 => was.account = staffer[u] /\ (u \notin bare => was.held = held[u])
  BY <1>1 DEF S!StaffInv, S!ReadIsCurrent
<1> QED
  BY <1>3, <1>6, <1>7, <1>8, <1>10, <1>11, <1>12, <1>13

\* What becomes of the profiles.
LEMMA ProfilesWritten ==
  ASSUME S!StaffInv, NEW a \in Admins, NEW acc, NEW rows, NEW profiles,
         AccountIsWritten(a, acc, rows, profiles), NEW u, u = request[a].user
  PROVE  /\ profile' \in [Profiles -> {None} \cup S!ProfileRow]
         /\ \A p \in Profiles : profile[p] # None =>
              /\ profile'[p] # None /\ profile'[p].user = profile[p].user
              /\ profile[p].user # u => profile'[p] = profile[p]
         /\ \A p \in Profiles : profile[p] = None /\ profile'[p] # None =>
              profiles[p] # None /\ request[a].profile[p] = None /\ profile'[p].user = u
         /\ limit = 1 => \A p \in Profiles :
              (profiles[p] # None /\ profiles[p].user = u) \/ (profile'[p] # None /\ profile'[p].user = u) =>
                profile'[p] = profiles[p]
<1> DEFINE was == request[a]
           new(p) == S!Written(profile[p], was.profile[p], profiles[p])
<1>1. /\ was \in S!Request /\ u \in Staffers
      /\ was.profile \in [Profiles -> {None} \cup S!ProfileRow] /\ a \in S!Reading
  BY ReadType DEF AccountIsWritten
<1>2. profiles \in [Profiles -> {None} \cup S!ProfileRow]
  BY DEF AccountIsWritten
<1>3. /\ \A p \in Profiles : profiles[p] # was.profile[p] => (profile[p] = None) = (was.profile[p] = None)
      /\ profile' = [p \in Profiles |-> new(p)]
  BY DEF AccountIsWritten, S!Save
<1>4. profile \in [Profiles -> {None} \cup S!ProfileRow]
  BY DEF S!StaffInv, S!RowsAreSound
<1>5. limit = 1 => \A p \in Profiles : was.profile[p] # None \/ p \in S!Of(u) => was.profile[p] = profile[p]
  BY <1>1 DEF S!StaffInv, S!ReadIsCurrent
<1>6. ASSUME NEW p \in Profiles
      PROVE  /\ profile'[p] \in {None} \cup S!ProfileRow
             /\ profile[p] # None =>
                  /\ profile'[p] # None /\ profile'[p].user = profile[p].user
                  /\ profile[p].user # u => profile'[p] = profile[p]
             /\ profile[p] = None /\ profile'[p] # None =>
                  profiles[p] # None /\ was.profile[p] = None /\ profile'[p].user = u
             /\ profile[p] = was.profile[p] => profile'[p] = profiles[p]
  <2>1. profile'[p] = new(p)
    BY <1>3
  <2>2. CASE profiles[p] = was.profile[p]
    <3>1. new(p) = profile[p]
      BY <2>2 DEF S!Written
    <3> QED
      BY <1>4, <2>1, <2>2, <3>1
  <2>3. CASE profiles[p] # was.profile[p] /\ was.profile[p] = None
    <3>1. new(p) = profiles[p]
      BY <2>3 DEF S!Written
    <3>2. profile[p] = None /\ profiles[p] \in S!ProfileRow /\ profiles[p].user = u
      BY <1>2, <1>3, <2>3 DEF AccountIsWritten
    <3> QED
      BY <1>2, <2>1, <2>3, <3>1, <3>2
  <2>4. CASE profiles[p] # was.profile[p] /\ was.profile[p] # None
    <3>1. profiles[p] # None /\ profiles[p].user = was.profile[p].user /\ was.profile[p].user = u
      BY <2>4 DEF AccountIsWritten
    <3>2. profile[p] # None
      BY <1>3, <2>4
    <3>3. profile[p].user = was.profile[p].user
      BY <1>1, <2>4, <3>2 DEF S!StaffInv, S!SameUser
    <3>4. profile[p] \in S!ProfileRow /\ was.profile[p] \in S!ProfileRow /\ profiles[p] \in S!ProfileRow
      BY <1>1, <1>2, <1>4, <2>4, <3>1, <3>2
    <3>5. /\ new(p) \in S!ProfileRow /\ new(p).user = profile[p].user
          /\ profile[p] = was.profile[p] => new(p) = profiles[p]
      <4> HIDE DEF was
      <4> QED
        BY <3>1, <3>3, <3>4, WrittenProfile
    <3>6. new(p) # None
      BY <3>5, PeopleAssumption
    <3> HIDE DEF new
    <3> QED
      BY <2>1, <2>4, <3>1, <3>2, <3>3, <3>5, <3>6
  <2> QED
    BY <2>2, <2>3, <2>4
<1> HIDE DEF new
<1>7. profile' \in [Profiles -> {None} \cup S!ProfileRow]
  BY <1>3, <1>6
<1>8. ASSUME limit = 1, NEW p \in Profiles,
             (profiles[p] # None /\ profiles[p].user = u) \/ (profile'[p] # None /\ profile'[p].user = u)
      PROVE  profile'[p] = profiles[p]
  <2>1. CASE was.profile[p] # None
    BY <1>5, <1>6, <1>8, <2>1
  <2>2. CASE profile[p] # None /\ profile[p].user = u
    BY <1>5, <1>6, <1>8, <2>2 DEF S!Of
  <2>3. CASE was.profile[p] = None /\ ~(profile[p] # None /\ profile[p].user = u)
    <3>1. CASE profile[p] = None
      BY <1>6, <2>3, <3>1
    <3>2. CASE profile[p] # None
      <4>1. profile[p].user # u /\ profile'[p].user # u
        BY <1>6, <2>3, <3>2
      <4>2. profiles[p] # None /\ profiles[p] # was.profile[p]
        BY <1>8, <2>3, <4>1
      <4> QED
        BY <1>3, <2>3, <3>2, <4>2
    <3> QED
      BY <3>1, <3>2
  <2> QED
    BY <2>1, <2>2, <2>3
<1> QED
  BY <1>6, <1>7, <1>8

\* The request is served, and the others have read what they had.
LEMMA RequestServed ==
  ASSUME S!StaffInv, NEW a \in Admins, request' = [request EXCEPT ![a] = None]
  PROVE  /\ request' \in [Admins -> {None} \cup S!Request]
         /\ S!Reading' = S!Reading \ {a}
         /\ \A b \in S!Reading' : request'[b] = request[b] /\ S!Mine(b)' = S!Mine(b)
         /\ limit = 1 /\ a \in S!Reading => S!Reading' = {}
<1>1. request \in [Admins -> {None} \cup S!Request]
  BY DEF S!StaffInv, S!RowsAreSound
<1>2. S!Reading' = S!Reading \ {a} /\ \A b \in S!Reading' : b # a /\ request'[b] = request[b]
  BY <1>1 DEF S!Reading
<1>3. \A b \in S!Reading' : S!Mine(b)' = S!Mine(b)
  BY <1>2 DEF S!Mine
<1>4. limit = 1 => \A b, c \in S!Reading : b = c
  BY DEF S!StaffInv, S!ReadIsCurrent
<1> QED
  BY <1>1, <1>2, <1>3, <1>4

\* The COMMIT keeps the invariant.
LEMMA WriteStep ==
  ASSUME S!StaffInv, Noted, NEW a \in Admins, NEW acc, NEW rows, NEW profiles,
         AccountIsWritten(a, acc, rows, profiles), NEW u, u = request[a].user
  PROVE  S!StaffInv'
<1> DEFINE was == request[a]
           Came(p) == profile[p] = None /\ profile'[p] # None
<1>1. /\ u \in S!Accounts /\ S!Accounts' = S!Accounts
      /\ staffer' \in [Staffers -> {None} \cup S!Account]
      /\ held' \in [Staffers -> [Roles -> S!Marks]]
      /\ \A v \in Staffers \ {u} : staffer'[v] = staffer[v] /\ held'[v] = held[v]
      /\ \A r \in Roles : held[u][r] # "none" => held'[u][r] # "none"
      /\ rows["teacher"] = "on" /\ was.held["teacher"] = "none" =>
           held[u]["teacher"] = "none" /\ held'[u]["teacher"] = "on"
      /\ limit = 1 => staffer'[u] = acc
      /\ limit = 1 /\ u \notin bare => held'[u] = rows
  BY AccountWritten
<1>2. /\ profile' \in [Profiles -> {None} \cup S!ProfileRow]
      /\ \A p \in Profiles : profile[p] # None =>
           /\ profile'[p] # None /\ profile'[p].user = profile[p].user
           /\ profile[p].user # u => profile'[p] = profile[p]
      /\ \A p \in Profiles : Came(p) => profiles[p] # None /\ was.profile[p] = None /\ profile'[p].user = u
      /\ limit = 1 => \A p \in Profiles :
           (profiles[p] # None /\ profiles[p].user = u) \/ (profile'[p] # None /\ profile'[p].user = u) =>
             profile'[p] = profiles[p]
  BY ProfilesWritten
<1>3. /\ was # None /\ request' = [request EXCEPT ![a] = None] /\ limit' = limit
      /\ mixed \subseteq mixed'
      /\ limit = 1 /\ u \notin bare /\ (\E r \in Roles : rows[r] = "on") => rows[acc.role] = "on"
      /\ limit = 1 /\ u \notin bare \cup mixed' =>
           /\ acc.role \in {"teacher", "inspector"}
           /\ \A r \in Roles : rows[r] = "on" <=> r = acc.role
           /\ (\E p \in Profiles : profiles[p] # None /\ profiles[p].user = u /\ profiles[p].active)
                <=> acc.role = "teacher"
  BY DEF AccountIsWritten, S!Save
<1>4. \A p \in Profiles : was.profile[p] = None /\ profiles[p] # None =>
        /\ S!Free(p) /\ S!Mine(a) = {} /\ rows["teacher"] = "on"
        /\ \A q \in Profiles \ {p} : was.profile[q] = None => profiles[q] = None
  BY DEF AccountIsWritten
<1>5. /\ request' \in [Admins -> {None} \cup S!Request]
      /\ S!Reading' = S!Reading \ {a}
      /\ \A b \in S!Reading' : request'[b] = request[b] /\ S!Mine(b)' = S!Mine(b)
      /\ limit = 1 => S!Reading' = {}
  BY <1>3, RequestServed DEF S!Reading
<1>6. S!Accounts \subseteq Staffers /\ u \in Staffers /\ a \in S!Reading
  BY <1>1, <1>3 DEF S!Accounts, S!Reading
<1>7. \A v \in S!Accounts \ spare' : v \notin spare /\ (held'[v]["teacher"] # "none" => S!Of(v)' # {})
  BY <1>1, <1>6 DEF Noted, S!Accounts, S!Of
<1>8. \A v \in S!Accounts \ bare' : v \notin bare /\ \E r \in Roles : held'[v][r] = "on"
  BY <1>1, <1>6 DEF Noted, S!Accounts
<1> HIDE DEF was
\* Who gets a profile had none, and has the row with it.
<1>9. ASSUME NEW p \in Profiles, Came(p)
      PROVE  /\ S!Free(p) /\ profile'[p].user = u
             /\ \A q \in Profiles : Came(q) => q = p
             /\ limit = 1 \/ u \notin spare' => S!Of(u) = {}
             /\ u \notin spare' => held'[u]["teacher"] = "on"
  <2>1. /\ profiles[p] # None /\ was.profile[p] = None /\ profile'[p].user = u
        /\ S!Free(p) /\ S!Mine(a) = {} /\ rows["teacher"] = "on"
        /\ \A q \in Profiles \ {p} : was.profile[q] = None => profiles[q] = None
    BY <1>2, <1>4, <1>9
  <2>2. \A q \in Profiles : Came(q) => q = p
    BY <1>2, <2>1
  <2>3. CASE u \notin spare'
    <3>1. was.held["teacher"] = "none" /\ (S!Of(u) # {} => held[u]["teacher"] # "none")
      BY <1>1, <1>6, <1>7, <2>1, <2>3 DEF S!StaffInv, S!RowComesWithProfile, was
    <3> QED
      BY <1>1, <2>1, <2>2, <3>1
  <2>4. CASE limit = 1
    <3>1. \A q \in S!Of(u) : was.profile[q] = profile[q]
      BY <1>6, <2>4 DEF S!StaffInv, S!ReadIsCurrent, S!Of, was
    <3>2. S!Of(u) = {}
      BY <2>1, <3>1 DEF S!Of, S!Mine, was
    <3> QED
      BY <2>1, <2>2, <2>3, <3>2
  <2> QED
    BY <2>1, <2>2, <2>3, <2>4
<1>10. \A v \in Staffers \ {u} : S!Of(v)' = S!Of(v)
  BY <1>2 DEF S!Of
<1>11. S!Of(u) \subseteq S!Of(u)' /\ \A p \in S!Of(u)' : p \in S!Of(u) \/ (p \in Profiles /\ Came(p))
  BY <1>2 DEF S!Of
<1>12. S!StaffTypeOK'
  <2>1. \A p \in Profiles : profile'[p] # None => profile'[p].user \in S!Accounts
    BY <1>1, <1>2 DEF S!StaffInv, S!StaffTypeOK
  <2>2. \A v \in Staffers \ S!Accounts : held'[v] = S!NoRows
    BY <1>1 DEF S!StaffInv, S!StaffTypeOK
  <2> QED
    BY <1>1, <2>1, <2>2 DEF S!StaffTypeOK, S!Account, S!Marks, S!NoRows
<1>13. S!RowsAreSound'
  BY <1>1, <1>2, <1>5 DEF S!RowsAreSound, S!Account, S!Marks, S!ProfileRow, S!Request
<1>14. S!SameUser'
  <2> SUFFICES ASSUME NEW b \in S!Reading', NEW p \in Profiles,
                      request'[b].profile[p] # None, profile'[p] # None
               PROVE  profile'[p].user = request'[b].profile[p].user
    BY DEF S!SameUser
  <2>1. b \in S!Reading /\ b \in Admins /\ request'[b] = request[b]
    BY <1>5 DEF S!Reading
  <2>2. CASE profile[p] # None
    BY <1>2, <2>1, <2>2 DEF S!StaffInv, S!SameUser
  <2>3. CASE profile[p] = None
    BY <1>9, <2>1, <2>3 DEF S!Free, S!Reading
  <2> QED
    BY <2>2, <2>3
<1>15. S!RowComesWithProfile'
  <2>1. ASSUME NEW b \in S!Reading', NEW v \in S!Accounts', v \notin spare',
               request'[b].user = v, S!Mine(b)' = {}
        PROVE  /\ request'[b].held["teacher"] = "none"
               /\ S!Of(v)' # {} => held'[v]["teacher"] # "none"
    <3>1. /\ b \in S!Reading /\ request'[b] = request[b] /\ S!Mine(b) = {}
          /\ v \in S!Accounts /\ v \notin spare /\ v \in Staffers
      BY <1>1, <1>5, <1>6, <1>7, <2>1
    <3>2. /\ request[b].held["teacher"] = "none"
          /\ S!Of(v) # {} => held[v]["teacher"] # "none"
      BY <2>1, <3>1 DEF S!StaffInv, S!RowComesWithProfile
    <3>3. CASE v # u
      BY <1>1, <1>10, <3>1, <3>2, <3>3
    <3>4. CASE v = u
      BY <1>1, <1>9, <1>11, <2>1, <3>1, <3>2, <3>4, PeopleAssumption
    <3> QED
      BY <3>3, <3>4
  <2> QED
    BY <1>1, <1>7, <2>1 DEF S!RowComesWithProfile
<1>16. S!ProfileIsOne'
  <2> SUFFICES ASSUME NEW v \in Staffers, limit = 1 \/ v \notin spare',
                      NEW p \in S!Of(v)', NEW q \in S!Of(v)'
               PROVE  p = q
    BY <1>3 DEF S!ProfileIsOne
  <2>1. CASE v # u
    <3>1. p \in S!Of(v) /\ q \in S!Of(v)
      BY <1>10, <2>1
    <3>2. v \in S!Accounts
      BY <3>1 DEF S!Of, S!StaffInv, S!StaffTypeOK
    <3> QED
      BY <1>7, <3>1, <3>2 DEF S!StaffInv, S!ProfileIsOne
  <2>2. CASE v = u
    BY <1>1, <1>7, <1>9, <1>11, <2>2 DEF S!StaffInv, S!ProfileIsOne
  <2> QED
    BY <2>1, <2>2
<1>17. S!ReadIsCurrent'
  BY <1>3, <1>5 DEF S!ReadIsCurrent
<1>18. S!DefaultIsHeld'
  <2> SUFFICES ASSUME limit = 1, NEW v \in S!Accounts, v \notin bare'
               PROVE  v \in Staffers /\ staffer'[v].role \in Roles /\ held'[v][staffer'[v].role] = "on"
    BY <1>1, <1>3, <1>6 DEF S!DefaultIsHeld, S!On
  <2>1. v \in Staffers /\ v \notin bare /\ \E r \in Roles : held'[v][r] = "on"
    BY <1>6, <1>8
  <2>2. CASE v # u
    <3>1. staffer[v].role \in S!On(v)
      BY <2>1 DEF S!StaffInv, S!DefaultIsHeld
    <3> QED
      BY <1>1, <2>1, <2>2, <3>1 DEF S!On
  <2>3. CASE v = u
    BY <1>1, <1>3, <2>1, <2>3 DEF AccountIsWritten, S!Account
  <2> QED
    BY <2>2, <2>3
<1>19. S!SwitchIsWhole' /\ S!SwitchedAreStaff'
  <2> SUFFICES ASSUME limit = 1, NEW v \in S!Accounts, v \notin bare', v \notin mixed'
               PROVE  /\ S!On(v)' = {staffer'[v].role}
                      /\ (S!Teaching(v)' # {}) <=> (staffer'[v].role = "teacher")
                      /\ staffer'[v].role \in {"teacher", "inspector"}
    BY <1>1, <1>3, <1>6 DEF S!SwitchIsWhole, S!SwitchedAreStaff
  <2>1. v \in Staffers /\ v \notin bare /\ v \notin mixed
    BY <1>3, <1>6, <1>8
  <2>2. CASE v # u
    <3>1. /\ S!On(v) = {staffer[v].role} /\ (S!Teaching(v) # {}) = (staffer[v].role = "teacher")
          /\ staffer[v].role \in {"teacher", "inspector"}
      BY <2>1 DEF S!StaffInv, S!SwitchIsWhole, S!SwitchedAreStaff
    <3>2. S!On(v)' = S!On(v) /\ staffer'[v] = staffer[v]
      BY <1>1, <2>1, <2>2 DEF S!On
    <3>3. S!Teaching(v)' = S!Teaching(v)
      BY <1>2, <2>2 DEF S!Teaching, S!Of
    <3> QED
      BY <3>1, <3>2, <3>3
  <2>3. CASE v = u
    <3>1. /\ acc.role \in {"teacher", "inspector"}
          /\ \A r \in Roles : rows[r] = "on" <=> r = acc.role
          /\ (\E p \in Profiles : profiles[p] # None /\ profiles[p].user = u /\ profiles[p].active)
               <=> acc.role = "teacher"
      BY <1>3, <2>1, <2>3
    <3>2. staffer'[u] = acc /\ held'[u] = rows
      BY <1>1, <2>1, <2>3
    <3>3. S!On(u)' = {acc.role}
      BY <3>1, <3>2, PeopleAssumption DEF S!On
    <3>4. S!Teaching(u)' # {} <=>
            \E p \in Profiles : profiles[p] # None /\ profiles[p].user = u /\ profiles[p].active
      BY <1>2 DEF S!Teaching, S!Of
    <3> QED
      BY <2>3, <3>1, <3>2, <3>3, <3>4
  <2> QED
    BY <2>2, <2>3
<1> QED
  BY <1>12, <1>13, <1>14, <1>15, <1>16, <1>17, <1>18, <1>19 DEF S!StaffInv

-----------------------------------------------------------------------------
(* Staff: the operations on an account that is there *)

\* One request at a time, what is read of who always had an active row has the default
\* role active, and the one role of who was only switched.
LEMMA DefaultIsRead ==
  ASSUME S!StaffInv, NEW a \in Admins, request[a] # None, limit = 1, request[a].user \notin bare
  PROVE  /\ request[a].held[request[a].account.role] = "on"
         /\ request[a].user \notin mixed =>
              /\ request[a].account.role \in {"teacher", "inspector"}
              /\ \A r \in Roles : request[a].held[r] = "on" <=> r = request[a].account.role
<1> DEFINE u == request[a].user
<1>1. u \in Staffers /\ request[a].account \in S!Account /\ a \in S!Reading
  BY ReadType
<1>2. u \in S!Accounts /\ request[a].account = staffer[u] /\ request[a].held = held[u]
  BY <1>1 DEF S!StaffInv, S!ReadIsCurrent
<1> HIDE DEF u
<1>3. staffer[u].role \in S!On(u)
  BY <1>2 DEF S!StaffInv, S!DefaultIsHeld, u
<1>4. u \notin mixed => staffer[u].role \in {"teacher", "inspector"} /\ S!On(u) = {staffer[u].role}
  BY <1>2 DEF S!StaffInv, S!SwitchIsWhole, S!SwitchedAreStaff, u
<1> QED
  BY <1>2, <1>3, <1>4 DEF S!On, u

\* A request that leaves the profiles alone, or changes some of its user's, and is noted
\* as an edit, when no row goes and the default role stays active.
LEMMA EditKeeps ==
  ASSUME S!StaffInv, Noted, NEW a \in Admins, request[a] # None,
         NEW acc \in S!Account, NEW rows \in [Roles -> S!Marks],
         NEW profiles \in [Profiles -> {None} \cup S!ProfileRow],
         S!Save(a, acc, rows, profiles), S!Edited(a),
         \A r \in Roles : rows[r] = "none" => request[a].held[r] = "none",
         \A p \in Profiles : request[a].profile[p] = None => profiles[p] = None,
         \A p \in Profiles : request[a].profile[p] # None =>
           /\ profiles[p] # None /\ profiles[p].user = request[a].profile[p].user
           /\ profiles[p].user # request[a].user => profiles[p] = request[a].profile[p],
         limit = 1 /\ request[a].user \notin bare /\ (\E r \in Roles : rows[r] = "on") => rows[acc.role] = "on"
  PROVE  S!StaffInv'
<1>1. AccountIsWritten(a, acc, rows, profiles)
  BY DEF AccountIsWritten, S!Edited
<1> QED
  BY <1>1, WriteStep

\* A user gets a role.
LEMMA AttachRoleStep ==
  ASSUME S!StaffInv, Noted, NEW a \in Admins, NEW r \in Roles, S!AttachRole(a, r)
  PROVE  S!StaffInv'
<1> DEFINE was == request[a]
           rows == [was.held EXCEPT ![r] = "on"]
<1>1. was # None /\ S!Edited(a) /\ S!Save(a, was.account, rows, was.profile)
  BY DEF S!AttachRole, S!Open, S!GrantRole
<1>2. /\ was.account \in S!Account /\ was.held \in [Roles -> S!Marks]
      /\ was.profile \in [Profiles -> {None} \cup S!ProfileRow]
  BY <1>1, ReadType
<1>3. rows \in [Roles -> S!Marks] /\ \A o \in Roles : rows[o] = IF o = r THEN "on" ELSE was.held[o]
  BY <1>2 DEF S!Marks
<1>4. limit = 1 /\ was.user \notin bare => was.held[was.account.role] = "on" /\ was.account.role \in Roles
  BY <1>1, <1>2, DefaultIsRead DEF S!Account
<1> HIDE DEF rows
<1> QED
  BY <1>1, <1>2, <1>3, <1>4, EditKeeps

\* A user loses a role.
LEMMA DetachRoleStep ==
  ASSUME S!StaffInv, Noted, NEW a \in Admins, NEW r \in Roles, S!DetachRole(a, r)
  PROVE  S!StaffInv'
<1> DEFINE was == request[a]
           rows == [was.held EXCEPT ![r] = IF @ = "none" THEN @ ELSE "off"]
<1>1. PICK d \in S!Defaults(was, r) : S!Save(a, [was.account EXCEPT !.role = d], rows, was.profile)
  BY DEF S!DetachRole, S!RevokeRole
<1>2. was # None /\ S!Edited(a)
  BY DEF S!DetachRole, S!Open
<1>3. /\ was.account \in S!Account /\ was.held \in [Roles -> S!Marks]
      /\ was.profile \in [Profiles -> {None} \cup S!ProfileRow]
  BY <1>2, ReadType
<1>4. /\ rows \in [Roles -> S!Marks]
      /\ \A o \in Roles : rows[o] = IF o = r THEN (IF was.held[r] = "none" THEN "none" ELSE "off") ELSE was.held[o]
  BY <1>3 DEF S!Marks
<1>5. /\ d \in Roles
      /\ \/ d \in Roles \ {r} /\ was.held[d] = "on"
         \/ d = was.account.role /\ (d = r => was.held[r] = "none" \/ \A o \in Roles \ {r} : was.held[o] # "on")
  BY <1>1, <1>3 DEF S!Defaults, S!Account
<1> DEFINE acc == [was.account EXCEPT !.role = d]
<1>6. acc \in S!Account /\ acc.role = d
  BY <1>3, <1>5 DEF S!Account
<1>7. limit = 1 /\ was.user \notin bare => was.held[was.account.role] = "on"
  BY <1>2, DefaultIsRead
<1> HIDE DEF rows, acc
<1>8. limit = 1 /\ was.user \notin bare /\ (\E o \in Roles : rows[o] = "on") => rows[acc.role] = "on"
  BY <1>4, <1>5, <1>6, <1>7
<1>9. S!Save(a, acc, rows, was.profile)
  BY <1>1 DEF acc
<1> QED
  BY <1>2, <1>3, <1>4, <1>6, <1>8, <1>9, EditKeeps

\* An inspector is made active or not.
LEMMA UpdateInspectorStep ==
  ASSUME S!StaffInv, Noted, NEW a \in Admins, NEW ok \in BOOLEAN, S!UpdateInspector(a, ok)
  PROVE  S!StaffInv'
<1> DEFINE was == request[a]
           acc == [was.account EXCEPT !.active = ok]
<1>1. was # None /\ S!Edited(a) /\ S!Save(a, acc, was.held, was.profile)
  BY DEF S!UpdateInspector, S!Open
<1>2. /\ was.account \in S!Account /\ was.held \in [Roles -> S!Marks]
      /\ was.profile \in [Profiles -> {None} \cup S!ProfileRow]
  BY <1>1, ReadType
<1>3. acc \in S!Account /\ acc.role = was.account.role
  BY <1>2 DEF S!Account
<1>4. limit = 1 /\ was.user \notin bare => was.held[was.account.role] = "on"
  BY <1>1, DefaultIsRead
<1> HIDE DEF acc
<1> QED
  BY <1>1, <1>2, <1>3, <1>4, EditKeeps

\* A teacher's account and profile are changed together.
LEMMA TeacherChanges ==
  ASSUME S!StaffInv, Noted, NEW a \in Admins, request[a] # None, NEW p \in S!Mine(a),
         NEW ok \in BOOLEAN, NEW row \in S!ProfileRow, row.user = request[a].user, S!Edited(a),
         S!Save(a, [request[a].account EXCEPT !.active = ok], request[a].held,
                [request[a].profile EXCEPT ![p] = row])
  PROVE  S!StaffInv'
<1> DEFINE was == request[a]
           acc == [was.account EXCEPT !.active = ok]
           profiles == [was.profile EXCEPT ![p] = row]
<1>1. /\ was.account \in S!Account /\ was.held \in [Roles -> S!Marks]
      /\ was.profile \in [Profiles -> {None} \cup S!ProfileRow]
  BY ReadType
<1>2. acc \in S!Account /\ acc.role = was.account.role
  BY <1>1 DEF S!Account
<1>3. p \in Profiles /\ was.profile[p] # None /\ was.profile[p].user = was.user
  BY DEF S!Mine
<1>4. /\ profiles \in [Profiles -> {None} \cup S!ProfileRow]
      /\ \A q \in Profiles : profiles[q] = IF q = p THEN row ELSE was.profile[q]
  BY <1>1, <1>3
<1>5. row # None
  BY PeopleAssumption
<1>6. limit = 1 /\ was.user \notin bare => was.held[was.account.role] = "on"
  BY DefaultIsRead
<1>7. S!Save(a, acc, was.held, profiles)
  OBVIOUS
<1> HIDE DEF acc, profiles
<1> QED
  BY <1>1, <1>2, <1>3, <1>4, <1>5, <1>6, <1>7, EditKeeps

\* A teacher is made active or not.
LEMMA SetActiveStep ==
  ASSUME S!StaffInv, Noted, NEW a \in Admins, NEW p \in Profiles, NEW ok \in BOOLEAN, S!SetActive(a, p, ok)
  PROVE  S!StaffInv'
<1> DEFINE was == request[a]
           row == [was.profile[p] EXCEPT !.active = ok]
<1>1. /\ was # None /\ p \in S!Mine(a) /\ S!Edited(a)
      /\ S!Save(a, [was.account EXCEPT !.active = ok], was.held, [was.profile EXCEPT ![p].active = ok])
  BY DEF S!SetActive, S!Open
<1>2. was.profile \in [Profiles -> {None} \cup S!ProfileRow] /\ was.profile[p] # None /\ was.profile[p].user = was.user
  BY <1>1, ReadType DEF S!Mine
<1>3. row \in S!ProfileRow /\ row.user = was.user
  BY <1>2 DEF S!ProfileRow
<1>4. [was.profile EXCEPT ![p].active = ok] = [was.profile EXCEPT ![p] = row]
  BY <1>2
<1> HIDE DEF row
<1> QED
  BY <1>1, <1>3, <1>4, TeacherChanges

\* A teacher is approved.
LEMMA ApproveTeacherStep ==
  ASSUME S!StaffInv, Noted, NEW a \in Admins, NEW p \in Profiles, S!ApproveTeacher(a, p)
  PROVE  S!StaffInv'
<1> DEFINE was == request[a]
           row == [[was.profile[p] EXCEPT !.active = TRUE] EXCEPT !.approved = TRUE]
           both == [was.profile EXCEPT ![p].active = TRUE, ![p].approved = TRUE]
<1>1. /\ was # None /\ p \in S!Mine(a) /\ S!Edited(a)
      /\ S!Save(a, [was.account EXCEPT !.active = TRUE], was.held, both)
  BY DEF S!ApproveTeacher, S!Open
<1>2. was.profile \in [Profiles -> {None} \cup S!ProfileRow] /\ was.profile[p] # None /\ was.profile[p].user = was.user
  BY <1>1, ReadType DEF S!Mine
<1>3. row \in S!ProfileRow /\ row.user = was.user
  BY <1>2 DEF S!ProfileRow
<1>4. both = [was.profile EXCEPT ![p] = row]
  BY <1>2
<1> HIDE DEF row, both
<1> QED
  BY <1>1, <1>3, <1>4, TeacherChanges

\* A user who has none gets the profile of a teacher, and the row.
LEMMA AttachTeacherStep ==
  ASSUME S!StaffInv, Noted, NEW a \in Admins, NEW p \in Profiles, NEW ok \in BOOLEAN, S!AttachTeacher(a, p, ok)
  PROVE  S!StaffInv'
<1> DEFINE was == request[a]
           rows == [was.held EXCEPT !["teacher"] = "on"]
           row == S!Profile(was.user, ok)
           profiles == [was.profile EXCEPT ![p] = row]
<1>1. /\ was # None /\ S!Mine(a) = {} /\ S!Free(p) /\ S!Edited(a)
      /\ S!Save(a, was.account, rows, profiles)
  BY DEF S!AttachTeacher, S!Open, S!GrantRole
<1>2. /\ was.account \in S!Account /\ was.held \in [Roles -> S!Marks] /\ was.user \in Staffers
      /\ was.profile \in [Profiles -> {None} \cup S!ProfileRow]
  BY <1>1, ReadType
<1>3. rows \in [Roles -> S!Marks] /\ \A o \in Roles : rows[o] = IF o = "teacher" THEN "on" ELSE was.held[o]
  BY <1>2 DEF S!Marks
<1>4. row \in S!ProfileRow /\ row.user = was.user
  BY <1>2 DEF S!Profile, S!ProfileRow
<1>5. /\ profiles \in [Profiles -> {None} \cup S!ProfileRow]
      /\ \A q \in Profiles : profiles[q] = IF q = p THEN row ELSE was.profile[q]
  BY <1>2, <1>4
<1>6. was.profile[p] = None
  BY <1>1 DEF S!Free
<1>7. limit = 1 /\ was.user \notin bare => was.held[was.account.role] = "on" /\ was.account.role \in Roles
  BY <1>1, <1>2, DefaultIsRead DEF S!Account
<1>8. mixed \subseteq mixed' /\ was.user \in mixed'
  BY <1>1 DEF S!Edited
<1> HIDE DEF rows, row, profiles
<1>9. AccountIsWritten(a, was.account, rows, profiles)
  BY <1>1, <1>2, <1>3, <1>4, <1>5, <1>6, <1>7, <1>8, PeopleAssumption DEF AccountIsWritten
<1> QED
  BY <1>9, WriteStep

\* A teacher becomes an inspector or an inspector a teacher.
LEMMA ChangeRoleStep ==
  ASSUME S!StaffInv, Noted, NEW a \in Admins, NEW from \in {"teacher", "inspector"},
         NEW to \in {"teacher", "inspector"}, NEW p \in Profiles, S!ChangeRole(a, from, to, p)
  PROVE  S!StaffInv'
<1> DEFINE was == request[a]
           acc == [active |-> TRUE, role |-> to]
           rows == [[was.held EXCEPT ![from] = IF @ = "none" THEN @ ELSE "off"] EXCEPT ![to] = "on"]
           turned(q) == [was.profile[q] EXCEPT !.active = to = "teacher", !.approved = @ \/ to = "teacher"]
           row == S!Profile(was.user, TRUE)
           profiles == [q \in Profiles |->
              IF q \in S!Mine(a) THEN turned(q)
              ELSE IF q = p /\ S!Mine(a) = {} /\ to = "teacher" THEN row
              ELSE was.profile[q]]
<1>1. /\ was # None /\ from # to /\ mixed' = mixed
      /\ S!Save(a, acc, rows, profiles)
      /\ to = "teacher" /\ S!Mine(a) = {} => S!Free(p)
  BY DEF S!ChangeRole, S!Open, S!GrantRole, S!RevokeRole
<1>2. /\ was.account \in S!Account /\ was.held \in [Roles -> S!Marks] /\ was.user \in Staffers
      /\ was.profile \in [Profiles -> {None} \cup S!ProfileRow]
  BY <1>1, ReadType
<1>3. from \in Roles /\ to \in Roles
  BY PeopleAssumption
<1>4. /\ rows \in [Roles -> S!Marks]
      /\ \A o \in Roles : rows[o] = IF o = to THEN "on"
                                    ELSE IF o = from /\ was.held[o] # "none" THEN "off"
                                    ELSE was.held[o]
  BY <1>1, <1>2, <1>3 DEF S!Marks
<1>5. acc \in S!Account /\ acc.role = to
  BY <1>3 DEF S!Account
<1>6. row \in S!ProfileRow /\ row.user = was.user /\ row.active = TRUE
  BY <1>2 DEF S!Profile, S!ProfileRow
<1>7. \A q \in S!Mine(a) : /\ q \in Profiles /\ was.profile[q] \in S!ProfileRow
                           /\ was.profile[q] # None /\ was.profile[q].user = was.user
  BY <1>2 DEF S!Mine
<1>8. \A q \in S!Mine(a) : /\ turned(q) \in S!ProfileRow /\ turned(q).user = was.user
                           /\ turned(q).active = (to = "teacher")
  BY <1>7 DEF S!ProfileRow
<1> HIDE DEF acc, rows, row, turned
<1>9. /\ profiles \in [Profiles -> {None} \cup S!ProfileRow]
      /\ \A q \in S!Mine(a) : profiles[q] = turned(q)
      /\ \A q \in Profiles \ S!Mine(a) :
           profiles[q] = IF q = p /\ S!Mine(a) = {} /\ to = "teacher" THEN row ELSE was.profile[q]
  BY <1>2, <1>6, <1>7, <1>8
<1> HIDE DEF profiles
<1>10. to = "teacher" /\ S!Mine(a) = {} => was.profile[p] = None
  BY <1>1 DEF S!Free
<1>11. \A q \in Profiles : was.profile[q] # None =>
         /\ profiles[q] # None /\ profiles[q].user = was.profile[q].user
         /\ profiles[q].user # was.user => profiles[q] = was.profile[q]
  BY <1>7, <1>8, <1>9, <1>10, PeopleAssumption
<1>12. \A q \in Profiles : was.profile[q] = None /\ profiles[q] # None =>
         /\ profiles[q].user = was.user /\ S!Free(q) /\ S!Mine(a) = {} /\ rows["teacher"] = "on"
         /\ \A o \in Profiles \ {q} : was.profile[o] = None => profiles[o] = None
  <2> SUFFICES ASSUME NEW q \in Profiles, was.profile[q] = None, profiles[q] # None
               PROVE  /\ profiles[q].user = was.user /\ S!Free(q) /\ S!Mine(a) = {} /\ rows["teacher"] = "on"
                      /\ \A o \in Profiles \ {q} : was.profile[o] = None => profiles[o] = None
    OBVIOUS
  <2>1. q \notin S!Mine(a)
    BY <1>7
  <2>2. q = p /\ S!Mine(a) = {} /\ to = "teacher" /\ profiles[q] = row
    BY <1>9, <2>1
  <2>3. \A o \in Profiles \ {q} : profiles[o] = was.profile[o]
    BY <1>9, <2>2
  <2> QED
    BY <1>1, <1>3, <1>4, <1>6, <2>2, <2>3
<1>13. limit = 1 /\ was.user \notin bare \cup mixed =>
         \A r \in Roles : rows[r] = "on" <=> r = to
  <2> SUFFICES ASSUME limit = 1, was.user \notin bare, was.user \notin mixed, NEW r \in Roles
               PROVE  rows[r] = "on" <=> r = to
    OBVIOUS
  <2>1. /\ was.account.role \in {from, to}
        /\ was.held[r] = "on" <=> r = was.account.role
    BY <1>1, DefaultIsRead
  <2> QED
    BY <1>1, <1>4, <2>1
<1>14. (\E q \in Profiles : profiles[q] # None /\ profiles[q].user = was.user /\ profiles[q].active)
         <=> to = "teacher"
  <2>1. CASE to = "teacher"
    <3>1. CASE S!Mine(a) = {}
      <4>1. profiles[p] = row
        BY <1>9, <2>1, <3>1
      <4>2. row # None
        BY <1>6, PeopleAssumption
      <4> QED
        BY <1>6, <2>1, <4>1, <4>2
    <3>2. ASSUME NEW q \in S!Mine(a)
          PROVE  \E o \in Profiles : profiles[o] # None /\ profiles[o].user = was.user /\ profiles[o].active
      <4>1. profiles[q] = turned(q) /\ turned(q) # None /\ q \in Profiles
        BY <1>7, <1>8, <1>9, PeopleAssumption
      <4> QED
        BY <1>8, <2>1, <4>1
    <3> QED
      BY <2>1, <3>1, <3>2
  <2>2. CASE to # "teacher"
    <3> SUFFICES ASSUME NEW q \in Profiles, profiles[q] # None, profiles[q].user = was.user, profiles[q].active
                 PROVE  FALSE
      BY <2>2
    <3>1. q \notin S!Mine(a)
      BY <1>8, <1>9, <2>2
    <3>2. profiles[q] = was.profile[q]
      BY <1>9, <2>2, <3>1
    <3> QED
      BY <1>1, <3>1, <3>2 DEF S!Mine
  <2> QED
    BY <2>1, <2>2
<1>15. rows[acc.role] = "on" /\ \A o \in Roles : rows[o] = "none" => was.held[o] = "none"
  BY <1>3, <1>4, <1>5
<1>16. AccountIsWritten(a, acc, rows, profiles)
  BY <1>1, <1>4, <1>5, <1>9, <1>11, <1>12, <1>13, <1>14, <1>15 DEF AccountIsWritten
<1> QED
  BY <1>16, WriteStep

-----------------------------------------------------------------------------
(* Staff: accounts that come and go, and the repair *)

\* What the notes of a step say of who has an account after it.
LEMMA NotesSay ==
  ASSUME Noted, NEW v \in S!Accounts'
  PROVE  /\ v \in Staffers
         /\ v \notin spare' => v \notin spare /\ (held'[v]["teacher"] # "none" => S!Of(v)' # {})
         /\ v \notin bare' => v \notin bare /\ \E r \in Roles : held'[v][r] = "on"
BY DEF Noted, S!Accounts, S!Of

\* The account goes, with its rows and profiles.
LEMMA RemoveStep ==
  ASSUME S!StaffInv, Noted, NEW a \in Admins, NEW p \in Profiles, S!Remove(a, p)
  PROVE  S!StaffInv'
<1>1. PICK u : /\ u = request[a].user /\ request[a] # None /\ u \in S!Accounts
               /\ staffer' = [staffer EXCEPT ![u] = None] /\ held' = [held EXCEPT ![u] = S!NoRows]
               /\ profile' = [q \in Profiles |-> IF q \in S!Of(u) THEN None ELSE profile[q]]
               /\ request' = [request EXCEPT ![a] = None]
               /\ mixed' = mixed \ {u} /\ limit' = limit
  BY DEF S!Remove, S!Open
<1>2. /\ staffer \in [Staffers -> {None} \cup S!Account] /\ held \in [Staffers -> [Roles -> S!Marks]]
      /\ profile \in [Profiles -> {None} \cup S!ProfileRow]
  BY DEF S!StaffInv, S!RowsAreSound
<1>3. /\ request' \in [Admins -> {None} \cup S!Request]
      /\ S!Reading' = S!Reading \ {a}
      /\ \A b \in S!Reading' : request'[b] = request[b] /\ S!Mine(b)' = S!Mine(b)
      /\ limit = 1 => S!Reading' = {}
  BY <1>1, RequestServed DEF S!Reading
<1>4. /\ u \in Staffers /\ S!NoRows \in [Roles -> S!Marks]
      /\ \A v \in Staffers \ {u} : staffer'[v] = staffer[v] /\ held'[v] = held[v]
      /\ staffer'[u] = None /\ held'[u] = S!NoRows
  BY <1>1, <1>2 DEF S!Accounts, S!NoRows, S!Marks
<1>5. S!Accounts' = S!Accounts \ {u}
  BY <1>4 DEF S!Accounts
<1>6. \A q \in Profiles : profile'[q] = IF profile[q] # None /\ profile[q].user = u THEN None ELSE profile[q]
  BY <1>1 DEF S!Of
<1>7. \A v \in Staffers \ {u} : S!Of(v)' = S!Of(v) /\ S!Teaching(v)' = S!Teaching(v)
  BY <1>6 DEF S!Of, S!Teaching
<1>8. S!Of(u)' = {}
  BY <1>6 DEF S!Of
<1>9. S!StaffTypeOK'
  <2>1. \A q \in Profiles : profile'[q] # None => profile'[q].user \in S!Accounts'
    BY <1>5, <1>6 DEF S!StaffInv, S!StaffTypeOK
  <2>2. \A v \in Staffers \ S!Accounts' : held'[v] = S!NoRows
    BY <1>4, <1>5 DEF S!StaffInv, S!StaffTypeOK
  <2>3. staffer' \in [Staffers -> {None} \cup S!Account] /\ held' \in [Staffers -> [Roles -> S!Marks]]
    BY <1>1, <1>2, <1>4
  <2> QED
    BY <2>1, <2>2, <2>3 DEF S!StaffTypeOK, S!Account, S!Marks, S!NoRows
<1>10. S!RowsAreSound'
  <2>1. profile' \in [Profiles -> {None} \cup S!ProfileRow]
    BY <1>1, <1>2
  <2> QED
    BY <1>1, <1>2, <1>3, <1>4, <2>1 DEF S!RowsAreSound, S!Account, S!Marks, S!ProfileRow, S!Request
<1>11. S!SameUser'
  BY <1>3, <1>6 DEF S!StaffInv, S!SameUser, S!Reading
<1>12. S!RowComesWithProfile'
  <2>1. ASSUME NEW v \in S!Accounts', v \notin spare'
        PROVE  /\ held'[v]["teacher"] # "none" => S!Of(v)' # {}
               /\ v \in S!Accounts /\ v \notin spare /\ S!Of(v)' = S!Of(v) /\ held'[v] = held[v]
    BY <1>4, <1>5, <1>7, <2>1, NotesSay
  <2> QED
    BY <1>3, <2>1 DEF S!StaffInv, S!RowComesWithProfile
<1>13. S!ProfileIsOne'
  <2> SUFFICES ASSUME NEW v \in Staffers, limit = 1 \/ v \notin spare', NEW q \in S!Of(v)', NEW o \in S!Of(v)'
               PROVE  q = o
    BY <1>1 DEF S!ProfileIsOne
  <2>1. v # u /\ q \in S!Of(v) /\ o \in S!Of(v)
    BY <1>7, <1>8
  <2>2. v \in S!Accounts'
    BY <1>5, <2>1 DEF S!Of, S!StaffInv, S!StaffTypeOK
  <2> QED
    BY <2>1, <2>2, NotesSay DEF S!StaffInv, S!ProfileIsOne
<1>14. S!ReadIsCurrent'
  BY <1>1, <1>3 DEF S!ReadIsCurrent
<1>15. ASSUME limit = 1, NEW v \in S!Accounts', v \notin bare'
       PROVE  /\ v \in Staffers /\ v \in S!Accounts /\ v \notin bare /\ v # u
              /\ staffer'[v] = staffer[v] /\ S!On(v)' = S!On(v) /\ S!Teaching(v)' = S!Teaching(v)
  BY <1>4, <1>5, <1>7, <1>15, NotesSay DEF S!On
<1>16. S!DefaultIsHeld'
  BY <1>1, <1>15 DEF S!StaffInv, S!DefaultIsHeld
<1>17. S!SwitchIsWhole' /\ S!SwitchedAreStaff'
  BY <1>1, <1>15 DEF S!StaffInv, S!SwitchIsWhole, S!SwitchedAreStaff
<1> QED
  BY <1>9, <1>10, <1>11, <1>12, <1>13, <1>14, <1>16, <1>17 DEF S!StaffInv

\* A user is hired as a teacher or an inspector, a teacher with a profile.
HiredAs(u, role, on) ==
  /\ role \in {"teacher", "inspector"} /\ on \in BOOLEAN
  /\ S!Hire(u, role, on) /\ mixed \subseteq mixed' /\ mixed' \subseteq mixed \cup {u}
  /\ \/ profile' = profile /\ role = "inspector"
     \/ /\ role = "teacher" \/ u \in mixed'
        /\ \E p \in Profiles, ok \in BOOLEAN :
             S!Free(p) /\ profile' = [profile EXCEPT ![p] = S!Profile(u, ok)]

\* What becomes of the profiles.
LEMMA ProfilesOfHired ==
  ASSUME S!StaffInv, NEW u \in Staffers, NEW role, NEW on, HiredAs(u, role, on)
  PROVE  /\ profile' \in [Profiles -> {None} \cup S!ProfileRow]
         /\ S!Of(u) = {}
         /\ \A q \in Profiles : profile[q] # None => profile'[q] = profile[q]
         /\ \A q \in Profiles : profile[q] = None /\ profile'[q] # None =>
              /\ profile'[q].user = u /\ profile'[q].active /\ S!Free(q)
              /\ \A o \in Profiles : profile[o] = None /\ profile'[o] # None => o = q
         /\ u \notin mixed' => (S!Teaching(u)' # {} <=> role = "teacher")
<1>1. u \notin S!Accounts /\ role \in {"teacher", "inspector"}
  BY DEF HiredAs, S!Hire, S!New
<1>2. S!Of(u) = {} /\ profile \in [Profiles -> {None} \cup S!ProfileRow]
  BY <1>1 DEF S!Of, S!StaffInv, S!StaffTypeOK, S!RowsAreSound
<1>3. CASE profile' = profile /\ role = "inspector"
  <2>1. S!Teaching(u)' = {}
    BY <1>2, <1>3 DEF S!Teaching, S!Of
  <2> QED
    BY <1>2, <1>3, <2>1
<1>4. ASSUME NEW p \in Profiles, NEW ok \in BOOLEAN, role = "teacher" \/ u \in mixed',
             S!Free(p), profile' = [profile EXCEPT ![p] = S!Profile(u, ok)]
      PROVE  /\ profile' \in [Profiles -> {None} \cup S!ProfileRow]
             /\ \A q \in Profiles : profile[q] # None => profile'[q] = profile[q]
             /\ \A q \in Profiles : profile[q] = None /\ profile'[q] # None =>
                  q = p /\ profile'[q].user = u /\ profile'[q].active
             /\ u \notin mixed' => (S!Teaching(u)' # {} <=> role = "teacher")
  <2> DEFINE row == S!Profile(u, ok)
  <2>1. row \in S!ProfileRow /\ row.user = u /\ row.active
    BY DEF S!Profile, S!ProfileRow
  <2>2. row # None
    BY <2>1, PeopleAssumption
  <2>3. profile[p] = None
    BY <1>4 DEF S!Free
  <2> HIDE DEF row
  <2>4. /\ profile' \in [Profiles -> {None} \cup S!ProfileRow]
        /\ \A q \in Profiles : profile'[q] = IF q = p THEN row ELSE profile[q]
    BY <1>2, <1>4, <2>1 DEF row
  <2>5. p \in S!Teaching(u)'
    BY <2>1, <2>2, <2>4 DEF S!Teaching, S!Of
  <2> QED
    BY <1>4, <2>1, <2>3, <2>4, <2>5
<1>5. ASSUME ~(profile' = profile /\ role = "inspector")
      PROVE  \E p \in Profiles, ok \in BOOLEAN :
               /\ role = "teacher" \/ u \in mixed'
               /\ S!Free(p) /\ profile' = [profile EXCEPT ![p] = S!Profile(u, ok)]
  BY <1>5 DEF HiredAs
<1> QED
  BY <1>2, <1>3, <1>4, <1>5

\* Who is hired has the one row and, as a teacher, the one profile.
LEMMA HireStep ==
  ASSUME S!StaffInv, Noted, NEW u \in Staffers, NEW role, NEW on, HiredAs(u, role, on)
  PROVE  S!StaffInv'
<1>1. /\ role \in {"teacher", "inspector"} /\ role \in Roles /\ on \in BOOLEAN
      /\ mixed \subseteq mixed' /\ mixed' \subseteq mixed \cup {u}
      /\ u \notin S!Accounts /\ \A a \in Admins : request[a] # None => request[a].user # u
      /\ staffer' = [staffer EXCEPT ![u] = [active |-> on, role |-> role]]
      /\ held' = [held EXCEPT ![u] = S!Row(role)]
      /\ UNCHANGED <<limit, request>>
  BY PeopleAssumption DEF HiredAs, S!Hire, S!New
<1>2. /\ profile' \in [Profiles -> {None} \cup S!ProfileRow]
      /\ S!Of(u) = {}
      /\ \A q \in Profiles : profile[q] # None => profile'[q] = profile[q]
      /\ \A q \in Profiles : profile[q] = None /\ profile'[q] # None =>
           /\ profile'[q].user = u /\ profile'[q].active /\ S!Free(q)
           /\ \A o \in Profiles : profile[o] = None /\ profile'[o] # None => o = q
      /\ u \notin mixed' => (S!Teaching(u)' # {} <=> role = "teacher")
  BY ProfilesOfHired
<1>3. /\ staffer \in [Staffers -> {None} \cup S!Account] /\ held \in [Staffers -> [Roles -> S!Marks]]
      /\ profile \in [Profiles -> {None} \cup S!ProfileRow] /\ request \in [Admins -> {None} \cup S!Request]
  BY DEF S!StaffInv, S!RowsAreSound
<1> DEFINE acc == [active |-> on, role |-> role]
<1>4. acc \in S!Account /\ acc.role = role
  BY <1>1 DEF S!Account
<1>5. acc # None
  BY <1>4, PeopleAssumption
<1>6. /\ S!Row(role) \in [Roles -> S!Marks]
      /\ \A r \in Roles : S!Row(role)[r] = IF r = role THEN "on" ELSE "none"
  BY <1>1 DEF S!Row, S!NoRows, S!Marks
<1> HIDE DEF acc
<1>7. /\ staffer' \in [Staffers -> {None} \cup S!Account] /\ held' \in [Staffers -> [Roles -> S!Marks]]
      /\ \A v \in Staffers \ {u} : staffer'[v] = staffer[v] /\ held'[v] = held[v]
      /\ staffer'[u] = acc /\ held'[u] = S!Row(role)
  BY <1>1, <1>3, <1>4, <1>6 DEF acc
<1>8. S!Accounts' = S!Accounts \cup {u}
  BY <1>5, <1>7 DEF S!Accounts
<1>9. \A v \in Staffers \ {u} : S!Of(v)' = S!Of(v) /\ S!Teaching(v)' = S!Teaching(v)
  BY <1>2 DEF S!Of, S!Teaching
<1>10. S!Reading' = S!Reading /\ \A b \in S!Reading : S!Mine(b)' = S!Mine(b)
  BY <1>1 DEF S!Reading, S!Mine
<1>11. S!StaffTypeOK'
  <2>1. \A q \in Profiles : profile'[q] # None => profile'[q].user \in S!Accounts'
    BY <1>2, <1>8 DEF S!StaffInv, S!StaffTypeOK
  <2>2. \A v \in Staffers \ S!Accounts' : held'[v] = S!NoRows
    BY <1>7, <1>8 DEF S!StaffInv, S!StaffTypeOK
  <2> QED
    BY <1>7, <2>1, <2>2 DEF S!StaffTypeOK, S!Account, S!Marks, S!NoRows
<1>12. S!RowsAreSound'
  BY <1>1, <1>2, <1>3, <1>7 DEF S!RowsAreSound, S!Account, S!Marks, S!ProfileRow, S!Request
<1>13. S!SameUser'
  <2> SUFFICES ASSUME NEW b \in S!Reading, NEW q \in Profiles,
                      request[b].profile[q] # None, profile'[q] # None
               PROVE  profile'[q].user = request[b].profile[q].user
    BY <1>1, <1>10 DEF S!SameUser
  <2>1. profile[q] # None
    BY <1>2 DEF S!Free, S!Reading
  <2> QED
    BY <1>2, <2>1 DEF S!StaffInv, S!SameUser
<1>14. S!RowComesWithProfile'
  <2>1. ASSUME NEW v \in S!Accounts', v \notin spare'
        PROVE  /\ held'[v]["teacher"] # "none" => S!Of(v)' # {}
               /\ v # u => /\ v \in S!Accounts /\ v \notin spare
                           /\ S!Of(v)' = S!Of(v) /\ held'[v] = held[v]
    BY <1>7, <1>8, <1>9, <2>1, NotesSay
  <2>2. \A b \in S!Reading : request[b].user # u
    BY <1>1 DEF S!Reading
  <2> QED
    BY <1>1, <1>10, <2>1, <2>2 DEF S!StaffInv, S!RowComesWithProfile
<1>15. S!ProfileIsOne'
  <2> SUFFICES ASSUME NEW v \in Staffers, limit = 1 \/ v \notin spare', NEW q \in S!Of(v)', NEW o \in S!Of(v)'
               PROVE  q = o
    BY <1>1 DEF S!ProfileIsOne
  <2>1. CASE v = u
    BY <1>2, <2>1 DEF S!Of
  <2>2. CASE v # u
    <3>1. q \in S!Of(v) /\ o \in S!Of(v) /\ v \in S!Accounts'
      BY <1>8, <1>9, <2>2 DEF S!Of, S!StaffInv, S!StaffTypeOK
    <3> QED
      BY <3>1, NotesSay DEF S!StaffInv, S!ProfileIsOne
  <2> QED
    BY <2>1, <2>2
<1>16. S!ReadIsCurrent'
  <2> SUFFICES ASSUME limit = 1
               PROVE  /\ \A b, c \in S!Reading : b = c
                      /\ \A b \in S!Reading : \A v \in Staffers : request[b].user = v =>
                           /\ v \in S!Accounts' /\ request[b].account = staffer'[v]
                           /\ v \notin bare' => request[b].held = held'[v]
                           /\ \A q \in Profiles : request[b].profile[q] # None \/ q \in S!Of(v)' =>
                                request[b].profile[q] = profile'[q]
    BY <1>1, <1>10 DEF S!ReadIsCurrent
  <2>1. \A b, c \in S!Reading : b = c
    BY DEF S!StaffInv, S!ReadIsCurrent
  <2>2. ASSUME NEW b \in S!Reading, NEW v \in Staffers, request[b].user = v
        PROVE  /\ v \in S!Accounts' /\ request[b].account = staffer'[v]
               /\ v \notin bare' => request[b].held = held'[v]
               /\ \A q \in Profiles : request[b].profile[q] # None \/ q \in S!Of(v)' =>
                    request[b].profile[q] = profile'[q]
    <3>1. v # u /\ b \in Admins /\ request[b] # None
      BY <1>1, <2>2 DEF S!Reading
    <3>2. /\ v \in S!Accounts /\ request[b].account = staffer[v]
          /\ v \notin bare => request[b].held = held[v]
          /\ \A q \in Profiles : request[b].profile[q] # None \/ q \in S!Of(v) =>
               request[b].profile[q] = profile[q]
      BY <2>2 DEF S!StaffInv, S!ReadIsCurrent
    <3>3. v \notin bare' => v \notin bare
      BY <1>8, <3>2, NotesSay
    <3>4. \A q \in Profiles : request[b].profile[q] # None => profile'[q] = profile[q]
      BY <1>2, <3>1 DEF S!Free
    <3>5. \A q \in S!Of(v) : profile'[q] = profile[q]
      BY <1>2 DEF S!Of
    <3> QED
      BY <1>7, <1>8, <1>9, <3>1, <3>2, <3>3, <3>4, <3>5
  <2> QED
    BY <2>1, <2>2
<1>17. ASSUME limit = 1, NEW v \in S!Accounts', v \notin bare'
       PROVE  /\ v # u => /\ v \in S!Accounts /\ v \in Staffers /\ v \notin bare
                          /\ staffer'[v] = staffer[v] /\ S!On(v)' = S!On(v)
                          /\ S!Teaching(v)' = S!Teaching(v)
              /\ v = u => staffer'[v].role = role /\ S!On(v)' = {role}
  <2>1. CASE v # u
    BY <1>7, <1>8, <1>9, <1>17, <2>1, NotesSay DEF S!On
  <2>2. CASE v = u
    <3>1. staffer'[v].role = role /\ \A r \in Roles : held'[v][r] = IF r = role THEN "on" ELSE "none"
      BY <1>4, <1>6, <1>7, <2>2
    <3>2. \A r \in Roles : held'[v][r] = "on" <=> r = role
      BY <3>1
    <3>3. role \in Roles
      BY <1>1
    <3>4. S!On(v)' = {role}
      BY <3>2, <3>3 DEF S!On
    <3> QED
      BY <2>2, <3>1, <3>4
  <2> QED
    BY <2>1, <2>2
<1>18. S!DefaultIsHeld'
  BY <1>1, <1>17 DEF S!StaffInv, S!DefaultIsHeld
<1>19. S!SwitchIsWhole' /\ S!SwitchedAreStaff'
  <2> SUFFICES ASSUME limit = 1, NEW v \in S!Accounts', v \notin mixed', v \notin bare'
               PROVE  /\ S!On(v)' = {staffer'[v].role}
                      /\ (S!Teaching(v)' # {}) <=> (staffer'[v].role = "teacher")
                      /\ staffer'[v].role \in {"teacher", "inspector"}
    BY <1>1 DEF S!SwitchIsWhole, S!SwitchedAreStaff
  <2>1. CASE v # u
    BY <1>1, <1>17, <2>1 DEF S!StaffInv, S!SwitchIsWhole, S!SwitchedAreStaff
  <2>2. CASE v = u
    BY <1>1, <1>2, <1>17, <2>2
  <2> QED
    BY <2>1, <2>2
<1> QED
  BY <1>11, <1>12, <1>13, <1>14, <1>15, <1>16, <1>18, <1>19 DEF S!StaffInv

\* A request begins, or gives up.
LEMMA LoadOrAbortStep ==
  ASSUME S!StaffInv, Noted, NEW a \in Admins, NEW u \in Staffers, S!Load(a, u) \/ S!Abort(a)
  PROVE  S!StaffInv'
<1> DEFINE read == [user |-> u, account |-> staffer[u], held |-> held[u], profile |-> profile]
<1>1. UNCHANGED <<limit, staffer, held, profile, mixed>>
  BY DEF S!Load, S!Abort
<1>2. \/ /\ request' = [request EXCEPT ![a] = read] /\ u \in S!Accounts /\ request[a] = None
         /\ S!Cardinality({o \in Admins : request[o] # None}) < limit
      \/ request' = [request EXCEPT ![a] = None] /\ request[a] # None
  <2>1. CASE S!Load(a, u)
    BY <2>1 DEF S!Load
  <2>2. CASE S!Abort(a)
    BY <2>2 DEF S!Abort
  <2> QED
    BY <2>1, <2>2
<1>3. /\ staffer \in [Staffers -> {None} \cup S!Account] /\ held \in [Staffers -> [Roles -> S!Marks]]
      /\ profile \in [Profiles -> {None} \cup S!ProfileRow] /\ request \in [Admins -> {None} \cup S!Request]
  BY DEF S!StaffInv, S!RowsAreSound
<1>4. u \in S!Accounts => /\ read \in S!Request /\ read.user = u /\ read.account = staffer[u]
                          /\ read.held = held[u] /\ read.profile = profile
  BY <1>3, AccountType DEF S!Request
<1>5. u \in S!Accounts => read # None
  BY <1>4, PeopleAssumption
<1> HIDE DEF read
<1>6. /\ request' \in [Admins -> {None} \cup S!Request]
      /\ \A b \in S!Reading' : \/ b # a /\ b \in S!Reading /\ request'[b] = request[b]
                               \/ b = a /\ request'[b] = read /\ u \in S!Accounts
      /\ S!Reading' \subseteq Admins
  BY <1>2, <1>3, <1>4 DEF S!Reading
<1>7. S!Accounts' = S!Accounts /\ \A v : S!Of(v)' = S!Of(v) /\ S!On(v)' = S!On(v) /\ S!Teaching(v)' = S!Teaching(v)
  BY <1>1 DEF S!Accounts, S!Of, S!On, S!Teaching
<1>8. \A b \in S!Reading' \ {a} : S!Mine(b)' = S!Mine(b)
  BY <1>6 DEF S!Mine
<1>9. S!StaffTypeOK' /\ S!RowsAreSound'
  <2>1. S!StaffTypeOK'
    BY <1>1 DEF S!StaffInv, S!StaffTypeOK, S!Accounts, S!NoRows
  <2> QED
    BY <1>1, <1>3, <1>6, <2>1 DEF S!RowsAreSound, S!Account, S!Marks, S!ProfileRow, S!Request
<1>10. S!SameUser'
  BY <1>1, <1>4, <1>6 DEF S!StaffInv, S!SameUser
<1>11. S!RowComesWithProfile'
  <2>1. ASSUME NEW v \in S!Accounts, v \notin spare'
        PROVE  v \notin spare /\ (held[v]["teacher"] # "none" => S!Of(v) # {})
    BY <1>1, <1>7, <2>1, NotesSay
  <2>2. ASSUME NEW b \in S!Reading', NEW v \in S!Accounts, v \notin spare',
               request'[b].user = v, S!Mine(b)' = {}
        PROVE  /\ request'[b].held["teacher"] = "none"
               /\ S!Of(v) # {} => held[v]["teacher"] # "none"
    <3>1. CASE b # a
      BY <1>6, <1>8, <2>1, <2>2, <3>1 DEF S!StaffInv, S!RowComesWithProfile
    <3>2. CASE b = a
      <4>1. v = u /\ request'[b].profile = profile /\ request'[b].held = held[v]
        BY <1>4, <1>6, <2>2, <3>2
      <4>2. S!Of(v) = {}
        BY <2>2, <4>1 DEF S!Of, S!Mine
      <4> QED
        BY <2>1, <2>2, <4>1, <4>2
    <3> QED
      BY <3>1, <3>2
  <2> QED
    BY <1>1, <1>7, <2>1, <2>2 DEF S!RowComesWithProfile
<1>12. S!ProfileIsOne'
  <2> SUFFICES ASSUME NEW v \in Staffers, limit = 1 \/ v \notin spare', NEW q \in S!Of(v), NEW o \in S!Of(v)
               PROVE  q = o
    BY <1>1, <1>7 DEF S!ProfileIsOne
  <2>1. v \in S!Accounts'
    BY <1>7 DEF S!Of, S!StaffInv, S!StaffTypeOK
  <2> QED
    BY <2>1, NotesSay DEF S!StaffInv, S!ProfileIsOne
<1>13. ASSUME NEW v \in S!Accounts, v \notin bare'
       PROVE  v \notin bare
  BY <1>7, <1>13, NotesSay
<1>14. S!ReadIsCurrent'
  <2> SUFFICES ASSUME limit = 1
               PROVE  /\ \A b, c \in S!Reading' : b = c
                      /\ \A b \in S!Reading' : \A v \in Staffers : request'[b].user = v =>
                           /\ v \in S!Accounts /\ request'[b].account = staffer[v]
                           /\ v \notin bare' => request'[b].held = held[v]
                           /\ \A q \in Profiles : request'[b].profile[q] # None \/ q \in S!Of(v) =>
                                request'[b].profile[q] = profile[q]
    BY <1>1, <1>7 DEF S!ReadIsCurrent
  <2>1. \A b, c \in S!Reading' : b = c
    <3>1. CASE request' = [request EXCEPT ![a] = None] /\ request[a] # None
      BY <3>1, RequestServed DEF S!Reading
    <3>2. CASE S!Cardinality({o \in Admins : request[o] # None}) < limit
      <4>1. \A o \in Admins : request[o] = None
        BY <3>2, AdminBeginsAlone
      <4> QED
        BY <1>6, <4>1 DEF S!Reading
    <3> QED
      BY <1>2, <3>1, <3>2
  <2>2. ASSUME NEW b \in S!Reading', NEW v \in Staffers, request'[b].user = v
        PROVE  /\ v \in S!Accounts /\ request'[b].account = staffer[v]
               /\ v \notin bare' => request'[b].held = held[v]
               /\ \A q \in Profiles : request'[b].profile[q] # None \/ q \in S!Of(v) =>
                    request'[b].profile[q] = profile[q]
    <3>1. CASE b = a
      BY <1>4, <1>6, <2>2, <3>1
    <3>2. CASE b # a
      <4>1. b \in S!Reading /\ request'[b] = request[b]
        BY <1>6, <3>2
      <4> QED
        BY <1>13, <2>2, <4>1 DEF S!StaffInv, S!ReadIsCurrent
    <3> QED
      BY <3>1, <3>2
  <2> QED
    BY <2>1, <2>2
<1>15. S!DefaultIsHeld' /\ S!SwitchIsWhole' /\ S!SwitchedAreStaff'
  BY <1>1, <1>7, <1>13 DEF S!StaffInv, S!DefaultIsHeld, S!SwitchIsWhole, S!SwitchedAreStaff
<1> QED
  BY <1>9, <1>10, <1>11, <1>12, <1>14, <1>15 DEF S!StaffInv

\* The repair inserts rows of default roles that are not there.
LEMMA BackfillStep ==
  ASSUME S!StaffInv, Noted, S!Backfill
  PROVE  S!StaffInv'
<1>1. UNCHANGED <<limit, staffer, profile, request, mixed>>
  BY DEF S!Backfill
<1>2. /\ staffer \in [Staffers -> {None} \cup S!Account] /\ held \in [Staffers -> [Roles -> S!Marks]]
      /\ profile \in [Profiles -> {None} \cup S!ProfileRow] /\ request \in [Admins -> {None} \cup S!Request]
  BY DEF S!StaffInv, S!RowsAreSound
<1> DEFINE mark(v) == IF staffer[v].active THEN "on" ELSE "off"
           row(v) == [held[v] EXCEPT ![staffer[v].role] = mark(v)]
<1>3. held' = [v \in Staffers |-> IF v \in S!Accounts /\ held[v][staffer[v].role] = "none"
                                  THEN row(v) ELSE held[v]]
  BY DEF S!Backfill
<1>4. ASSUME NEW v \in S!Accounts, held[v][staffer[v].role] = "none"
      PROVE  row(v) \in [Roles -> S!Marks] /\ \A r \in Roles : held[v][r] # "none" => row(v)[r] = held[v][r]
  <2>1. held[v] \in [Roles -> S!Marks] /\ staffer[v].role \in Roles
    BY AccountType DEF S!Account
  <2>2. mark(v) \in S!Marks
    BY DEF S!Marks
  <2> HIDE DEF mark
  <2>3. row(v) \in [Roles -> S!Marks] /\ \A r \in Roles : r # staffer[v].role => row(v)[r] = held[v][r]
    BY <2>1, <2>2
  <2> QED
    BY <1>4, <2>3
<1> HIDE DEF row
<1>5. /\ held' \in [Staffers -> [Roles -> S!Marks]]
      /\ \A v \in Staffers : held[v][staffer[v].role] # "none" \/ v \notin S!Accounts => held'[v] = held[v]
      /\ \A v \in Staffers : \A r \in Roles : held[v][r] # "none" => held'[v][r] # "none"
  BY <1>2, <1>3, <1>4
<1>6. /\ S!Accounts' = S!Accounts /\ \A v : S!Of(v)' = S!Of(v) /\ S!Teaching(v)' = S!Teaching(v)
      /\ S!Reading' = S!Reading /\ \A a : S!Mine(a)' = S!Mine(a)
  BY <1>1 DEF S!Accounts, S!Of, S!Teaching, S!Reading, S!Mine
<1>7. S!StaffTypeOK'
  <2>1. \A v \in Staffers \ S!Accounts : held'[v] = S!NoRows
    BY <1>5 DEF S!StaffInv, S!StaffTypeOK
  <2>2. \A q \in Profiles : profile[q] # None => profile[q].user \in S!Accounts
    BY DEF S!StaffInv, S!StaffTypeOK
  <2> QED
    BY <1>1, <1>2, <1>5, <1>6, <2>1, <2>2 DEF S!StaffTypeOK, S!Account, S!Marks, S!NoRows
<1>8. S!RowsAreSound'
  BY <1>1, <1>2, <1>5 DEF S!RowsAreSound, S!Account, S!Marks, S!ProfileRow, S!Request
<1>9. S!SameUser'
  BY <1>1, <1>6 DEF S!StaffInv, S!SameUser
<1>10. ASSUME NEW v \in S!Accounts
       PROVE  /\ v \in Staffers
              /\ v \notin spare' => v \notin spare /\ (held'[v]["teacher"] # "none" => S!Of(v) # {})
              /\ v \notin bare' => v \notin bare
  BY <1>6, NotesSay
<1>11. S!RowComesWithProfile'
  BY <1>1, <1>5, <1>6, <1>10, PeopleAssumption DEF S!StaffInv, S!RowComesWithProfile
<1>12. S!ProfileIsOne'
  <2> SUFFICES ASSUME NEW v \in Staffers, limit = 1 \/ v \notin spare', NEW q \in S!Of(v), NEW o \in S!Of(v)
               PROVE  q = o
    BY <1>1, <1>6 DEF S!ProfileIsOne
  <2>1. v \in S!Accounts
    BY DEF S!Of, S!StaffInv, S!StaffTypeOK
  <2> QED
    BY <1>10, <2>1 DEF S!StaffInv, S!ProfileIsOne
<1>13. ASSUME limit = 1, NEW v \in S!Accounts, v \notin bare'
       PROVE  v \in Staffers /\ v \notin bare /\ held'[v] = held[v] /\ S!On(v)' = S!On(v)
  <2>1. v \in Staffers /\ v \notin bare /\ staffer[v].role \in S!On(v)
    BY <1>10, <1>13 DEF S!StaffInv, S!DefaultIsHeld
  <2>2. held'[v] = held[v]
    BY <1>5, <2>1 DEF S!On
  <2> QED
    BY <2>1, <2>2 DEF S!On
<1>14. S!ReadIsCurrent'
  BY <1>1, <1>6, <1>13 DEF S!StaffInv, S!ReadIsCurrent
<1>15. S!DefaultIsHeld' /\ S!SwitchIsWhole' /\ S!SwitchedAreStaff'
  BY <1>1, <1>6, <1>13 DEF S!StaffInv, S!DefaultIsHeld, S!SwitchIsWhole, S!SwitchedAreStaff
<1> QED
  BY <1>7, <1>8, <1>9, <1>11, <1>12, <1>14, <1>15 DEF S!StaffInv

-----------------------------------------------------------------------------
(* Staff: the theorem *)

\* The invariant holds of the accounts of the provisioning.
LEMMA StaffStart == S!StaffInit => S!StaffInv
<1> SUFFICES ASSUME S!StaffInit PROVE S!StaffInv
  OBVIOUS
<1>1. /\ held = [u \in Staffers |-> S!NoRows] /\ profile = [p \in Profiles |-> None]
      /\ request = [a \in Admins |-> None] /\ bare = S!Accounts
  BY DEF S!StaffInit
<1>2. staffer \in [Staffers -> {None} \cup S!Account]
  <2> DEFINE first == {[active |-> TRUE, role |-> r] : r \in Roles \ {"teacher", "inspector"}}
  <2>1. first \subseteq S!Account
    <3>1. \A r \in Roles : [active |-> TRUE, role |-> r] \in S!Account
      BY DEF S!Account
    <3> QED
      BY <3>1
  <2>2. staffer \in [Staffers -> {None} \cup first]
    BY DEF S!StaffInit
  <2> HIDE DEF first
  <2> QED
    BY <2>1, <2>2
<1>3. S!NoRows \in [Roles -> S!Marks] /\ S!NoRows["teacher"] = "none"
  BY PeopleAssumption DEF S!NoRows, S!Marks
<1>4. S!Reading = {} /\ (\A u \in Staffers : S!Of(u) = {}) /\ S!Accounts \subseteq Staffers
  BY <1>1 DEF S!Reading, S!Of, S!Accounts
<1>5. S!RowsAreSound
  BY <1>1, <1>2, <1>3 DEF S!RowsAreSound
<1>6. S!StaffTypeOK
  BY <1>1, <1>2, <1>3 DEF S!StaffTypeOK, S!Account, S!Marks
<1>7. S!SameUser /\ S!RowComesWithProfile /\ S!ProfileIsOne /\ S!ReadIsCurrent
  BY <1>1, <1>3, <1>4 DEF S!SameUser, S!RowComesWithProfile, S!ProfileIsOne, S!ReadIsCurrent
<1>8. S!DefaultIsHeld /\ S!SwitchIsWhole /\ S!SwitchedAreStaff
  BY <1>1 DEF S!DefaultIsHeld, S!SwitchIsWhole, S!SwitchedAreStaff
<1> QED
  BY <1>5, <1>6, <1>7, <1>8 DEF S!StaffInv

\* Every step of the staff keeps the invariant.
LEMMA StaffStep ==
  ASSUME S!StaffInv, S!StaffNext
  PROVE  S!StaffInv'
<1>1. Noted /\ S!Operations
  BY DEF S!StaffNext, Noted
<1>2. ASSUME NEW u \in Staffers, NEW p \in Profiles, NEW ok \in BOOLEAN, S!CreateTeacher(u, p, ok)
      PROVE  S!StaffInv'
  <2>1. HiredAs(u, "teacher", ok)
    BY <1>2 DEF S!CreateTeacher, HiredAs
  <2> QED
    BY <1>1, <2>1, HireStep
<1>3. ASSUME NEW u \in Staffers, NEW p \in Profiles, NEW r \in {"teacher", "inspector"}, S!RegisterStaff(u, p, r)
      PROVE  S!StaffInv'
  <2>1. HiredAs(u, r, TRUE)
    BY <1>3 DEF S!RegisterStaff, HiredAs
  <2> QED
    BY <1>1, <2>1, HireStep
<1>4. ASSUME NEW u \in Staffers, S!CreateInspector(u)
      PROVE  S!StaffInv'
  <2>1. HiredAs(u, "inspector", TRUE)
    BY <1>4 DEF S!CreateInspector, HiredAs
  <2> QED
    BY <1>1, <2>1, HireStep
<1>5. ASSUME NEW u \in Staffers, NEW a \in Admins, S!Load(a, u)
      PROVE  S!StaffInv'
  BY <1>1, <1>5, LoadOrAbortStep
<1>6. ASSUME NEW a \in Admins, S!Abort(a)
      PROVE  S!StaffInv'
  <2>1. S!Abort(a) => request[a] # None
    BY DEF S!Abort
  <2>2. request[a].user \in Staffers
    BY <1>6, <2>1, ReadType
  <2> QED
    BY <1>1, <1>6, <2>2, LoadOrAbortStep
<1>7. ASSUME NEW a \in Admins, NEW r \in Roles, S!AttachRole(a, r) \/ S!DetachRole(a, r)
      PROVE  S!StaffInv'
  BY <1>1, <1>7, AttachRoleStep, DetachRoleStep
<1>8. ASSUME NEW a \in Admins, S!DeleteInspector(a)
      PROVE  S!StaffInv'
  BY <1>1, <1>8, DetachRoleStep, PeopleAssumption DEF S!DeleteInspector
<1>9. ASSUME NEW a \in Admins, NEW ok \in BOOLEAN, S!UpdateInspector(a, ok)
      PROVE  S!StaffInv'
  BY <1>1, <1>9, UpdateInspectorStep
<1>10. ASSUME NEW a \in Admins, NEW p \in Profiles, NEW ok \in BOOLEAN,
              S!AttachTeacher(a, p, ok) \/ S!UpdateTeacher(a, p, ok)
       PROVE  S!StaffInv'
  BY <1>1, <1>10, AttachTeacherStep, SetActiveStep DEF S!UpdateTeacher
<1>11. ASSUME NEW a \in Admins, NEW p \in Profiles, NEW from \in {"teacher", "inspector"},
              NEW to \in {"teacher", "inspector"}, S!ChangeRole(a, from, to, p)
       PROVE  S!StaffInv'
  BY <1>1, <1>11, ChangeRoleStep
<1>12. ASSUME NEW a \in Admins, NEW p \in Profiles, S!DeleteTeacher(a, p) \/ S!RestoreTeacher(a, p)
       PROVE  S!StaffInv'
  BY <1>1, <1>12, SetActiveStep DEF S!DeleteTeacher, S!RestoreTeacher
<1>13. ASSUME NEW a \in Admins, NEW p \in Profiles, S!ApproveTeacher(a, p)
       PROVE  S!StaffInv'
  BY <1>1, <1>13, ApproveTeacherStep
<1>14. ASSUME NEW a \in Admins, NEW p \in Profiles, S!RejectTeacher(a, p) \/ S!PermanentDeleteTeacher(a, p)
       PROVE  S!StaffInv'
  BY <1>1, <1>14, RemoveStep DEF S!RejectTeacher, S!PermanentDeleteTeacher
<1>15. ASSUME S!Backfill
       PROVE  S!StaffInv'
  BY <1>1, <1>15, BackfillStep
<1> QED
  BY <1>1, <1>2, <1>3, <1>4, <1>5, <1>6, <1>7, <1>8, <1>9, <1>10, <1>11, <1>12, <1>13, <1>14, <1>15
     DEF S!Operations

\* The invariant of the staff holds in every state.
LEMMA StaffAlways == S!StaffSpec => []S!StaffInv
<1>1. S!StaffInit => S!StaffInv
  BY StaffStart
<1>2. S!StaffInv /\ [S!StaffNext]_<<limit, S!staff>> => S!StaffInv'
  <2> SUFFICES ASSUME S!StaffInv, [S!StaffNext]_<<limit, S!staff>> PROVE S!StaffInv'
    OBVIOUS
  <2>1. CASE S!StaffNext
    BY <2>1, StaffStep
  <2>2. CASE UNCHANGED <<limit, S!staff>>
    <3>1. UNCHANGED <<limit, staffer, held, profile, request, bare, spare, mixed>>
      BY <2>2 DEF S!staff
    <3> QED
      BY <3>1 DEF S!StaffInv, S!StaffTypeOK, S!RowsAreSound, S!SameUser, S!RowComesWithProfile,
         S!ProfileIsOne, S!ReadIsCurrent, S!DefaultIsHeld, S!SwitchIsWhole, S!SwitchedAreStaff,
         S!Accounts, S!Reading, S!Of, S!On, S!Teaching, S!Mine, S!NoRows
  <2> QED
    BY <2>1, <2>2
<1> QED
  BY <1>1, <1>2, PTL DEF S!StaffSpec

\* Whatever is attached, switched, revoked, deleted and repaired, a user has one profile
\* of a teacher at most, an active default role and, when he was only switched, the one
\* role and the profile that goes with it (the requests of the module Staff).
THEOREM AccountsStayWhole == S!StaffSpec => []AccountIsWhole
<1>1. S!StaffInv => AccountIsWhole
  <2> SUFFICES ASSUME S!StaffInv PROVE AccountIsWhole
    OBVIOUS
  <2>1. S!OneProfile
    <3> SUFFICES ASSUME NEW u \in Staffers, limit = 1 \/ u \notin spare
                 PROVE  S!Cardinality(S!Of(u)) <= 1
      BY DEF S!OneProfile
    <3>1. S!Cardinality(S!Of(u)) = Cardinality(S!Of(u))
      BY Zenon DEF S!Cardinality, Cardinality
    <3>2. \A p, q \in S!Of(u) : p = q
      BY DEF S!StaffInv, S!ProfileIsOne
    <3>3. S!Of(u) = {} \/ \E p : S!Of(u) = {p}
      BY <3>2
    <3>4. Cardinality(S!Of(u)) \in {0, 1}
      BY <3>3, FS_EmptySet, FS_Singleton
    <3> QED
      BY <3>1, <3>4
  <2> QED
    BY <2>1 DEF AccountIsWhole, S!AccountIsWhole, S!StaffInv
<1> QED
  BY <1>1, StaffAlways, PTL

-----------------------------------------------------------------------------
(* Telegram links: the invariant *)

\* Links by themselves, for any limit on the requests under way.
TelegramSpec == limit \in Nat /\ TelegramInit /\ [][TelegramNext]_<<limit, telegramVars>>

Issuing  == {"publish", "saveToken"}
Revoking == {"unpublish", "clear"}
Binding  == {"load", "bind", "bindAndClear"}

Request ==
  [at : {"idle", "revoke", "delete"} \cup Issuing \cup Revoking \cup Binding,
   user : {None} \cup Users, token : {None} \cup Tokens, who : {None} \cup People]

Types ==
  /\ limit \in Nat
  /\ token \in [Users -> {None} \cup Tokens] /\ telegram \in [Users -> {None} \cup People]
  /\ public \in [Tokens -> {None} \cup Users]
  /\ call \in [Calls -> Request]
  /\ \A c \in Calls : call[c].at # "idle" =>
       /\ call[c].user \in Users
       /\ call[c].at \in Issuing \cup Binding \cup {"delete"} => call[c].token \in Tokens
       /\ call[c].at \in Binding \cup {"delete"} => call[c].who \in People
  /\ old \in [issued : SUBSET Tokens, expired : SUBSET Tokens]
  /\ links \in [Tokens -> Nat]
  /\ revoked \subseteq Users /\ stale \subseteq Tokens /\ crashed \in BOOLEAN

\* The row of a user is locked by one request at most.
OneLock ==
  \A c, d \in Calls : call[c].at \in Issuing \cup Revoking /\ call[d].at \in Issuing \cup Revoking
                      /\ call[c].user = call[d].user => c = d

\* A token that is being issued is nobody's yet; one that is being revoked has been
\* issued, and is nobody else's than the user's.
TokensInHand ==
  \A c \in Calls :
    /\ call[c].at \in Issuing =>
         /\ call[c].token \in old.issued /\ \A u \in Users : token[u] # call[c].token
         /\ \A d \in Calls : call[d].at \in Issuing /\ call[d].token = call[c].token => c = d
    /\ call[c].at \in Revoking \cup {"revoke"} /\ call[c].token # None =>
         /\ call[c].token \in old.issued
         /\ \A u \in Users : token[u] = call[c].token => u = call[c].user
         /\ \A d \in Calls : call[d].at \in Issuing => call[d].token # call[c].token

\* No token without a request for it, and none for two users.
TokensAreIssued ==
  /\ \A u \in Users : token[u] # None => token[u] \in old.issued
  /\ \A u, v \in Users : token[u] # None /\ token[u] = token[v] => u = v
  /\ Published \subseteq old.issued
  /\ \A t \in Tokens : links[t] > 0 => t \in old.issued
  /\ \A c \in Calls : call[c].at \in Binding => call[c].token \in old.issued

\* Why a token may be missing in public.
Gone(t) == links[t] > 0 \/ t \in old.expired \/ crashed

PublicUntilUsed ==
  /\ TokenIsPublic
  /\ \A c \in Calls :
       /\ call[c].at = "saveToken" => public[call[c].token] = call[c].user \/ Gone(call[c].token)
       /\ call[c].at = "delete" => links[call[c].token] > 0

TokenInv == Types /\ OneLock /\ TokensInHand /\ TokensAreIssued /\ PublicUntilUsed

-----------------------------------------------------------------------------
(* Requests that come one at a time and end *)

Calm == limit = 1 /\ ~crashed

OneCall == \A c, d \in Calls : call[c].at # "idle" /\ call[d].at # "idle" => c = d

\* A token that has bound is on its way out of public.
UsedIsDeleted ==
  /\ \A t \in Tokens : links[t] <= 1
  /\ \A t \in Tokens : links[t] > 0 /\ public[t] # None =>
       \E c \in Calls : call[c].at = "delete" /\ call[c].token = t
  /\ \A c \in Calls : call[c].at \in Issuing \cup Binding => links[call[c].token] = 0

\* What is public is the user's token, or superseded, or about to be one or the other.
PublicIsKnown ==
  /\ \A t \in Published :
       \/ token[public[t]] = t \/ t \in stale
       \/ \E c \in Calls : call[c].at \in {"saveToken", "delete"} /\ call[c].token = t
  /\ \A c \in Calls :
       /\ call[c].at \in Binding => call[c].token \in stale \cup {token[call[c].user]}
       /\ call[c].at = "saveToken" /\ public[call[c].token] # None
            => public[call[c].token] = call[c].user
       /\ call[c].at \in Revoking \cup {"revoke"} =>
            call[c].token = token[call[c].user] /\ call[c].who = telegram[call[c].user]
       /\ call[c].at = "clear" => call[c].token \notin Published
  /\ \A u \in revoked : token[u] = None /\ telegram[u] = None

CalmInv ==
  Calm => /\ OneCall /\ UsedIsDeleted
          /\ (\A t \in stale : links[t] = 0) => PublicIsKnown

-----------------------------------------------------------------------------
(* How requests move *)

\* A call that begins was idle, and so were all when calls come one at a time.
LEMMA StartCall ==
  ASSUME Types, IsFiniteSet(Calls), NEW c \in Calls, NEW r \in Request, Start(c, r)
  PROVE  /\ call' \in [Calls -> Request] /\ call[c].at = "idle"
         /\ \A o \in Calls : call'[o] = IF o = c THEN r ELSE call[o]
         /\ limit = 1 => \A o \in Calls : call[o].at = "idle"
<1> DEFINE R == {o \in Calls : call[o].at # "idle"}
<1>1. call[c].at = "idle" /\ Cardinality(R) < limit /\ call' = [call EXCEPT ![c] = r]
  BY DEF Start
<1>2. call \in [Calls -> Request]
  BY DEF Types
<1>3. IsFiniteSet(R)
  BY FS_Subset
<1>4. limit = 1 => R = {}
  BY <1>1, <1>3, FS_CardinalityType, FS_EmptySet
<1> QED
  BY <1>1, <1>2, <1>4

\* A call that goes on keeps what it was asked.
LEMMA GoOn ==
  ASSUME Types, NEW c \in Calls, Goto(c, "saveToken") \/ Goto(c, "unpublish") \/ Goto(c, "clear")
                                 \/ Goto(c, "bind") \/ Goto(c, "bindAndClear") \/ Goto(c, "delete")
  PROVE  /\ call' \in [Calls -> Request]
         /\ call'[c].user = call[c].user /\ call'[c].token = call[c].token
         /\ call'[c].who = call[c].who
         /\ \A step : Goto(c, step) => call'[c].at = step
         /\ \A o \in Calls \ {c} : call'[o] = call[o]
<1>1. call \in [Calls -> Request]
  BY DEF Types
<1>2. PICK step \in {"saveToken", "unpublish", "clear", "bind", "bindAndClear", "delete"} :
        call' = [call EXCEPT ![c].at = step]
  BY DEF Goto
<1>3. /\ call'[c].at = step /\ call'[c].user = call[c].user /\ call'[c].token = call[c].token
      /\ call'[c].who = call[c].who /\ call'[c] \in Request
      /\ \A o \in Calls \ {c} : call'[o] = call[o]
      /\ call' \in [Calls -> Request]
  BY <1>1, <1>2 DEF Request, Issuing, Revoking, Binding
<1>4. ASSUME NEW s, Goto(c, s) PROVE call'[c].at = s
  BY <1>1, <1>4 DEF Goto, Request
<1> QED
  BY <1>3, <1>4

\* A call that ends is idle.
LEMMA LeaveCall ==
  ASSUME Types, NEW c \in Calls, Leave(c)
  PROVE  /\ call' \in [Calls -> Request] /\ call'[c] = NoCall /\ NoCall.at = "idle"
         /\ \A o \in Calls \ {c} : call'[o] = call[o]
<1>1. NoCall \in Request /\ NoCall.at = "idle"
  BY DEF NoCall, Request
<1> QED
  BY <1>1 DEF Leave, Types

-----------------------------------------------------------------------------
(* Steps *)

Inv == TokenInv /\ CalmInv

\* A request for a token, which is new.
LEMMA CreateLinkStep ==
  ASSUME Inv, None \notin Tokens, IsFiniteSet(Calls),
         NEW c \in Calls, NEW u \in Users, NEW t \in Tokens, CreateLink(c, u, t)
  PROVE  Inv'
<1> DEFINE r == [NoCall EXCEPT !.at = "publish", !.user = u, !.token = t]
<1>1. /\ ~Locked(u) /\ t \notin old.issued /\ Start(c, r)
      /\ old' = [old EXCEPT !.issued = @ \cup {t}]
      /\ UNCHANGED <<limit, token, telegram, public, links, revoked, stale, crashed>>
  BY DEF CreateLink
<1>2. /\ old'.issued = old.issued \cup {t} /\ old'.expired = old.expired
      /\ old' \in [issued : SUBSET Tokens, expired : SUBSET Tokens]
  BY <1>1 DEF Inv, TokenInv, Types
<1>3. /\ r.at = "publish" /\ r.user = u /\ r.token = t
      /\ call' \in [Calls -> Request] /\ call[c].at = "idle"
      /\ \A o \in Calls : call'[o] = IF o = c THEN r ELSE call[o]
      /\ limit = 1 => \A o \in Calls : call[o].at = "idle"
  <2>1. NoCall \in Request
    BY DEF NoCall, Request
  <2>2. r \in Request /\ r.at = "publish" /\ r.user = u /\ r.token = t
    BY <2>1 DEF Request, Issuing
  <2> QED
    BY <1>1, <2>2, StartCall DEF Inv, TokenInv
<1> HIDE DEF r
<1>4. Types'
  BY <1>1, <1>2, <1>3 DEF Inv, TokenInv, Types, Issuing, Binding
<1>5. OneLock'
  BY <1>1, <1>3 DEF Inv, TokenInv, OneLock, Locked, Issuing, Revoking
<1>6. TokensInHand' /\ TokensAreIssued'
  BY <1>1, <1>2, <1>3 DEF Inv, TokenInv, TokensInHand, TokensAreIssued, Published, Issuing, Revoking, Binding
<1>7. PublicUntilUsed'
  BY <1>1, <1>2, <1>3 DEF Inv, TokenInv, PublicUntilUsed, TokenIsPublic, Gone
<1>8. CalmInv'
  BY <1>1, <1>3
     DEF Inv, TokenInv, TokensAreIssued, Types, CalmInv, Calm, OneCall, UsedIsDeleted, PublicIsKnown,
         Published, Issuing, Revoking, Binding
<1> QED
  BY <1>4, <1>5, <1>6, <1>7, <1>8 DEF Inv, TokenInv

\* The new token becomes public, and keeps the invariant.
LEMMA PublishStep ==
  ASSUME Inv, None \notin Tokens, NEW c \in Calls, Publish(c)
  PROVE  Inv'
<1> DEFINE u == call[c].user
           t == call[c].token
<1>1. /\ call[c].at = "publish" /\ Goto(c, "saveToken")
      /\ public' = [public EXCEPT ![t] = u]
      /\ UNCHANGED <<limit, token, telegram, old, links, revoked, stale, crashed>>
  BY DEF Publish
<1>2. /\ call'[c].at = "saveToken" /\ call'[c].user = u /\ call'[c].token = t
      /\ call' \in [Calls -> Request] /\ \A o \in Calls \ {c} : call'[o] = call[o]
  BY <1>1, GoOn DEF Inv, TokenInv
<1>3. /\ u \in Users /\ t \in Tokens /\ t \in old.issued
      /\ \A x \in Tokens : public'[x] = IF x = t THEN u ELSE public[x]
      /\ public' \in [Tokens -> {None} \cup Users]
      /\ \A v \in Users : token[v] # t
  BY <1>1 DEF Inv, TokenInv, Types, TokensInHand, Issuing
<1>4. Types'
  BY <1>1, <1>2, <1>3 DEF Inv, TokenInv, Types, Issuing, Binding
<1>5. OneLock' /\ TokensInHand'
  BY <1>1, <1>2, <1>3 DEF Inv, TokenInv, OneLock, TokensInHand, Issuing, Revoking
<1>6. TokensAreIssued'
  BY <1>1, <1>2, <1>3 DEF Inv, TokenInv, TokensAreIssued, Published, Binding
<1>7. PublicUntilUsed'
  <2>1. TokenIsPublic'
    BY <1>1, <1>2, <1>3 DEF Inv, TokenInv, PublicUntilUsed, TokenIsPublic, Types
  <2>2. \A o \in Calls \ {c} : call[o].at = "saveToken" => call[o].token # t /\ call[o].token \in Tokens
    BY <1>1 DEF Inv, TokenInv, TokensInHand, Types, Issuing
  <2> QED
    BY <1>1, <1>2, <1>3, <2>1, <2>2 DEF Inv, TokenInv, PublicUntilUsed, Gone
<1>8. CalmInv'
  <2> SUFFICES ASSUME Calm' PROVE CalmInv'
    BY DEF CalmInv
  <2>1. Calm /\ OneCall /\ UsedIsDeleted
    BY <1>1 DEF Inv, CalmInv, Calm
  <2>2. OneCall'
    BY <1>1, <1>2, <2>1 DEF OneCall
  <2>3. \A o \in Calls \ {c} : call[o].at = "idle"
    BY <1>1, <2>1 DEF OneCall
  <2>4. UsedIsDeleted'
    BY <1>1, <1>2, <1>3, <2>1, <2>3 DEF UsedIsDeleted, Issuing, Binding
  <2>5. (\A x \in stale' : links'[x] = 0) => PublicIsKnown'
    BY <1>1, <1>2, <1>3, <2>1, <2>3 DEF Inv, CalmInv, PublicIsKnown, Published, Revoking, Binding
  <2> QED
    BY <2>2, <2>4, <2>5 DEF CalmInv
<1> QED
  BY <1>4, <1>5, <1>6, <1>7, <1>8 DEF Inv, TokenInv

\* The user has the token now; one that was superseded may stay in public.
LEMMA SaveTokenStep ==
  ASSUME Inv, None \notin Tokens, NEW c \in Calls, SaveToken(c)
  PROVE  Inv'
<1> DEFINE u == call[c].user
           t == call[c].token
<1>1. /\ call[c].at = "saveToken" /\ Leave(c)
      /\ token' = [token EXCEPT ![u] = t] /\ revoked' = revoked \ {u}
      /\ stale' = stale \cup {o \in Published \ {t} : public[o] = u}
      /\ UNCHANGED <<limit, telegram, public, old, links, crashed>>
  BY DEF SaveToken
<1>2. /\ call'[c].at = "idle" /\ call' \in [Calls -> Request]
      /\ \A o \in Calls \ {c} : call'[o] = call[o]
  BY <1>1, LeaveCall DEF Inv, TokenInv
<1>3. /\ u \in Users /\ t \in Tokens /\ t \in old.issued
      /\ \A v \in Users : token'[v] = IF v = u THEN t ELSE token[v]
      /\ token' \in [Users -> {None} \cup Tokens]
      /\ \A v \in Users : token[v] # t
      /\ \A d \in Calls \ {c} : call[d].at \in Issuing \cup Revoking => call[d].user # u
      /\ \A d \in Calls \ {c} : call[d].at \in Issuing => call[d].token # t
  BY <1>1 DEF Inv, TokenInv, Types, OneLock, TokensInHand, Issuing
<1>4. Types'
  BY <1>1, <1>2, <1>3 DEF Inv, TokenInv, Types, Published, Issuing, Binding
<1>5. OneLock'
  BY <1>1, <1>2 DEF Inv, TokenInv, OneLock, Issuing, Revoking
<1>6. TokensInHand'
  <2> SUFFICES ASSUME NEW d \in Calls \ {c}, call[d].at \in Issuing \cup Revoking \cup {"revoke"}
               PROVE  /\ call[d].at \in Issuing =>
                           /\ call[d].token \in old.issued
                           /\ \A v \in Users : token'[v] # call[d].token
                           /\ \A e \in Calls \ {c} : call[e].at \in Issuing
                                /\ call[e].token = call[d].token => d = e
                      /\ call[d].at \in Revoking \cup {"revoke"} /\ call[d].token # None =>
                           /\ call[d].token \in old.issued
                           /\ \A v \in Users : token'[v] = call[d].token => v = call[d].user
                           /\ \A e \in Calls \ {c} : call[e].at \in Issuing => call[e].token # call[d].token
    BY <1>1, <1>2 DEF TokensInHand, Issuing, Revoking
  <2>1. call[c].at \in Issuing
    BY <1>1 DEF Issuing
  <2>2. call[d].at \in Revoking \cup {"revoke"} => call[d].token # t
    BY <2>1, <1>3 DEF Inv, TokenInv, TokensInHand
  <2> QED
    BY <1>3, <2>2 DEF Inv, TokenInv, TokensInHand
<1>7. TokensAreIssued'
  BY <1>1, <1>2, <1>3 DEF Inv, TokenInv, TokensAreIssued, Published, Binding
<1>8. PublicUntilUsed'
  <2>1. public[t] = u \/ Gone(t)
    BY <1>1 DEF Inv, TokenInv, PublicUntilUsed
  <2>2. TokenIsPublic'
    BY <1>1, <1>2, <1>3, <2>1 DEF Inv, TokenInv, PublicUntilUsed, TokenIsPublic, Gone
  <2> QED
    BY <1>1, <1>2, <2>2 DEF Inv, TokenInv, PublicUntilUsed, Gone
<1>9. CalmInv'
  <2> SUFFICES ASSUME Calm' PROVE CalmInv'
    BY DEF CalmInv
  <2>1. Calm /\ OneCall /\ UsedIsDeleted
    BY <1>1 DEF Inv, CalmInv, Calm
  <2>2. \A o \in Calls : call'[o].at = "idle"
    BY <1>1, <1>2, <2>1 DEF OneCall
  <2>3. OneCall' /\ UsedIsDeleted'
    BY <1>1, <1>2, <2>1, <2>2 DEF OneCall, UsedIsDeleted, Issuing, Binding
  <2>4. ASSUME \A x \in stale' : links'[x] = 0 PROVE PublicIsKnown'
    <3>1. PublicIsKnown
      BY <1>1, <2>1, <2>4 DEF Inv, CalmInv
    <3>2. ASSUME NEW x \in Published PROVE token'[public[x]] = x \/ x \in stale'
      <4>1. public[x] \in Users
        BY DEF Published, Inv, TokenInv, Types
      <4>2. CASE x = t
        BY <1>1, <1>3, <3>1, <4>2 DEF PublicIsKnown, Published
      <4>3. CASE x # t
        BY <1>1, <1>3, <2>1, <3>1, <4>1, <4>3 DEF PublicIsKnown, OneCall
      <4> QED
        BY <4>2, <4>3
    <3>3. \A v \in revoked' : token'[v] = None /\ telegram'[v] = None
      BY <1>1, <1>3, <3>1 DEF PublicIsKnown, Inv, TokenInv, Types
    <3> QED
      BY <1>1, <2>2, <3>2, <3>3 DEF PublicIsKnown, Published, Revoking, Binding
  <2> QED
    BY <2>3, <2>4 DEF CalmInv
<1> QED
  BY <1>4, <1>5, <1>6, <1>7, <1>8, <1>9 DEF Inv, TokenInv

\* A revocation that reads the row of the user keeps the invariant.
LEMMA RevokeLinkStep ==
  ASSUME Inv, None \notin Tokens, IsFiniteSet(Calls),
         NEW c \in Calls, NEW u \in Users, RevokeLink(c, u)
  PROVE  Inv'
<1> DEFINE r == [at |-> "revoke", user |-> u, token |-> token[u], who |-> telegram[u]]
<1>1. /\ Start(c, r)
      /\ UNCHANGED <<limit, token, telegram, public, old, links, revoked, stale, crashed>>
  BY DEF RevokeLink
<1>2. /\ r.at = "revoke" /\ r.user = u /\ r.token = token[u] /\ r.who = telegram[u]
      /\ call' \in [Calls -> Request] /\ call[c].at = "idle"
      /\ \A o \in Calls : call'[o] = IF o = c THEN r ELSE call[o]
      /\ limit = 1 => \A o \in Calls : call[o].at = "idle"
  <2>1. token[u] \in {None} \cup Tokens /\ telegram[u] \in {None} \cup People
    BY DEF Inv, TokenInv, Types
  <2>2. r \in Request /\ r.at = "revoke" /\ r.user = u /\ r.token = token[u] /\ r.who = telegram[u]
    BY <2>1 DEF Request
  <2> QED
    BY <1>1, <2>2, StartCall DEF Inv, TokenInv
<1> HIDE DEF r
<1>3. Types'
  BY <1>1, <1>2 DEF Inv, TokenInv, Types, Issuing, Binding
<1>4. OneLock'
  BY <1>1, <1>2 DEF Inv, TokenInv, OneLock, Issuing, Revoking
<1>5. TokensInHand'
  <2>1. token[u] # None =>
          /\ token[u] \in old.issued
          /\ \A v \in Users : token[v] = token[u] => v = u
          /\ \A d \in Calls : call[d].at \in Issuing => call[d].token # token[u]
    BY DEF Inv, TokenInv, TokensAreIssued, TokensInHand
  <2> QED
    BY <1>1, <1>2, <2>1 DEF Inv, TokenInv, TokensInHand, Issuing, Revoking
<1>6. TokensAreIssued' /\ PublicUntilUsed'
  BY <1>1, <1>2
     DEF Inv, TokenInv, TokensAreIssued, Published, Binding, PublicUntilUsed, TokenIsPublic, Gone
<1>7. CalmInv'
  BY <1>1, <1>2
     DEF Inv, TokenInv, CalmInv, Calm, OneCall, UsedIsDeleted, PublicIsKnown, Published,
         Issuing, Revoking, Binding
<1> QED
  BY <1>3, <1>4, <1>5, <1>6, <1>7 DEF Inv, TokenInv

\* Its flush locks the row.
LEMMA FlushUserStep ==
  ASSUME Inv, NEW c \in Calls, FlushUser(c)
  PROVE  Inv'
<1> DEFINE u == call[c].user
           t == call[c].token
<1>1. /\ call[c].at = "revoke" /\ ~Locked(u) /\ Goto(c, "unpublish")
      /\ UNCHANGED <<limit, token, telegram, public, old, links, revoked, stale, crashed>>
  BY DEF FlushUser
<1>2. /\ call'[c].at = "unpublish" /\ call'[c].user = u /\ call'[c].token = t
      /\ call'[c].who = call[c].who
      /\ call' \in [Calls -> Request] /\ \A o \in Calls \ {c} : call'[o] = call[o]
  BY <1>1, GoOn DEF Inv, TokenInv
<1>3. Types'
  BY <1>1, <1>2 DEF Inv, TokenInv, Types, Issuing, Binding
<1>4. OneLock'
  BY <1>1, <1>2 DEF Inv, TokenInv, OneLock, Locked, Issuing, Revoking
<1>5. TokensInHand'
  BY <1>1, <1>2 DEF Inv, TokenInv, TokensInHand, Issuing, Revoking
<1>6. TokensAreIssued' /\ PublicUntilUsed'
  BY <1>1, <1>2
     DEF Inv, TokenInv, TokensAreIssued, Published, Binding, PublicUntilUsed, TokenIsPublic, Gone
<1>7. CalmInv'
  <2> SUFFICES ASSUME Calm' PROVE CalmInv'
    BY DEF CalmInv
  <2>1. Calm /\ OneCall /\ UsedIsDeleted
    BY <1>1 DEF Inv, CalmInv, Calm
  <2>2. OneCall' /\ UsedIsDeleted'
    BY <1>1, <1>2, <2>1 DEF OneCall, UsedIsDeleted, Issuing, Binding
  <2>3. (\A x \in stale' : links'[x] = 0) => PublicIsKnown'
    BY <1>1, <1>2, <2>1 DEF Inv, CalmInv, PublicIsKnown, Published, Revoking, Binding
  <2> QED
    BY <2>2, <2>3 DEF CalmInv
<1> QED
  BY <1>3, <1>4, <1>5, <1>6, <1>7 DEF Inv, TokenInv

\* A revocation that has nothing to write ends.
LEMMA NothingToClearStep ==
  ASSUME Inv, NEW c \in Calls, NothingToClear(c)
  PROVE  Inv'
<1> DEFINE u == call[c].user
<1>1. /\ call[c].at = "revoke" /\ call[c].token = None /\ call[c].who = None /\ Leave(c)
      /\ revoked' = revoked \cup {u}
      /\ UNCHANGED <<limit, token, telegram, public, old, links, stale, crashed>>
  BY DEF NothingToClear
<1>2. /\ call'[c].at = "idle" /\ call' \in [Calls -> Request]
      /\ \A o \in Calls \ {c} : call'[o] = call[o]
  BY <1>1, LeaveCall DEF Inv, TokenInv
<1>3. u \in Users
  BY <1>1 DEF Inv, TokenInv, Types
<1>4. Types'
  BY <1>1, <1>2, <1>3 DEF Inv, TokenInv, Types, Issuing, Binding
<1>5. OneLock' /\ TokensInHand'
  BY <1>1, <1>2 DEF Inv, TokenInv, OneLock, TokensInHand, Issuing, Revoking
<1>6. TokensAreIssued' /\ PublicUntilUsed'
  BY <1>1, <1>2
     DEF Inv, TokenInv, TokensAreIssued, Published, Binding, PublicUntilUsed, TokenIsPublic, Gone
<1>7. CalmInv'
  <2> SUFFICES ASSUME Calm' PROVE CalmInv'
    BY DEF CalmInv
  <2>1. Calm /\ OneCall /\ UsedIsDeleted
    BY <1>1 DEF Inv, CalmInv, Calm
  <2>2. \A o \in Calls : call'[o].at = "idle"
    BY <1>1, <1>2, <2>1 DEF OneCall
  <2>3. OneCall' /\ UsedIsDeleted'
    BY <1>1, <1>2, <2>1, <2>2 DEF OneCall, UsedIsDeleted, Issuing, Binding
  <2>4. ASSUME \A x \in stale' : links'[x] = 0 PROVE PublicIsKnown'
    <3>1. PublicIsKnown
      BY <1>1, <2>1, <2>4 DEF Inv, CalmInv
    <3>2. token[u] = None /\ telegram[u] = None
      BY <1>1, <3>1 DEF PublicIsKnown
    <3>3. \A d \in Calls : call[d].at # "idle" => d = c
      BY <1>1, <2>1 DEF OneCall
    <3> QED
      BY <1>1, <2>2, <3>1, <3>2, <3>3 DEF PublicIsKnown, Published, Revoking, Binding
  <2> QED
    BY <2>3, <2>4 DEF CalmInv
<1> QED
  BY <1>4, <1>5, <1>6, <1>7 DEF Inv, TokenInv

\* The revoked token leaves public; until the user's row is written the request
\* stands for that.
LEMMA UnpublishStep ==
  ASSUME Inv, None \notin Tokens, NEW c \in Calls, Unpublish(c)
  PROVE  Inv'
<1> DEFINE u == call[c].user
           t == call[c].token
<1>1. /\ call[c].at = "unpublish" /\ Goto(c, "clear")
      /\ public' = [x \in Tokens |-> IF x = t THEN None ELSE public[x]]
      /\ UNCHANGED <<limit, token, telegram, old, links, revoked, stale, crashed>>
  BY DEF Unpublish
<1>2. /\ call'[c].at = "clear" /\ call'[c].user = u /\ call'[c].token = t
      /\ call'[c].who = call[c].who
      /\ call' \in [Calls -> Request] /\ \A o \in Calls \ {c} : call'[o] = call[o]
  BY <1>1, GoOn DEF Inv, TokenInv
<1>3. /\ u \in Users
      /\ \A x \in Tokens : public'[x] = IF x = t THEN None ELSE public[x]
      /\ public' \in [Tokens -> {None} \cup Users]
  BY <1>1 DEF Inv, TokenInv, Types, TokensInHand, Revoking
<1>4. Types'
  BY <1>1, <1>2, <1>3 DEF Inv, TokenInv, Types, Issuing, Binding
<1>5. OneLock' /\ TokensInHand'
  BY <1>1, <1>2, <1>3 DEF Inv, TokenInv, OneLock, TokensInHand, Issuing, Revoking
<1>6. TokensAreIssued'
  BY <1>1, <1>2, <1>3 DEF Inv, TokenInv, TokensAreIssued, Published, Binding
<1>7. PublicUntilUsed'
  <2>1. TokenIsPublic'
    BY <1>1, <1>2, <1>3 DEF Inv, TokenInv, PublicUntilUsed, TokenIsPublic, Types
  <2>2. \A o \in Calls \ {c} : call[o].at = "saveToken" => call[o].token # t /\ call[o].token \in Tokens
    BY <1>1 DEF Inv, TokenInv, TokensInHand, Types, Issuing, Revoking
  <2> QED
    BY <1>1, <1>2, <1>3, <2>1, <2>2 DEF Inv, TokenInv, PublicUntilUsed, Gone
<1>8. CalmInv'
  <2> SUFFICES ASSUME Calm' PROVE CalmInv'
    BY DEF CalmInv
  <2>1. Calm /\ OneCall /\ UsedIsDeleted
    BY <1>1 DEF Inv, CalmInv, Calm
  <2>2. \A o \in Calls \ {c} : call[o].at = "idle"
    BY <1>1, <2>1 DEF OneCall
  <2>3. OneCall' /\ UsedIsDeleted'
    BY <1>1, <1>2, <1>3, <2>1, <2>2 DEF OneCall, UsedIsDeleted, Issuing, Binding
  <2>4. (\A x \in stale' : links'[x] = 0) => PublicIsKnown'
    BY <1>1, <1>2, <1>3, <2>1, <2>2 DEF Inv, CalmInv, PublicIsKnown, Published, Revoking, Binding
  <2> QED
    BY <2>3, <2>4 DEF CalmInv
<1> QED
  BY <1>4, <1>5, <1>6, <1>7, <1>8 DEF Inv, TokenInv

\* A revocation clears what the row of the user has, and keeps the invariant.
LEMMA ClearUserStep ==
  ASSUME Inv, None \notin Tokens, NEW c \in Calls, ClearUser(c)
  PROVE  Inv'
<1> DEFINE u == call[c].user
           t == call[c].token
<1>1. /\ call[c].at = "clear" /\ Leave(c)
      /\ token' = [token EXCEPT ![u] = IF t = None THEN @ ELSE None]
      /\ telegram' = [telegram EXCEPT ![u] = IF call[c].who = None THEN @ ELSE None]
      /\ revoked' = revoked \cup {u}
      /\ UNCHANGED <<limit, public, old, links, stale, crashed>>
  BY DEF ClearUser
<1>2. /\ call'[c].at = "idle" /\ call' \in [Calls -> Request]
      /\ \A o \in Calls \ {c} : call'[o] = call[o]
  BY <1>1, LeaveCall DEF Inv, TokenInv
<1>3. /\ u \in Users
      /\ \A v \in Users : token'[v] = IF v = u /\ t # None THEN None ELSE token[v]
      /\ \A v \in Users : telegram'[v] = IF v = u /\ call[c].who # None THEN None ELSE telegram[v]
      /\ token' \in [Users -> {None} \cup Tokens] /\ telegram' \in [Users -> {None} \cup People]
      /\ \A d \in Calls \ {c} : call[d].at \in Issuing \cup Revoking => call[d].user # u
  BY <1>1 DEF Inv, TokenInv, Types, OneLock, TokensInHand, Revoking
<1>4. Types'
  BY <1>1, <1>2, <1>3 DEF Inv, TokenInv, Types, Issuing, Binding
<1>5. OneLock'
  BY <1>1, <1>2 DEF Inv, TokenInv, OneLock, Issuing, Revoking
<1>6. TokensInHand'
  <2>1. \A d \in Calls : call[d].at \in Issuing => call[d].token # None
    BY DEF Inv, TokenInv, Types, Issuing
  <2>2. \A d \in Calls : call[d].at \in Revoking => call[d].user \in Users
    BY DEF Inv, TokenInv, Types, Revoking
  <2> QED
    BY <1>1, <1>2, <1>3, <2>1, <2>2 DEF Inv, TokenInv, TokensInHand, Issuing, Revoking
<1>7. TokensAreIssued'
  BY <1>1, <1>2, <1>3 DEF Inv, TokenInv, TokensAreIssued, Published, Binding
<1>8. PublicUntilUsed'
  <2>1. ASSUME NEW v \in Users, token'[v] # None PROVE token'[v] # t /\ token'[v] = token[v]
    BY <1>1, <1>3, <2>1 DEF Inv, TokenInv, TokensInHand, Revoking
  <2>2. TokenIsPublic'
    BY <1>1, <1>2, <1>3, <2>1 DEF Inv, TokenInv, PublicUntilUsed, TokenIsPublic
  <2> QED
    BY <1>1, <1>2, <2>2 DEF Inv, TokenInv, PublicUntilUsed, Gone
<1>9. CalmInv'
  <2> SUFFICES ASSUME Calm' PROVE CalmInv'
    BY DEF CalmInv
  <2>1. Calm /\ OneCall /\ UsedIsDeleted
    BY <1>1 DEF Inv, CalmInv, Calm
  <2>2. \A o \in Calls : call'[o].at = "idle"
    BY <1>1, <1>2, <2>1 DEF OneCall
  <2>3. OneCall' /\ UsedIsDeleted'
    BY <1>1, <1>2, <2>1, <2>2 DEF OneCall, UsedIsDeleted, Issuing, Binding
  <2>4. ASSUME \A x \in stale' : links'[x] = 0 PROVE PublicIsKnown'
    <3>1. PublicIsKnown
      BY <1>1, <2>1, <2>4 DEF Inv, CalmInv
    <3>2. ASSUME NEW x \in Published PROVE token'[public[x]] = x \/ x \in stale'
      <4>1. public[x] \in Users /\ x # t
        BY <1>1, <3>1 DEF Published, PublicIsKnown, Inv, TokenInv, Types
      <4>2. token[public[x]] = x \/ x \in stale
        BY <1>1, <2>1, <3>1 DEF PublicIsKnown, OneCall
      <4>3. t = token[u]
        BY <1>1, <3>1 DEF PublicIsKnown, Revoking
      <4> QED
        BY <1>1, <1>3, <4>1, <4>2, <4>3
    <3>3. \A v \in revoked' : token'[v] = None /\ telegram'[v] = None
      <4>1. t = token[u] /\ call[c].who = telegram[u]
        BY <1>1, <3>1 DEF PublicIsKnown, Revoking
      <4> QED
        BY <1>1, <1>3, <3>1, <4>1 DEF PublicIsKnown, Inv, TokenInv, Types
    <3> QED
      BY <1>1, <2>2, <3>2, <3>3 DEF PublicIsKnown, Published, Revoking, Binding
  <2> QED
    BY <2>3, <2>4 DEF CalmInv
<1> QED
  BY <1>4, <1>5, <1>6, <1>7, <1>8, <1>9 DEF Inv, TokenInv

\* A token expires, and an expired one leaves public.
LEMMA ExpiryStep ==
  ASSUME Inv, NEW t \in Tokens, Pass(t) \/ SweepToken(t)
  PROVE  Inv'
<1>1. /\ old'.issued = old.issued /\ old.expired \subseteq old'.expired
      /\ old' \in [issued : SUBSET Tokens, expired : SUBSET Tokens]
      /\ \A x \in Tokens : public'[x] = public[x] \/ (public'[x] = None /\ x \in old.expired)
      /\ public' \in [Tokens -> {None} \cup Users]
      /\ UNCHANGED <<limit, token, telegram, call, links, revoked, stale, crashed>>
  BY DEF Pass, SweepToken, Inv, TokenInv, Types
<1>2. Types' /\ OneLock' /\ TokensInHand'
  BY <1>1 DEF Inv, TokenInv, Types, OneLock, TokensInHand
<1>3. TokensAreIssued'
  BY <1>1 DEF Inv, TokenInv, TokensAreIssued, Published
<1>4. PublicUntilUsed'
  <2>1. TokenIsPublic'
    BY <1>1 DEF Inv, TokenInv, PublicUntilUsed, TokenIsPublic, Types
  <2>2. \A c \in Calls : call[c].at = "saveToken" => call[c].token \in Tokens
    BY DEF Inv, TokenInv, Types, Issuing
  <2> QED
    BY <1>1, <2>1, <2>2 DEF Inv, TokenInv, PublicUntilUsed, Gone
<1>5. CalmInv'
  <2>1. \A c \in Calls : call[c].at = "saveToken" => call[c].token \in Tokens
    BY DEF Inv, TokenInv, Types, Issuing
  <2>2. Published' \subseteq Published /\ \A x \in Published' : public'[x] = public[x]
    BY <1>1 DEF Published
  <2>3. Calm' => Calm /\ OneCall' /\ UsedIsDeleted'
    BY <1>1 DEF Inv, CalmInv, Calm, OneCall, UsedIsDeleted
  <2>4. Calm' /\ (\A x \in stale' : links'[x] = 0) => PublicIsKnown'
    BY <1>1, <2>1, <2>2, <2>3 DEF Inv, CalmInv, PublicIsKnown
  <2> QED
    BY <2>3, <2>4 DEF CalmInv
<1> QED
  BY <1>2, <1>3, <1>4, <1>5 DEF Inv, TokenInv

\* The bot finds a token that is public.
LEMMA FindTokenStep ==
  ASSUME Inv, None \notin Tokens, IsFiniteSet(Calls),
         NEW c \in Calls, NEW t \in Tokens, NEW p \in People, FindToken(c, t, p)
  PROVE  Inv'
<1> DEFINE r == [at |-> "load", user |-> public[t], token |-> t, who |-> p]
<1>1. /\ t \in Published /\ Start(c, r)
      /\ UNCHANGED <<limit, token, telegram, public, old, links, revoked, stale, crashed>>
  BY DEF FindToken
<1>2. public[t] \in Users
  BY <1>1 DEF Published, Inv, TokenInv, Types
<1>3. /\ r.at = "load" /\ r.user = public[t] /\ r.token = t /\ r.who = p
      /\ call' \in [Calls -> Request] /\ call[c].at = "idle"
      /\ \A o \in Calls : call'[o] = IF o = c THEN r ELSE call[o]
      /\ limit = 1 => \A o \in Calls : call[o].at = "idle"
  <2>1. r \in Request
    BY <1>2 DEF Request, Binding
  <2> QED
    BY <1>1, <2>1, StartCall DEF Inv, TokenInv
<1> HIDE DEF r
<1>4. Types'
  BY <1>1, <1>2, <1>3 DEF Inv, TokenInv, Types, Issuing, Binding
<1>5. OneLock' /\ TokensInHand'
  BY <1>1, <1>3 DEF Inv, TokenInv, OneLock, TokensInHand, Issuing, Revoking
<1>6. TokensAreIssued' /\ PublicUntilUsed'
  BY <1>1, <1>3
     DEF Inv, TokenInv, TokensAreIssued, Published, Binding, PublicUntilUsed, TokenIsPublic, Gone
<1>7. CalmInv'
  <2> SUFFICES ASSUME Calm' PROVE CalmInv'
    BY DEF CalmInv
  <2>1. Calm /\ UsedIsDeleted /\ \A o \in Calls : call[o].at = "idle"
    BY <1>1, <1>3 DEF Inv, CalmInv, Calm
  <2>2. links[t] = 0
    BY <1>1, <2>1 DEF UsedIsDeleted, Published, Inv, TokenInv, Types
  <2>3. OneCall' /\ UsedIsDeleted'
    BY <1>1, <1>3, <2>1, <2>2 DEF OneCall, UsedIsDeleted, Issuing, Binding
  <2>4. (\A x \in stale' : links'[x] = 0) => PublicIsKnown'
    BY <1>1, <1>3, <2>1 DEF Inv, CalmInv, PublicIsKnown, Published, Revoking, Binding
  <2> QED
    BY <2>3, <2>4 DEF CalmInv
<1> QED
  BY <1>4, <1>5, <1>6, <1>7 DEF Inv, TokenInv

\* The bot reads the user, or a request breaks off: no row is written.
LEMMA LoadOrCrashStep ==
  ASSUME Inv, NEW c \in Calls, LoadUser(c) \/ Crash(c)
  PROVE  Inv'
<1>1. /\ \A o \in Calls \ {c} : call'[o] = call[o]
      /\ call' \in [Calls -> Request]
      /\ \/ call'[c].at = "idle" /\ (crashed' \/ (crashed' = crashed /\ call[c].at = "load"))
         \/ /\ call[c].at = "load" /\ call'[c].at \in {"bind", "bindAndClear"}
            /\ call'[c].user = call[c].user /\ call'[c].token = call[c].token
            /\ call'[c].who = call[c].who /\ crashed' = crashed
      /\ UNCHANGED <<limit, token, telegram, public, old, links, revoked, stale>>
      /\ crashed' \in BOOLEAN /\ (crashed => crashed')
  <2>1. CASE Leave(c)
    BY <2>1, LeaveCall DEF LoadUser, Crash, Inv, TokenInv, Types
  <2>2. CASE ~Leave(c)
    <3>1. PICK step \in {"bind", "bindAndClear"} : Goto(c, step)
      BY <2>2 DEF LoadUser, Crash
    <3>2. /\ call[c].at = "load"
          /\ UNCHANGED <<limit, token, telegram, public, old, links, revoked, stale, crashed>>
      BY <2>2 DEF LoadUser, Crash
    <3> QED
      BY <3>1, <3>2, GoOn DEF Inv, TokenInv, Types
  <2> QED
    BY <2>1, <2>2
<1>2. Types'
  BY <1>1 DEF Inv, TokenInv, Types, Issuing, Binding
<1>3. OneLock' /\ TokensInHand'
  BY <1>1 DEF Inv, TokenInv, OneLock, TokensInHand, Issuing, Revoking
<1>4. TokensAreIssued'
  BY <1>1 DEF Inv, TokenInv, TokensAreIssued, Published, Binding
<1>5. PublicUntilUsed'
  BY <1>1 DEF Inv, TokenInv, PublicUntilUsed, TokenIsPublic, Gone
<1>6. CalmInv'
  <2> SUFFICES ASSUME Calm' PROVE CalmInv'
    BY DEF CalmInv
  <2>1. Calm /\ OneCall /\ UsedIsDeleted /\ call[c].at = "load"
    BY <1>1 DEF Inv, CalmInv, Calm, TokenInv, Types
  <2>2. OneCall' /\ UsedIsDeleted'
    BY <1>1, <2>1 DEF OneCall, UsedIsDeleted, Issuing, Binding
  <2>3. (\A x \in stale' : links'[x] = 0) => PublicIsKnown'
    BY <1>1, <2>1 DEF Inv, CalmInv, PublicIsKnown, Published, Revoking, Binding
  <2> QED
    BY <2>2, <2>3 DEF CalmInv
<1> QED
  BY <1>2, <1>3, <1>4, <1>5, <1>6 DEF Inv, TokenInv

\* The binding itself.
LEMMA BindUserStep ==
  ASSUME Inv, None \notin Tokens, NEW c \in Calls, BindUser(c)
  PROVE  Inv'
<1> DEFINE u == call[c].user
           t == call[c].token
<1>1. /\ call[c].at \in {"bind", "bindAndClear"} /\ ~Locked(u)
      /\ telegram' = [telegram EXCEPT ![u] = call[c].who]
      /\ token' = [token EXCEPT ![u] = IF call[c].at = "bindAndClear" THEN None ELSE @]
      /\ links' = [links EXCEPT ![t] = @ + 1]
      /\ Goto(c, "delete")
      /\ UNCHANGED <<limit, public, old, revoked, stale, crashed>>
  BY DEF BindUser
<1>2. /\ call'[c].at = "delete" /\ call'[c].user = u /\ call'[c].token = t
      /\ call'[c].who = call[c].who
      /\ call' \in [Calls -> Request] /\ \A o \in Calls \ {c} : call'[o] = call[o]
  BY <1>1, GoOn DEF Inv, TokenInv
<1>3. /\ u \in Users /\ t \in Tokens /\ t \in old.issued /\ call[c].who \in People
      /\ \A v \in Users \ {u} : token'[v] = token[v] /\ telegram'[v] = telegram[v]
      /\ token'[u] \in {None, token[u]}
      /\ token' \in [Users -> {None} \cup Tokens] /\ telegram' \in [Users -> {None} \cup People]
      /\ \A x \in Tokens : links'[x] = IF x = t THEN links[t] + 1 ELSE links[x]
      /\ links' \in [Tokens -> Nat] /\ \A x \in Tokens : links[x] \in Nat
      /\ \A d \in Calls : call[d].at \in Issuing \cup Revoking => call[d].user # u
  BY <1>1 DEF Inv, TokenInv, Types, TokensAreIssued, Locked, Issuing, Revoking, Binding
<1>4. Types'
  BY <1>1, <1>2, <1>3 DEF Inv, TokenInv, Types, Issuing, Binding
<1>5. OneLock'
  BY <1>1, <1>2 DEF Inv, TokenInv, OneLock, Issuing, Revoking
<1>6. TokensInHand'
  <2>1. \A d \in Calls : call[d].at \in Issuing => call[d].token # None
    BY DEF Inv, TokenInv, Types, Issuing
  <2>2. \A d \in Calls : call[d].at \in Revoking => call[d].user \in Users
    BY DEF Inv, TokenInv, Types, Revoking
  <2> QED
    BY <1>1, <1>2, <1>3, <2>1, <2>2 DEF Inv, TokenInv, TokensInHand, Issuing, Revoking
<1>7. TokensAreIssued'
  BY <1>1, <1>2, <1>3 DEF Inv, TokenInv, TokensAreIssued, Published, Binding
<1>8. PublicUntilUsed'
  <2>1. \A x \in Tokens : Gone(x) => Gone(x)'
    BY <1>1, <1>3 DEF Gone
  <2>2. TokenIsPublic'
    <3> SUFFICES ASSUME NEW v \in Users, token'[v] # None
                 PROVE  \/ public[token[v]] = v \/ Gone(token[v])'
                        \/ \E d \in Calls : call'[d].at = "clear" /\ call'[d].token = token[v]
      BY <1>1, <1>3 DEF TokenIsPublic, Gone
    <3>1. token[v] # None /\ token[v] \in Tokens
      BY <1>3 DEF Inv, TokenInv, Types
    <3>2. \/ public[token[v]] = v \/ Gone(token[v])
          \/ \E d \in Calls : call[d].at = "clear" /\ call[d].token = token[v]
      BY <3>1 DEF Inv, TokenInv, PublicUntilUsed, TokenIsPublic, Gone
    <3> QED
      BY <1>1, <1>2, <2>1, <3>1, <3>2
  <2>3. \A d \in Calls : call[d].at \in {"saveToken", "delete"} => call[d].token \in Tokens
    BY DEF Inv, TokenInv, Types, Issuing
  <2>4. \A d \in Calls : call'[d].at = "delete" => links'[call'[d].token] > 0
    BY <1>1, <1>2, <1>3, <2>3 DEF Inv, TokenInv, PublicUntilUsed
  <2> QED
    BY <1>1, <1>2, <2>1, <2>2, <2>3, <2>4 DEF Inv, TokenInv, PublicUntilUsed
<1>9. CalmInv'
  <2> SUFFICES ASSUME Calm' PROVE CalmInv'
    BY DEF CalmInv
  <2>1. Calm /\ OneCall /\ UsedIsDeleted
    BY <1>1 DEF Inv, CalmInv, Calm
  <2>2. \A o \in Calls \ {c} : call[o].at = "idle"
    BY <1>1, <2>1 DEF OneCall
  <2>3. links[t] = 0 /\ \A x \in Tokens : links[x] > 0 => public[x] = None
    BY <1>1, <2>1, <2>2 DEF UsedIsDeleted, Binding
  <2>4. OneCall' /\ UsedIsDeleted'
    BY <1>1, <1>2, <1>3, <2>1, <2>2, <2>3 DEF OneCall, UsedIsDeleted, Issuing, Binding
  <2>5. ASSUME \A x \in stale' : links'[x] = 0 PROVE PublicIsKnown'
    <3>1. t \notin stale
      BY <1>1, <1>3, <2>3, <2>5
    <3>2. PublicIsKnown
      <4>1. \A x \in stale : x # t /\ x \in Tokens
        BY <3>1 DEF Inv, TokenInv, Types
      <4> QED
        BY <1>1, <1>3, <2>1, <2>5, <4>1 DEF Inv, CalmInv
    <3>3. token[u] = t
      BY <1>1, <3>1, <3>2 DEF PublicIsKnown, Binding
    <3>4. ASSUME NEW x \in Published
          PROVE token'[public[x]] = x \/ x \in stale \/ x = t
      <4>1. public[x] \in Users /\ (token[public[x]] = x \/ x \in stale)
        BY <1>1, <2>2, <3>2 DEF Published, PublicIsKnown, Inv, TokenInv, Types
      <4> QED
        BY <1>3, <3>3, <4>1
    <3>5. \A v \in revoked : v # u /\ v \in Users
      BY <1>3, <3>2, <3>3 DEF PublicIsKnown, Inv, TokenInv, Types
    <3>6. \A v \in revoked : token'[v] = None /\ telegram'[v] = None
      BY <1>3, <3>2, <3>5 DEF PublicIsKnown
    <3> QED
      BY <1>1, <1>2, <2>2, <3>4, <3>6 DEF PublicIsKnown, Published, Revoking, Binding
  <2> QED
    BY <2>4, <2>5 DEF CalmInv
<1> QED
  BY <1>4, <1>5, <1>6, <1>7, <1>8, <1>9 DEF Inv, TokenInv

\* The used token leaves public.
LEMMA DeleteTokenStep ==
  ASSUME Inv, NEW c \in Calls, DeleteToken(c)
  PROVE  Inv'
<1> DEFINE t == call[c].token
<1>1. /\ call[c].at = "delete" /\ Leave(c) /\ public' = [public EXCEPT ![t] = None]
      /\ UNCHANGED <<limit, token, telegram, old, links, revoked, stale, crashed>>
  BY DEF DeleteToken
<1>2. /\ call'[c].at = "idle" /\ call' \in [Calls -> Request]
      /\ \A o \in Calls \ {c} : call'[o] = call[o]
  BY <1>1, LeaveCall DEF Inv, TokenInv
<1>3. /\ t \in Tokens /\ links[t] > 0
      /\ \A x \in Tokens : public'[x] = IF x = t THEN None ELSE public[x]
      /\ public' \in [Tokens -> {None} \cup Users]
  BY <1>1 DEF Inv, TokenInv, Types, PublicUntilUsed
<1>4. Types'
  BY <1>1, <1>2, <1>3 DEF Inv, TokenInv, Types, Issuing, Binding
<1>5. OneLock' /\ TokensInHand'
  BY <1>1, <1>2 DEF Inv, TokenInv, OneLock, TokensInHand, Issuing, Revoking
<1>6. TokensAreIssued'
  BY <1>1, <1>2, <1>3 DEF Inv, TokenInv, TokensAreIssued, Published, Binding
<1>7. PublicUntilUsed'
  <2>1. TokenIsPublic'
    BY <1>1, <1>2, <1>3 DEF Inv, TokenInv, PublicUntilUsed, TokenIsPublic, Types
  <2>2. \A d \in Calls : call[d].at = "saveToken" => call[d].token \in Tokens
    BY DEF Inv, TokenInv, Types, Issuing
  <2> QED
    BY <1>1, <1>2, <1>3, <2>1, <2>2 DEF Inv, TokenInv, PublicUntilUsed, Gone
<1>8. CalmInv'
  <2> SUFFICES ASSUME Calm' PROVE CalmInv'
    BY DEF CalmInv
  <2>1. Calm /\ OneCall /\ UsedIsDeleted
    BY <1>1 DEF Inv, CalmInv, Calm
  <2>2. \A o \in Calls : call'[o].at = "idle"
    BY <1>1, <1>2, <2>1 DEF OneCall
  <2>3. \A o \in Calls : call[o].at # "idle" => o = c
    BY <1>1, <2>1 DEF OneCall
  <2>4. OneCall' /\ UsedIsDeleted'
    BY <1>1, <1>2, <1>3, <2>1, <2>2, <2>3 DEF OneCall, UsedIsDeleted, Issuing, Binding
  <2>5. (\A x \in stale' : links'[x] = 0) => PublicIsKnown'
    BY <1>1, <1>2, <1>3, <2>1, <2>2, <2>3 DEF Inv, CalmInv, PublicIsKnown, Published, Revoking, Binding
  <2> QED
    BY <2>4, <2>5 DEF CalmInv
<1> QED
  BY <1>4, <1>5, <1>6, <1>7, <1>8 DEF Inv, TokenInv

\* Every step preserves the invariant.
LEMMA TelegramStep ==
  ASSUME Inv, None \notin Tokens, IsFiniteSet(Calls), [TelegramNext]_<<limit, telegramVars>>
  PROVE  Inv'
<1>1. CASE UNCHANGED <<limit, telegramVars>>
  <2>1. UNCHANGED <<limit, token, telegram, public, call, old, links, revoked, stale, crashed>>
    BY <1>1 DEF telegramVars
  <2>2. TokenInv'
    BY <2>1 DEF Inv, TokenInv, Types, OneLock, TokensInHand, TokensAreIssued, Published,
                PublicUntilUsed, TokenIsPublic, Gone
  <2>3. CalmInv'
    BY <2>1 DEF Inv, CalmInv, Calm, OneCall, UsedIsDeleted, PublicIsKnown, Published
  <2> QED
    BY <2>2, <2>3 DEF Inv
<1>2. CASE TelegramNext
  BY <1>2, CreateLinkStep, PublishStep, SaveTokenStep, RevokeLinkStep, FlushUserStep,
     NothingToClearStep, UnpublishStep, ClearUserStep, ExpiryStep, FindTokenStep, LoadOrCrashStep, BindUserStep, DeleteTokenStep DEF TelegramNext
<1> QED
  BY <1>1, <1>2

\* The invariant holds before any token exists.
LEMMA TelegramStart ==
  ASSUME limit \in Nat, TelegramInit
  PROVE  Inv
<1>1. NoCall \in Request /\ NoCall.at = "idle"
  BY DEF NoCall, Request
<1>2. Published = {}
  BY DEF TelegramInit, Published
<1>3. TokenInv
  <2>1. Types
    BY <1>1 DEF TelegramInit, Types
  <2> QED
    BY <1>1, <1>2, <2>1
       DEF TelegramInit, TokenInv, OneLock, TokensInHand, TokensAreIssued,
           PublicUntilUsed, TokenIsPublic, Issuing, Revoking, Binding
<1>4. CalmInv
  BY <1>1, <1>2 DEF TelegramInit, CalmInv, OneCall, UsedIsDeleted, PublicIsKnown, Issuing, Revoking, Binding
<1> QED
  BY <1>3, <1>4 DEF Inv

-----------------------------------------------------------------------------

\* What the invariant says of revocations: a revoked user who is bound again was
\* bound by a token that is stale.
LEMMA RevokedStaysUnbound ==
  ASSUME Inv
  PROVE  RevocationSticks
<1> SUFFICES ASSUME Calm, NEW u \in revoked, telegram[u] # None, \A t \in stale : ~(links[t] > 0)
             PROVE  FALSE
  BY DEF RevocationSticks, Calm
<1>1. \A t \in stale : links[t] = 0
  BY DEF Inv, TokenInv, Types
<1> QED
  BY <1>1 DEF Inv, CalmInv, PublicIsKnown

\* A token is good for one binding, stays good until then or until it is revoked,
\* and after a revocation the user stays unbound, however requests of users and of
\* the bot overlap and break off as far as each part allows it.
THEOREM TokenServesOnceCorrect ==
  ASSUME None \notin Tokens, IsFiniteSet(Calls)
  PROVE  TelegramSpec => []TokenServesOnce
<1>1. Inv => TelegramTypeOK
  BY DEF Inv, TokenInv, Types, TokensAreIssued, TelegramTypeOK, Published
<1>2. Inv => TokenServesOnce
  BY <1>1, RevokedStaysUnbound
     DEF Inv, TokenInv, PublicUntilUsed, CalmInv, Calm, UsedIsDeleted, TokenServesOnce, TokenBindsOnce
<1> QED
  BY <1>2, TelegramStart, TelegramStep, PTL DEF TelegramSpec

=============================================================================
