--------------------------- MODULE BroadcastProofs ---------------------------
(***************************************************************************)
(* Proofs about Broadcast: for any audience, batch size and number of      *)
(* executions that crash, repeat and overlap, nobody hears twice but for   *)
(* what was rolled back, the progress counts committed notifications only, *)
(* and a rollback loses at most a batch.                                   *)
(***************************************************************************)
EXTENDS Broadcast, FiniteSetTheorems, TLAPS

-----------------------------------------------------------------------------
(* Arithmetic of batches *)

\* A remainder by the batch size.
LEMMA ModBatch ==
  ASSUME NEW n \in Nat
  PROVE  /\ n = Batch * (n \div Batch) + (n % Batch)
         /\ n % Batch \in 0 .. Batch - 1
         /\ n \div Batch \in Nat
BY BroadcastAssumption

\* One user more that does not fill a batch is one more in the open batch.
LEMMA ModSucc ==
  ASSUME NEW n \in Nat, (n + 1) % Batch # 0
  PROVE  (n + 1) % Batch = (n % Batch) + 1
<1> DEFINE q == n \div Batch
           r == n % Batch
           p == (n + 1) \div Batch
           k == (n + 1) % Batch
<1>1. /\ n = Batch * q + r /\ r \in 0 .. Batch - 1 /\ q \in Nat
  BY ModBatch
<1>2. /\ n + 1 = Batch * p + k /\ k \in 1 .. Batch - 1 /\ p \in Nat
  BY ModBatch
<1>3. Batch \in Nat \ {0}
  BY BroadcastAssumption
<1> HIDE DEF q, r, p, k
<1>4. ~(p < q)
  <2>1. ASSUME p < q PROVE Batch * p + Batch <= Batch * q
    BY <1>1, <1>2, <1>3, <2>1
  <2> QED
    BY <1>1, <1>2, <1>3, <2>1
<1>5. ~(q < p)
  <2>1. ASSUME q < p PROVE Batch * q + Batch <= Batch * p
    BY <1>1, <1>2, <1>3, <2>1
  <2> QED
    BY <1>1, <1>2, <1>3, <2>1
<1>6. p = q
  BY <1>1, <1>2, <1>4, <1>5
<1>7. k = r + 1
  BY <1>1, <1>2, <1>3, <1>6
<1> QED
  BY <1>7 DEF k, r

-----------------------------------------------------------------------------
(* Sets of rows *)

\* Users are finite, and so are the rows of an execution.
LEMMA RowsAreFinite ==
  ASSUME NEW r
  PROVE  /\ IsFiniteSet(HeldRows(r)) /\ Cardinality(HeldRows(r)) \in Nat
         /\ IsFiniteSet(OpenRows(r)) /\ Cardinality(OpenRows(r)) \in Nat
         /\ IsFiniteSet(CommittedUsers) /\ Cardinality(CommittedUsers) \in Nat
<1>1. /\ HeldRows(r) \subseteq Users /\ OpenRows(r) \subseteq Users
      /\ CommittedUsers \subseteq Users /\ IsFiniteSet(Users)
  BY BroadcastAssumption DEF HeldRows, OpenRows, CommittedUsers
<1> QED
  BY <1>1, FS_Subset, FS_CardinalityType

\* The same in the next state.
LEMMA RowsStayFinite ==
  ASSUME NEW r
  PROVE  /\ IsFiniteSet(HeldRows(r)') /\ Cardinality(HeldRows(r)') \in Nat
         /\ IsFiniteSet(OpenRows(r)') /\ Cardinality(OpenRows(r)') \in Nat
         /\ IsFiniteSet(CommittedUsers') /\ Cardinality(CommittedUsers') \in Nat
<1>1. /\ HeldRows(r)' \subseteq Users /\ OpenRows(r)' \subseteq Users
      /\ CommittedUsers' \subseteq Users /\ IsFiniteSet(Users)
  BY BroadcastAssumption DEF HeldRows, OpenRows, CommittedUsers
<1> QED
  BY <1>1, FS_Subset, FS_CardinalityType

\* A COMMIT of one execution: its open rows are committed.
LEMMA CommitEffect ==
  ASSUME TypeOK, NEW r \in Runs, row' = CommittedRows(r)
  PROVE  /\ row' \in [Pairs -> {"none", "open", "committed", "aborted"}]
         /\ \A s \in Runs : HeldRows(s)' = HeldRows(s)
         /\ \A s \in Runs \ {r} : OpenRows(s)' = OpenRows(s)
         /\ OpenRows(r)' = {}
         /\ HeldRows(r) \subseteq CommittedUsers'
         /\ CommittedUsers \subseteq CommittedUsers'
         /\ \A p \in Pairs : row[p] = "committed" => row'[p] = "committed"
         /\ \A p \in Pairs : row[p] # "none" => row'[p] # "none"
<1>1. \A u \in Users, s \in Runs :
         row'[<<u, s>>] = IF s = r /\ row[<<u, s>>] = "open" THEN "committed"
                          ELSE row[<<u, s>>]
  BY DEF CommittedRows, Pairs
<1>2. \A p \in Pairs : row'[p] = row[p] \/ (row[p] = "open" /\ row'[p] = "committed")
  BY DEF CommittedRows
<1>3. row' \in [Pairs -> {"none", "open", "committed", "aborted"}]
  BY DEF CommittedRows, TypeOK
<1>4. \A s \in Runs : HeldRows(s)' = HeldRows(s)
  BY <1>1 DEF HeldRows
<1>5. /\ \A s \in Runs \ {r} : OpenRows(s)' = OpenRows(s)
      /\ OpenRows(r)' = {}
  BY <1>1 DEF OpenRows
<1>6. HeldRows(r) \subseteq CommittedUsers'
  BY <1>1 DEF HeldRows, CommittedUsers
<1>7. CommittedUsers \subseteq CommittedUsers'
  BY <1>1 DEF CommittedUsers
<1> QED
  BY <1>2, <1>3, <1>4, <1>5, <1>6, <1>7

\* A rollback of one execution: its open rows are gone.
LEMMA AbortEffect ==
  ASSUME TypeOK, NEW r \in Runs, row' = AbortedRows(r)
  PROVE  /\ row' \in [Pairs -> {"none", "open", "committed", "aborted"}]
         /\ \A s \in Runs \ {r} : HeldRows(s)' = HeldRows(s) /\ OpenRows(s)' = OpenRows(s)
         /\ HeldRows(r)' \subseteq HeldRows(r) /\ OpenRows(r)' = {}
         /\ CommittedUsers' = CommittedUsers
         /\ \A p \in Pairs : row[p] = "committed" => row'[p] = "committed"
         /\ \A p \in Pairs : row[p] # "none" => row'[p] # "none"
<1>1. \A u \in Users, s \in Runs :
         row'[<<u, s>>] = IF s = r /\ row[<<u, s>>] = "open" THEN "aborted"
                          ELSE row[<<u, s>>]
  BY DEF AbortedRows, Pairs
<1>2. \A p \in Pairs : row'[p] = row[p] \/ (row[p] = "open" /\ row'[p] = "aborted")
  BY DEF AbortedRows
<1>3. row' \in [Pairs -> {"none", "open", "committed", "aborted"}]
  BY DEF AbortedRows, TypeOK
<1>4. /\ \A s \in Runs \ {r} : HeldRows(s)' = HeldRows(s) /\ OpenRows(s)' = OpenRows(s)
      /\ HeldRows(r)' \subseteq HeldRows(r) /\ OpenRows(r)' = {}
  BY <1>1 DEF HeldRows, OpenRows
<1>5. CommittedUsers' = CommittedUsers
  BY <1>1 DEF CommittedUsers
<1> QED
  BY <1>2, <1>3, <1>4, <1>5

-----------------------------------------------------------------------------
(* Three kinds of steps *)

\* Where an execution that is not over was before a step that leaves its rows.
GoesOn(r) ==
  pc'[r] # "over" => pc[r] # "over" /\ (pc'[r] = "saved" <=> pc[r] = "saved")

\* A step that touches neither rows nor counters.
LEMMA RowsKept ==
  ASSUME IInv, TypeOK', row' = row, tally' = tally,
         job'.sent = job.sent, job'.failed = job.failed,
         \A p \in got' : p \in got \/ row[p] = "committed", pushed' = pushed,
         \A r \in Runs : GoesOn(r)
  PROVE  IInv'
<1>1. \A r \in Runs : HeldRows(r)' = HeldRows(r) /\ OpenRows(r)' = OpenRows(r)
  BY DEF HeldRows, OpenRows
<1>2. CommittedUsers' = CommittedUsers
  BY DEF CommittedUsers
<1>3. OneRowPerUser'
  BY <1>1 DEF IInv, OneRowPerUser
<1>4. ServedAreCommitted' /\ PushedHaveRows'
  BY DEF IInv, ServedAreCommitted, PushedHaveRows
<1>5. TallyCountsRows'
  BY <1>1 DEF IInv, TallyCountsRows, GoesOn
<1>6. OpenSinceBatch'
  BY <1>1 DEF IInv, OpenSinceBatch, GoesOn
<1>7. LossIsBounded'
  BY <1>1 DEF IInv, LossIsBounded
<1>8. ProgressIsHonest'
  BY <1>2 DEF IInv, ProgressIsHonest
<1> QED
  BY <1>3, <1>4, <1>5, <1>6, <1>7, <1>8 DEF IInv

\* A step that rolls one execution back for good.
LEMMA RolledBack ==
  ASSUME IInv, TypeOK', NEW r \in Runs, row' = AbortedRows(r), pc'[r] = "over",
         tally' = tally, job' = job, got' = got, pushed' = pushed,
         \A s \in Runs \ {r} : GoesOn(s)
  PROVE  IInv'
<1>1. /\ \A s \in Runs \ {r} : HeldRows(s)' = HeldRows(s) /\ OpenRows(s)' = OpenRows(s)
      /\ HeldRows(r)' \subseteq HeldRows(r) /\ OpenRows(r)' = {}
      /\ CommittedUsers' = CommittedUsers
      /\ \A p \in Pairs : row[p] = "committed" => row'[p] = "committed"
      /\ \A p \in Pairs : row[p] # "none" => row'[p] # "none"
  BY AbortEffect DEF IInv
<1>2. OneRowPerUser'
  <2>1. \A s \in Runs : HeldRows(s)' \subseteq HeldRows(s)
    BY <1>1
  <2> QED
    BY <2>1 DEF IInv, OneRowPerUser
<1>3. ServedAreCommitted' /\ PushedHaveRows'
  BY <1>1 DEF IInv, TypeOK, ServedAreCommitted, PushedHaveRows
<1>4. TallyCountsRows'
  BY <1>1 DEF IInv, TallyCountsRows, GoesOn
<1>5. OpenSinceBatch'
  BY <1>1 DEF IInv, OpenSinceBatch, GoesOn
<1>6. LossIsBounded'
  <2>1. Cardinality(OpenRows(r)') <= Batch
    BY <1>1, FS_EmptySet, BroadcastAssumption
  <2> QED
    BY <1>1, <2>1 DEF IInv, LossIsBounded
<1>7. ProgressIsHonest'
  BY <1>1 DEF IInv, ProgressIsHonest
<1> QED
  BY <1>2, <1>3, <1>4, <1>5, <1>6, <1>7 DEF IInv

\* A step that commits the rows of one execution, which goes on with an empty
\* batch or ends, and whose counters may become the job's.
LEMMA Committed ==
  ASSUME IInv, TypeOK', NEW r \in Runs, row' = CommittedRows(r),
         pc[r] # "over", pc'[r] # "saved", tally' = tally, got' = got, pushed' = pushed,
         pc'[r] # "over" => Done(tally[r]) % Batch = 0,
         \/ job'.sent = job.sent /\ job'.failed = job.failed
         \/ job'.sent = tally[r].sent /\ job'.failed = tally[r].failed,
         \A s \in Runs \ {r} : GoesOn(s)
  PROVE  IInv'
<1>1. /\ \A s \in Runs : HeldRows(s)' = HeldRows(s)
      /\ \A s \in Runs \ {r} : OpenRows(s)' = OpenRows(s)
      /\ OpenRows(r)' = {}
      /\ HeldRows(r) \subseteq CommittedUsers'
      /\ CommittedUsers \subseteq CommittedUsers'
      /\ \A p \in Pairs : row[p] = "committed" => row'[p] = "committed"
      /\ \A p \in Pairs : row[p] # "none" => row'[p] # "none"
  BY CommitEffect DEF IInv
<1>a. Cardinality(OpenRows(r)') = 0
  BY <1>1, FS_EmptySet
<1>2. OneRowPerUser'
  BY <1>1 DEF IInv, OneRowPerUser
<1>3. ServedAreCommitted' /\ PushedHaveRows'
  BY <1>1 DEF IInv, TypeOK, ServedAreCommitted, PushedHaveRows
<1>4. TallyCountsRows'
  BY <1>1 DEF IInv, TallyCountsRows, GoesOn
<1>5. OpenSinceBatch'
  BY <1>1, <1>a DEF IInv, OpenSinceBatch, GoesOn
<1>6. LossIsBounded'
  BY <1>1, <1>a, BroadcastAssumption DEF IInv, LossIsBounded
<1>7. ProgressIsHonest'
  <2>1. /\ Cardinality(CommittedUsers) <= Cardinality(CommittedUsers')
        /\ Cardinality(HeldRows(r)) <= Cardinality(CommittedUsers')
        /\ Cardinality(CommittedUsers') \in Nat
        /\ Cardinality(CommittedUsers) \in Nat
    BY <1>1, RowsAreFinite, RowsStayFinite, FS_Subset
  <2>2. Done(tally[r]) = Cardinality(HeldRows(r))
    BY DEF IInv, TallyCountsRows
  <2>3. /\ job.sent \in Nat /\ job.failed \in Nat
        /\ job.sent + job.failed <= Cardinality(CommittedUsers)
    BY DEF IInv, TypeOK, ProgressIsHonest
  <2>4. CASE job'.sent = job.sent /\ job'.failed = job.failed
    BY <2>1, <2>3, <2>4 DEF ProgressIsHonest
  <2>5. CASE job'.sent = tally[r].sent /\ job'.failed = tally[r].failed
    BY <2>1, <2>2, <2>5 DEF ProgressIsHonest, Done
  <2> QED
    BY <2>4, <2>5
<1> QED
  BY <1>2, <1>3, <1>4, <1>5, <1>6, <1>7 DEF IInv

-----------------------------------------------------------------------------
(* The initial states *)

\* Before the job is created there are no rows and nothing is counted.
LEMMA InitHolds ==
  ASSUME Init
  PROVE  IInv
<1>1. TypeOK
  BY DEF Init, TypeOK, Statuses, Zero
<1>2. \A r \in Runs : HeldRows(r) = {} /\ OpenRows(r) = {}
  BY DEF Init, HeldRows, OpenRows, Pairs
<1>3. \A r \in Runs : Cardinality(HeldRows(r)) = 0 /\ Cardinality(OpenRows(r)) = 0
  BY <1>2, FS_EmptySet
<1>a. \A r \in Runs : Done(tally[r]) = 0 /\ pc[r] = "unused"
  BY DEF Init, Zero, Done
<1>4. OneRowPerUser /\ ServedAreCommitted /\ PushedHaveRows
  BY <1>2 DEF Init, OneRowPerUser, ServedAreCommitted, PushedHaveRows
<1>5. TallyCountsRows
  BY <1>3, <1>a DEF TallyCountsRows
<1>6. OpenSinceBatch
  <2>1. 0 % Batch = 0
    BY BroadcastAssumption
  <2> QED
    BY <1>3, <1>a, <2>1 DEF OpenSinceBatch
<1>7. LossIsBounded
  BY <1>3, BroadcastAssumption DEF LossIsBounded
<1>8. ProgressIsHonest
  <2>1. Cardinality(CommittedUsers) \in Nat
    BY RowsAreFinite
  <2> QED
    BY <2>1 DEF Init, ProgressIsHonest
<1> QED
  BY <1>1, <1>4, <1>5, <1>6, <1>7, <1>8 DEF IInv

-----------------------------------------------------------------------------
(* Every action preserves the invariant *)

\* The administrator's requests do not touch the rows.
LEMMA AdminStep ==
  ASSUME IInv, Create \/ LoseDispatch \/ CancelLoad \/ CancelCommit
  PROVE  IInv'
<1> USE DEF local
<1>1. TypeOK'
  BY DEF IInv, TypeOK, Create, LoseDispatch, CancelLoad, CancelCommit, Statuses
<1>2. /\ row' = row /\ tally' = tally /\ got' = got /\ pushed' = pushed
      /\ job'.sent = job.sent /\ job'.failed = job.failed
      /\ \A r \in Runs : GoesOn(r)
  BY DEF IInv, TypeOK, Create, LoseDispatch, CancelLoad, CancelCommit, GoesOn
<1> QED
  BY <1>1, <1>2, RowsKept

\* Nor does the dispatch, or a message that is delivered again.
LEMMA QueueStep ==
  ASSUME IInv, NEW r \in Runs, NEW s \in Runs, Dispatch(r) \/ Redeliver(r, s)
  PROVE  IInv'
<1> USE DEF local
<1>1. TypeOK'
  BY DEF IInv, TypeOK, Dispatch, Redeliver, Goto
<1>2. /\ row' = row /\ tally' = tally /\ got' = got /\ pushed' = pushed /\ job' = job
      /\ \A q \in Runs : GoesOn(q)
  BY DEF IInv, TypeOK, Dispatch, Redeliver, Goto, GoesOn
<1> QED
  BY <1>1, <1>2, RowsKept

\* Nor do the steps of an execution between its writes.
LEMMA ReadingStep ==
  ASSUME IInv, NEW r \in Runs,
         Start(r) \/ MarkRunning(r) \/ SelectUsers(r) \/ Check(r)
  PROVE  IInv'
<1> USE DEF local
<1>1. TypeOK'
  <2>1. CASE Start(r) \/ MarkRunning(r) \/ Check(r)
    BY <2>1 DEF IInv, TypeOK, Start, MarkRunning, Check, Goto, Statuses, Executing
  <2>2. CASE SelectUsers(r)
    <3>1. \A S \in SUBSET Users : Cardinality(S) \in Nat
      BY BroadcastAssumption, FS_Subset, FS_CardinalityType
    <3> QED
      BY <2>2, <3>1 DEF IInv, TypeOK, SelectUsers, Goto, Executing
  <2> QED
    BY <2>1, <2>2
<1>2. /\ row' = row /\ tally' = tally /\ got' = got /\ pushed' = pushed
      /\ job'.sent = job.sent /\ job'.failed = job.failed
  BY DEF IInv, TypeOK, Start, MarkRunning, SelectUsers, Check
<1>3. \A s \in Runs : GoesOn(s)
  BY DEF IInv, TypeOK, Start, MarkRunning, SelectUsers, Check, Goto, GoesOn
<1> QED
  BY <1>1, <1>2, <1>3, RowsKept

\* A notification is written: one more row, and one more user counted.
LEMMA InsertUserStep ==
  ASSUME IInv, NEW r \in Runs, NEW u \in Users, InsertUser(r, u)
  PROVE  IInv'
<1> USE DEF local
<1>0. /\ pc[r] = "insert" /\ pc' = [pc EXCEPT ![r] = "saved"]
      /\ row' = [row EXCEPT ![<<u, r>>] = "open"] /\ <<u, r>> \in Pairs
      /\ got' = got /\ job' = job
      /\ \A s \in Runs : row[<<u, s>>] \notin {"open", "committed"}
      /\ \A s \in Runs : GoesOn(s) \/ s = r
  BY DEF IInv, TypeOK, InsertUser, Goto, Rivals, Pairs, GoesOn
<1>1. /\ tally' \in [Runs -> [sent : Nat, failed : Nat]]
      /\ Done(tally'[r]) = Done(tally[r]) + 1 /\ Done(tally[r]) \in Nat
      /\ \A s \in Runs \ {r} : tally'[s] = tally[s]
  <2>0. tally[r] \in [sent : Nat, failed : Nat] /\ tally \in [Runs -> [sent : Nat, failed : Nat]]
    BY DEF IInv, TypeOK
  <2>1. CASE tally' = [tally EXCEPT ![r].sent = @ + 1]
    <3>1. tally'[r] = [tally[r] EXCEPT !.sent = @ + 1]
      BY <2>0, <2>1
    <3> QED
      BY <2>0, <2>1, <3>1 DEF Done
  <2>2. CASE tally' = [tally EXCEPT ![r].failed = @ + 1]
    <3>1. tally'[r] = [tally[r] EXCEPT !.failed = @ + 1]
      BY <2>0, <2>2
    <3> QED
      BY <2>0, <2>2, <3>1 DEF Done
  <2> QED
    BY <2>1, <2>2 DEF InsertUser
<1>2. TypeOK'
  <2>1. row' \in [Pairs -> {"none", "open", "committed", "aborted"}]
    BY <1>0 DEF IInv, TypeOK
  <2>2. mail' \subseteq Pairs /\ pushed' \subseteq Pairs /\ errors' \in Nat
    <3>1. /\ mail' \subseteq mail \cup {<<u, r>>} /\ pushed' \subseteq pushed \cup {<<u, r>>}
          /\ (errors' = errors \/ errors' = errors + 1)
      BY DEF InsertUser, Queued, Published
    <3>2. mail \subseteq Pairs /\ pushed \subseteq Pairs /\ errors \in Nat
      BY DEF IInv, TypeOK
    <3> QED
      BY <1>0, <3>1, <3>2
  <2>3. /\ pc' \in [Runs -> {"unused", "queued", "over"} \cup Executing]
        /\ todo' \in [Runs -> SUBSET Users]
    BY <1>0 DEF IInv, TypeOK, InsertUser, Executing
  <2> QED
    BY <1>0, <1>1, <2>1, <2>2, <2>3 DEF IInv, TypeOK, InsertUser
<1>3. \A v \in Users, s \in Runs :
        row'[<<v, s>>] = IF v = u /\ s = r THEN "open" ELSE row[<<v, s>>]
  BY <1>0 DEF IInv, TypeOK, Pairs
<1>4. /\ u \notin HeldRows(r) /\ u \notin OpenRows(r)
      /\ \A s \in Runs : u \notin HeldRows(s)
  BY <1>0 DEF HeldRows, OpenRows
<1>5. /\ HeldRows(r)' = HeldRows(r) \cup {u} /\ OpenRows(r)' = OpenRows(r) \cup {u}
      /\ \A s \in Runs \ {r} : HeldRows(s)' = HeldRows(s) /\ OpenRows(s)' = OpenRows(s)
  BY <1>3 DEF HeldRows, OpenRows
<1>6. /\ Cardinality(HeldRows(r)') = Cardinality(HeldRows(r)) + 1
      /\ Cardinality(OpenRows(r)') = Cardinality(OpenRows(r)) + 1
  BY <1>4, <1>5, RowsAreFinite, FS_AddElement
<1>7. CommittedUsers' = CommittedUsers
  <2>1. \A s \in Runs : row[<<u, s>>] # "committed"
    BY <1>0
  <2> QED
    BY <1>3, <2>1 DEF CommittedUsers
<1>8. OneRowPerUser'
  BY <1>4, <1>5 DEF IInv, OneRowPerUser
<1>9. ServedAreCommitted' /\ PushedHaveRows'
  <2>1. pushed' \subseteq pushed \cup {<<u, r>>}
    BY DEF InsertUser, Published
  <2>2. \A p \in Pairs : row'[p] = IF p = <<u, r>> THEN "open" ELSE row[p]
    BY <1>0 DEF IInv, TypeOK
  <2> QED
    BY <1>0, <2>1, <2>2 DEF IInv, TypeOK, ServedAreCommitted, PushedHaveRows
<1>10. TallyCountsRows'
  BY <1>0, <1>1, <1>5, <1>6 DEF IInv, TallyCountsRows, GoesOn
<1>11. Cardinality(OpenRows(r)) = Done(tally[r]) % Batch
  BY <1>0 DEF IInv, OpenSinceBatch
<1>12. OpenSinceBatch'
  <2>1. /\ Done(tally'[r]) > 0
        /\ Cardinality(OpenRows(r)') = ((Done(tally'[r]) - 1) % Batch) + 1
    BY <1>1, <1>6, <1>11
  <2>2. pc'[r] = "saved"
    BY <1>0 DEF IInv, TypeOK
  <2> QED
    BY <1>0, <1>1, <1>5, <2>1, <2>2 DEF IInv, OpenSinceBatch, GoesOn
<1>13. LossIsBounded'
  <2>1. Cardinality(OpenRows(r)') <= Batch
    BY <1>1, <1>6, <1>11, ModBatch, BroadcastAssumption
  <2> QED
    BY <1>5, <2>1 DEF IInv, LossIsBounded
<1>14. ProgressIsHonest'
  BY <1>0, <1>7 DEF IInv, ProgressIsHonest
<1> QED
  BY <1>2, <1>8, <1>9, <1>10, <1>12, <1>13, <1>14 DEF IInv

\* A full batch is committed with the progress; another waits.
LEMMA SaveBatchStep ==
  ASSUME IInv, NEW r \in Runs, SaveBatch(r)
  PROVE  IInv'
<1> USE DEF local
<1>0. /\ pc[r] = "saved" /\ pc' = [pc EXCEPT ![r] = "check"] /\ pc'[r] = "check"
      /\ got' = got /\ pushed' = pushed /\ tally' = tally
      /\ Done(tally[r]) \in Nat
      /\ \A s \in Runs \ {r} : pc'[s] = pc[s] /\ GoesOn(s)
  BY DEF IInv, TypeOK, SaveBatch, Goto, GoesOn, Done
<1>1. pc' \in [Runs -> {"unused", "queued", "over"} \cup Executing]
  BY <1>0 DEF IInv, TypeOK, Executing
<1>2. CASE BatchFull(tally[r])
  <2>1. job' = WithProgress(job, r) /\ row' = CommittedRows(r)
    BY <1>2 DEF SaveBatch
  <2>2. /\ job' \in [status : Statuses, total : Nat, sent : Nat, failed : Nat]
        /\ job'.sent = tally[r].sent /\ job'.failed = tally[r].failed
    BY <2>1 DEF IInv, TypeOK, WithProgress
  <2>3. TypeOK'
    <3>1. row' \in [Pairs -> {"none", "open", "committed", "aborted"}]
      BY <2>1, CommitEffect DEF IInv
    <3> QED
      BY <1>1, <2>2, <3>1 DEF IInv, TypeOK, SaveBatch
  <2>4. Done(tally[r]) % Batch = 0
    BY <1>2 DEF BatchFull
  <2> QED
    BY <1>0, <2>1, <2>2, <2>3, <2>4, Committed
<1>3. CASE ~BatchFull(tally[r])
  <2>1. job' = job /\ row' = row
    BY <1>3 DEF SaveBatch
  <2>2. TypeOK'
    BY <1>1, <2>1 DEF IInv, TypeOK, SaveBatch
  <2>3. \A s \in Runs : HeldRows(s)' = HeldRows(s) /\ OpenRows(s)' = OpenRows(s)
    BY <2>1 DEF HeldRows, OpenRows
  <2>4. CommittedUsers' = CommittedUsers
    BY <2>1 DEF CommittedUsers
  <2>5. /\ OneRowPerUser' /\ ServedAreCommitted' /\ PushedHaveRows'
        /\ LossIsBounded' /\ ProgressIsHonest'
    BY <1>0, <2>1, <2>3, <2>4 DEF IInv, OneRowPerUser, ServedAreCommitted,
       PushedHaveRows, LossIsBounded, ProgressIsHonest
  <2>6. TallyCountsRows'
    BY <1>0, <2>3 DEF IInv, TallyCountsRows
  <2>7. OpenSinceBatch'
    <3>1. /\ Done(tally[r]) > 0
          /\ Cardinality(OpenRows(r)) = ((Done(tally[r]) - 1) % Batch) + 1
      BY <1>0 DEF IInv, OpenSinceBatch
    <3>2. PICK n \in Nat : Done(tally[r]) = n + 1
      <4>1. Done(tally[r]) - 1 \in Nat /\ Done(tally[r]) = (Done(tally[r]) - 1) + 1
        BY <1>0, <3>1
      <4> QED
        BY <4>1
    <3>3. (n + 1) % Batch # 0
      BY <1>3, <3>2 DEF BatchFull
    <3>4. (n + 1) % Batch = (n % Batch) + 1 /\ (n + 1) - 1 = n
      BY <3>3, ModSucc
    <3>5. Cardinality(OpenRows(r)) = Done(tally[r]) % Batch
      BY <3>1, <3>2, <3>4
    <3> QED
      BY <1>0, <2>3, <3>5 DEF IInv, OpenSinceBatch
  <2> QED
    BY <2>2, <2>5, <2>6, <2>7 DEF IInv
<1> QED
  BY <1>2, <1>3

\* The end of an execution commits its last batch.
LEMMA FinishStep ==
  ASSUME IInv, NEW r \in Runs, Finish(r)
  PROVE  IInv'
<1> USE DEF local
<1>0. /\ pc[r] = "finish" /\ pc' = [pc EXCEPT ![r] = "over"] /\ pc'[r] = "over"
      /\ got' = got /\ pushed' = pushed /\ tally' = tally /\ row' = CommittedRows(r)
      /\ \A s \in Runs \ {r} : GoesOn(s)
  BY DEF IInv, TypeOK, Finish, Goto, GoesOn
<1>1. /\ job' \in [status : Statuses, total : Nat, sent : Nat, failed : Nat]
      /\ \/ job'.sent = job.sent /\ job'.failed = job.failed
         \/ job'.sent = tally[r].sent /\ job'.failed = tally[r].failed
  BY DEF IInv, TypeOK, Finish, WithProgress, Statuses
<1>2. TypeOK'
  <2>1. row' \in [Pairs -> {"none", "open", "committed", "aborted"}]
    BY <1>0, CommitEffect DEF IInv
  <2> QED
    BY <1>0, <1>1, <2>1 DEF IInv, TypeOK, Finish, Executing
<1> QED
  BY <1>0, <1>1, <1>2, Committed

\* A statement that fails ends an execution, and rolls it back.
LEMMA GiveUpStep ==
  ASSUME IInv, NEW r \in Runs,
         DatabaseError(r) \/ \E u \in Users : InsertConflict(r, u)
  PROVE  IInv'
<1> USE DEF local
<1>0. /\ row' = AbortedRows(r) /\ pc' = [pc EXCEPT ![r] = "over"] /\ pc'[r] = "over"
      /\ UNCHANGED <<job, api, admin, local, mail, pushed, got>>
      /\ errors' \in Nat
      /\ \A s \in Runs \ {r} : GoesOn(s)
  BY DEF IInv, TypeOK, DatabaseError, InsertConflict, GiveUp, Goto, GoesOn
<1>1. TypeOK'
  <2>1. row' \in [Pairs -> {"none", "open", "committed", "aborted"}]
    BY <1>0, AbortEffect DEF IInv
  <2> QED
    BY <1>0, <2>1 DEF IInv, TypeOK
<1> QED
  BY <1>0, <1>1, RolledBack

\* A worker dies: its execution is rolled back, and another one is queued.
LEMMA CrashStep ==
  ASSUME IInv, NEW r \in Runs, NEW s \in Runs, Crash(r, s)
  PROVE  IInv'
<1> USE DEF local
<1>0. /\ row' = AbortedRows(r) /\ pc'[r] = "over"
      /\ UNCHANGED <<job, api, admin, local, mail, pushed, got, errors>>
      /\ \A q \in Runs \ {r} : GoesOn(q)
  BY DEF IInv, TypeOK, Crash, GoesOn, Executing
<1>1. TypeOK'
  <2>1. row' \in [Pairs -> {"none", "open", "committed", "aborted"}]
    BY <1>0, AbortEffect DEF IInv
  <2> QED
    BY <1>0, <2>1 DEF IInv, TypeOK, Crash
<1> QED
  BY <1>0, <1>1, RolledBack

\* The sender serves committed rows only.
LEMMA SendStep ==
  ASSUME IInv, NEW p \in Pairs, Send(p)
  PROVE  IInv'
<1> USE DEF local
<1>1. TypeOK'
  BY DEF IInv, TypeOK, Send
<1>2. /\ row' = row /\ tally' = tally /\ job' = job /\ pushed' = pushed
      /\ \A q \in got' : q \in got \/ row[q] = "committed"
      /\ \A r \in Runs : GoesOn(r)
  BY DEF Send, GoesOn
<1> QED
  BY <1>1, <1>2, RowsKept

\* Nothing happens.
LEMMA StutterStep ==
  ASSUME IInv, UNCHANGED vars
  PROVE  IInv'
<1>1. TypeOK'
  BY DEF IInv, TypeOK, vars, local
<1>2. \A r \in Runs : GoesOn(r)
  BY DEF vars, GoesOn
<1> QED
  BY <1>1, <1>2, RowsKept DEF vars, local

-----------------------------------------------------------------------------
(* The theorems *)

\* The inductive invariant holds however often run_broadcast
\* (app/tasks/broadcast.py) is redelivered, crashes, fails or overlaps itself.
THEOREM JobInvariant == Spec => []IInv
<1>1. Init => IInv
  BY InitHolds
<1>2. IInv /\ [Next]_vars => IInv'
  <2> SUFFICES ASSUME IInv, [Next]_vars
               PROVE  IInv'
    OBVIOUS
  <2>1. CASE Create \/ LoseDispatch \/ CancelLoad \/ CancelCommit
    BY <2>1, AdminStep
  <2>2. ASSUME NEW r \in Runs, Dispatch(r) \/ Step(r) \/ DatabaseError(r)
        PROVE  IInv'
    BY <2>2, QueueStep, ReadingStep, SaveBatchStep, FinishStep, InsertUserStep,
       GiveUpStep DEF Step
  <2>3. ASSUME NEW r \in Runs, NEW s \in Runs, Crash(r, s) \/ Redeliver(r, s)
        PROVE  IInv'
    BY <2>3, CrashStep, QueueStep
  <2>4. ASSUME NEW p \in Pairs, Send(p)
        PROVE  IInv'
    BY <2>4, SendStep
  <2>5. CASE UNCHANGED vars
    BY <2>5, StutterStep
  <2> QED
    BY <2>1, <2>2, <2>3, <2>4, <2>5 DEF Next
<1> QED
  BY <1>1, <1>2, PTL DEF Spec

\* The row of a job, the counters and the rows keep their shape.
THEOREM JobTyping == Spec => []TypeOK
<1>1. IInv => TypeOK
  BY DEF IInv
<1> QED
  BY <1>1, JobInvariant, PTL

\* The dedupe key broadcast:{job}:{user} (app/tasks/broadcast.py) keeps every
\* user from hearing an announcement twice on Telegram, whatever executions do, and
\* the live message from being repeated unless a row was rolled back under it.
THEOREM RepeatsFollowRollbacks == Spec => []RepeatsAreRolledBack
<1>1. IInv => RepeatsAreRolledBack
  <2> SUFFICES ASSUME IInv, NEW u \in Users, NEW r \in Runs, NEW s \in Runs, r # s
               PROVE  /\ ~({<<u, r>>, <<u, s>>} \subseteq got)
                      /\ {<<u, r>>, <<u, s>>} \subseteq Heard
                         => "aborted" \in {row[<<u, r>>], row[<<u, s>>]}
    BY DEF RepeatsAreRolledBack
  <2>1. ~({row[<<u, r>>], row[<<u, s>>]} \subseteq {"open", "committed"})
    BY DEF IInv, OneRowPerUser, HeldRows
  <2>2. ~({<<u, r>>, <<u, s>>} \subseteq got)
    BY <2>1 DEF IInv, ServedAreCommitted
  <2>3. ASSUME {<<u, r>>, <<u, s>>} \subseteq Heard
        PROVE  "aborted" \in {row[<<u, r>>], row[<<u, s>>]}
    <3>1. /\ row[<<u, r>>] \in {"open", "committed", "aborted"}
          /\ row[<<u, s>>] \in {"open", "committed", "aborted"}
      BY <2>3 DEF IInv, TypeOK, ServedAreCommitted, PushedHaveRows, Heard, Pairs
    <3> QED
      BY <2>1, <3>1
  <2> QED
    BY <2>2, <2>3
<1> QED
  BY <1>1, JobInvariant, PTL

\* The counters of a job never exceed the users with a committed notification,
\* although every execution overwrites them with its own.
THEOREM HonestProgress == Spec => []ProgressIsHonest
<1>1. IInv => ProgressIsHonest
  BY DEF IInv
<1> QED
  BY <1>1, JobInvariant, PTL

\* A crash or an error takes at most a batch of notifications with it.
THEOREM BoundedLoss == Spec => []LossIsBounded
<1>1. IInv => LossIsBounded
  BY DEF IInv
<1> QED
  BY <1>1, JobInvariant, PTL

-----------------------------------------------------------------------------
(* What "done" means *)

\* Either nobody cancels or there is one execution.
OneCause == ~Cancels \/ \A r, s \in Runs : r = s

Looping == {"check", "insert", "saved", "finish"}

\* Why a job is done: an execution has a row for everyone it has come to, and
\* leaves its loop with users left only when the job is cancelled, which nobody
\* then takes back.
DoneInv ==
  /\ ~Cancels => admin = "idle" /\ job.status # "cancelled"
  /\ api = "idle" => job.status = "none" /\ admin = "idle" /\ \A r \in Runs : pc[r] = "unused"
  /\ \A r \in Runs : pc[r] \in Looping => audience[r] \ todo[r] \subseteq HeldRows(r)
  /\ \A r \in Runs : pc[r] = "finish" => todo[r] = {} \/ job.status = "cancelled"
  /\ DoneMeansEveryone

\* A step that leaves the job's status, or takes it to something that is not done,
\* keeps everyone's row when he is served, and moves no execution into its end.
LEMMA DoneKept ==
  ASSUME TypeOK, DoneMeansEveryone,
         job'.status = "done" => job.status = "done",
         \A p \in Pairs : row[p] = "committed" => row'[p] = "committed",
         \A r \in Runs : pc[r] = "over" => pc'[r] = "over" /\ audience'[r] = audience[r]
  PROVE  DoneMeansEveryone'
<1> SUFFICES ASSUME job'.status = "done"
             PROVE  \E r \in Runs : pc'[r] = "over" /\ audience'[r] \subseteq CommittedUsers'
                                    /\ \A u \in audience'[r] : row'[<<u, r>>] = "committed"
  BY DEF DoneMeansEveryone
<1>1. PICK r \in Runs : pc[r] = "over" /\ \A u \in audience[r] : row[<<u, r>>] = "committed"
  BY DEF DoneMeansEveryone
<1>2. pc'[r] = "over" /\ audience'[r] = audience[r] /\ audience[r] \subseteq Users
  BY <1>1 DEF TypeOK
<1>3. \A u \in audience'[r] : u \in Users /\ row'[<<u, r>>] = "committed"
  BY <1>1, <1>2 DEF Pairs
<1>4. audience'[r] \subseteq CommittedUsers'
  BY <1>3 DEF CommittedUsers
<1> QED
  BY <1>2, <1>3, <1>4

\* A step of one execution that writes no row, or ends it with a rollback.
LEMMA DoneQuiet ==
  ASSUME TypeOK, DoneInv, NEW r \in Runs,
         \A s \in Runs \ {r} : /\ pc'[s] \in Looping => pc[s] = pc'[s]
                               /\ pc[s] = "over" => pc'[s] = "over"
                               /\ HeldRows(s)' = HeldRows(s),
         pc'[r] \in Looping => /\ audience[r] \ todo[r] \subseteq HeldRows(r)'
                               /\ pc'[r] = "finish" => todo[r] = {} \/ job.status = "cancelled",
         pc[r] = "over" => pc'[r] = "over",
         \A p \in Pairs : row[p] = "committed" => row'[p] = "committed",
         UNCHANGED <<admin, audience, todo>>, job'.status = job.status, api' # "idle"
  PROVE  DoneInv'
<1>1. DoneMeansEveryone'
  BY DoneKept DEF DoneInv
<1>2. \A s \in Runs : pc'[s] \in Looping => audience'[s] \ todo'[s] \subseteq HeldRows(s)'
  BY DEF DoneInv
<1>3. \A s \in Runs : pc'[s] = "finish" => todo'[s] = {} \/ job'.status = "cancelled"
  BY DEF DoneInv, Looping
<1> QED
  BY <1>1, <1>2, <1>3 DEF DoneInv

\* The administrator's requests and the sender.
LEMMA DoneAdmin ==
  ASSUME IInv, DoneInv, OneCause,
         \/ Create \/ LoseDispatch \/ CancelLoad \/ CancelCommit
         \/ (\E p \in Pairs : Send(p)) \/ UNCHANGED vars
  PROVE  DoneInv'
<1> USE DEF IInv
<1>1. /\ UNCHANGED <<pc, audience, todo, row>>
      /\ \A r \in Runs : HeldRows(r)' = HeldRows(r)
  BY DEF Create, LoseDispatch, CancelLoad, CancelCommit, Send, vars, local, HeldRows
<1>2. /\ job'.status = job.status \/ job'.status \in {"queued", "cancelled"}
      /\ job'.status = "queued" /\ job.status # "queued" => job.status = "none"
      /\ job'.status = "none" => job.status = "none"
  BY DEF Create, LoseDispatch, CancelLoad, CancelCommit, Send, vars, DoneInv, TypeOK
<1>3. DoneMeansEveryone'
  BY <1>1, <1>2, DoneKept DEF DoneInv
<1>4. ~Cancels => admin' = "idle" /\ job'.status # "cancelled"
  BY DEF Create, LoseDispatch, CancelLoad, CancelCommit, Send, vars, DoneInv, TypeOK
<1>5. api' = "idle" =>
        job'.status = "none" /\ admin' = "idle" /\ \A r \in Runs : pc'[r] = "unused"
  <2>1. CASE Create \/ LoseDispatch
    BY <2>1 DEF Create, LoseDispatch
  <2>2. CASE CancelLoad
    BY <2>2 DEF CancelLoad, Cancellable, DoneInv
  <2>4. CASE (\E p \in Pairs : Send(p)) \/ UNCHANGED vars
    BY <2>4 DEF Send, vars, DoneInv
  <2>3. CASE CancelCommit
    BY <2>3 DEF CancelCommit, DoneInv
  <2> QED
    BY <2>1, <2>2, <2>3, <2>4
<1>6. \A r \in Runs : pc'[r] = "finish" => todo'[r] = {} \/ job'.status = "cancelled"
  BY <1>1, <1>2 DEF DoneInv
<1> QED
  BY <1>1, <1>3, <1>4, <1>5, <1>6 DEF DoneInv

\* A step of an execution that is on its way to its loop or in it.
LEMMA DoneLoop ==
  ASSUME IInv, DoneInv, OneCause, NEW r \in Runs,
         Dispatch(r) \/ Start(r) \/ Check(r) \/ SaveBatch(r)
  PROVE  DoneInv'
<1> USE DEF IInv
<1>1. CASE Dispatch(r) \/ Start(r) \/ Check(r)
  <2>1. /\ UNCHANGED <<admin, audience, todo, row>> /\ job' = job /\ api' # "idle"
        /\ \E x : pc' = [pc EXCEPT ![r] = x]
        /\ pc[r] # "over" /\ (pc'[r] \in Looping => pc[r] \in Looping)
        /\ pc'[r] = "finish" => todo[r] = {} \/ job.status = "cancelled"
    BY <1>1 DEF Dispatch, Start, Check, Goto, local, Looping, TypeOK, DoneInv
  <2>2. \A s \in Runs \ {r} : pc'[s] = pc[s]
    BY <2>1 DEF TypeOK
  <2>3. \A s \in Runs : HeldRows(s)' = HeldRows(s)
    BY <2>1 DEF HeldRows
  <2>4. pc'[r] \in Looping => audience[r] \ todo[r] \subseteq HeldRows(r)'
    BY <2>1, <2>3 DEF DoneInv
  <2> QED
    BY <2>1, <2>2, <2>3, <2>4, DoneQuiet
<1>2. CASE SaveBatch(r)
  <2>1. /\ UNCHANGED <<admin, audience, todo>> /\ job'.status = job.status /\ api' # "idle"
        /\ pc' = [pc EXCEPT ![r] = "check"] /\ pc[r] = "saved"
        /\ row' = row \/ row' = CommittedRows(r)
    BY <1>2 DEF SaveBatch, Goto, local, WithProgress, TypeOK, DoneInv
  <2>2. /\ pc'[r] = "check" /\ \A s \in Runs \ {r} : pc'[s] = pc[s]
    BY <2>1 DEF TypeOK
  <2>3. /\ \A s \in Runs : HeldRows(s)' = HeldRows(s)
        /\ \A p \in Pairs : row[p] = "committed" => row'[p] = "committed"
    <3>1. CASE row' = row
      BY <3>1 DEF HeldRows
    <3>2. CASE row' = CommittedRows(r)
      BY <3>2, CommitEffect
    <3> QED
      BY <2>1, <3>1, <3>2
  <2>4. audience[r] \ todo[r] \subseteq HeldRows(r)'
    BY <2>1, <2>3 DEF DoneInv, Looping
  <2> QED
    BY <2>1, <2>2, <2>3, <2>4, DoneQuiet
<1> QED
  BY <1>1, <1>2

\* Rollbacks, and executions that are delivered again.
LEMMA DoneRollback ==
  ASSUME IInv, DoneInv, OneCause, NEW r \in Runs,
         \/ DatabaseError(r) \/ \E u \in Users : InsertConflict(r, u)
         \/ \E s \in Runs : Crash(r, s) \/ Redeliver(r, s)
  PROVE  DoneInv'
<1> USE DEF IInv
<1>1. CASE DatabaseError(r) \/ \E u \in Users : InsertConflict(r, u)
  <2>1. /\ UNCHANGED <<job, admin, audience, todo>> /\ row' = AbortedRows(r) /\ api' # "idle"
        /\ pc' = [pc EXCEPT ![r] = "over"]
    BY <1>1 DEF DatabaseError, InsertConflict, GiveUp, Goto, local, DoneInv, Executing
  <2>2. pc'[r] = "over" /\ \A s \in Runs \ {r} : pc'[s] = pc[s]
    BY <2>1 DEF TypeOK
  <2> QED
    BY <2>1, <2>2, AbortEffect, DoneQuiet DEF Looping
<1>2. ASSUME NEW s \in Runs, Crash(r, s)
      PROVE  DoneInv'
  <2>1. /\ UNCHANGED <<job, admin, audience, todo>> /\ row' = AbortedRows(r) /\ s # r /\ api' # "idle"
        /\ pc' = [pc EXCEPT ![r] = "over", ![s] = "queued"] /\ pc[s] = "unused"
    BY <1>2 DEF Crash, local, Executing, DoneInv
  <2>2. /\ pc'[r] = "over" /\ pc'[s] = "queued" /\ \A o \in Runs \ {r, s} : pc'[o] = pc[o]
    BY <2>1 DEF TypeOK
  <2> QED
    BY <2>1, <2>2, AbortEffect, DoneQuiet DEF Looping
<1>3. ASSUME NEW s \in Runs, Redeliver(r, s)
      PROVE  DoneInv'
  <2>1. /\ UNCHANGED <<job, admin, audience, todo, row>> /\ api' # "idle"
        /\ pc' = [pc EXCEPT ![s] = "queued"] /\ pc[s] = "unused"
    BY <1>3 DEF Redeliver, Goto, local, DoneInv, Executing
  <2>2. /\ pc'[s] = "queued" /\ \A o \in Runs \ {s} : pc'[o] = pc[o]
    BY <2>1 DEF TypeOK
  <2>3. \A o \in Runs : HeldRows(o)' = HeldRows(o)
    BY <2>1 DEF HeldRows
  <2> QED
    BY <2>1, <2>2, <2>3, DoneQuiet DEF Looping
<1> QED
  BY <1>1, <1>2, <1>3

\* UPDATE ... SET status = 'running': a job that was cancelled is running again,
\* when another execution is about to end it for that.
LEMMA DoneMark ==
  ASSUME IInv, DoneInv, OneCause, NEW r \in Runs, MarkRunning(r)
  PROVE  DoneInv'
<1> USE DEF IInv
<1>1. /\ UNCHANGED <<api, admin, audience, todo, row>> /\ job'.status = "running"
      /\ pc' = [pc EXCEPT ![r] = "running"] /\ pc[r] = "selected"
  BY DEF MarkRunning, Goto, local, TypeOK
<1>2. pc'[r] = "running" /\ \A s \in Runs \ {r} : pc'[s] = pc[s]
  BY <1>1 DEF TypeOK
<1>3. \A s \in Runs : HeldRows(s)' = HeldRows(s)
  BY <1>1 DEF HeldRows
<1>4. \A s \in Runs : pc'[s] = "finish" => todo'[s] = {}
  BY <1>1, <1>2 DEF DoneInv, OneCause
<1>5. DoneMeansEveryone'
  BY <1>1 DEF DoneMeansEveryone
<1>6. api # "idle"
  BY <1>1 DEF DoneInv
<1> QED
  BY <1>1, <1>2, <1>3, <1>4, <1>5, <1>6 DEF DoneInv, Looping

\* The SELECT of the users: none of them has been come to.
LEMMA DoneSelect ==
  ASSUME IInv, DoneInv, NEW r \in Runs, SelectUsers(r)
  PROVE  DoneInv'
<1> USE DEF IInv
<1>1. /\ UNCHANGED <<api, admin, row>> /\ job'.status = job.status
      /\ pc' = [pc EXCEPT ![r] = "check"] /\ pc[r] = "running"
      /\ \E S \in SUBSET Users : /\ audience' = [audience EXCEPT ![r] = S]
                                 /\ todo' = [todo EXCEPT ![r] = S]
  BY DEF SelectUsers, Goto, TypeOK
<1>2. /\ pc'[r] = "check" /\ audience'[r] = todo'[r]
      /\ \A s \in Runs \ {r} : pc'[s] = pc[s] /\ audience'[s] = audience[s] /\ todo'[s] = todo[s]
  BY <1>1 DEF TypeOK
<1>3. \A s \in Runs : HeldRows(s)' = HeldRows(s)
  BY <1>1 DEF HeldRows
<1>4. DoneMeansEveryone'
  BY <1>1, <1>2, DoneKept DEF DoneInv
<1>5. \A s \in Runs : pc'[s] \in Looping => audience'[s] \ todo'[s] \subseteq HeldRows(s)'
  BY <1>2, <1>3 DEF DoneInv
<1>6. \A s \in Runs : pc'[s] = "finish" => todo'[s] = {} \/ job'.status = "cancelled"
  BY <1>1, <1>2 DEF DoneInv
<1> QED
  BY <1>1, <1>4, <1>5, <1>6 DEF DoneInv

\* A user that an execution has come to has a row.
LEMMA DoneInsert ==
  ASSUME IInv, DoneInv, NEW r \in Runs, NEW u \in Users, InsertUser(r, u)
  PROVE  DoneInv'
<1> USE DEF IInv
<1>1. /\ UNCHANGED <<job, api, admin, audience>>
      /\ pc' = [pc EXCEPT ![r] = "saved"] /\ pc[r] = "insert"
      /\ todo' = [todo EXCEPT ![r] = todo[r] \ {u}]
      /\ row' = [row EXCEPT ![<<u, r>>] = "open"] /\ row[<<u, r>>] # "committed"
  BY DEF InsertUser, Goto, Rivals
<1>2. /\ pc'[r] = "saved" /\ todo'[r] = todo[r] \ {u}
      /\ \A s \in Runs \ {r} : pc'[s] = pc[s] /\ todo'[s] = todo[s]
  BY <1>1 DEF TypeOK
<1>3. \A p \in Pairs : row'[p] = IF p = <<u, r>> THEN "open" ELSE row[p]
  BY <1>1 DEF TypeOK, Pairs
<1>4. \A s \in Runs : HeldRows(s) \subseteq HeldRows(s)'
  BY <1>3 DEF HeldRows, Pairs
<1>5. u \in HeldRows(r)'
  BY <1>3 DEF HeldRows, Pairs
<1>6. DoneMeansEveryone'
  BY <1>1, <1>2, <1>3, DoneKept DEF DoneInv
<1>7. audience'[r] \ todo'[r] \subseteq HeldRows(r)'
  BY <1>1, <1>2, <1>4, <1>5 DEF DoneInv, Looping
<1>8. \A s \in Runs : pc'[s] \in Looping => audience'[s] \ todo'[s] \subseteq HeldRows(s)'
  BY <1>1, <1>2, <1>4, <1>7 DEF DoneInv
<1>9. \A s \in Runs : pc'[s] = "finish" => todo'[s] = {} \/ job'.status = "cancelled"
  BY <1>1, <1>2 DEF DoneInv
<1> QED
  BY <1>1, <1>6, <1>8, <1>9 DEF DoneInv

\* The last UPDATE: when it says done, nobody was left and the COMMIT takes
\* everyone's row.
LEMMA DoneFinish ==
  ASSUME IInv, DoneInv, NEW r \in Runs, Finish(r)
  PROVE  DoneInv'
<1> USE DEF IInv
<1>1. /\ UNCHANGED <<api, admin, audience, todo>> /\ row' = CommittedRows(r)
      /\ pc' = [pc EXCEPT ![r] = "over"] /\ pc[r] = "finish"
      /\ IF job.status = "cancelled" THEN job' = job ELSE job'.status = "done"
  BY DEF Finish, Goto, local, MayFinish, WithProgress, TypeOK
<1>2. pc'[r] = "over" /\ \A s \in Runs \ {r} : pc'[s] = pc[s]
  BY <1>1 DEF TypeOK
<1>3. \A s \in Runs : HeldRows(s)' = HeldRows(s)
  BY <1>1, CommitEffect
<1>4. DoneMeansEveryone'
  <2>1. CASE job.status = "cancelled"
    BY <1>1, <2>1 DEF DoneMeansEveryone
  <2>2. CASE job.status # "cancelled"
    <3>1. audience[r] \subseteq HeldRows(r)
      BY <1>1, <2>2 DEF DoneInv, Looping
    <3>2. \A v \in audience[r] : v \in Users /\ row'[<<v, r>>] = "committed"
      BY <1>1, <3>1 DEF HeldRows, CommittedRows, Pairs
    <3>3. audience[r] \subseteq CommittedUsers'
      BY <3>2 DEF CommittedUsers
    <3> QED
      BY <1>1, <1>2, <3>2, <3>3 DEF DoneMeansEveryone
  <2> QED
    BY <2>1, <2>2
<1>5. \A s \in Runs : pc'[s] \in Looping => audience'[s] \ todo'[s] \subseteq HeldRows(s)'
  BY <1>1, <1>2, <1>3 DEF DoneInv, Looping
<1>6. \A s \in Runs : pc'[s] = "finish" => todo'[s] = {} \/ job'.status = "cancelled"
  BY <1>1, <1>2 DEF DoneInv
<1>7. api' # "idle" /\ (~Cancels => admin' = "idle" /\ job'.status # "cancelled")
  BY <1>1 DEF DoneInv
<1> QED
  BY <1>4, <1>5, <1>6, <1>7 DEF DoneInv

\* A job that is called done (app/tasks/broadcast.py) has a committed
\* notification for everyone one of its executions selected, unless executions
\* overlap and an administrator cancels between them.
THEOREM DoneIsEveryone ==
  ASSUME OneCause
  PROVE  Spec => []DoneMeansEveryone
<1>1. Init => DoneInv
  BY DEF Init, DoneInv, DoneMeansEveryone, Looping
<1>2. IInv /\ DoneInv /\ [Next]_vars => DoneInv'
  <2> SUFFICES ASSUME IInv, DoneInv, [Next]_vars
               PROVE  DoneInv'
    OBVIOUS
  <2>1. CASE \/ Create \/ LoseDispatch \/ CancelLoad \/ CancelCommit
             \/ (\E p \in Pairs : Send(p)) \/ UNCHANGED vars
    BY <2>1, DoneAdmin
  <2>2. ASSUME NEW r \in Runs, Dispatch(r) \/ Step(r) \/ DatabaseError(r)
        PROVE  DoneInv'
    BY <2>2, DoneLoop, DoneMark, DoneSelect, DoneInsert, DoneFinish, DoneRollback DEF Step
  <2>3. ASSUME NEW r \in Runs, NEW s \in Runs, Crash(r, s) \/ Redeliver(r, s)
        PROVE  DoneInv'
    BY <2>3, DoneRollback
  <2> QED
    BY <2>1, <2>2, <2>3 DEF Next
<1>3. DoneInv => DoneMeansEveryone
  BY DEF DoneInv
<1> QED
  BY <1>1, <1>2, <1>3, JobInvariant, PTL DEF Spec

=============================================================================
