---------------------------- MODULE FallbackStore ----------------------------
(***************************************************************************)
(* The store of invitations and of revoked tokens                          *)
(* (app/core/invite_store.py, app/core/token_blacklist.py): Redis, or the  *)
(* memory of the process when Redis does not answer.  A process that could *)
(* not connect at first never tries again.                                 *)
(***************************************************************************)
EXTENDS Integers, FiniteSets

CONSTANT Processes

VARIABLES
  up,          \* Redis answers
  redis,       \* keys in Redis
  memory,      \* keys in the memory of a process
  client,      \* of a process: new, connected or failed
  faulty       \* history: Redis did not answer, or a process was restarted

store == <<up, redis, memory, client, faulty>>

StoreInit ==
  /\ up = TRUE /\ redis = {} /\ faulty = FALSE
  /\ memory = [p \in Processes |-> {}]
  /\ client = [p \in Processes |-> "new"]

Reaches(p) == up /\ client[p] # "failed"

\* The first use connects.
Connect(p) ==
  client' = [client EXCEPT ![p] = IF @ # "new" THEN @ ELSE IF up THEN "connected" ELSE "failed"]

Put(p, k) ==
  /\ Connect(p)
  /\ redis' = IF Reaches(p) THEN redis \cup {k} ELSE redis
  /\ memory' = IF Reaches(p) THEN memory ELSE [memory EXCEPT ![p] = @ \cup {k}]
  /\ UNCHANGED <<up, faulty>>

Found(p, k) == (Reaches(p) /\ k \in redis) \/ k \in memory[p]

Get(p) == Connect(p) /\ UNCHANGED <<up, redis, memory, faulty>>

Remove(p, k) ==
  /\ Connect(p)
  /\ redis' = IF Reaches(p) THEN redis \ {k} ELSE redis
  /\ memory' = [memory EXCEPT ![p] = @ \ {k}]
  /\ UNCHANGED <<up, faulty>>

\* The time to live is over, wherever the key is.
Expire(k) ==
  /\ redis' = redis \ {k}
  /\ memory' = [p \in Processes |-> memory[p] \ {k}]
  /\ UNCHANGED <<up, client, faulty>>

Outage  == up' = ~up /\ faulty' = TRUE /\ UNCHANGED <<redis, memory, client>>

\* The memory is lost and the client is new, also when Redis was shut out.
Restart(p) ==
  /\ memory' = [memory EXCEPT ![p] = {}]
  /\ client' = [client EXCEPT ![p] = "new"]
  /\ faulty' = TRUE /\ UNCHANGED <<up, redis>>

StoreTypeOK ==
  /\ up \in BOOLEAN /\ faulty \in BOOLEAN
  /\ client \in [Processes -> {"new", "connected", "failed"}]
  /\ ~faulty => up /\ \A p \in Processes : memory[p] = {} /\ client[p] # "failed"
=============================================================================
