----------------------- MODULE NotificationLifecycle -----------------------
(***************************************************************************)
(* What the notification pipeline promises about each notification, with   *)
(* transactions, queue, workers and clock abstracted away: it comes into   *)
(* existence queued or skipped, a skipped one is never told to the user,   *)
(* nothing is told before it exists, and "sent" is recorded only of what   *)
(* was told.  A notification may be told more than once, and the record of *)
(* the outcome may be overwritten by a later one.                          *)
(***************************************************************************)
CONSTANT Ids

VARIABLES
  life,  \* "none" until the notification exists for others, then its status
  told   \* the notifications the user has received

lvars == <<life, told>>

LTypeOK ==
  /\ life \in [Ids -> {"none", "queued", "skipped", "sent", "failed"}]
  /\ told \subseteq Ids

LInit ==
  /\ life = [n \in Ids |-> "none"]
  /\ told = {}

\* One transaction makes any number of notifications exist.
Record(S) ==
  /\ \A n \in S : life[n] = "none"
  /\ \E f \in [S -> {"queued", "skipped"}] :
       life' = [n \in Ids |-> IF n \in S THEN f[n] ELSE life[n]]
  /\ UNCHANGED told

Pending(n) == life[n] \in {"queued", "sent", "failed"}

Tell(n) ==
  /\ Pending(n)
  /\ told' = told \cup {n}
  /\ UNCHANGED life

Settle(n, s) ==
  /\ Pending(n)
  /\ s = "sent" => n \in told
  /\ life' = [life EXCEPT ![n] = s]
  /\ UNCHANGED told

LNext ==
  \/ \E S \in SUBSET Ids : Record(S)
  \/ \E n \in Ids : Tell(n) \/ \E s \in {"sent", "failed"} : Settle(n, s)

LSpec == LInit /\ [][LNext]_lvars
=============================================================================
