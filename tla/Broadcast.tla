----------------------------- MODULE Broadcast -----------------------------
(***************************************************************************)
(* One broadcast job: the admin endpoints that create and cancel it        *)
(* (app/api/v1/broadcast.py) and the Celery task run_broadcast that writes *)
(* one notification per user (app/tasks/broadcast.py).                     *)
(*                                                                         *)
(* The task is acknowledged late, so the broker can hand the same job to   *)
(* several executions, one after another or at once.  An execution commits *)
(* its inserts only every Batch users, while the Telegram messages of      *)
(* these inserts, and the live ones to the app, leave at once.             *)
(***************************************************************************)
EXTENDS Integers, FiniteSets

CONSTANTS
  Users,      \* users the filters can select
  Runs,       \* executions of run_broadcast: bounds crashes and redeliveries
  Batch,      \* users per COMMIT: 100 in the code
  Channels,   \* what the admin chose: "telegram", "in_app" or both
  Cancels,    \* whether an admin may cancel
  MaxErrors   \* bound on failed dispatches and failed database statements

ASSUME BroadcastAssumption ==
  /\ IsFiniteSet(Users) /\ IsFiniteSet(Runs)
  /\ Channels \subseteq {"telegram", "in_app"}
  /\ Batch \in Nat \ {0} /\ Cancels \in BOOLEAN /\ MaxErrors \in Nat

VARIABLES
  job,       \* the committed broadcast_jobs row
  api,       \* create_broadcast: "idle", "created" (committed), "answered"
  admin,     \* cancel_broadcast: "idle", "loaded" (status checked)
  pc,        \* where an execution stands
  audience,  \* the users an execution has selected
  todo,      \* those it has not come to
  tally,     \* its local counters sent and failed
  row,       \* the notification of a user written by an execution
  mail,      \* Telegram messages in the queue, as pairs of a user and an execution
  pushed,    \* live messages published to the user's Redis channel
  got,       \* Telegram messages whose row the sender found
  errors     \* errors so far

local == <<audience, todo, tally>>
vars  == <<job, api, admin, pc, local, row, mail, pushed, got, errors>>

Pairs     == Users \X Runs
Statuses  == {"none", "queued", "running", "done", "cancelled"}
Executing == {"selected", "running", "check", "insert", "saved", "finish"}

Zero == [sent |-> 0, failed |-> 0]
Done(c) == c.sent + c.failed

Init ==
  /\ job = [status |-> "none", total |-> 0, sent |-> 0, failed |-> 0]
  /\ api = "idle"
  /\ admin = "idle"
  /\ pc = [r \in Runs |-> "unused"]
  /\ audience = [r \in Runs |-> {}]
  /\ todo = [r \in Runs |-> {}]
  /\ tally = [r \in Runs |-> Zero]
  /\ row = [p \in Pairs |-> "none"]
  /\ mail = {}
  /\ pushed = {}
  /\ got = {}
  /\ errors = 0

-----------------------------------------------------------------------------
(* The admin *)

Create ==
  /\ api = "idle"
  /\ api' = "created"
  /\ job' = [job EXCEPT !.status = "queued"]
  /\ UNCHANGED <<admin, pc, local, row, mail, pushed, got, errors>>

\* run_broadcast.delay, after the COMMIT.
Dispatch(r) ==
  /\ api = "created" /\ pc[r] = "unused"
  /\ api' = "answered"
  /\ pc' = [pc EXCEPT ![r] = "queued"]
  /\ UNCHANGED <<job, admin, local, row, mail, pushed, got, errors>>

\* The request dies between the COMMIT and the dispatch.
LoseDispatch ==
  /\ api = "created" /\ errors < MaxErrors
  /\ api' = "answered"
  /\ errors' = errors + 1
  /\ UNCHANGED <<job, admin, pc, local, row, mail, pushed, got>>

Cancellable(status) == status \in {"queued", "running"}

CancelLoad ==
  /\ Cancels /\ admin = "idle" /\ Cancellable(job.status)
  /\ admin' = "loaded"
  /\ UNCHANGED <<job, api, pc, local, row, mail, pushed, got, errors>>

\* The UPDATE names the id only.
CancelCommit ==
  /\ admin = "loaded"
  /\ admin' = "idle"
  /\ job' = [job EXCEPT !.status = "cancelled"]
  /\ UNCHANGED <<api, pc, local, row, mail, pushed, got, errors>>

-----------------------------------------------------------------------------
(* run_broadcast *)

Goto(r, where) == pc' = [pc EXCEPT ![r] = where]

Accepts_RunningOnly(status) == status = "running"

Accepts(status) == status \in {"queued", "running"}

\* The SELECT of the job; a job that is done or cancelled is left alone.
Start(r) ==
  /\ pc[r] = "queued"
  /\ Goto(r, IF Accepts(job.status) THEN "selected" ELSE "over")
  /\ UNCHANGED <<job, api, admin, local, row, mail, pushed, got, errors>>

\* UPDATE ... SET status = 'running' and COMMIT, whatever the status is now.
MarkRunning(r) ==
  /\ pc[r] = "selected"
  /\ job' = [job EXCEPT !.status = "running"]
  /\ Goto(r, "running")
  /\ UNCHANGED <<api, admin, local, row, mail, pushed, got, errors>>

\* The audience and its size; users come and go between executions.
SelectUsers(r) ==
  /\ pc[r] = "running"
  /\ \E S \in SUBSET Users :
       /\ audience' = [audience EXCEPT ![r] = S]
       /\ todo' = [todo EXCEPT ![r] = S]
       /\ job' = [job EXCEPT !.total = Cardinality(S)]
  /\ Goto(r, "check")
  /\ UNCHANGED <<api, admin, tally, row, mail, pushed, got, errors>>

\* The top of the loop: is there a user left, has the job been cancelled?
Check(r) ==
  /\ pc[r] = "check"
  /\ Goto(r, IF todo[r] # {} /\ job.status # "cancelled" THEN "insert" ELSE "finish")
  /\ UNCHANGED <<job, api, admin, local, row, mail, pushed, got, errors>>

Rivals_NoIndex(u) == {}

\* Rows that hold the dedupe key broadcast:{job}:{user}.
Rivals(u) == {s \in Runs : row[<<u, s>>] \in {"open", "committed"}}

\* The Telegram task is queued, which may raise.
Queued(p) == mail' = IF "telegram" \in Channels THEN mail \cup {p} ELSE mail

\* The live message is published, or the error is swallowed.
Published(p) ==
  IF "in_app" \in Channels
  THEN \/ pushed' = pushed \cup {p} /\ UNCHANGED errors
       \/ pushed' = pushed /\ errors < MaxErrors /\ errors' = errors + 1
  ELSE UNCHANGED <<pushed, errors>>

\* INSERT, dispatch and live message of one user, before the COMMIT.  A dispatch
\* that raises is counted as failed, publishes nothing and leaves the row in the
\* transaction.
InsertUser(r, u) ==
  /\ pc[r] = "insert" /\ u \in todo[r]
  /\ Rivals(u) = {}
  /\ row' = [row EXCEPT ![<<u, r>>] = "open"]
  /\ todo' = [todo EXCEPT ![r] = @ \ {u}]
  /\ \/ /\ Queued(<<u, r>>) /\ Published(<<u, r>>)
        /\ tally' = [tally EXCEPT ![r].sent = @ + 1]
     \/ /\ "telegram" \in Channels /\ errors < MaxErrors
        /\ errors' = errors + 1
        /\ tally' = [tally EXCEPT ![r].failed = @ + 1]
        /\ UNCHANGED <<mail, pushed>>
  /\ Goto(r, "saved")
  /\ UNCHANGED <<job, api, admin, audience, got>>

CommittedRows(r) == [p \in Pairs |-> IF p[2] = r /\ row[p] = "open" THEN "committed" ELSE row[p]]
AbortedRows(r)   == [p \in Pairs |-> IF p[2] = r /\ row[p] = "open" THEN "aborted" ELSE row[p]]

BatchFull_SentOnly(c) == c.sent % Batch = 0

BatchFull(c) == Done(c) % Batch = 0

WithProgress(j, r) == [j EXCEPT !.sent = tally[r].sent, !.failed = tally[r].failed]

\* After a full batch the progress is written and everything committed.
SaveBatch(r) ==
  /\ pc[r] = "saved"
  /\ IF BatchFull(tally[r])
     THEN job' = WithProgress(job, r) /\ row' = CommittedRows(r)
     ELSE UNCHANGED <<job, row>>
  /\ Goto(r, "check")
  /\ UNCHANGED <<api, admin, local, mail, pushed, got, errors>>

MayFinish_Always(status) == TRUE

MayFinish(status) == status # "cancelled"

\* The last UPDATE, guarded, and the COMMIT of the last batch.
Finish(r) ==
  /\ pc[r] = "finish"
  /\ job' = IF MayFinish(job.status)
            THEN [WithProgress(job, r) EXCEPT !.status = "done"] ELSE job
  /\ row' = CommittedRows(r)
  /\ Goto(r, "over")
  /\ UNCHANGED <<api, admin, local, mail, pushed, got, errors>>

\* The transaction is aborted, so the handler of the outer except cannot
\* write either: it rolls back, and the message is acknowledged.
GiveUp(r) ==
  /\ row' = AbortedRows(r)
  /\ Goto(r, "over")
  /\ UNCHANGED <<job, api, admin, local, mail, pushed, got>>

\* The key is there already.  The error is counted and the loop goes on, but
\* its next statement fails too.  An uncommitted rival is waited for.
InsertConflict(r, u) ==
  /\ pc[r] = "insert" /\ u \in todo[r]
  /\ \E s \in Rivals(u) : s = r \/ row[<<u, s>>] = "committed"
  /\ GiveUp(r)
  /\ UNCHANGED errors

\* Any statement fails for another reason.
DatabaseError(r) ==
  /\ pc[r] \in Executing \cup {"queued"} /\ errors < MaxErrors
  /\ errors' = errors + 1
  /\ GiveUp(r)

\* The worker dies; its message was not acknowledged and comes back.
Crash(r, s) ==
  /\ pc[r] \in Executing /\ pc[s] = "unused"
  /\ pc' = [pc EXCEPT ![r] = "over", ![s] = "queued"]
  /\ row' = AbortedRows(r)
  /\ UNCHANGED <<job, api, admin, local, mail, pushed, got, errors>>

\* The visibility timeout passes while an execution is still running.
Redeliver(r, s) ==
  /\ pc[r] \in Executing /\ pc[s] = "unused"
  /\ Goto(s, "queued")
  /\ UNCHANGED <<job, api, admin, local, row, mail, pushed, got, errors>>

\* send_telegram_notification looks for the row and finds committed ones.
Send(p) ==
  /\ p \in mail
  /\ mail' = mail \ {p}
  /\ got' = IF row[p] = "committed" THEN got \cup {p} ELSE got
  /\ UNCHANGED <<job, api, admin, pc, local, row, pushed, errors>>

-----------------------------------------------------------------------------

Step(r) ==
  \/ Start(r) \/ MarkRunning(r) \/ SelectUsers(r) \/ Check(r)
  \/ SaveBatch(r) \/ Finish(r)
  \/ \E u \in Users : InsertUser(r, u) \/ InsertConflict(r, u)

Next ==
  \/ Create \/ LoseDispatch \/ CancelLoad \/ CancelCommit
  \/ \E r \in Runs : Dispatch(r) \/ Step(r) \/ DatabaseError(r)
  \/ \E r, s \in Runs : Crash(r, s) \/ Redeliver(r, s)
  \/ \E p \in Pairs : Send(p)

Spec == Init /\ [][Next]_vars

\* The request that created the job goes on to dispatch it, and workers run
\* what is queued.  Errors, crashes and cancellations may happen or not.
Fairness ==
  /\ WF_vars(\E r \in Runs : Dispatch(r))
  /\ \A r \in Runs : WF_vars(Step(r))

FairSpec == Spec /\ Fairness

-----------------------------------------------------------------------------
(* What a job guarantees *)

TypeOK ==
  /\ job \in [status : Statuses, total : Nat, sent : Nat, failed : Nat]
  /\ api \in {"idle", "created", "answered"}
  /\ admin \in {"idle", "loaded"}
  /\ pc \in [Runs -> {"unused", "queued", "over"} \cup Executing]
  /\ audience \in [Runs -> SUBSET Users]
  /\ todo \in [Runs -> SUBSET Users]
  /\ tally \in [Runs -> [sent : Nat, failed : Nat]]
  /\ row \in [Pairs -> {"none", "open", "committed", "aborted"}]
  /\ mail \subseteq Pairs /\ pushed \subseteq Pairs /\ got \subseteq Pairs
  /\ errors \in Nat

HeldRows(r) == {u \in Users : row[<<u, r>>] \in {"open", "committed"}}
OpenRows(r) == {u \in Users : row[<<u, r>>] = "open"}
CommittedUsers == {u \in Users : \E r \in Runs : row[<<u, r>>] = "committed"}

\* What a user notices: a Telegram message that was sent, a live one in the app.
Heard == got \cup pushed

\* However often the job is redelivered, and although its rows are committed in
\* batches: on Telegram nobody receives the announcement twice, and whoever hears of
\* it from two executions does so because one of them was rolled back after it had
\* published, never because both wrote a notification that stays.
RepeatsAreRolledBack ==
  \A u \in Users, r, s \in Runs : r # s =>
    /\ ~({<<u, r>>, <<u, s>>} \subseteq got)
    /\ {<<u, r>>, <<u, s>>} \subseteq Heard => "aborted" \in {row[<<u, r>>], row[<<u, s>>]}

\* The progress that GET /admin/broadcast/{id} shows never counts a user whose
\* notification is not committed: not after a crash, a rollback, or two
\* executions that overwrite each other's counters.
ProgressIsHonest == job.sent + job.failed <= Cardinality(CommittedUsers)

\* A job is "done" only when everyone an execution selected has a committed
\* notification.  Two executions with a cancellation between them break it, so
\* the runs that check it have one or the other.
DoneMeansEveryone ==
  job.status = "done" =>
    \E r \in Runs : pc[r] = "over" /\ audience[r] \subseteq CommittedUsers
                    /\ \A u \in audience[r] : row[<<u, r>>] = "committed"

\* At most Batch notifications of an execution are uncommitted at any time,
\* which bounds what a crash or an error can lose.
LossIsBounded == \A r \in Runs : Cardinality(OpenRows(r)) <= Batch

\* A job whose dispatches and statements succeed ends: done, or cancelled at
\* whatever moment.  An error, or a message that was delivered again, is the only
\* excuse for one that does not.
JobEnds ==
  (job.status # "none") ~>
    \/ job.status \in {"done", "cancelled"} \/ errors > 0
    \/ \E r, s \in Runs : r # s /\ "unused" \notin {pc[r], pc[s]}

-----------------------------------------------------------------------------
(* What the proofs of these need besides *)

\* A user's dedupe key is held by one execution.
OneRowPerUser == \A r, s \in Runs : r # s => HeldRows(r) \cap HeldRows(s) = {}

\* The sender finds committed rows only, and they stay.
ServedAreCommitted == \A p \in got : row[p] = "committed"

\* A live message is published for a row that was inserted.
PushedHaveRows == \A p \in pushed : row[p] # "none"

\* The counters of an execution count its rows.
TallyCountsRows ==
  \A r \in Runs : pc[r] # "over" => Done(tally[r]) = Cardinality(HeldRows(r))

\* The rows it has not committed are those since the last full batch.
OpenSinceBatch ==
  \A r \in Runs : pc[r] # "over" =>
    IF pc[r] = "saved"
    THEN /\ Done(tally[r]) > 0
         /\ Cardinality(OpenRows(r)) = ((Done(tally[r]) - 1) % Batch) + 1
    ELSE Cardinality(OpenRows(r)) = Done(tally[r]) % Batch

\* The inductive invariant.
IInv ==
  /\ TypeOK
  /\ OneRowPerUser
  /\ ServedAreCommitted
  /\ PushedHaveRows
  /\ TallyCountsRows
  /\ OpenSinceBatch
  /\ LossIsBounded
  /\ ProgressIsHonest

-----------------------------------------------------------------------------
(* What its documentation promises and the code does not do *)

\* app/tasks/broadcast.py:43 "3. Job progress yangilash", with the UPDATE to
\* 'done' in its error path: an execution that gives up does not leave the job
\* running with nobody working on it.
GivingUpEndsTheJob ==
  [][\A r \in Runs : pc[r] \in Executing /\ pc'[r] = "over"
       /\ (\A s \in Runs : pc'[s] \in {"unused", "over"})
       => job'.status \in {"done", "cancelled"}]_vars

=============================================================================
