--------------------------- MODULE Notifications ---------------------------
(***************************************************************************)
(* The notification pipeline of one tenant:                                *)
(*                                                                         *)
(*   - NotificationService.enqueue, run by an API request inside the       *)
(*     request's database transaction (app/services/                       *)
(*     notification_service.py);                                           *)
(*   - _enqueue_sync, run by the Celery Beat dispatchers inside one        *)
(*     transaction per tenant (app/tasks/event_dispatchers.py);            *)
(*   - the Celery task send_telegram_notification and the per-minute       *)
(*     flush_scheduled (app/tasks/notifications.py);                       *)
(*   - the preferences endpoint (app/api/v1/notifications.py).             *)
(*                                                                         *)
(* Three things never agree by themselves: the database (a row is visible  *)
(* to others only after COMMIT), the Celery queue (a message is visible at *)
(* once and delivered at least once) and Telegram (a POST cannot be taken  *)
(* back).  A handler is therefore split at every point where another       *)
(* actor can run: after the dedupe SELECT, after the INSERT and its        *)
(* dispatch, at COMMIT; after the sender's SELECT, its POST, its UPDATE.   *)
(***************************************************************************)
EXTENDS QuietHours, FiniteSets

CONSTANTS
  Ids,           \* notification UUIDs, each drawn at most once
  Users,         \* active users (enqueue ignores the others)
  Keys,          \* dedupe keys
  NoKey,         \* dedupe_key = None
  Categories,    \* VALID_CATEGORIES
  Critical,      \* CRITICAL_CATEGORIES
  Tasks,         \* slots for Celery messages in flight: bounds the queue
  ApiCallers,    \* API requests, each with a session of its own
  BeatCallers,   \* dispatcher runs, each with a session of its own
  PrefOptions,   \* what a user may ask for in PATCH /notifications/preferences
  DedupeWindow,  \* the 24 hours of the dedupe SELECT, in ticks
  MaxRetries,    \* max_retries of the sender
  MaxTime,       \* bound on the clock
  MaxFaults      \* bound on crashes, redeliveries and transient failures

Callers  == ApiCallers \cup BeatCallers
Channels == {"telegram", "in_app"}
Statuses == {"queued", "skipped", "sent", "failed"}
Instants == Nat \cup {None}

Preferences ==
  [telegram : BOOLEAN, in_app : BOOLEAN, disabled : SUBSET Categories,
   start : TimeOfDay \cup {None}, end : TimeOfDay \cup {None}]

ASSUME NotifAssumption ==
  /\ NoKey \notin Keys
  /\ Critical \subseteq Categories
  /\ PrefOptions \subseteq Preferences
  /\ DedupeWindow \in Nat /\ MaxRetries \in Nat
  /\ MaxTime \in Nat /\ MaxFaults \in Nat

VARIABLES
  clock,      \* current instant
  prefs,      \* notification_preferences row of a user, None without one
  linked,     \* users whose telegram_id is set
  stage,      \* "free", "open" (inserted, not committed), "committed", "aborted"
  row,        \* the notifications row of an id, None while it is free
  pc,         \* where a caller's handler stands
  plan,       \* the row a caller is about to insert, and where it dispatches it
  task,       \* the Celery message in a slot, and where its execution stands
  due,        \* rows a run of flush_scheduled has read and not yet dispatched
  delivered,  \* how often Telegram has accepted a message for an id
  published,  \* ids published to the user's in-app channel
  faults      \* faults that have occurred

people   == <<prefs, linked>>
db       == <<stage, row>>
sessions == <<pc, plan>>
told     == <<delivered, published>>
vars     == <<clock, people, db, sessions, task, due, told, faults>>

Row ==
  [user : Users, category : Categories, key : Keys \cup {NoKey},
   channel : Channels, status : Statuses, sched : Instants,
   created : Nat, by : Callers]

ASSUME RowAssumption == None \notin Row

Plan ==
  [user : Users, category : Categories, key : Keys \cup {NoKey},
   channel : Channels, status : {"queued", "skipped"}, sched : Instants,
   send : BOOLEAN, publish : BOOLEAN]

\* at is the eta; retries counts the retries this message has used.
NoTask == [at |-> "free"]
Message ==
  [at : {"ready", "posting", "unlinked", "accepted", "rejected", "transient"},
   nid : Ids, eta : Nat, retries : 0 .. MaxRetries]

Init ==
  /\ clock = 0
  /\ prefs \in [Users -> PrefOptions \cup {None}]
  /\ linked \in SUBSET Users
  /\ stage = [n \in Ids |-> "free"]
  /\ row = [n \in Ids |-> None]
  /\ pc = [c \in Callers |-> "idle"]
  /\ plan = [c \in Callers |-> None]
  /\ task = [t \in Tasks |-> NoTask]
  /\ due = {}
  /\ delivered = [n \in Ids |-> 0]
  /\ published = {}
  /\ faults = 0

-----------------------------------------------------------------------------
(* Helpers *)

Committed(n) == stage[n] = "committed"
OpenBy(c) == {n \in Ids : stage[n] = "open" /\ row[n].by = c}

\* READ COMMITTED: a caller sees committed rows and its own.
Visible(c, n) == Committed(n) \/ n \in OpenBy(c)

\* The row that the dedupe SELECT of enqueue and of _enqueue_sync returns.
\* Skipped rows count like any other.
Duplicate(c, u, k) ==
  \E n \in Ids :
    /\ Visible(c, n)
    /\ row[n].user = u /\ row[n].key = k
    /\ row[n].created >= clock - DedupeWindow

Conflicts_NoIndex(u, k) == {}

\* Rows the unique index on (user_id, dedupe_key) holds against a new one:
\* the index has no time window.
Conflicts(u, k) ==
  {n \in Ids : /\ stage[n] \in {"open", "committed"}
               /\ row[n].user = u /\ row[n].key = k /\ k # NoKey}

IsCritical_BothNeeded(category, priority) ==
  priority = "critical" /\ category \in Critical

IsCritical(category, priority) ==
  priority = "critical" \/ category \in Critical

SkippedPlan_Announced(u, category, k) ==
  [user |-> u, category |-> category, key |-> k, channel |-> "in_app",
   status |-> "skipped", sched |-> None, send |-> FALSE, publish |-> TRUE]

\* _record_skipped
SkippedPlan(u, category, k) ==
  [user |-> u, category |-> category, key |-> k, channel |-> "in_app",
   status |-> "skipped", sched |-> None, send |-> FALSE, publish |-> FALSE]

\* enqueue after the dedupe SELECT: preferences, quiet hours, channels.
\* No caller in the repository passes scheduled_at.
ServicePlan(u, category, priority, k, chans) ==
  LET p      == prefs[u]
      asks   == p # None /\ ~IsCritical(category, priority)
      muted  == asks /\ category \in p.disabled
      left   == IF asks
                THEN {ch \in chans : IF ch = "telegram" THEN p.telegram ELSE p.in_app}
                ELSE chans
      sched  == IF asks /\ InQuietHours(clock, p.start, p.end)
                THEN NextQuietEnd(clock, p.end) ELSE None
  IN  IF muted \/ left = {}
      THEN SkippedPlan(u, category, k)
      ELSE [user |-> u, category |-> category, key |-> k,
            channel |-> IF "telegram" \in left THEN "telegram" ELSE "in_app",
            status |-> "queued", sched |-> sched,
            send |-> "telegram" \in left /\ u \in linked,
            publish |-> "in_app" \in left]

\* _enqueue_sync ignores preferences, quiet hours and telegram_id.
DispatcherPlan(u, category, k) ==
  [user |-> u, category |-> category, key |-> k, channel |-> "telegram",
   status |-> "queued", sched |-> None, send |-> TRUE, publish |-> FALSE]

-----------------------------------------------------------------------------
(* The environment: time, and what users do to their own records *)

Tick ==
  /\ clock < MaxTime
  /\ clock' = clock + 1
  /\ UNCHANGED <<people, db, sessions, task, due, told, faults>>

\* PATCH /notifications/preferences with every field; critical categories are
\* dropped from the opt-out list, whatever the client sent.  The GET that
\* creates a missing row is the PATCH with the defaults.
UpdatePreferences(u, p) ==
  /\ prefs' = [prefs EXCEPT ![u] = [p EXCEPT !.disabled = @ \ Critical]]
  /\ UNCHANGED <<clock, linked, db, sessions, task, due, told, faults>>

\* The bot sets telegram_id on /start <token>; an admin clears it.
ToggleTelegram(u) ==
  /\ linked' = IF u \in linked THEN linked \ {u} ELSE linked \cup {u}
  /\ UNCHANGED <<clock, prefs, db, sessions, task, due, told, faults>>

-----------------------------------------------------------------------------
(* Producers *)

\* enqueue up to its INSERT.  An existing row within the window is returned
\* and nothing changes, so a duplicate is not a step.
EnqueueSelect(c, u, category, priority, k, chans) ==
  LET p == ServicePlan(u, category, priority, k, chans)
  IN  /\ pc[c] \in {"idle", "open"}
      /\ k = NoKey \/ ~Duplicate(c, u, k)
      /\ p.sched # None => p.sched <= MaxTime
      /\ pc' = [pc EXCEPT ![c] = "inserting"]
      /\ plan' = [plan EXCEPT ![c] = p]
      /\ UNCHANGED <<clock, people, db, task, due, told, faults>>

\* _enqueue_sync up to its INSERT.
EnqueueSyncSelect(c, u, category, k) ==
  /\ pc[c] \in {"idle", "open"}
  /\ k = NoKey \/ ~Duplicate(c, u, k)
  /\ pc' = [pc EXCEPT ![c] = "inserting"]
  /\ plan' = [plan EXCEPT ![c] = DispatcherPlan(u, category, k)]
  /\ UNCHANGED <<clock, people, db, task, due, told, faults>>

NewRow(c) ==
  [user |-> plan[c].user, category |-> plan[c].category,
   key |-> plan[c].key, channel |-> plan[c].channel,
   status |-> plan[c].status, sched |-> plan[c].sched,
   created |-> clock, by |-> c]

NewMessage(n, sched) ==
  [at |-> "ready", nid |-> n, eta |-> IF sched = None THEN 0 ELSE sched,
   retries |-> 0]

\* INSERT (flush), then apply_async and PUBLISH, all before COMMIT: the row is
\* open while its message is already in the queue.  The INSERT waits for a
\* conflicting row of an open transaction.
Insert(c, n) ==
  LET p == plan[c]
  IN  /\ pc[c] = "inserting"
      /\ stage[n] = "free"
      /\ Conflicts(p.user, p.key) = {}
      /\ stage' = [stage EXCEPT ![n] = "open"]
      /\ row' = [row EXCEPT ![n] = NewRow(c)]
      /\ IF p.send
         THEN \E t \in Tasks :
                /\ task[t] = NoTask
                /\ task' = [task EXCEPT ![t] = NewMessage(n, p.sched)]
         ELSE UNCHANGED task
      /\ published' = IF p.publish THEN published \cup {n} ELSE published
      /\ pc' = [pc EXCEPT ![c] = "open"]
      /\ plan' = [plan EXCEPT ![c] = None]
      /\ UNCHANGED <<clock, people, due, delivered, faults>>

\* What every rollback does: the caller's rows vanish, its messages stay.
Abort(c) ==
  /\ stage' = [n \in Ids |-> IF n \in OpenBy(c) THEN "aborted" ELSE stage[n]]
  /\ pc' = [pc EXCEPT ![c] = "idle"]
  /\ plan' = [plan EXCEPT ![c] = None]
  /\ UNCHANGED <<clock, people, row, task, due, told, faults>>

\* The INSERT meets a committed row (or one of its own) with the same key:
\* IntegrityError, and the whole transaction of the caller is lost.
InsertConflict(c) ==
  /\ pc[c] = "inserting"
  /\ \E n \in Conflicts(plan[c].user, plan[c].key) : Visible(c, n)
  /\ Abort(c)

Commit(c) ==
  /\ pc[c] = "open"
  /\ stage' = [n \in Ids |-> IF n \in OpenBy(c) THEN "committed" ELSE stage[n]]
  /\ pc' = [pc EXCEPT ![c] = "idle"]
  /\ UNCHANGED <<clock, people, row, plan, task, due, told, faults>>

\* Anything else in the handler raises, or the process dies, before COMMIT.
Rollback(c) ==
  /\ pc[c] # "idle"
  /\ Abort(c)

-----------------------------------------------------------------------------
(* The sender: send_telegram_notification, late acknowledgement *)

SetTask(t, m) == task' = [task EXCEPT ![t] = m]
Ack(t) == SetTask(t, NoTask)

Found_Dirty(n) == stage[n] # "free"

\* What the sender's SELECT returns: its session sees committed rows.
Found(n) == Committed(n)

\* The SELECT.  Only a committed row is found; the status is not looked at.
SenderFetch(t) ==
  LET m == task[t]
  IN  /\ m.at = "ready" /\ m.eta <= clock
      /\ IF ~Found(m.nid) THEN Ack(t)
         ELSE SetTask(t, [m EXCEPT !.at = IF row[m.nid].user \in linked
                                          THEN "posting" ELSE "unlinked"])
      /\ UNCHANGED <<clock, people, db, sessions, due, told, faults>>

\* The POST.  A transient failure is a 429, a 5xx or a transport error; only
\* in the last case may Telegram have accepted the message nevertheless.
SenderPost(t, answer) ==
  LET m == task[t]
      n == m.nid
      Accept == delivered' = [delivered EXCEPT ![n] = @ + 1]
  IN  /\ m.at = "posting"
      /\ SetTask(t, [m EXCEPT !.at = answer])
      /\ \/ answer = "accepted" /\ Accept /\ UNCHANGED faults
         \/ answer = "rejected" /\ UNCHANGED <<delivered, faults>>
         \/ /\ answer = "transient" /\ faults < MaxFaults
            /\ faults' = faults + 1
            /\ Accept \/ UNCHANGED delivered
      /\ UNCHANGED <<clock, people, db, sessions, due, published>>

SetStatus(n, s) == row' = [row EXCEPT ![n].status = s]

Outcome_Optimistic(at) == IF at = "rejected" THEN "failed" ELSE "sent"

\* The status that an answer, or a missing telegram_id, leads to.
Outcome(at) == IF at = "accepted" THEN "sent" ELSE "failed"

\* The UPDATE after an answer that ends the task.
SenderSettle(t) ==
  LET m == task[t]
  IN  /\ m.at \in {"unlinked", "accepted", "rejected"}
      /\ SetStatus(m.nid, Outcome(m.at))
      /\ Ack(t)
      /\ UNCHANGED <<clock, people, stage, sessions, due, told, faults>>

MayRetry(m) == m.retries < MaxRetries

\* After a transient failure only attempts is written; the message goes back
\* to the queue until its retries are used up.
SenderRetry(t) ==
  LET m == task[t]
  IN  /\ m.at = "transient"
      /\ IF MayRetry(m)
         THEN SetTask(t, [m EXCEPT !.at = "ready", !.retries = @ + 1])
         ELSE Ack(t)
      /\ UNCHANGED <<clock, people, db, sessions, due, told, faults>>

Executing == {"posting", "unlinked", "accepted", "rejected", "transient"}

Fault ==
  /\ faults < MaxFaults
  /\ faults' = faults + 1
  /\ UNCHANGED <<clock, people, db, sessions, due, told>>

\* The worker dies between two steps of the task.  The message was not yet
\* acknowledged, so the broker delivers it again from the start.
WorkerCrash(t) ==
  /\ task[t].at \in Executing
  /\ SetTask(t, [task[t] EXCEPT !.at = "ready"])
  /\ Fault

\* The pool process alone is killed, or the task raises something that is not
\* an HTTP error (the database is away): the message is acknowledged.
TaskDies(t) ==
  /\ task[t].at \in Executing \cup {"ready"}
  /\ Ack(t)
  /\ Fault

\* The broker's visibility timeout passes while a worker holds the message,
\* waiting for its eta or executing it: the message exists twice.
Redeliver(t) ==
  /\ task[t].at \in Executing \cup {"ready"}
  /\ \E s \in Tasks : task[s] = NoTask /\ SetTask(s, [task[t] EXCEPT !.at = "ready"])
  /\ Fault

-----------------------------------------------------------------------------
(* flush_scheduled, every minute *)

IsDue_AnyQueued(n) ==
  Committed(n) /\ row[n].status = "queued"

IsDue_WrongStatus(n) ==
  /\ Committed(n)
  /\ row[n].status = "scheduled"
  /\ row[n].sched # None /\ row[n].sched <= clock

IsDue(n) ==
  /\ Committed(n)
  /\ row[n].status = "queued"
  /\ row[n].sched # None /\ row[n].sched <= clock

FlushSelect ==
  /\ due = {}
  /\ due' = {n \in Ids : IsDue(n)}
  /\ UNCHANGED <<clock, people, db, sessions, task, told, faults>>

\* One .delay of the loop over the rows read: whatever happened to the row
\* since the SELECT is not looked at.
FlushDispatch(n) ==
  /\ n \in due
  /\ \E t \in Tasks : task[t] = NoTask /\ SetTask(t, NewMessage(n, None))
  /\ due' = due \ {n}
  /\ UNCHANGED <<clock, people, db, sessions, told, faults>>

-----------------------------------------------------------------------------

Environment ==
  \/ Tick
  \/ \E u \in Users : ToggleTelegram(u)
  \/ \E u \in Users, p \in PrefOptions : UpdatePreferences(u, p)

Producer ==
  \/ \E c \in ApiCallers, u \in Users, cat \in Categories,
       pri \in {"normal", "critical"}, k \in Keys \cup {NoKey},
       chans \in (SUBSET Channels) \ {{}} :
       EnqueueSelect(c, u, cat, pri, k, chans)
  \/ \E c \in BeatCallers, u \in Users, cat \in Categories, k \in Keys :
       EnqueueSyncSelect(c, u, cat, k)
  \/ \E c \in Callers, n \in Ids : Insert(c, n)
  \/ \E c \in Callers : InsertConflict(c) \/ Commit(c) \/ Rollback(c)

Sender ==
  \/ \E t \in Tasks : SenderFetch(t) \/ SenderSettle(t) \/ SenderRetry(t)
  \/ \E t \in Tasks, answer \in {"accepted", "rejected", "transient"} :
       SenderPost(t, answer)
  \/ \E t \in Tasks : WorkerCrash(t) \/ TaskDies(t) \/ Redeliver(t)

Flush == FlushSelect \/ \E n \in Ids : FlushDispatch(n)

Next == Environment \/ Producer \/ Sender \/ Flush

Spec == Init /\ [][Next]_vars

\* Beat fires every minute, workers take messages off the queue and finish
\* them, time passes.  Nothing is assumed of users, of the producers or of
\* faults.
Fairness ==
  /\ WF_vars(Tick)
  /\ WF_vars(FlushSelect)
  /\ \A n \in Ids : WF_vars(FlushDispatch(n))
  /\ \A t \in Tasks :
       /\ WF_vars(SenderFetch(t))
       /\ WF_vars(\E answer \in {"accepted", "rejected", "transient"} :
                    SenderPost(t, answer))
       /\ WF_vars(SenderSettle(t))
       /\ WF_vars(SenderRetry(t))

FairSpec == Spec /\ Fairness

-----------------------------------------------------------------------------
(* What the pipeline guarantees *)

TypeOK ==
  /\ clock \in Nat
  /\ prefs \in [Users -> Preferences \cup {None}]
  /\ linked \subseteq Users
  /\ stage \in [Ids -> {"free", "open", "committed", "aborted"}]
  /\ row \in [Ids -> Row \cup {None}]
  /\ pc \in [Callers -> {"idle", "open", "inserting"}]
  /\ plan \in [Callers -> Plan \cup {None}]
  /\ task \in [Tasks -> Message \cup {NoTask}]
  /\ due \subseteq Ids
  /\ delivered \in [Ids -> Nat]
  /\ published \subseteq Ids
  /\ faults \in Nat

\* However producers interleave, two rows that are or may become visible never
\* share a user and a dedupe key: the check-then-insert of enqueue and of
\* _enqueue_sync is made safe by the unique index.
DedupeUnique ==
  \A m, n \in Ids :
    /\ {stage[m], stage[n]} \subseteq {"open", "committed"}
    /\ row[m].user = row[n].user /\ row[m].key = row[n].key
    /\ row[m].key # NoKey
    => m = n

\* A message dispatched by a transaction that is later rolled back never
\* reaches the user: the sender finds no row.
NoPhantomDelivery == \A n \in Ids : delivered[n] > 0 => Committed(n)

\* A row says "sent" only if Telegram accepted its message, across crashes,
\* retries and duplicate messages.
SentMeansDelivered ==
  \A n \in Ids : Committed(n) /\ row[n].status = "sent" => delivered[n] > 0

\* A notification that the preferences suppressed is recorded and stays silent
\* for ever: no message, no delivery, nothing on the in-app channel.
SkippedIsSilent ==
  \A n \in Ids : stage[n] # "free" /\ row[n].status = "skipped" =>
    /\ delivered[n] = 0 /\ n \notin published /\ n \notin due
    /\ \A t \in Tasks : task[t] # NoTask => task[t].nid # n

\* Preferences never hold back what is critical by category.
CriticalIsImmediate ==
  \A n \in Ids : row[n] # None /\ row[n].category \in Critical =>
    row[n].status # "skipped" /\ row[n].sched = None

\* Telegram never sees a message before the end of the quiet hours it was
\* delayed by, whichever of the eta message and the flush brings it.
NotBeforeSchedule ==
  [][\A n \in Ids : delivered'[n] > delivered[n] /\ row[n].sched # None
       => row[n].sched <= clock]_vars

\* A notification that was not delayed is delivered twice only because of a
\* fault, and at most one more time for each.
ExtraDeliveriesAreFaults ==
  \A n \in Ids : row[n] # None /\ row[n].sched = None => delivered[n] <= 1 + faults

\* A notification without the telegram channel is not dispatched: a message for it
\* or a delivery means that it was delayed and that its delay is over.  It is
\* flush_scheduled that then sends it to Telegram, because it does not read the
\* channel, whatever the preferences asked for.
OnlyTheFlushSendsAppRows ==
  \A n \in Ids :
    /\ row[n] # None /\ row[n].channel = "in_app"
    /\ delivered[n] > 0 \/ \E t \in Tasks : task[t] # NoTask /\ task[t].nid = n
    => row[n].sched # None /\ row[n].sched <= clock

\* Both: what is critical is not held back, and what is for the app alone leaves it
\* by one way only.
PrefsAreKept == CriticalIsImmediate /\ OnlyTheFlushSendsAppRows

\* A delayed notification that is committed is eventually settled although its
\* message may have been lost or overtaken the COMMIT: flush_scheduled sends
\* it again as long as it is queued.
DelayedIsSettled ==
  \A n \in Ids :
    (Committed(n) /\ row[n].status = "queued" /\ row[n].sched # None)
      ~> (row[n] # None /\ row[n].status \in {"sent", "failed"})

\* The pipeline implements the lifecycle of one notification: what other
\* sessions can see of its row, and whether Telegram accepted it.
LifeOf(n) == IF Committed(n) THEN row[n].status ELSE "none"

Lifecycle == INSTANCE NotificationLifecycle WITH
  life <- [n \in Ids |-> LifeOf(n)],
  told <- {n \in Ids : delivered[n] > 0}

ImplementsLifecycle == Lifecycle!LSpec

-----------------------------------------------------------------------------
(* The inductive invariant behind the safety properties *)

\* A caller about to insert has planned a row, and nothing goes out with a
\* skipped one; a row that left the free state is filled in, nobody settles it
\* before it is committed, and what was published was inserted.
PlansAndRowsExist ==
  /\ \A c \in Callers : pc[c] = "inserting" =>
       /\ plan[c] \in Plan
       /\ plan[c].send \/ plan[c].publish => plan[c].status = "queued"
  /\ \A n \in published : stage[n] # "free"
  /\ \A n \in Ids : stage[n] # "free" => row[n] \in Row
  /\ \A n \in Ids : stage[n] = "open" => row[n].status \in {"queued", "skipped"}

\* A message names an inserted row, and once the sender has read that row it
\* is a committed one; an accepted message has been delivered.
MessagesNameRows ==
  \A t \in Tasks : task[t] # NoTask =>
    /\ stage[task[t].nid] # "free"
    /\ task[t].at \in Executing => Committed(task[t].nid)
    /\ task[t].at = "accepted" => delivered[task[t].nid] > 0

\* The delay of a row is over, or its message still waits for the end of it;
\* what the sender executes and what the flush has read is never early.
DelaysAreKept ==
  /\ \A t \in Tasks : task[t] # NoTask /\ row[task[t].nid].sched # None =>
       /\ row[task[t].nid].sched <= clock \/ row[task[t].nid].sched <= task[t].eta
       /\ task[t].at \in Executing => row[task[t].nid].sched <= clock
  /\ \A n \in due : Committed(n) /\ row[n].sched # None /\ row[n].sched <= clock

IInv ==
  /\ TypeOK
  /\ PlansAndRowsExist
  /\ MessagesNameRows
  /\ DelaysAreKept
  /\ SkippedIsSilent
  /\ DedupeUnique
  /\ NoPhantomDelivery
  /\ SentMeansDelivered

-----------------------------------------------------------------------------
(* What its documentation promises and the code does not do *)

\* notification_service.py:7 "Notification row durable yozadi (status=queued)"
\* comes before the dispatch: a message in the queue names a durable row.
DispatchedIsDurable ==
  \A t \in Tasks : task[t] # NoTask => Committed(task[t].nid)

=============================================================================
