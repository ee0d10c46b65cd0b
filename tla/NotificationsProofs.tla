------------------------ MODULE NotificationsProofs ------------------------
(***************************************************************************)
(* Proofs about Notifications: IInv is an inductive invariant of Spec, and *)
(* with it type correctness, uniqueness of dedupe keys, the absence of     *)
(* phantom deliveries, the meaning of "sent", that no delayed message is   *)
(* sent early and that the pipeline implements NotificationLifecycle, for  *)
(* any number of users, callers, messages and rows, any preferences and    *)
(* any number of faults; that preferences are kept; and that deliveries    *)
(* beyond the first are due to faults.                                     *)
(***************************************************************************)
EXTENDS Notifications, FiniteSetTheorems, TLAPS

-----------------------------------------------------------------------------
(* Quiet hours *)

\* The end of the quiet hours is a moment in the future.
LEMMA QuietEndIsInstant ==
  ASSUME NEW now \in Nat, NEW end \in TimeOfDay
  PROVE  NextQuietEnd(now, end) \in Nat
<1>1. now % Day \in 0 .. Day - 1 /\ Day \in Nat
  BY DayAssumption
<1>2. now - (now % Day) \in Nat
  BY DayAssumption
<1> QED
  BY <1>1, <1>2 DEF NextQuietEnd, TimeOfDay

\* A plan of enqueue is a plan, whatever the preferences say.
LEMMA ServicePlanType ==
  ASSUME TypeOK, NEW u \in Users, NEW category \in Categories,
         NEW priority \in {"normal", "critical"}, NEW k \in Keys \cup {NoKey},
         NEW chans \in SUBSET Channels
  PROVE  ServicePlan(u, category, priority, k, chans) \in Plan
<1> DEFINE p     == prefs[u]
           asks  == p # None /\ ~IsCritical(category, priority)
           left  == IF asks
                    THEN {ch \in chans : IF ch = "telegram" THEN p.telegram ELSE p.in_app}
                    ELSE chans
           sched == IF asks /\ InQuietHours(clock, p.start, p.end)
                    THEN NextQuietEnd(clock, p.end) ELSE None
<1>1. sched \in Instants
  <2>1. CASE asks /\ InQuietHours(clock, p.start, p.end)
    <3>1. p \in Preferences
      BY <2>1 DEF TypeOK
    <3>2. p.end \in TimeOfDay
      BY <2>1, <3>1 DEF Preferences, InQuietHours
    <3> QED
      BY <2>1, <3>2, QuietEndIsInstant DEF TypeOK, Instants
  <2>2. CASE ~(asks /\ InQuietHours(clock, p.start, p.end))
    BY <2>2 DEF Instants
  <2> QED
    BY <2>1, <2>2
<1>2. SkippedPlan(u, category, k) \in Plan
  BY DEF SkippedPlan, Plan, Channels, Statuses, Instants
<1> HIDE DEF sched, left
<1>3. [user |-> u, category |-> category, key |-> k,
       channel |-> IF "telegram" \in left THEN "telegram" ELSE "in_app",
       status |-> "queued", sched |-> sched,
       send |-> "telegram" \in left /\ u \in linked,
       publish |-> "in_app" \in left] \in Plan
  BY <1>1 DEF Plan, Channels, Statuses
<1> QED
  BY <1>2, <1>3 DEF ServicePlan, left, sched

-----------------------------------------------------------------------------
(* Every action preserves the invariant *)

\* Nothing is sent or published with a plan that records a skipped row.
LEMMA ServicePlanSilent ==
  ASSUME NEW u, NEW category, NEW priority, NEW k, NEW chans
  PROVE  LET p == ServicePlan(u, category, priority, k, chans)
         IN  p.send \/ p.publish => p.status = "queued"
  BY DEF ServicePlan, SkippedPlan

\* A slot that is not free holds a message, and that message names a row.
LEMMA MessageType ==
  ASSUME IInv, NEW t \in Tasks, task[t] # NoTask
  PROVE  /\ task[t] \in Message /\ task[t].nid \in Ids
         /\ task[t].eta \in Nat /\ task[t].retries \in 0 .. MaxRetries
         /\ row[task[t].nid] \in Row
<1>1. task[t] \in Message
  BY DEF IInv, TypeOK
<1> QED
  BY <1>1 DEF Message, IInv, MessagesNameRows, PlansAndRowsExist

\* The delay of a row, if there is one, is an instant.
LEMMA DelayType ==
  ASSUME NEW r \in Row, r.sched # None
  PROVE  r.sched \in Nat
  BY DEF Row, Instants

\* Executing a message is having one.
LEMMA ExecutingType ==
  ASSUME NEW t \in Tasks, task[t].at # "free"
  PROVE  task[t] # NoTask
  BY DEF NoTask

\* Time passes.
LEMMA TickStep ==
  ASSUME IInv, Tick
  PROVE  IInv'
<1> USE DEF people, db, sessions, told
<1>1. TypeOK'
  BY DEF IInv, TypeOK, Tick
<1>2. PlansAndRowsExist'
  BY DEF IInv, TypeOK, PlansAndRowsExist, Tick
<1>3. MessagesNameRows'
  BY DEF IInv, TypeOK, PlansAndRowsExist, MessagesNameRows, Committed, Tick
<1>4. DelaysAreKept'
  <2>1. clock \in Nat /\ clock' = clock + 1
    BY DEF IInv, TypeOK, Tick
  <2>2. ASSUME NEW t \in Tasks, task[t] # NoTask, row[task[t].nid].sched # None
        PROVE  row[task[t].nid].sched \in Nat /\ task[t].eta \in Nat
    BY <2>2, MessageType, DelayType
  <2>3. ASSUME NEW n \in due
        PROVE  row[n].sched \in Nat
    BY DelayType DEF IInv, TypeOK, PlansAndRowsExist, DelaysAreKept, Committed
  <2> QED
    BY <2>1, <2>2, <2>3 DEF IInv, DelaysAreKept, Committed, Tick
<1>5. DedupeUnique'
  BY DEF IInv, TypeOK, PlansAndRowsExist, DedupeUnique, Tick
<1>6. NoPhantomDelivery'
  BY DEF IInv, TypeOK, MessagesNameRows, NoPhantomDelivery, Committed, Tick
<1>7. SentMeansDelivered'
  BY DEF IInv, TypeOK, PlansAndRowsExist, MessagesNameRows,
    SentMeansDelivered, Committed, Tick
<1>8. SkippedIsSilent'
  BY DEF IInv, TypeOK, PlansAndRowsExist, MessagesNameRows, DelaysAreKept,
    NoPhantomDelivery, SkippedIsSilent, Committed, Tick
<1> QED
  BY <1>1, <1>2, <1>3, <1>4, <1>5, <1>6, <1>7, <1>8 DEF IInv

\* A user changes preferences.
LEMMA UpdatePreferencesStep ==
  ASSUME IInv, NEW u \in Users, NEW p \in PrefOptions, UpdatePreferences(u, p)
  PROVE  IInv'
<1> USE DEF people, db, sessions, told
<1>1. TypeOK'
  BY NotifAssumption DEF IInv, TypeOK, UpdatePreferences, Preferences
<1>2. PlansAndRowsExist'
  BY DEF IInv, TypeOK, PlansAndRowsExist, UpdatePreferences
<1>3. MessagesNameRows'
  BY DEF IInv, TypeOK, PlansAndRowsExist, MessagesNameRows, Committed,
    UpdatePreferences
<1>4. DelaysAreKept'
  BY DEF IInv, TypeOK, PlansAndRowsExist, MessagesNameRows, DelaysAreKept,
    Committed, Instants, Row, UpdatePreferences
<1>5. DedupeUnique'
  BY DEF IInv, TypeOK, PlansAndRowsExist, DedupeUnique, UpdatePreferences
<1>6. NoPhantomDelivery'
  BY DEF IInv, TypeOK, MessagesNameRows, NoPhantomDelivery, Committed,
    UpdatePreferences
<1>7. SentMeansDelivered'
  BY DEF IInv, TypeOK, PlansAndRowsExist, MessagesNameRows,
    SentMeansDelivered, Committed, UpdatePreferences
<1>8. SkippedIsSilent'
  BY DEF IInv, TypeOK, PlansAndRowsExist, MessagesNameRows, DelaysAreKept,
    NoPhantomDelivery, SkippedIsSilent, Committed, UpdatePreferences
<1> QED
  BY <1>1, <1>2, <1>3, <1>4, <1>5, <1>6, <1>7, <1>8 DEF IInv

\* A user links or loses Telegram.
LEMMA ToggleTelegramStep ==
  ASSUME IInv, NEW u \in Users, ToggleTelegram(u)
  PROVE  IInv'
<1> USE DEF people, db, sessions, told
<1>1. TypeOK'
  BY DEF IInv, TypeOK, ToggleTelegram
<1>2. PlansAndRowsExist'
  BY DEF IInv, TypeOK, PlansAndRowsExist, ToggleTelegram
<1>3. MessagesNameRows'
  BY DEF IInv, TypeOK, PlansAndRowsExist, MessagesNameRows, Committed,
    ToggleTelegram
<1>4. DelaysAreKept'
  BY DEF IInv, TypeOK, PlansAndRowsExist, MessagesNameRows, DelaysAreKept,
    Committed, Instants, Row, ToggleTelegram
<1>5. DedupeUnique'
  BY DEF IInv, TypeOK, PlansAndRowsExist, DedupeUnique, ToggleTelegram
<1>6. NoPhantomDelivery'
  BY DEF IInv, TypeOK, MessagesNameRows, NoPhantomDelivery, Committed,
    ToggleTelegram
<1>7. SentMeansDelivered'
  BY DEF IInv, TypeOK, PlansAndRowsExist, MessagesNameRows,
    SentMeansDelivered, Committed, ToggleTelegram
<1>8. SkippedIsSilent'
  BY DEF IInv, TypeOK, PlansAndRowsExist, MessagesNameRows, DelaysAreKept,
    NoPhantomDelivery, SkippedIsSilent, Committed, ToggleTelegram
<1> QED
  BY <1>1, <1>2, <1>3, <1>4, <1>5, <1>6, <1>7, <1>8 DEF IInv

\* The INSERT and the dispatch of a planned row.
LEMMA InsertStep ==
  ASSUME IInv, NEW c \in Callers, NEW n \in Ids, Insert(c, n)
  PROVE  IInv'
<1> USE DEF people, db, sessions, told
<1>a. plan[c] \in Plan /\ NewRow(c) \in Row /\ NewRow(c).status \in {"queued", "skipped"}
  <2>1. plan[c] \in Plan
    BY DEF IInv, PlansAndRowsExist, Insert
  <2>2. clock \in Nat
    BY DEF IInv, TypeOK
  <2> QED
    BY <2>1, <2>2 DEF Plan, Row, NewRow, Statuses
<1>b. NewMessage(n, plan[c].sched) \in Message
  <2>1. plan[c].sched = None \/ plan[c].sched \in Nat
    BY <1>a DEF Plan, Instants
  <2>2. 0 \in 0 .. MaxRetries
    BY NotifAssumption
  <2> QED
    BY <2>1, <2>2 DEF NewMessage, Message
<1>1. TypeOK'
  BY <1>a, <1>b DEF IInv, TypeOK, Insert
<1>2. PlansAndRowsExist'
  BY <1>a DEF IInv, TypeOK, PlansAndRowsExist, Insert
<1>3. MessagesNameRows'
  BY DEF IInv, TypeOK, PlansAndRowsExist, MessagesNameRows, Committed, Insert,
    NewRow, NewMessage, NoTask, Message, Plan, Row, Conflicts, Executing
<1>4. DelaysAreKept'
  BY DEF IInv, TypeOK, PlansAndRowsExist, MessagesNameRows, DelaysAreKept,
    Committed, Instants, Row, Insert, NewRow, NewMessage, NoTask, Message, Plan,
    Row, Conflicts, Executing
<1>5. DedupeUnique'
  BY DEF IInv, TypeOK, PlansAndRowsExist, DedupeUnique, Insert, NewRow,
    NewMessage, NoTask, Message, Plan, Row, Conflicts, Executing
<1>6. NoPhantomDelivery'
  BY DEF IInv, TypeOK, MessagesNameRows, NoPhantomDelivery, Committed, Insert,
    NewRow, NewMessage, NoTask, Message, Plan, Row, Conflicts, Executing
<1>7. SentMeansDelivered'
  BY DEF IInv, TypeOK, PlansAndRowsExist, MessagesNameRows,
    SentMeansDelivered, Committed, Insert, NewRow, NewMessage, NoTask, Message,
    Plan, Row, Conflicts, Executing
<1>8. SkippedIsSilent'
  BY DEF IInv, TypeOK, PlansAndRowsExist, MessagesNameRows, DelaysAreKept,
    NoPhantomDelivery, SkippedIsSilent, Committed, Insert, NewRow, NewMessage,
    NoTask, Message, Plan, Row, Conflicts, Executing
<1> QED
  BY <1>1, <1>2, <1>3, <1>4, <1>5, <1>6, <1>7, <1>8 DEF IInv

\* A rollback.
LEMMA AbortStep ==
  ASSUME IInv, NEW c \in Callers, Abort(c)
  PROVE  IInv'
<1> USE DEF people, db, sessions, told
<1>1. TypeOK'
  BY DEF IInv, TypeOK, Abort, OpenBy
<1>2. PlansAndRowsExist'
  BY DEF IInv, TypeOK, PlansAndRowsExist, Abort, OpenBy
<1>3. MessagesNameRows'
  <2>1. \A m \in Ids : /\ stage[m] # "free" => stage'[m] # "free"
                       /\ Committed(m) => Committed(m)'
    BY DEF IInv, TypeOK, Abort, OpenBy, Committed
  <2>2. ASSUME NEW t \in Tasks, task[t] # NoTask
        PROVE  task[t].nid \in Ids
    BY <2>2, MessageType
  <2> QED
    BY <2>1, <2>2 DEF IInv, MessagesNameRows, Abort
<1>4. DelaysAreKept'
  BY DEF IInv, TypeOK, PlansAndRowsExist, MessagesNameRows, DelaysAreKept,
    Committed, Instants, Row, Abort, OpenBy
<1>5. DedupeUnique'
  BY DEF IInv, TypeOK, PlansAndRowsExist, DedupeUnique, Abort, OpenBy
<1>6. NoPhantomDelivery'
  BY DEF IInv, TypeOK, MessagesNameRows, NoPhantomDelivery, Committed, Abort,
    OpenBy
<1>7. SentMeansDelivered'
  BY DEF IInv, TypeOK, PlansAndRowsExist, MessagesNameRows,
    SentMeansDelivered, Committed, Abort, OpenBy
<1>8. SkippedIsSilent'
  BY DEF IInv, TypeOK, PlansAndRowsExist, MessagesNameRows, DelaysAreKept,
    NoPhantomDelivery, SkippedIsSilent, Committed, Abort, OpenBy
<1> QED
  BY <1>1, <1>2, <1>3, <1>4, <1>5, <1>6, <1>7, <1>8 DEF IInv

\* A commit.
LEMMA CommitStep ==
  ASSUME IInv, NEW c \in Callers, Commit(c)
  PROVE  IInv'
<1> USE DEF people, db, sessions, told
<1>1. TypeOK'
  BY DEF IInv, TypeOK, Commit, OpenBy
<1>2. PlansAndRowsExist'
  BY DEF IInv, TypeOK, PlansAndRowsExist, Commit, OpenBy
<1>3. MessagesNameRows'
  <2>1. \A m \in Ids : /\ stage[m] # "free" => stage'[m] # "free"
                       /\ Committed(m) => Committed(m)'
    BY DEF IInv, TypeOK, Commit, OpenBy, Committed
  <2>2. ASSUME NEW t \in Tasks, task[t] # NoTask
        PROVE  task[t].nid \in Ids
    BY <2>2, MessageType
  <2> QED
    BY <2>1, <2>2 DEF IInv, MessagesNameRows, Commit
<1>4. DelaysAreKept'
  BY DEF IInv, TypeOK, PlansAndRowsExist, MessagesNameRows, DelaysAreKept,
    Committed, Instants, Row, Commit, OpenBy
<1>5. DedupeUnique'
  BY DEF IInv, TypeOK, PlansAndRowsExist, DedupeUnique, Commit, OpenBy
<1>6. NoPhantomDelivery'
  BY DEF IInv, TypeOK, MessagesNameRows, NoPhantomDelivery, Committed, Commit,
    OpenBy
<1>7. SentMeansDelivered'
  BY DEF IInv, TypeOK, PlansAndRowsExist, MessagesNameRows,
    SentMeansDelivered, Committed, Commit, OpenBy
<1>8. SkippedIsSilent'
  BY DEF IInv, TypeOK, PlansAndRowsExist, MessagesNameRows, DelaysAreKept,
    NoPhantomDelivery, SkippedIsSilent, Committed, Commit, OpenBy
<1> QED
  BY <1>1, <1>2, <1>3, <1>4, <1>5, <1>6, <1>7, <1>8 DEF IInv

\* The sender reads the row.
LEMMA SenderFetchStep ==
  ASSUME IInv, NEW t \in Tasks, SenderFetch(t)
  PROVE  IInv'
<1> USE DEF people, db, sessions, told
<1>1. TypeOK'
  BY DEF IInv, TypeOK, SenderFetch, SetTask, Ack, Found, NoTask, Message,
    Executing
<1>2. PlansAndRowsExist'
  BY DEF IInv, TypeOK, PlansAndRowsExist, SenderFetch, SetTask, Ack, Found,
    NoTask, Message, Executing
<1>3. MessagesNameRows'
  BY DEF IInv, TypeOK, PlansAndRowsExist, MessagesNameRows, Committed,
    SenderFetch, SetTask, Ack, Found, NoTask, Message, Executing
<1>4. DelaysAreKept'
  BY DEF IInv, TypeOK, PlansAndRowsExist, MessagesNameRows, DelaysAreKept,
    Committed, Instants, Row, SenderFetch, SetTask, Ack, Found, NoTask, Message,
    Executing
<1>5. DedupeUnique'
  BY DEF IInv, TypeOK, PlansAndRowsExist, DedupeUnique, SenderFetch, SetTask,
    Ack, Found, NoTask, Message, Executing
<1>6. NoPhantomDelivery'
  BY DEF IInv, TypeOK, MessagesNameRows, NoPhantomDelivery, Committed,
    SenderFetch, SetTask, Ack, Found, NoTask, Message, Executing
<1>7. SentMeansDelivered'
  BY DEF IInv, TypeOK, PlansAndRowsExist, MessagesNameRows,
    SentMeansDelivered, Committed, SenderFetch, SetTask, Ack, Found, NoTask,
    Message, Executing
<1>8. SkippedIsSilent'
  BY DEF IInv, TypeOK, PlansAndRowsExist, MessagesNameRows, DelaysAreKept,
    NoPhantomDelivery, SkippedIsSilent, Committed, SenderFetch, SetTask, Ack,
    Found, NoTask, Message, Executing
<1> QED
  BY <1>1, <1>2, <1>3, <1>4, <1>5, <1>6, <1>7, <1>8 DEF IInv

\* Telegram answers.
LEMMA SenderPostStep ==
  ASSUME IInv, NEW t \in Tasks,
         NEW answer \in {"accepted", "rejected", "transient"}, SenderPost(t, answer)
  PROVE  IInv'
<1> USE DEF people, db, sessions, told
<1>1. TypeOK'
  BY DEF IInv, TypeOK, SenderPost, SetTask, NoTask, Message, Executing
<1>2. PlansAndRowsExist'
  BY DEF IInv, TypeOK, PlansAndRowsExist, SenderPost, SetTask, NoTask,
    Message, Executing
<1>3. MessagesNameRows'
  BY DEF IInv, TypeOK, PlansAndRowsExist, MessagesNameRows, Committed,
    SenderPost, SetTask, NoTask, Message, Executing
<1>4. DelaysAreKept'
  BY DEF IInv, TypeOK, PlansAndRowsExist, MessagesNameRows, DelaysAreKept,
    Committed, Instants, Row, SenderPost, SetTask, NoTask, Message, Executing
<1>5. DedupeUnique'
  BY DEF IInv, TypeOK, PlansAndRowsExist, DedupeUnique, SenderPost, SetTask,
    NoTask, Message, Executing
<1>6. NoPhantomDelivery'
  BY DEF IInv, TypeOK, MessagesNameRows, NoPhantomDelivery, Committed,
    SenderPost, SetTask, NoTask, Message, Executing
<1>7. SentMeansDelivered'
  BY DEF IInv, TypeOK, PlansAndRowsExist, MessagesNameRows,
    SentMeansDelivered, Committed, SenderPost, SetTask, NoTask, Message,
    Executing
<1>8. SkippedIsSilent'
  BY DEF IInv, TypeOK, PlansAndRowsExist, MessagesNameRows, DelaysAreKept,
    NoPhantomDelivery, SkippedIsSilent, Committed, SenderPost, SetTask, NoTask,
    Message, Executing
<1> QED
  BY <1>1, <1>2, <1>3, <1>4, <1>5, <1>6, <1>7, <1>8 DEF IInv

\* The sender records the outcome.
LEMMA SenderSettleStep ==
  ASSUME IInv, NEW t \in Tasks, SenderSettle(t)
  PROVE  IInv'
<1> USE DEF people, db, sessions, told
<1>a. PICK s \in Statuses, n \in Ids :
        /\ n = task[t].nid /\ Committed(n) /\ row[n] \in Row
        /\ row' = [row EXCEPT ![n].status = s]
        /\ task' = [task EXCEPT ![t] = NoTask]
        /\ UNCHANGED <<clock, people, stage, sessions, due, told, faults>>
        /\ s = "sent" => task[t].at = "accepted"
        /\ s \in {"sent", "failed"}
  <2>1. task[t].at \in Executing /\ task[t] # NoTask
    BY DEF SenderSettle, Executing, NoTask
  <2>2. Outcome(task[t].at) \in Statuses
    BY DEF Outcome, Statuses
  <2>3. task[t].nid \in Ids /\ Committed(task[t].nid) /\ row[task[t].nid] \in Row
    BY <2>1, MessageType DEF IInv, MessagesNameRows
  <2> QED
    BY <2>2, <2>3 DEF SenderSettle, SetStatus, SetTask, Ack, Outcome
<1>b. [row[n] EXCEPT !.status = s] \in Row
  BY <1>a DEF Row
<1>1. TypeOK'
  BY <1>a, <1>b DEF IInv, TypeOK
<1>2. PlansAndRowsExist'
  BY <1>a, <1>b DEF IInv, TypeOK, PlansAndRowsExist, Committed
<1>3. MessagesNameRows'
  BY DEF IInv, TypeOK, PlansAndRowsExist, MessagesNameRows, Committed,
    SenderSettle, SetTask, Ack, SetStatus, Outcome, NoTask, Message, Executing,
    Row, Statuses
<1>4. DelaysAreKept'
  BY DEF IInv, TypeOK, PlansAndRowsExist, MessagesNameRows, DelaysAreKept,
    Committed, Instants, Row, SenderSettle, SetTask, Ack, SetStatus, Outcome,
    NoTask, Message, Executing, Row, Statuses
<1>5. DedupeUnique'
  BY DEF IInv, TypeOK, PlansAndRowsExist, DedupeUnique, SenderSettle, SetTask,
    Ack, SetStatus, Outcome, NoTask, Message, Executing, Row, Statuses
<1>6. NoPhantomDelivery'
  BY DEF IInv, TypeOK, MessagesNameRows, NoPhantomDelivery, Committed,
    SenderSettle, SetTask, Ack, SetStatus, Outcome, NoTask, Message, Executing,
    Row, Statuses
<1>7. SentMeansDelivered'
  BY DEF IInv, TypeOK, PlansAndRowsExist, MessagesNameRows,
    SentMeansDelivered, Committed, SenderSettle, SetTask, Ack, SetStatus,
    Outcome, NoTask, Message, Executing, Row, Statuses
<1>8. SkippedIsSilent'
  <2>1. row[n].status # "skipped"
    <3>1. task[t] # NoTask
      BY DEF SenderSettle, NoTask
    <3> QED
      BY <1>a, <3>1 DEF IInv, SkippedIsSilent, Committed
  <2>2. s # "skipped"
    BY <1>a
  <2> QED
    BY <1>a, <2>1, <2>2 DEF IInv, TypeOK, SkippedIsSilent
<1> QED
  BY <1>1, <1>2, <1>3, <1>4, <1>5, <1>6, <1>7, <1>8 DEF IInv

\* The sender goes back to the queue or gives up.
LEMMA SenderRetryStep ==
  ASSUME IInv, NEW t \in Tasks, SenderRetry(t)
  PROVE  IInv'
<1> USE DEF people, db, sessions, told
<1>a. task[t] \in Message /\ task[t].at \in Executing /\ task[t] # NoTask
  BY ExecutingType, MessageType DEF SenderRetry, Executing
<1>b. PICK m \in Message \cup {NoTask} :
        /\ task' = [task EXCEPT ![t] = m]
        /\ m # NoTask => m.at = "ready" /\ m.nid = task[t].nid /\ m.eta = task[t].eta
        /\ UNCHANGED <<clock, people, db, sessions, due, told, faults>>
  <2>1. CASE MayRetry(task[t])
    <3>1. task[t].retries + 1 \in 0 .. MaxRetries
      BY <1>a, <2>1, NotifAssumption DEF MayRetry, Message
    <3>2. [task[t] EXCEPT !.at = "ready", !.retries = @ + 1] \in Message
      BY <1>a, <3>1 DEF Message
    <3> QED
      BY <1>a, <2>1, <3>2 DEF SenderRetry, SetTask, Message
  <2>2. CASE ~MayRetry(task[t])
    BY <2>2 DEF SenderRetry, SetTask, Ack
  <2> QED
    BY <2>1, <2>2
<1>1. TypeOK'
  BY <1>b DEF IInv, TypeOK
<1>2. PlansAndRowsExist'
  BY DEF IInv, TypeOK, PlansAndRowsExist, SenderRetry, SetTask, Ack, MayRetry,
    NoTask, Message, Executing
<1>3. MessagesNameRows'
  BY <1>a, <1>b DEF IInv, TypeOK, MessagesNameRows, Committed, Executing
<1>4. DelaysAreKept'
  BY <1>a, <1>b DEF IInv, TypeOK, DelaysAreKept, Committed, Executing
<1>5. DedupeUnique'
  BY DEF IInv, TypeOK, PlansAndRowsExist, DedupeUnique, SenderRetry, SetTask,
    Ack, MayRetry, NoTask, Message, Executing
<1>6. NoPhantomDelivery'
  BY DEF IInv, TypeOK, MessagesNameRows, NoPhantomDelivery, Committed,
    SenderRetry, SetTask, Ack, MayRetry, NoTask, Message, Executing
<1>7. SentMeansDelivered'
  BY DEF IInv, TypeOK, PlansAndRowsExist, MessagesNameRows,
    SentMeansDelivered, Committed, SenderRetry, SetTask, Ack, MayRetry, NoTask,
    Message, Executing
<1>8. SkippedIsSilent'
  BY <1>a, <1>b DEF IInv, TypeOK, SkippedIsSilent
<1> QED
  BY <1>1, <1>2, <1>3, <1>4, <1>5, <1>6, <1>7, <1>8 DEF IInv

\* A worker dies and its message is delivered again.
LEMMA WorkerCrashStep ==
  ASSUME IInv, NEW t \in Tasks, WorkerCrash(t)
  PROVE  IInv'
<1> USE DEF people, db, sessions, told
<1>1. TypeOK'
  BY DEF IInv, TypeOK, WorkerCrash, Fault, SetTask, NoTask, Message, Executing
<1>2. PlansAndRowsExist'
  BY DEF IInv, TypeOK, PlansAndRowsExist, WorkerCrash, Fault, SetTask, NoTask,
    Message, Executing
<1>3. MessagesNameRows'
  BY DEF IInv, TypeOK, PlansAndRowsExist, MessagesNameRows, Committed,
    WorkerCrash, Fault, SetTask, NoTask, Message, Executing
<1>4. DelaysAreKept'
  BY DEF IInv, TypeOK, PlansAndRowsExist, MessagesNameRows, DelaysAreKept,
    Committed, Instants, Row, WorkerCrash, Fault, SetTask, NoTask, Message,
    Executing
<1>5. DedupeUnique'
  BY DEF IInv, TypeOK, PlansAndRowsExist, DedupeUnique, WorkerCrash, Fault,
    SetTask, NoTask, Message, Executing
<1>6. NoPhantomDelivery'
  BY DEF IInv, TypeOK, MessagesNameRows, NoPhantomDelivery, Committed,
    WorkerCrash, Fault, SetTask, NoTask, Message, Executing
<1>7. SentMeansDelivered'
  BY DEF IInv, TypeOK, PlansAndRowsExist, MessagesNameRows,
    SentMeansDelivered, Committed, WorkerCrash, Fault, SetTask, NoTask, Message,
    Executing
<1>8. SkippedIsSilent'
  BY DEF IInv, TypeOK, PlansAndRowsExist, MessagesNameRows, DelaysAreKept,
    NoPhantomDelivery, SkippedIsSilent, Committed, WorkerCrash, Fault, SetTask,
    NoTask, Message, Executing
<1> QED
  BY <1>1, <1>2, <1>3, <1>4, <1>5, <1>6, <1>7, <1>8 DEF IInv

\* A message is lost.
LEMMA TaskDiesStep ==
  ASSUME IInv, NEW t \in Tasks, TaskDies(t)
  PROVE  IInv'
<1> USE DEF people, db, sessions, told
<1>1. TypeOK'
  BY DEF IInv, TypeOK, TaskDies, Fault, SetTask, Ack, NoTask, Message,
    Executing
<1>2. PlansAndRowsExist'
  BY DEF IInv, TypeOK, PlansAndRowsExist, TaskDies, Fault, SetTask, Ack,
    NoTask, Message, Executing
<1>3. MessagesNameRows'
  BY DEF IInv, TypeOK, PlansAndRowsExist, MessagesNameRows, Committed,
    TaskDies, Fault, SetTask, Ack, NoTask, Message, Executing
<1>4. DelaysAreKept'
  BY DEF IInv, TypeOK, PlansAndRowsExist, MessagesNameRows, DelaysAreKept,
    Committed, Instants, Row, TaskDies, Fault, SetTask, Ack, NoTask, Message,
    Executing
<1>5. DedupeUnique'
  BY DEF IInv, TypeOK, PlansAndRowsExist, DedupeUnique, TaskDies, Fault,
    SetTask, Ack, NoTask, Message, Executing
<1>6. NoPhantomDelivery'
  BY DEF IInv, TypeOK, MessagesNameRows, NoPhantomDelivery, Committed,
    TaskDies, Fault, SetTask, Ack, NoTask, Message, Executing
<1>7. SentMeansDelivered'
  BY DEF IInv, TypeOK, PlansAndRowsExist, MessagesNameRows,
    SentMeansDelivered, Committed, TaskDies, Fault, SetTask, Ack, NoTask,
    Message, Executing
<1>8. SkippedIsSilent'
  BY DEF IInv, TypeOK, PlansAndRowsExist, MessagesNameRows, DelaysAreKept,
    NoPhantomDelivery, SkippedIsSilent, Committed, TaskDies, Fault, SetTask,
    Ack, NoTask, Message, Executing
<1> QED
  BY <1>1, <1>2, <1>3, <1>4, <1>5, <1>6, <1>7, <1>8 DEF IInv

\* A message is duplicated.
LEMMA RedeliverStep ==
  ASSUME IInv, NEW t \in Tasks, Redeliver(t)
  PROVE  IInv'
<1> USE DEF people, db, sessions, told
<1>1. TypeOK'
  BY DEF IInv, TypeOK, Redeliver, Fault, SetTask, NoTask, Message, Executing
<1>2. PlansAndRowsExist'
  BY DEF IInv, TypeOK, PlansAndRowsExist, Redeliver, Fault, SetTask, NoTask,
    Message, Executing
<1>3. MessagesNameRows'
  BY DEF IInv, TypeOK, PlansAndRowsExist, MessagesNameRows, Committed,
    Redeliver, Fault, SetTask, NoTask, Message, Executing
<1>4. DelaysAreKept'
  BY DEF IInv, TypeOK, PlansAndRowsExist, MessagesNameRows, DelaysAreKept,
    Committed, Instants, Row, Redeliver, Fault, SetTask, NoTask, Message,
    Executing
<1>5. DedupeUnique'
  BY DEF IInv, TypeOK, PlansAndRowsExist, DedupeUnique, Redeliver, Fault,
    SetTask, NoTask, Message, Executing
<1>6. NoPhantomDelivery'
  BY DEF IInv, TypeOK, MessagesNameRows, NoPhantomDelivery, Committed,
    Redeliver, Fault, SetTask, NoTask, Message, Executing
<1>7. SentMeansDelivered'
  BY DEF IInv, TypeOK, PlansAndRowsExist, MessagesNameRows,
    SentMeansDelivered, Committed, Redeliver, Fault, SetTask, NoTask, Message,
    Executing
<1>8. SkippedIsSilent'
  BY DEF IInv, TypeOK, PlansAndRowsExist, MessagesNameRows, DelaysAreKept,
    NoPhantomDelivery, SkippedIsSilent, Committed, Redeliver, Fault, SetTask,
    NoTask, Message, Executing
<1> QED
  BY <1>1, <1>2, <1>3, <1>4, <1>5, <1>6, <1>7, <1>8 DEF IInv

\* The flush reads the due rows.
LEMMA FlushSelectStep ==
  ASSUME IInv, FlushSelect
  PROVE  IInv'
<1> USE DEF people, db, sessions, told
<1>1. TypeOK'
  BY DEF IInv, TypeOK, FlushSelect, IsDue
<1>2. PlansAndRowsExist'
  BY DEF IInv, TypeOK, PlansAndRowsExist, FlushSelect, IsDue
<1>3. MessagesNameRows'
  BY DEF IInv, TypeOK, PlansAndRowsExist, MessagesNameRows, Committed,
    FlushSelect, IsDue
<1>4. DelaysAreKept'
  BY DEF IInv, TypeOK, PlansAndRowsExist, MessagesNameRows, DelaysAreKept,
    Committed, Instants, Row, FlushSelect, IsDue
<1>5. DedupeUnique'
  BY DEF IInv, TypeOK, PlansAndRowsExist, DedupeUnique, FlushSelect, IsDue
<1>6. NoPhantomDelivery'
  BY DEF IInv, TypeOK, MessagesNameRows, NoPhantomDelivery, Committed,
    FlushSelect, IsDue
<1>7. SentMeansDelivered'
  BY DEF IInv, TypeOK, PlansAndRowsExist, MessagesNameRows,
    SentMeansDelivered, Committed, FlushSelect, IsDue
<1>8. SkippedIsSilent'
  BY DEF IInv, TypeOK, PlansAndRowsExist, MessagesNameRows, DelaysAreKept,
    NoPhantomDelivery, SkippedIsSilent, Committed, FlushSelect, IsDue
<1> QED
  BY <1>1, <1>2, <1>3, <1>4, <1>5, <1>6, <1>7, <1>8 DEF IInv

\* The flush dispatches one of them.
LEMMA FlushDispatchStep ==
  ASSUME IInv, NEW n \in Ids, FlushDispatch(n)
  PROVE  IInv'
<1> USE DEF people, db, sessions, told
<1>1. TypeOK'
  BY NotifAssumption DEF IInv, TypeOK, FlushDispatch, NewMessage, SetTask,
    NoTask, Message, Executing, NoTask
<1>2. PlansAndRowsExist'
  BY DEF IInv, TypeOK, PlansAndRowsExist, FlushDispatch, NewMessage, SetTask,
    NoTask, Message, Executing
<1>a. n \in Ids /\ Committed(n) /\ NewMessage(n, None).nid = n
        /\ NewMessage(n, None).at = "ready"
  BY DEF IInv, TypeOK, DelaysAreKept, FlushDispatch, NewMessage
<1>3. MessagesNameRows'
  BY <1>a DEF IInv, TypeOK, MessagesNameRows, Committed, FlushDispatch, SetTask,
     Executing
<1>4. DelaysAreKept'
  BY DEF IInv, TypeOK, PlansAndRowsExist, MessagesNameRows, DelaysAreKept,
    Committed, Instants, Row, FlushDispatch, NewMessage, SetTask, NoTask,
    Message, Executing
<1>5. DedupeUnique'
  BY DEF IInv, TypeOK, PlansAndRowsExist, DedupeUnique, FlushDispatch,
    NewMessage, SetTask, NoTask, Message, Executing
<1>6. NoPhantomDelivery'
  BY DEF IInv, TypeOK, MessagesNameRows, NoPhantomDelivery, Committed,
    FlushDispatch, NewMessage, SetTask, NoTask, Message, Executing
<1>7. SentMeansDelivered'
  BY DEF IInv, TypeOK, PlansAndRowsExist, MessagesNameRows,
    SentMeansDelivered, Committed, FlushDispatch, NewMessage, SetTask, NoTask,
    Message, Executing
<1>8. SkippedIsSilent'
  BY DEF IInv, TypeOK, PlansAndRowsExist, MessagesNameRows, DelaysAreKept,
    NoPhantomDelivery, SkippedIsSilent, Committed, FlushDispatch, NewMessage,
    SetTask, NoTask, Message, Executing
<1> QED
  BY <1>1, <1>2, <1>3, <1>4, <1>5, <1>6, <1>7, <1>8 DEF IInv

\* enqueue plans a row.
LEMMA EnqueueSelectStep ==
  ASSUME IInv, NEW c \in ApiCallers, NEW u \in Users,
         NEW category \in Categories, NEW priority \in {"normal", "critical"},
         NEW k \in Keys \cup {NoKey}, NEW chans \in SUBSET Channels, 
         EnqueueSelect(c, u, category, priority, k, chans)
  PROVE  IInv'
<1> USE DEF people, db, sessions, told
<1>0. \E p \in Plan :
        /\ pc' = [pc EXCEPT ![c] = "inserting"]
        /\ p.send \/ p.publish => p.status = "queued"
        /\ plan' = [plan EXCEPT ![c] = p]
        /\ UNCHANGED <<clock, people, db, task, due, told, faults>>
  <2>1. ServicePlan(u, category, priority, k, chans) \in Plan
    BY ServicePlanType DEF IInv
  <2> QED
    BY <2>1, ServicePlanSilent DEF EnqueueSelect
<1>1. TypeOK'
  BY <1>0 DEF IInv, TypeOK
<1>2. PlansAndRowsExist'
  BY <1>0 DEF IInv, TypeOK, PlansAndRowsExist
<1>3. MessagesNameRows'
  BY <1>0 DEF IInv, MessagesNameRows, Committed
<1>4. DelaysAreKept'
  BY <1>0 DEF IInv, DelaysAreKept, Committed
<1>5. DedupeUnique' /\ NoPhantomDelivery' /\ SentMeansDelivered' /\ SkippedIsSilent'
  BY <1>0 DEF IInv, DedupeUnique, NoPhantomDelivery, SentMeansDelivered,
     SkippedIsSilent, Committed
<1> QED
  BY <1>1, <1>2, <1>3, <1>4, <1>5 DEF IInv

\* _enqueue_sync plans a row.
LEMMA EnqueueSyncSelectStep ==
  ASSUME IInv, NEW c \in BeatCallers, NEW u \in Users,
         NEW category \in Categories, NEW k \in Keys, 
         EnqueueSyncSelect(c, u, category, k)
  PROVE  IInv'
<1> USE DEF people, db, sessions, told
<1>0. \E p \in Plan :
        /\ pc' = [pc EXCEPT ![c] = "inserting"]
        /\ p.send \/ p.publish => p.status = "queued"
        /\ plan' = [plan EXCEPT ![c] = p]
        /\ UNCHANGED <<clock, people, db, task, due, told, faults>>
  <2>1. DispatcherPlan(u, category, k) \in Plan
    BY DEF DispatcherPlan, Plan, Channels, Statuses, Instants
  <2> QED
    BY <2>1 DEF EnqueueSyncSelect, DispatcherPlan
<1>1. TypeOK'
  BY <1>0 DEF IInv, TypeOK
<1>2. PlansAndRowsExist'
  BY <1>0 DEF IInv, TypeOK, PlansAndRowsExist
<1>3. MessagesNameRows'
  BY <1>0 DEF IInv, MessagesNameRows, Committed
<1>4. DelaysAreKept'
  BY <1>0 DEF IInv, DelaysAreKept, Committed
<1>5. DedupeUnique' /\ NoPhantomDelivery' /\ SentMeansDelivered' /\ SkippedIsSilent'
  BY <1>0 DEF IInv, DedupeUnique, NoPhantomDelivery, SentMeansDelivered,
     SkippedIsSilent, Committed
<1> QED
  BY <1>1, <1>2, <1>3, <1>4, <1>5 DEF IInv

-----------------------------------------------------------------------------
(* The invariant and what follows from it *)

\* The inductive invariant holds initially.
LEMMA InitInvariant == Init => IInv
<1> SUFFICES ASSUME Init PROVE IInv
  OBVIOUS
<1>1. TypeOK
  BY NotifAssumption DEF Init, TypeOK
<1>2. PlansAndRowsExist /\ MessagesNameRows /\ DelaysAreKept
  BY <1>1 DEF Init, PlansAndRowsExist, MessagesNameRows, DelaysAreKept
<1>3. DedupeUnique /\ NoPhantomDelivery /\ SentMeansDelivered /\ SkippedIsSilent
  BY DEF Init, DedupeUnique, NoPhantomDelivery, SentMeansDelivered,
     SkippedIsSilent, Committed
<1> QED
  BY <1>1, <1>2, <1>3 DEF IInv

\* Every step preserves it: one lemma per action.
LEMMA NextInvariant == IInv /\ [Next]_vars => IInv'
<1> SUFFICES ASSUME IInv, [Next]_vars PROVE IInv'
  OBVIOUS
<1>1. CASE Environment
  BY <1>1, TickStep, UpdatePreferencesStep, ToggleTelegramStep DEF Environment
<1>2. CASE Producer
  <2>1. ASSUME NEW c \in Callers, InsertConflict(c) \/ Commit(c) \/ Rollback(c)
        PROVE  IInv'
    BY <2>1, AbortStep, CommitStep DEF InsertConflict, Rollback
  <2> QED
    BY <1>2, <2>1, EnqueueSelectStep, EnqueueSyncSelectStep, InsertStep DEF Producer
<1>3. CASE Sender
  BY <1>3, SenderFetchStep, SenderPostStep, SenderSettleStep, SenderRetryStep,
     WorkerCrashStep, TaskDiesStep, RedeliverStep DEF Sender
<1>4. CASE Flush
  BY <1>4, FlushSelectStep, FlushDispatchStep DEF Flush
<1>5. CASE UNCHANGED vars
  BY <1>5 DEF vars, people, db, sessions, told, IInv, TypeOK, PlansAndRowsExist,
     MessagesNameRows, DelaysAreKept, DedupeUnique, NoPhantomDelivery,
     SentMeansDelivered, SkippedIsSilent, Committed
<1> QED
  BY <1>1, <1>2, <1>3, <1>4, <1>5 DEF Next

\* The inductive invariant holds in every reachable state of the pipeline.
THEOREM InvariantCorrect == Spec => []IInv
<1> QED
  BY InitInvariant, NextInvariant, PTL DEF Spec

\* Rows, plans, messages and preferences keep their shape whatever callers,
\* workers and users do.
THEOREM TypeCorrect == Spec => []TypeOK
<1>1. IInv => TypeOK
  BY DEF IInv
<1> QED
  BY <1>1, InvariantCorrect, PTL

\* No two rows that are or may become visible share a user and a dedupe key:
\* the SELECT-then-INSERT of the producers and the unique index together.
THEOREM DedupeCorrect == Spec => []DedupeUnique
<1>1. IInv => DedupeUnique
  BY DEF IInv
<1> QED
  BY <1>1, InvariantCorrect, PTL

\* Telegram never receives a notification whose transaction did not commit,
\* although messages are dispatched before the COMMIT.
THEOREM NoPhantoms == Spec => []NoPhantomDelivery
<1>1. IInv => NoPhantomDelivery
  BY DEF IInv
<1> QED
  BY <1>1, InvariantCorrect, PTL

\* The sender records "sent" only for what Telegram accepted, whatever crashes,
\* retries and duplicates occur.
THEOREM SentCorrect == Spec => []SentMeansDelivered
<1>1. IInv => SentMeansDelivered
  BY DEF IInv
<1> QED
  BY <1>1, InvariantCorrect, PTL

\* A notification the preferences suppressed is never sent, published or queued.
THEOREM SkippedCorrect == Spec => []SkippedIsSilent
<1>1. IInv => SkippedIsSilent
  BY DEF IInv
<1> QED
  BY <1>1, InvariantCorrect, PTL

-----------------------------------------------------------------------------
(* Deliveries: when they happen, and the lifecycle they implement *)

\* Only the POST of the sender changes delivered.
LEMMA OnlyPostDelivers ==
  ASSUME [Next]_vars, delivered' # delivered
  PROVE  \E t \in Tasks, answer \in {"accepted", "rejected", "transient"} :
           SenderPost(t, answer)
<1> USE DEF told, vars
<1>1. ~Environment
  BY DEF Environment, Tick, UpdatePreferences, ToggleTelegram
<1>2. ~Producer
  BY DEF Producer, EnqueueSelect, EnqueueSyncSelect, Insert, InsertConflict,
     Commit, Rollback, Abort
<1>3. ~Flush
  BY DEF Flush, FlushSelect, FlushDispatch
<1>4. CASE Sender
  BY <1>4 DEF Sender, SenderFetch, SenderSettle, SenderRetry, WorkerCrash,
     TaskDies, Redeliver, Fault
<1> QED
  BY <1>1, <1>2, <1>3, <1>4 DEF Next

\* What a POST may do to the count of deliveries.
LEMMA PostDelivers ==
  ASSUME IInv, NEW t \in Tasks, SenderPost(t, "accepted") \/ SenderPost(t, "rejected")
                                  \/ SenderPost(t, "transient")
  PROVE  /\ task[t] # NoTask /\ task[t].at \in Executing /\ task[t].nid \in Ids
         /\ \/ delivered' = [delivered EXCEPT ![task[t].nid] = @ + 1]
            \/ UNCHANGED delivered
         /\ UNCHANGED <<stage, row>>
<1>1. task[t].at = "posting"
  BY DEF SenderPost
<1>2. task[t] # NoTask /\ task[t].nid \in Ids
  BY <1>1, ExecutingType, MessageType
<1> QED
  BY <1>1, <1>2 DEF SenderPost, Executing, db

\* A delayed message reaches Telegram only when its delay is over, although it
\* may have been duplicated, redelivered or sent by the flush.
THEOREM ScheduleRespected == Spec => NotBeforeSchedule
<1>1. IInv /\ [Next]_vars =>
        [\A n \in Ids : delivered'[n] > delivered[n] /\ row[n].sched # None
           => row[n].sched <= clock]_vars
  <2> SUFFICES ASSUME IInv, [Next]_vars, NEW n \in Ids,
                      delivered'[n] > delivered[n], row[n].sched # None
               PROVE  row[n].sched <= clock
    OBVIOUS
  <2>1. delivered[n] \in Nat
    BY DEF IInv, TypeOK
  <2>2. PICK t \in Tasks, answer \in {"accepted", "rejected", "transient"} :
          SenderPost(t, answer)
    BY <2>1, OnlyPostDelivers
  <2>3. /\ task[t] # NoTask /\ task[t].at \in Executing /\ task[t].nid \in Ids
        /\ \/ delivered' = [delivered EXCEPT ![task[t].nid] = @ + 1]
           \/ UNCHANGED delivered
    BY <2>2, PostDelivers
  <2>4. n = task[t].nid
    BY <2>1, <2>3 DEF IInv, TypeOK
  <2> QED
    BY <2>3, <2>4 DEF IInv, DelaysAreKept
<1> QED
  BY <1>1, InvariantCorrect, PTL DEF Spec, NotBeforeSchedule

-----------------------------------------------------------------------------
(* Refinement of NotificationLifecycle *)

\* The message the sender executes names a committed row that was not skipped.
LEMMA ExecutesPending ==
  ASSUME IInv, NEW t \in Tasks, task[t].at \in Executing
  PROVE  /\ task[t].nid \in Ids /\ row[task[t].nid] \in Row
         /\ Committed(task[t].nid)
         /\ row[task[t].nid].status \in {"queued", "sent", "failed"}
         /\ task[t].at = "accepted" => delivered[task[t].nid] > 0
<1>1. task[t] # NoTask /\ task[t].nid \in Ids
  <2>1. task[t] # NoTask
    BY DEF Executing, NoTask
  <2> QED
    BY <2>1, MessageType
<1>2. /\ Committed(task[t].nid) /\ row[task[t].nid] \in Row
      /\ task[t].at = "accepted" => delivered[task[t].nid] > 0
  BY <1>1, MessageType DEF IInv, MessagesNameRows
<1>3. row[task[t].nid].status # "skipped"
  BY <1>1, <1>2 DEF IInv, SkippedIsSilent, Committed
<1>4. row[task[t].nid].status \in Statuses
  BY <1>2 DEF Row
<1> QED
  BY <1>1, <1>2, <1>3, <1>4 DEF Statuses

\* What leaves the visible status of every row and every delivery alone is a
\* stutter of the lifecycle.
LEMMA Stutters ==
  ASSUME \A n \in Ids : LifeOf(n)' = LifeOf(n), UNCHANGED delivered
  PROVE  UNCHANGED Lifecycle!lvars
BY DEF Lifecycle!lvars

\* Unchanged rows have an unchanged visible status.
LEMMA SameRowsSameLife ==
  ASSUME UNCHANGED <<stage, row>>
  PROVE  \A n \in Ids : LifeOf(n)' = LifeOf(n)
BY DEF LifeOf, Committed

\* An inserted or abandoned row is invisible to others.
LEMMA InvisibleSteps ==
  ASSUME IInv, NEW c \in Callers, (\E n \in Ids : Insert(c, n)) \/ Abort(c)
  PROVE  UNCHANGED Lifecycle!lvars
<1>1. UNCHANGED delivered
  BY DEF Insert, Abort, told
<1>2. ASSUME NEW n \in Ids, Insert(c, n), NEW m \in Ids
      PROVE  LifeOf(m)' = LifeOf(m)
  BY <1>2 DEF Insert, LifeOf, Committed, IInv, TypeOK
<1>3. ASSUME Abort(c), NEW m \in Ids
      PROVE  LifeOf(m)' = LifeOf(m)
  BY <1>3 DEF Abort, OpenBy, LifeOf, Committed, IInv, TypeOK
<1> QED
  BY <1>1, <1>2, <1>3, Stutters

\* COMMIT makes the rows of the transaction exist, all at once.
LEMMA CommitRecords ==
  ASSUME IInv, NEW c \in Callers, Commit(c)
  PROVE  Lifecycle!Record(OpenBy(c))
<1> DEFINE S == OpenBy(c)
           f == [n \in S |-> row[n].status]
<1>1. \A n \in S : n \in Ids /\ stage[n] = "open"
  BY DEF OpenBy
<1>2. \A n \in S : LifeOf(n) = "none"
  BY <1>1 DEF LifeOf, Committed
<1>3. f \in [S -> {"queued", "skipped"}]
  BY <1>1 DEF IInv, PlansAndRowsExist
<1>4. \A n \in Ids : LifeOf(n)' = IF n \in S THEN f[n] ELSE LifeOf(n)
  BY DEF Commit, OpenBy, LifeOf, Committed, IInv, TypeOK
<1>5. UNCHANGED delivered
  BY DEF Commit, told
<1> HIDE DEF f, S
<1>6. [n \in Ids |-> LifeOf(n)]' = [n \in Ids |-> IF n \in S THEN f[n] ELSE [m \in Ids |-> LifeOf(m)][n]]
  BY <1>4
<1>7. \A n \in S : [m \in Ids |-> LifeOf(m)][n] = "none"
  BY <1>1, <1>2
<1>8. Lifecycle!Record(S)
  BY <1>3, <1>5, <1>6, <1>7 DEF Lifecycle!Record
<1> QED
  BY <1>8 DEF S

\* The POST tells the user about a pending notification, or nobody.
LEMMA PostTells ==
  ASSUME IInv, NEW t \in Tasks, NEW answer \in {"accepted", "rejected", "transient"},
         SenderPost(t, answer)
  PROVE  (\E n \in Ids : Lifecycle!Tell(n)) \/ UNCHANGED Lifecycle!lvars
<1> DEFINE n == task[t].nid
<1>1. task[t].at \in Executing
  BY DEF SenderPost, Executing
<1>2. n \in Ids /\ LifeOf(n) \in {"queued", "sent", "failed"}
  BY <1>1, ExecutesPending DEF LifeOf
<1>3. \A m \in Ids : LifeOf(m)' = LifeOf(m)
  BY SameRowsSameLife DEF SenderPost, db
<1>4. delivered' = [delivered EXCEPT ![n] = @ + 1] \/ UNCHANGED delivered
  BY PostDelivers
<1> HIDE DEF n
<1>5. CASE UNCHANGED delivered
  BY <1>3, <1>5, Stutters
<1>6. CASE delivered' = [delivered EXCEPT ![n] = @ + 1]
  <2>1. \A m \in Ids : delivered[m] \in Nat
    BY DEF IInv, TypeOK
  <2>2. \A m \in Ids : delivered'[m] > 0 <=> (m = n \/ delivered[m] > 0)
    BY <1>2, <1>6, <2>1 DEF IInv, TypeOK
  <2>3. {m \in Ids : delivered[m] > 0}' = {m \in Ids : delivered[m] > 0} \cup {n}
    BY <1>2, <2>2
  <2>4. [m \in Ids |-> LifeOf(m)]' = [m \in Ids |-> LifeOf(m)]
    BY <1>3
  <2>5. [m \in Ids |-> LifeOf(m)][n] \in {"queued", "sent", "failed"}
    BY <1>2
  <2> QED
    BY <1>2, <2>3, <2>4, <2>5 DEF Lifecycle!Tell, Lifecycle!Pending
<1> QED
  BY <1>4, <1>5, <1>6

\* The UPDATE settles a pending notification, and as "sent" only a told one.
LEMMA SettleSettles ==
  ASSUME IInv, NEW t \in Tasks, SenderSettle(t)
  PROVE  Lifecycle!Settle(task[t].nid, Outcome(task[t].at))
<1> DEFINE n == task[t].nid
           s == Outcome(task[t].at)
<1>1. task[t].at \in Executing
  BY DEF SenderSettle, Executing
<1>2. /\ n \in Ids /\ Committed(n) /\ row[n] \in Row
      /\ LifeOf(n) \in {"queued", "sent", "failed"}
      /\ task[t].at = "accepted" => delivered[n] > 0
  BY <1>1, ExecutesPending DEF LifeOf
<1>3. s = "sent" => n \in {m \in Ids : delivered[m] > 0}
  BY <1>2 DEF Outcome
<1>4. row' = [row EXCEPT ![n].status = s] /\ UNCHANGED <<stage, delivered>>
  BY DEF SenderSettle, SetStatus, told
<1>5. row'[n].status = s /\ \A m \in Ids : m # n => row'[m] = row[m]
  BY <1>2, <1>4 DEF IInv, TypeOK, Row
<1> HIDE DEF n, s
<1>6. \A m \in Ids : LifeOf(m)' = IF m = n THEN s ELSE LifeOf(m)
  BY <1>2, <1>4, <1>5 DEF LifeOf, Committed
<1>7. [m \in Ids |-> LifeOf(m)]' = [[m \in Ids |-> LifeOf(m)] EXCEPT ![n] = s]
  BY <1>6
<1>8. [m \in Ids |-> LifeOf(m)][n] \in {"queued", "sent", "failed"}
  BY <1>2
<1>9. UNCHANGED {m \in Ids : delivered[m] > 0}
  BY <1>4
<1> QED
  BY <1>3, <1>7, <1>8, <1>9 DEF Lifecycle!Settle, Lifecycle!Pending, n, s

\* Every other step of the pipeline is invisible in the lifecycle.
LEMMA NextRefines == IInv /\ [Next]_vars => [Lifecycle!LNext]_(Lifecycle!lvars)
<1> SUFFICES ASSUME IInv, [Next]_vars
             PROVE  Lifecycle!LNext \/ UNCHANGED Lifecycle!lvars
  OBVIOUS
<1> USE DEF people, db, sessions, told, vars
<1>0. ASSUME UNCHANGED <<stage, row, delivered>>
      PROVE  UNCHANGED Lifecycle!lvars
  BY <1>0, SameRowsSameLife, Stutters
<1>1. CASE Environment \/ Flush \/ UNCHANGED vars
  BY <1>0, <1>1 DEF Environment, Flush, Tick, UpdatePreferences, ToggleTelegram,
     FlushSelect, FlushDispatch
<1>2. CASE Producer
  <2>1. ASSUME NEW c \in Callers, Commit(c) PROVE Lifecycle!LNext
    BY <2>1, CommitRecords DEF Lifecycle!LNext, OpenBy
  <2>2. ASSUME NEW c \in Callers,
               InsertConflict(c) \/ Rollback(c) \/ \E n \in Ids : Insert(c, n)
        PROVE  UNCHANGED Lifecycle!lvars
    BY <2>2, InvisibleSteps DEF InsertConflict, Rollback
  <2>3. ASSUME NEW c \in Callers, NEW u \in Users, NEW category \in Categories,
               NEW priority \in {"normal", "critical"},
               NEW k \in Keys \cup {NoKey}, NEW chans \in SUBSET Channels,
               \/ EnqueueSelect(c, u, category, priority, k, chans)
               \/ EnqueueSyncSelect(c, u, category, k)
        PROVE  UNCHANGED Lifecycle!lvars
    BY <1>0, <2>3 DEF EnqueueSelect, EnqueueSyncSelect
  <2> QED
    BY <1>2, <2>1, <2>2, <2>3 DEF Producer, Callers
<1>3. CASE Sender
  <2>1. ASSUME NEW t \in Tasks, SenderSettle(t) PROVE Lifecycle!LNext
    <3>1. task[t].nid \in Ids /\ Outcome(task[t].at) \in {"sent", "failed"}
      BY <2>1, ExecutesPending DEF SenderSettle, Executing, Outcome
    <3> QED
      BY <2>1, <3>1, SettleSettles DEF Lifecycle!LNext
  <2>2. ASSUME NEW t \in Tasks, NEW answer \in {"accepted", "rejected", "transient"},
               SenderPost(t, answer)
        PROVE  Lifecycle!LNext \/ UNCHANGED Lifecycle!lvars
    BY <2>2, PostTells DEF Lifecycle!LNext
  <2>3. ASSUME NEW t \in Tasks,
               SenderFetch(t) \/ SenderRetry(t) \/ WorkerCrash(t) \/ TaskDies(t) \/ Redeliver(t)
        PROVE  UNCHANGED Lifecycle!lvars
    BY <1>0, <2>3 DEF SenderFetch, SenderRetry, WorkerCrash, TaskDies, Redeliver, Fault
  <2> QED
    BY <1>3, <2>1, <2>2, <2>3 DEF Sender
<1> QED
  BY <1>1, <1>2, <1>3 DEF Next

\* Transactions, queue, workers and flush together implement the lifecycle of
\* a notification, for any number of actors and any number of faults.
THEOREM Refinement == Spec => ImplementsLifecycle
<1>1. Init => Lifecycle!LInit
  <2> SUFFICES ASSUME Init PROVE Lifecycle!LInit
    OBVIOUS
  <2>1. \A n \in Ids : LifeOf(n) = "none" /\ ~(delivered[n] > 0)
    BY DEF Init, LifeOf, Committed
  <2> QED
    BY <2>1 DEF Lifecycle!LInit
<1> QED
  BY <1>1, NextRefines, InvariantCorrect, PTL
     DEF Spec, ImplementsLifecycle, Lifecycle!LSpec

-----------------------------------------------------------------------------
(* Preferences *)

\* What PrefsAreKept rests on: a plan for what is critical is neither skipped nor
\* delayed, and a plan for the app alone dispatches nothing.
PrefsInv ==
  /\ \A c \in Callers : pc[c] = "inserting" =>
       /\ plan[c].category \in Critical => plan[c].status # "skipped" /\ plan[c].sched = None
       /\ plan[c].send => plan[c].channel = "telegram"
  /\ PrefsAreKept

\* What a plan of enqueue says of what is critical and of what it dispatches.
LEMMA ServicePlanPrefs ==
  ASSUME NEW u, NEW category, NEW priority, NEW k, NEW chans, chans # {}
  PROVE  LET p == ServicePlan(u, category, priority, k, chans)
         IN  /\ p.category = category
             /\ category \in Critical => p.status # "skipped" /\ p.sched = None
             /\ p.send => p.channel = "telegram"
  BY DEF ServicePlan, SkippedPlan, IsCritical

\* A step that inserts no row, brings no message about a row and no delivery of one
\* that has none, changes at most the status of rows to "sent" or "failed", and
\* leaves the plans of those who are about to insert.
LEMMA PrefsKeptStep ==
  ASSUME IInv, PrefsInv,
         \A n \in Ids :
           row'[n] = row[n] \/ \E s \in {"sent", "failed"} : row'[n] = [row[n] EXCEPT !.status = s],
         \A n \in Ids : row[n] = None => row'[n] = None,
         clock' >= clock, clock' \in Nat,
         \A n \in Ids : delivered'[n] > 0 => delivered[n] > 0
                        \/ \E t \in Tasks : task[t] # NoTask /\ task[t].nid = n,
         \A t \in Tasks : task'[t] # NoTask =>
           \E s \in Tasks : task[s] # NoTask /\ task'[t].nid = task[s].nid,
         \A c \in Callers : pc'[c] = "inserting" => pc[c] = "inserting" /\ plan'[c] = plan[c]
  PROVE  PrefsInv'
<1>1. \A n \in Ids : row[n] # None => row[n] \in Row
  BY DEF IInv, TypeOK
<1>2. \A n \in Ids : row'[n] # None =>
        /\ row[n] # None
        /\ row'[n].category = row[n].category /\ row'[n].channel = row[n].channel
        /\ row'[n].sched = row[n].sched
        /\ row'[n].status = row[n].status \/ row'[n].status \in {"sent", "failed"}
  BY <1>1 DEF Row
<1>3. CriticalIsImmediate'
  BY <1>2 DEF PrefsInv, PrefsAreKept, CriticalIsImmediate
<1>4. OnlyTheFlushSendsAppRows'
  <2> SUFFICES ASSUME NEW n \in Ids, row'[n] # None, row'[n].channel = "in_app",
                      \/ delivered'[n] > 0
                      \/ \E t \in Tasks : task'[t] # NoTask /\ task'[t].nid = n
               PROVE  row'[n].sched # None /\ row'[n].sched <= clock'
    BY DEF OnlyTheFlushSendsAppRows
  <2>1. delivered[n] > 0 \/ \E t \in Tasks : task[t] # NoTask /\ task[t].nid = n
    OBVIOUS
  <2>2. row[n] # None /\ row[n].channel = "in_app" /\ row'[n].sched = row[n].sched
    BY <1>2
  <2>3. row[n].sched # None /\ row[n].sched <= clock
    BY <2>1, <2>2 DEF PrefsInv, PrefsAreKept, OnlyTheFlushSendsAppRows
  <2>4. row[n].sched \in Nat /\ clock \in Nat
    BY <1>1, <2>2, <2>3 DEF Row, Instants, IInv, TypeOK
  <2> QED
    BY <2>2, <2>3, <2>4
<1> QED
  BY <1>3, <1>4 DEF PrefsInv, PrefsAreKept

\* The INSERT with its dispatch.
LEMMA PrefsInsert ==
  ASSUME IInv, PrefsInv, NEW c \in Callers, NEW n \in Ids, Insert(c, n)
  PROVE  PrefsInv'
<1>1. /\ pc[c] = "inserting" /\ stage[n] = "free"
      /\ plan[c] \in Plan
      /\ row' = [row EXCEPT ![n] = NewRow(c)]
      /\ delivered' = delivered /\ clock' = clock
      /\ pc' = [pc EXCEPT ![c] = "open"] /\ plan' = [plan EXCEPT ![c] = None]
  BY DEF Insert, IInv, PlansAndRowsExist
<1>2. /\ row \in [Ids -> Row \cup {None}] /\ pc \in [Callers -> {"idle", "open", "inserting"}]
      /\ plan \in [Callers -> Plan \cup {None}] /\ delivered[n] = 0
      /\ task \in [Tasks -> Message \cup {NoTask}]
  BY <1>1 DEF IInv, TypeOK, NoPhantomDelivery, Committed
<1>3. /\ NewRow(c).category = plan[c].category /\ NewRow(c).channel = plan[c].channel
      /\ NewRow(c).status = plan[c].status /\ NewRow(c).sched = plan[c].sched
  BY DEF NewRow
<1>4. CriticalIsImmediate'
  BY <1>1, <1>2, <1>3 DEF PrefsInv, PrefsAreKept, CriticalIsImmediate
<1>5. ASSUME NEW t \in Tasks, task'[t] # NoTask
      PROVE  \/ task'[t] = task[t] /\ task[t].nid \in Ids /\ task[t].nid # n
             \/ task'[t].nid = n /\ row'[n].channel = "telegram"
  <2>1. CASE task'[t] = task[t]
    BY <1>1, <1>5, <2>1, MessageType DEF IInv, MessagesNameRows
  <2>2. CASE task'[t] # task[t]
    <3>1. plan[c].send
      BY <2>2 DEF Insert
    <3>2. PICK s \in Tasks : task' = [task EXCEPT ![s] = NewMessage(n, plan[c].sched)]
      BY <3>1 DEF Insert
    <3>3. task'[t].nid = n
      BY <1>2, <2>2, <3>2 DEF NewMessage
    <3>4. row'[n].channel = "telegram"
      BY <1>1, <1>2, <1>3, <3>1 DEF PrefsInv
    <3> QED
      BY <3>3, <3>4
  <2> QED
    BY <2>1, <2>2
<1>6. OnlyTheFlushSendsAppRows'
  <2> SUFFICES ASSUME NEW m \in Ids, row'[m] # None, row'[m].channel = "in_app",
                      \/ delivered'[m] > 0
                      \/ \E t \in Tasks : task'[t] # NoTask /\ task'[t].nid = m
               PROVE  row'[m].sched # None /\ row'[m].sched <= clock'
    BY DEF OnlyTheFlushSendsAppRows
  <2>1. m # n
    BY <1>1, <1>2, <1>5
  <2>2. row'[m] = row[m] /\ (delivered[m] > 0 \/ \E t \in Tasks : task[t] # NoTask /\ task[t].nid = m)
    BY <1>1, <1>2, <1>5, <2>1
  <2> QED
    BY <1>1, <2>2 DEF PrefsInv, PrefsAreKept, OnlyTheFlushSendsAppRows
<1>7. \A d \in Callers : pc'[d] = "inserting" => pc[d] = "inserting" /\ plan'[d] = plan[d]
  BY <1>1, <1>2
<1> QED
  BY <1>4, <1>6, <1>7 DEF PrefsInv, PrefsAreKept

\* Every step preserves PrefsInv.
LEMMA PrefsStep == IInv /\ PrefsInv /\ [Next]_vars => PrefsInv'
<1> SUFFICES ASSUME IInv, PrefsInv, [Next]_vars PROVE PrefsInv'
  OBVIOUS
<1> USE DEF people, db, sessions, told
<1>0. /\ task \in [Tasks -> Message \cup {NoTask}]
      /\ pc \in [Callers -> {"idle", "open", "inserting"}]
      /\ plan \in [Callers -> Plan \cup {None}]
      /\ row \in [Ids -> Row \cup {None}]
      /\ delivered \in [Ids -> Nat] /\ clock \in Nat
  BY DEF IInv, TypeOK
<1>1. CASE Environment \/ UNCHANGED vars
  BY <1>0, <1>1, PrefsKeptStep DEF Environment, Tick, UpdatePreferences, ToggleTelegram, vars
<1>2. CASE Producer
  <2>1. ASSUME NEW c \in Callers, NEW p, pc' = [pc EXCEPT ![c] = "inserting"],
               plan' = [plan EXCEPT ![c] = p], UNCHANGED <<row, delivered, task, clock>>,
               p.category \in Critical => p.status # "skipped" /\ p.sched = None,
               p.send => p.channel = "telegram"
        PROVE  PrefsInv'
    BY <1>0, <2>1 DEF PrefsInv, PrefsAreKept, CriticalIsImmediate, OnlyTheFlushSendsAppRows
  <2>2. ASSUME NEW c \in ApiCallers, NEW u \in Users, NEW cat \in Categories,
               NEW pri \in {"normal", "critical"}, NEW k \in Keys \cup {NoKey},
               NEW chans \in (SUBSET Channels) \ {{}}, EnqueueSelect(c, u, cat, pri, k, chans)
        PROVE  PrefsInv'
    <3> DEFINE p == ServicePlan(u, cat, pri, k, chans)
    <3>1. /\ pc' = [pc EXCEPT ![c] = "inserting"] /\ plan' = [plan EXCEPT ![c] = p]
          /\ UNCHANGED <<row, delivered, task, clock>>
      BY <2>2 DEF EnqueueSelect
    <3>2. /\ p.category = cat /\ (cat \in Critical => p.status # "skipped" /\ p.sched = None)
          /\ p.send => p.channel = "telegram"
      BY ServicePlanPrefs
    <3>3. p.category \in Critical => p.status # "skipped" /\ p.sched = None
      BY <3>2
    <3>4. c \in Callers
      BY DEF Callers
    <3> HIDE DEF p
    <3> QED
      BY <2>1, <3>1, <3>2, <3>3, <3>4
  <2>3. ASSUME NEW c \in BeatCallers, NEW u \in Users, NEW cat \in Categories, NEW k \in Keys,
               EnqueueSyncSelect(c, u, cat, k)
        PROVE  PrefsInv'
    BY <2>1, <2>3 DEF EnqueueSyncSelect, DispatcherPlan, Callers
  <2>4. ASSUME NEW c \in Callers, InsertConflict(c) \/ Commit(c) \/ Rollback(c)
        PROVE  PrefsInv'
    <3>1. /\ UNCHANGED <<row, delivered, task, clock>>
          /\ \A d \in Callers : pc'[d] = "inserting" => pc[d] = "inserting" /\ plan'[d] = plan[d]
      BY <1>0, <2>4 DEF InsertConflict, Commit, Rollback, Abort
    <3> QED
      BY <1>0, <3>1, PrefsKeptStep
  <2> QED
    BY <1>2, <2>2, <2>3, <2>4, PrefsInsert DEF Producer
<1>3. CASE Sender
  <2>1. ASSUME NEW t \in Tasks, SenderFetch(t) \/ SenderRetry(t) \/ WorkerCrash(t)
                                 \/ TaskDies(t) \/ Redeliver(t)
        PROVE  PrefsInv'
    <3>1. UNCHANGED <<row, delivered, pc, plan, clock>>
      BY <2>1 DEF SenderFetch, SenderRetry, WorkerCrash, TaskDies, Redeliver, Fault
    <3>2. task[t] # NoTask /\ task[t] \in Message
      BY <2>1, ExecutingType, MessageType
         DEF SenderFetch, SenderRetry, WorkerCrash, TaskDies, Redeliver, Executing
    <3> DEFINE Same(m) == m = NoTask \/ m.nid = task[t].nid
    <3>3. \E m : \E s \in Tasks : task' = [task EXCEPT ![s] = m] /\ Same(m)
      <4>1. /\ Same(NoTask)
            /\ \A at : Same([task[t] EXCEPT !.at = at])
            /\ \A n : Same([task[t] EXCEPT !.at = "ready", !.retries = n])
        BY <3>2 DEF Message
      <4> HIDE DEF Same
      <4>2. CASE SenderFetch(t)
        BY <4>1, <4>2 DEF SenderFetch, Ack, SetTask
      <4>3. CASE SenderRetry(t)
        BY <4>1, <4>3 DEF SenderRetry, Ack, SetTask
      <4>4. CASE WorkerCrash(t) \/ TaskDies(t)
        BY <4>1, <4>4 DEF WorkerCrash, TaskDies, Ack, SetTask
      <4>5. CASE Redeliver(t)
        BY <4>1, <4>5 DEF Redeliver, SetTask
      <4> QED
        BY <2>1, <4>2, <4>3, <4>4, <4>5
    <3>4. \A r \in Tasks : task'[r] # NoTask =>
            \E s \in Tasks : task[s] # NoTask /\ task'[r].nid = task[s].nid
      BY <1>0, <3>2, <3>3
    <3> QED
      BY <1>0, <3>1, <3>4, PrefsKeptStep
  <2>2. ASSUME NEW t \in Tasks, SenderSettle(t)
        PROVE  PrefsInv'
    <3>1. task[t] # NoTask /\ task[t].nid \in Ids /\ row[task[t].nid] \in Row
      BY <2>2, ExecutingType, MessageType DEF SenderSettle
    <3>2. /\ UNCHANGED <<delivered, pc, plan, clock>>
          /\ task' = [task EXCEPT ![t] = NoTask]
          /\ row' = [row EXCEPT ![task[t].nid].status = Outcome(task[t].at)]
          /\ Outcome(task[t].at) \in {"sent", "failed"}
      BY <2>2 DEF SenderSettle, SetStatus, Ack, SetTask, Outcome
    <3>3. row[task[t].nid] # None
      BY <3>1, RowAssumption
    <3> QED
      BY <1>0, <3>1, <3>2, <3>3, PrefsKeptStep
  <2>3. ASSUME NEW t \in Tasks, NEW answer \in {"accepted", "rejected", "transient"},
               SenderPost(t, answer)
        PROVE  PrefsInv'
    <3>1. /\ task[t] # NoTask /\ task[t].nid \in Ids
          /\ \/ delivered' = [delivered EXCEPT ![task[t].nid] = @ + 1]
             \/ UNCHANGED delivered
          /\ UNCHANGED <<row, pc, plan, clock>>
      BY <2>3, PostDelivers DEF SenderPost
    <3>2. task' = [task EXCEPT ![t] = [task[t] EXCEPT !.at = answer]] /\ task[t] \in Message
      BY <2>3, <3>1, MessageType DEF SenderPost, SetTask
    <3>3. \A r \in Tasks : task'[r] # NoTask =>
            task[r] # NoTask /\ task'[r].nid = task[r].nid
      BY <1>0, <3>1, <3>2 DEF Message
    <3>4. \A n \in Ids : delivered'[n] > 0 => delivered[n] > 0
                            \/ \E s \in Tasks : task[s] # NoTask /\ task[s].nid = n
      BY <1>0, <3>1
    <3> QED
      BY <1>0, <3>1, <3>3, <3>4, PrefsKeptStep
  <2> QED
    BY <1>3, <2>1, <2>2, <2>3 DEF Sender
<1>4. CASE Flush
  <2>1. CASE FlushSelect
    BY <1>0, <2>1, PrefsKeptStep DEF FlushSelect
  <2>2. ASSUME NEW n \in Ids, FlushDispatch(n)
        PROVE  PrefsInv'
    <3>1. /\ n \in due /\ row[n].sched # None /\ row[n].sched <= clock
          /\ UNCHANGED <<row, delivered, pc, plan, clock>>
      BY <2>2 DEF FlushDispatch, IInv, DelaysAreKept
    <3>2. PICK s \in Tasks : task' = [task EXCEPT ![s] = NewMessage(n, None)]
      BY <2>2 DEF FlushDispatch, SetTask
    <3>3. NewMessage(n, None).nid = n
      BY DEF NewMessage
    <3>4. \A r \in Tasks : task'[r] # NoTask =>
            (task'[r] = task[r] \/ task'[r].nid = n)
      BY <1>0, <3>2, <3>3
    <3> QED
      BY <3>1, <3>4 DEF PrefsInv, PrefsAreKept, CriticalIsImmediate, OnlyTheFlushSendsAppRows
  <2> QED
    BY <1>4, <2>1, <2>2 DEF Flush
<1> QED
  BY <1>1, <1>2, <1>3, <1>4 DEF Next

\* Preferences never hold back what is critical, and what is meant for the app
\* alone reaches Telegram only by the flush of delayed rows, after its delay, whoever
\* changes which preferences when.
THEOREM PrefsCorrect == Spec => []PrefsAreKept
<1>1. Init => PrefsInv
  BY DEF Init, PrefsInv, PrefsAreKept, CriticalIsImmediate, OnlyTheFlushSendsAppRows
<1>2. PrefsInv => PrefsAreKept
  BY DEF PrefsInv
<1> QED
  BY <1>1, <1>2, PrefsStep, InvariantCorrect, PTL DEF Spec

-----------------------------------------------------------------------------
(* Deliveries and faults *)

\* A message that may still be accepted by Telegram.
MayDeliver == {"ready", "posting", "transient"}
Outstanding(n) == {t \in Tasks : task[t].at \in MayDeliver /\ task[t].nid = n}

\* What ExtraDeliveriesAreFaults rests on: a message that may still be accepted
\* counts like a delivery.
ExtraInv ==
  \A n \in Ids : row[n] # None /\ row[n].sched = None =>
    delivered[n] + Cardinality(Outstanding(n)) <= 1 + faults

\* Messages can be counted.
LEMMA OutstandingType ==
  ASSUME IsFiniteSet(Tasks), NEW n
  PROVE  /\ IsFiniteSet(Outstanding(n)) /\ Cardinality(Outstanding(n)) \in Nat
         /\ IsFiniteSet(Outstanding(n)') /\ Cardinality(Outstanding(n)') \in Nat
<1>1. Outstanding(n) \in SUBSET Tasks /\ Outstanding(n)' \in SUBSET Tasks
  BY DEF Outstanding
<1>2. IsFiniteSet(Outstanding(n)) /\ IsFiniteSet(Outstanding(n)')
  BY <1>1, FS_Subset
<1> QED
  BY <1>2, FS_CardinalityType

\* What a step that changes one slot does to the number of outstanding messages.
LEMMA SlotChanges ==
  ASSUME IInv, IsFiniteSet(Tasks), NEW n \in Ids, NEW s \in Tasks, NEW m,
         task' = [task EXCEPT ![s] = m]
  PROVE  /\ Cardinality(Outstanding(n)') <= Cardinality(Outstanding(n)) + 1
         /\ m.at \notin MayDeliver \/ m.nid # n \/ s \in Outstanding(n) =>
              Cardinality(Outstanding(n)') <= Cardinality(Outstanding(n))
         /\ m.at \notin MayDeliver /\ s \in Outstanding(n) =>
              Cardinality(Outstanding(n)') + 1 <= Cardinality(Outstanding(n))
<1> DEFINE O == Outstanding(n)
           P == Outstanding(n)'
<1>1. IsFiniteSet(O) /\ Cardinality(O) \in Nat /\ IsFiniteSet(P) /\ Cardinality(P) \in Nat
  BY OutstandingType
<1>2. \A t \in Tasks : task'[t] = IF t = s THEN m ELSE task[t]
  BY DEF IInv, TypeOK
<1>3. /\ P \in SUBSET (O \cup {s})
      /\ m.at \notin MayDeliver \/ m.nid # n \/ s \in O => P \in SUBSET O
      /\ m.at \notin MayDeliver => P \in SUBSET (O \ {s})
  BY <1>2 DEF Outstanding
<1> HIDE DEF O, P
<1>4. /\ IsFiniteSet(O \cup {s}) /\ Cardinality(O \cup {s}) \in Nat
      /\ Cardinality(O \cup {s}) <= Cardinality(O) + 1
  <2>1. /\ IsFiniteSet(O \cup {s})
        /\ Cardinality(O \cup {s}) = Cardinality(O) \/ Cardinality(O \cup {s}) = Cardinality(O) + 1
    BY <1>1, FS_AddElement, Zenon
  <2> QED
    BY <1>1, <2>1
<1>5. /\ IsFiniteSet(O \ {s}) /\ Cardinality(O \ {s}) \in Nat
      /\ s \in O => Cardinality(O \ {s}) = Cardinality(O) - 1
  BY <1>1, FS_RemoveElement, FS_CardinalityType
<1>6. Cardinality(P) <= Cardinality(O) + 1
  <2>1. Cardinality(P) <= Cardinality(O \cup {s})
    BY <1>3, <1>4, FS_Subset
  <2> QED
    BY <1>1, <1>4, <2>1
<1>7. ASSUME m.at \notin MayDeliver \/ m.nid # n \/ s \in O
      PROVE  Cardinality(P) <= Cardinality(O)
  BY <1>1, <1>3, <1>7, FS_Subset
<1>8. ASSUME m.at \notin MayDeliver, s \in O
      PROVE  Cardinality(P) + 1 <= Cardinality(O)
  <2>1. Cardinality(P) <= Cardinality(O \ {s})
    BY <1>3, <1>5, <1>8, FS_Subset
  <2> QED
    BY <1>1, <1>5, <1>8, <2>1
<1> QED
  BY <1>6, <1>7, <1>8 DEF O, P

\* A step that changes at most the status of rows, and neither delivers nor adds
\* a message to an undelayed row except by a fault.
LEMMA ExtraKept ==
  ASSUME IInv, IInv', ExtraInv, IsFiniteSet(Tasks),
         \A n \in Ids : row'[n] # None => row[n] # None /\ row'[n].sched = row[n].sched,
         \A n \in Ids : row[n] # None /\ row[n].sched = None =>
           delivered'[n] + Cardinality(Outstanding(n)') + faults
             <= delivered[n] + Cardinality(Outstanding(n)) + faults'
  PROVE  ExtraInv'
<1> SUFFICES ASSUME NEW n \in Ids, row'[n] # None, row'[n].sched = None
             PROVE  delivered'[n] + Cardinality(Outstanding(n)') <= 1 + faults'
  BY DEF ExtraInv
<1>1. row[n] # None /\ row[n].sched = None
  OBVIOUS
<1>2. /\ delivered[n] \in Nat /\ delivered'[n] \in Nat /\ faults \in Nat /\ faults' \in Nat
      /\ Cardinality(Outstanding(n)) \in Nat /\ Cardinality(Outstanding(n)') \in Nat
  BY OutstandingType DEF IInv, TypeOK
<1>3. delivered[n] + Cardinality(Outstanding(n)) <= 1 + faults
  BY <1>1 DEF ExtraInv
<1> QED
  BY <1>1, <1>2, <1>3

\* The same for a step that changes neither rows nor deliveries, and one slot.
LEMMA ExtraSlot ==
  ASSUME IInv, IInv', ExtraInv, IsFiniteSet(Tasks), UNCHANGED <<row, delivered>>,
         NEW s \in Tasks, NEW m, task' = [task EXCEPT ![s] = m],
         \/ faults' = faults + 1
         \/ /\ faults' = faults
            /\ \/ m.at \notin MayDeliver
               \/ s \in Outstanding(m.nid)
               \/ row[m.nid].sched # None
  PROVE  ExtraInv'
<1>1. ASSUME NEW n \in Ids, row[n] # None, row[n].sched = None
      PROVE  delivered'[n] + Cardinality(Outstanding(n)') + faults
               <= delivered[n] + Cardinality(Outstanding(n)) + faults'
  <2>1. /\ delivered[n] \in Nat /\ delivered'[n] = delivered[n] /\ faults \in Nat
        /\ Cardinality(Outstanding(n)) \in Nat /\ Cardinality(Outstanding(n)') \in Nat
    BY OutstandingType DEF IInv, TypeOK
  <2>2. CASE faults' = faults + 1
    <3>1. Cardinality(Outstanding(n)') <= Cardinality(Outstanding(n)) + 1
      BY SlotChanges
    <3> QED
      BY <2>1, <2>2, <3>1
  <2>3. CASE faults' = faults
    <3>1. m.at \notin MayDeliver \/ m.nid # n \/ s \in Outstanding(n)
      BY <1>1, <2>1, <2>3
    <3>2. Cardinality(Outstanding(n)') <= Cardinality(Outstanding(n))
      BY <3>1, SlotChanges
    <3> QED
      BY <2>1, <2>3, <3>2
  <2> QED
    BY <2>2, <2>3
<1> QED
  BY <1>1, ExtraKept

\* The INSERT with its dispatch: the first message of a new row.
LEMMA ExtraInsert ==
  ASSUME IInv, IInv', ExtraInv, IsFiniteSet(Tasks), NEW c \in Callers, NEW n \in Ids, Insert(c, n)
  PROVE  ExtraInv'
<1>1. /\ stage[n] = "free" /\ row' = [row EXCEPT ![n] = NewRow(c)]
      /\ UNCHANGED <<delivered, faults>>
      /\ \/ UNCHANGED task
         \/ \E t \in Tasks : task' = [task EXCEPT ![t] = NewMessage(n, plan[c].sched)]
  BY DEF Insert
<1>2. /\ row \in [Ids -> Row \cup {None}] /\ delivered \in [Ids -> Nat] /\ faults \in Nat
      /\ delivered[n] = 0
  BY <1>1 DEF IInv, TypeOK, NoPhantomDelivery, Committed
<1>3. Outstanding(n) = {}
  <2> SUFFICES ASSUME NEW t \in Outstanding(n) PROVE FALSE
    OBVIOUS
  <2>1. t \in Tasks /\ task[t] # NoTask /\ task[t].nid = n
    BY DEF Outstanding, MayDeliver, NoTask
  <2> QED
    BY <1>1, <2>1 DEF IInv, MessagesNameRows
<1>4. /\ Cardinality(Outstanding(n)) = 0
      /\ \A k \in Ids : /\ Cardinality(Outstanding(k)) \in Nat
                        /\ Cardinality(Outstanding(k)') \in Nat
  BY <1>3, OutstandingType, FS_EmptySet
<1>5. ASSUME NEW k \in Ids
      PROVE  /\ Cardinality(Outstanding(k)') <= Cardinality(Outstanding(k)) + 1
             /\ k # n => Cardinality(Outstanding(k)') <= Cardinality(Outstanding(k))
  <2>1. CASE UNCHANGED task
    <3>1. Outstanding(k)' = Outstanding(k)
      BY <2>1 DEF Outstanding
    <3> QED
      BY <1>4, <3>1
  <2>2. ASSUME NEW t \in Tasks, task' = [task EXCEPT ![t] = NewMessage(n, plan[c].sched)]
        PROVE  <1>5!2
    <3>1. NewMessage(n, plan[c].sched).nid = n
      BY DEF NewMessage
    <3> QED
      BY <2>2, <3>1, SlotChanges
  <2> QED
    BY <1>1, <2>1, <2>2
<1> SUFFICES ASSUME NEW k \in Ids, row'[k] # None, row'[k].sched = None
             PROVE  delivered'[k] + Cardinality(Outstanding(k)') <= 1 + faults'
  BY DEF ExtraInv
<1>6. CASE k = n
  BY <1>1, <1>2, <1>4, <1>5, <1>6
<1>7. CASE k # n
  <2>1. row[k] # None /\ row[k].sched = None
    BY <1>1, <1>2, <1>7
  <2>2. delivered[k] + Cardinality(Outstanding(k)) <= 1 + faults
    BY <2>1 DEF ExtraInv
  <2>3. Cardinality(Outstanding(k)') <= Cardinality(Outstanding(k))
    BY <1>5, <1>7
  <2>4. delivered[k] \in Nat /\ delivered'[k] = delivered[k] /\ faults' = faults
    BY <1>1, <1>2
  <2> QED
    BY <1>2, <1>4, <2>2, <2>3, <2>4
<1> QED
  BY <1>6, <1>7

\* The POST: an accepted message is a delivery and no longer outstanding; one that
\* may have been accepted is both, and a fault.
LEMMA ExtraPost ==
  ASSUME IInv, IInv', ExtraInv, IsFiniteSet(Tasks), NEW t \in Tasks,
         NEW answer \in {"accepted", "rejected", "transient"}, SenderPost(t, answer)
  PROVE  ExtraInv'
<1> DEFINE n == task[t].nid
           m == [task[t] EXCEPT !.at = answer]
<1>1. task[t].at = "posting"
  BY DEF SenderPost
<1>2. task[t] \in Message /\ n \in Ids
  BY <1>1, ExecutingType, MessageType
<1>3. t \in Outstanding(n) /\ m.at = answer /\ m.nid = n
  BY <1>1, <1>2 DEF Outstanding, MayDeliver, Message
<1>4. task' = [task EXCEPT ![t] = m] /\ UNCHANGED row
  BY DEF SenderPost, SetTask, db
<1>5. /\ delivered \in [Ids -> Nat] /\ faults \in Nat
      /\ \A k \in Ids : /\ Cardinality(Outstanding(k)) \in Nat
                        /\ Cardinality(Outstanding(k)') \in Nat
  BY OutstandingType DEF IInv, TypeOK
<1>6. \/ UNCHANGED <<delivered, faults>>
      \/ answer = "accepted" /\ delivered' = [delivered EXCEPT ![n] = @ + 1] /\ UNCHANGED faults
      \/ delivered' = [delivered EXCEPT ![n] = @ + 1] /\ faults' = faults + 1
      \/ UNCHANGED delivered /\ faults' = faults + 1
  BY DEF SenderPost
<1> HIDE DEF m, n
<1>7. ASSUME NEW k \in Ids
      PROVE  /\ Cardinality(Outstanding(k)') <= Cardinality(Outstanding(k))
             /\ k = n /\ answer = "accepted" =>
                  Cardinality(Outstanding(k)') + 1 <= Cardinality(Outstanding(k))
  <2>1. m.nid # k \/ t \in Outstanding(k)
    BY <1>3
  <2>2. k = n /\ answer = "accepted" => m.at \notin MayDeliver /\ t \in Outstanding(k)
    BY <1>3 DEF MayDeliver
  <2> QED
    BY <1>4, <2>1, <2>2, SlotChanges
<1>8. ASSUME NEW k \in Ids
      PROVE  delivered'[k] + Cardinality(Outstanding(k)') + faults
               <= delivered[k] + Cardinality(Outstanding(k)) + faults'
  <2>1. delivered[k] \in Nat
    BY <1>5
  <2>2. CASE k = n
    BY <1>2, <1>5, <1>6, <1>7, <2>1, <2>2
  <2>3. CASE k # n
    BY <1>2, <1>5, <1>6, <1>7, <2>1, <2>3
  <2> QED
    BY <2>2, <2>3
<1> QED
  BY <1>4, <1>8, ExtraKept

\* Every step preserves ExtraInv.
LEMMA ExtraStep ==
  ASSUME IsFiniteSet(Tasks)
  PROVE  IInv /\ IInv' /\ ExtraInv /\ [Next]_vars => ExtraInv'
<1> SUFFICES ASSUME IInv, IInv', ExtraInv, [Next]_vars PROVE ExtraInv'
  OBVIOUS
<1> USE DEF people, db, sessions, told
<1>1. ASSUME UNCHANGED <<row, delivered, task, faults>>
      PROVE  ExtraInv'
  BY <1>1 DEF ExtraInv, Outstanding
<1>2. CASE Environment \/ UNCHANGED vars
  BY <1>1, <1>2 DEF Environment, Tick, UpdatePreferences, ToggleTelegram, vars
<1>3. CASE Producer
  <2>1. ASSUME NEW c \in Callers, InsertConflict(c) \/ Commit(c) \/ Rollback(c)
        PROVE  ExtraInv'
    BY <1>1, <2>1 DEF InsertConflict, Commit, Rollback, Abort
  <2>2. ASSUME NEW c \in ApiCallers, NEW u \in Users, NEW cat \in Categories,
               NEW pri \in {"normal", "critical"}, NEW k \in Keys \cup {NoKey},
               NEW chans \in (SUBSET Channels) \ {{}}, EnqueueSelect(c, u, cat, pri, k, chans)
        PROVE  ExtraInv'
    BY <1>1, <2>2 DEF EnqueueSelect
  <2>3. ASSUME NEW c \in BeatCallers, NEW u \in Users, NEW cat \in Categories, NEW k \in Keys,
               EnqueueSyncSelect(c, u, cat, k)
        PROVE  ExtraInv'
    BY <1>1, <2>3 DEF EnqueueSyncSelect
  <2> QED
    BY <1>3, <2>1, <2>2, <2>3, ExtraInsert DEF Producer
<1>4. CASE Sender
  <2>a. ASSUME NEW t \in Tasks, task[t].at \in Executing \cup {"ready"}
        PROVE  /\ task[t] \in Message /\ task[t].nid \in Ids
               /\ \A at : /\ [task[t] EXCEPT !.at = at].at = at
                          /\ [task[t] EXCEPT !.at = at].nid = task[t].nid
    <3>1. task[t] # NoTask
      BY <2>a, ExecutingType DEF Executing
    <3> QED
      BY <3>1, MessageType DEF Message
  <2>b. NoTask.at \notin MayDeliver
    BY DEF NoTask, MayDeliver
  <2>1. ASSUME NEW t \in Tasks, SenderFetch(t)
        PROVE  ExtraInv'
    <3>1. t \in Outstanding(task[t].nid)
      BY <2>1 DEF SenderFetch, Outstanding, MayDeliver
    <3>2. PICK m : task' = [task EXCEPT ![t] = m] /\ (m = NoTask \/ \E at : m = [task[t] EXCEPT !.at = at])
      BY <2>1 DEF SenderFetch, SetTask, Ack
    <3>3. task[t].at = "ready"
      BY <2>1 DEF SenderFetch
    <3>4. m = NoTask \/ m.nid = task[t].nid
      <4>1. \A at : [task[t] EXCEPT !.at = at].nid = task[t].nid
        BY <2>a, <3>3
      <4> QED
        BY <3>2, <4>1
    <3>5. m.at \notin MayDeliver \/ t \in Outstanding(m.nid)
      BY <2>b, <3>1, <3>4
    <3>6. UNCHANGED <<row, delivered, faults>>
      BY <2>1 DEF SenderFetch
    <3> QED
      BY <3>2, <3>5, <3>6, ExtraSlot
  <2>2. ASSUME NEW t \in Tasks, SenderRetry(t)
        PROVE  ExtraInv'
    <3>1. t \in Outstanding(task[t].nid) /\ task[t] \in Message
      BY <2>2, <2>a DEF SenderRetry, Outstanding, MayDeliver, Executing
    <3>2. PICK m : /\ task' = [task EXCEPT ![t] = m]
                   /\ m = NoTask \/ m = [task[t] EXCEPT !.at = "ready", !.retries = @ + 1]
      BY <2>2 DEF SenderRetry, SetTask, Ack
    <3>3. m.at \notin MayDeliver \/ t \in Outstanding(m.nid)
      BY <2>b, <3>1, <3>2 DEF Message
    <3>4. UNCHANGED <<row, delivered, faults>>
      BY <2>2 DEF SenderRetry
    <3> QED
      BY <3>2, <3>3, <3>4, ExtraSlot
  <2>3. ASSUME NEW t \in Tasks, WorkerCrash(t) \/ TaskDies(t) \/ Redeliver(t)
        PROVE  ExtraInv'
    <3>1. /\ UNCHANGED <<row, delivered>> /\ faults' = faults + 1
          /\ \E m : \E s \in Tasks : task' = [task EXCEPT ![s] = m]
      BY <2>3 DEF WorkerCrash, TaskDies, Redeliver, Fault, SetTask, Ack
    <3> QED
      BY <3>1, ExtraSlot
  <2>4. ASSUME NEW t \in Tasks, SenderSettle(t)
        PROVE  ExtraInv'
    <3>1. /\ task' = [task EXCEPT ![t] = NoTask] /\ UNCHANGED <<delivered, faults>>
          /\ row' = [row EXCEPT ![task[t].nid].status = Outcome(task[t].at)]
      BY <2>4 DEF SenderSettle, SetStatus, Ack, SetTask
    <3>2. task[t].nid \in Ids /\ row[task[t].nid] \in Row
      BY <2>4, ExecutingType, MessageType DEF SenderSettle
    <3>3. row[task[t].nid] # None
      BY <3>2, RowAssumption
    <3>4. \A n \in Ids : row'[n] # None => row[n] # None /\ row'[n].sched = row[n].sched
      BY <3>1, <3>2, <3>3 DEF IInv, TypeOK, Row
    <3>5. ASSUME NEW n \in Ids
          PROVE  delivered'[n] + Cardinality(Outstanding(n)') + faults
                   <= delivered[n] + Cardinality(Outstanding(n)) + faults'
      <4>1. Cardinality(Outstanding(n)') <= Cardinality(Outstanding(n))
        BY <2>b, <3>1, SlotChanges
      <4>2. /\ delivered[n] \in Nat /\ faults \in Nat /\ Cardinality(Outstanding(n)) \in Nat
            /\ Cardinality(Outstanding(n)') \in Nat
        BY OutstandingType DEF IInv, TypeOK
      <4> QED
        BY <3>1, <4>1, <4>2
    <3> QED
      BY <3>4, <3>5, ExtraKept
  <2> QED
    BY <1>4, <2>1, <2>2, <2>3, <2>4, ExtraPost DEF Sender
<1>5. CASE Flush
  <2>1. CASE FlushSelect
    BY <1>1, <2>1 DEF FlushSelect
  <2>2. ASSUME NEW n \in Ids, FlushDispatch(n)
        PROVE  ExtraInv'
    <3>1. row[n].sched # None /\ UNCHANGED <<row, delivered, faults>>
      BY <2>2 DEF FlushDispatch, IInv, DelaysAreKept
    <3>2. PICK s \in Tasks : task' = [task EXCEPT ![s] = NewMessage(n, None)]
      BY <2>2 DEF FlushDispatch, SetTask
    <3>3. NewMessage(n, None).nid = n
      BY DEF NewMessage
    <3> QED
      BY <3>1, <3>2, <3>3, ExtraSlot
  <2> QED
    BY <1>5, <2>1, <2>2 DEF Flush
<1> QED
  BY <1>2, <1>3, <1>4, <1>5 DEF Next

\* A notification that was not delayed is delivered once, and once more at most
\* for every crash, redelivery or lost answer, with any number of workers.
THEOREM ExtraDeliveriesBounded ==
  ASSUME IsFiniteSet(Tasks)
  PROVE  Spec => []ExtraDeliveriesAreFaults
<1>1. Init => ExtraInv
  BY DEF Init, ExtraInv
<1>2. IInv /\ ExtraInv => ExtraDeliveriesAreFaults
  <2> SUFFICES ASSUME IInv, ExtraInv, NEW n \in Ids, row[n] # None, row[n].sched = None
               PROVE  delivered[n] <= 1 + faults
    BY DEF ExtraDeliveriesAreFaults
  <2>1. delivered[n] \in Nat /\ faults \in Nat /\ Cardinality(Outstanding(n)) \in Nat
    BY OutstandingType DEF IInv, TypeOK
  <2> QED
    BY <2>1 DEF ExtraInv
<1> QED
  BY <1>1, <1>2, ExtraStep, InvariantCorrect, PTL DEF Spec

=============================================================================
