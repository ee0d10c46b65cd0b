----------------------------- MODULE Dispatchers -----------------------------
(***************************************************************************)
(* The reminders of beat (app/tasks/event_dispatchers.py, the schedule of  *)
(* app/tasks/celery_app.py).  An execution reads the clock and what is due *)
(* in the schema of a tenant, then looks for each reminder whether its     *)
(* user has a row with its key, inserts one and sends the message, and     *)
(* commits at the end.  An execution may be late, lost or repeated, and    *)
(* two may overlap; tenants have transactions of their own, so one is      *)
(* modelled, with one group.                                               *)
(***************************************************************************)
EXTENDS Integers, FiniteSets

CONSTANTS
  Pupils,
  Executions,
  Slots,       \* moments of a day at which beat runs and a lesson may start
  Days,        \* for the reminders of a month each is a day of another month
  MaxChanges,  \* of what is due
  MaxUndone    \* executions that are rolled back

VARIABLES
  limit,       \* how many executions may be under way at once
  reminder,    \* the reminder that is looked at
  now,         \* the moment, in slots since the first day
  lessons,     \* slots of groups.schedule
  last,        \* progress_deadline_day, or the moment the trial ends
  group,       \* active students of the group
  settled,     \* days with attendance, students with a grade or without a debt
  row,         \* notifications that are committed
  execution,   \* what an execution has read and staged
  sent,        \* history: messages, numbered by what they are about
  due,         \* history: what an execution found due
  undone,      \* history: counts executions that were rolled back
  failed, changes \* history: an error that no row explains; changes of what is due

dispatch == <<reminder, now, lessons, last, group, settled, row, execution, sent, due, undone, failed, changes>>

Reminders == {"lesson", "attendance", "progress", "payment", "overdue", "trial"}
Date(t)   == t \div Slots
Idle      == [at |-> 0, todo |-> {}, next |-> {}, staged |-> {}]
Active    == {e \in Executions : execution[e] # Idle}

\* A reminder: who gets it, what it is about, and its dedupe_key.
Item(to, what, key) == [to |-> to, what |-> what, key |-> key]

\* Half an hour is a slot: the time of the lesson is in the key.
LessonKey_NoTime(t, kind) == <<kind, Date(t)>>
LessonKey(t, kind) == <<kind, Date(t), (t + 1) % Slots>>

LessonReminders(t, members) ==
  IF (t + 1) % Slots \notin lessons THEN {}
  ELSE {Item(s, <<"lesson", t + 1>>, LessonKey(t, "lesson")) : s \in members}
       \cup {Item("teacher", <<"lesson", t + 1>>, LessonKey(t, "lesson_t"))}

\* A lesson today, and no attendance yet.
AttendancePending(t, done) ==
  IF lessons = {} \/ Date(t) \in done THEN {}
  ELSE {Item("teacher", <<"attendance", Date(t)>>, <<"att_pending", Date(t)>>)}

\* Three days and one day before the deadline and on its day, while a grade lacks.
ProgressDeadline(t, members, done) ==
  LET left == last - Date(t)
  IN  IF left \notin {0, 1, 3} \/ members \subseteq done THEN {}
      ELSE {Item("teacher", <<"grades", left>>, <<"progress_dl", last, left>>)}

\* Students and their parent; the parent and the administrator.
PaymentReminders(t, done) ==
  {Item(u[1], <<"fee", Date(t), u[2]>>, <<"pay_remind", Date(t), u[2]>>) :
     u \in UNION {{s, "parent"} \X {s} : s \in Pupils \ done}}

OverdueReminders(t, done) ==
  {Item(u[1], <<"debt", Date(t), u[2]>>, <<"overdue", Date(t), u[2]>>) :
     u \in {"parent", "admin"} \X (Pupils \ done)}

\* The trial ends within a week: the key is the number of whole days left.
SubscriptionWarning(t) ==
  IF t >= last THEN {}
  ELSE {Item("admin", <<"trial", Date(last - t)>>, <<"sub_warn", Date(last - t)>>)}

\* What would be due at t with these students in the group and these days and
\* students settled; what is.
DueWith(t, members, done) ==
  CASE reminder = "lesson"     -> LessonReminders(t, members)
    [] reminder = "attendance" -> AttendancePending(t, done)
    [] reminder = "progress"   -> ProgressDeadline(t, members, done)
    [] reminder = "payment"    -> PaymentReminders(t, done)
    [] reminder = "overdue"    -> OverdueReminders(t, done)
    [] reminder = "trial"      -> SubscriptionWarning(t)
Due(t) == DueWith(t, group, settled)

DispatchInit ==
  /\ reminder \in Reminders /\ now = 0
  /\ lessons \in IF reminder \in {"lesson", "attendance"} THEN SUBSET (0 .. Slots - 1) ELSE {{}}
  /\ last \in CASE reminder = "progress" -> 0 .. 3 [] reminder = "trial" -> 1 .. Days * Slots
                [] OTHER -> {0}
  /\ group \in IF reminder \in {"lesson", "progress"} THEN SUBSET Pupils ELSE {{}}
  /\ settled \in IF reminder \in {"payment", "overdue"} THEN SUBSET Pupils ELSE {{}}
  /\ row = {} /\ sent = {} /\ due = {}
  /\ execution = [e \in Executions |-> Idle]
  /\ undone = 0 /\ failed = FALSE /\ changes = 0

\* Beat runs at its slots; executions start whenever a worker takes them.
Tick ==
  /\ now < Days * Slots - 1 /\ now' = now + 1
  /\ UNCHANGED <<limit, reminder, lessons, last, group, settled, row, execution, sent, due, undone, failed, changes>>

\* A student joins or leaves the group; attendance, a grade or a payment comes in.
ChangeDue ==
  /\ changes < MaxChanges /\ changes' = changes + 1
  /\ \/ \E s \in Pupils : /\ reminder \in {"lesson", "progress"} /\ UNCHANGED settled
                          /\ group' = IF s \in group THEN group \ {s} ELSE group \cup {s}
     \/ \E x \in IF reminder = "attendance" THEN {Date(now)} ELSE Pupils :
          /\ reminder \notin {"lesson", "trial"} /\ settled' = settled \cup {x} /\ UNCHANGED group
  /\ UNCHANGED <<limit, reminder, now, lessons, last, row, execution, sent, due, undone, failed>>

Start(e) ==
  /\ execution[e] = Idle /\ Cardinality(Active) < limit /\ Due(now) # {}
  /\ execution' = [execution EXCEPT ![e] = [Idle EXCEPT !.at = now, !.todo = Due(now)]]
  /\ due' = due \cup Due(now)
  /\ UNCHANGED <<limit, reminder, now, lessons, last, group, settled, row, sent, undone, failed, changes>>

Same(i, n) == i.to = n.to /\ i.key = n.key

\* A row of the last 24 hours, committed or of this execution, makes it skip.
CheckKey(e, i) ==
  LET x == execution[e]
      found == \/ \E n \in row : Same(i, n) /\ n.at >= x.at - Slots
               \/ \E n \in x.staged : Same(i, n)
  IN  /\ x.next = {} /\ i \in x.todo
      /\ execution' = [execution EXCEPT ![e].todo = @ \ {i}, ![e].next = IF found THEN {} ELSE {i}]
      /\ UNCHANGED <<limit, reminder, now, lessons, last, group, settled, row, sent, due, undone, failed, changes>>

\* Who has staged the key that an execution is about to insert: it waits for them.
Rivals(e) ==
  {o \in Active \ {e} : \E i \in execution[e].next : \E n \in execution[o].staged : Same(i, n)}
WaitsInCircle(e) ==
  \E S \in SUBSET Active :
    e \in S /\ \A o \in S : Rivals(o) \cap S # {} /\ \E p \in S : o \in Rivals(p)

Rollback(e) ==
  /\ undone < MaxUndone
  /\ execution' = [execution EXCEPT ![e] = Idle] /\ undone' = undone + 1
  /\ UNCHANGED <<limit, reminder, now, lessons, last, group, settled, row, sent, due, changes>>

\* The INSERT waits for another execution that has staged the key; a committed row
\* of any age is an error, and so is waiting in a circle.
EnqueueSync(e, i) ==
  LET x == execution[e]
      n == Cardinality({m \in sent : m.to = i.to /\ m.what = i.what}) + 1
  IN  /\ i \in x.next /\ Rivals(e) = {} /\ ~\E r \in row : Same(i, r)
      /\ execution' = [execution EXCEPT ![e].next = {},
                         ![e].staged = @ \cup {[to |-> i.to, what |-> i.what, key |-> i.key, at |-> x.at]}]
      /\ sent' = sent \cup {[to |-> i.to, what |-> i.what, n |-> n]}
      /\ UNCHANGED <<limit, reminder, now, lessons, last, group, settled, row, due, undone, failed, changes>>

Conflict(e) ==
  /\ \/ Rivals(e) = {} /\ \E i \in execution[e].next : \E r \in row : Same(i, r)
     \/ WaitsInCircle(e)
  /\ Rollback(e) /\ UNCHANGED failed

\* An error, or a worker that dies.
Fail(e) == execution[e] # Idle /\ Rollback(e) /\ failed' = TRUE

Commit(e) ==
  LET x == execution[e]
  IN  /\ x # Idle /\ x.todo = {} /\ x.next = {}
      /\ row' = row \cup x.staged /\ execution' = [execution EXCEPT ![e] = Idle]
      /\ UNCHANGED <<limit, reminder, now, lessons, last, group, settled, sent, due, undone, failed, changes>>

DispatchNext ==
  \/ Tick \/ ChangeDue
  \/ \E e \in Executions :
       \/ Start(e) \/ Conflict(e) \/ Fail(e) \/ Commit(e)
       \/ \E i \in execution[e].todo : CheckKey(e, i)
       \/ \E i \in execution[e].next : EnqueueSync(e, i)

-----------------------------------------------------------------------------

DispatchTypeOK ==
  /\ now \in 0 .. Days * Slots - 1 /\ undone \in Nat
  /\ \A e \in Executions : \A i \in execution[e].todo : i \in due
  /\ \A r, n \in row : Same(r, n) => r = n

\* Of executions that come to their end one after the other, or overlap while
\* nothing changes, each leaves everything it found due told: no key stands for two
\* reminders, and none comes again when its row is too old to be seen.
DueIsTold ==
  Active = {} /\ ~failed /\ (limit = 1 \/ changes = 0) =>
    \A i \in due : \E n \in row : n.to = i.to /\ n.what = i.what

\* However executions are repeated and overlap, nobody is sent the same reminder
\* twice but for executions that were rolled back.
ToldOnce == \A m \in sent : m.n <= 1 + undone

\* Both.
RemindersAgree == DueIsTold /\ ToldOnce

-----------------------------------------------------------------------------
(* What the proofs need besides *)

\* What can be due at t at all; the reminder that a notification is of.
Possible(t)  == DueWith(t, Pupils, {})
Reminder(n)  == Item(n.to, n.what, n.key)
About(N, to, what) == {n \in N : n.to = to /\ n.what = what}
Told(i)      == About(row, i.to, i.what) # {}

NotesAreSound(N) ==
  \A n \in N : /\ n = [to |-> n.to, what |-> n.what, key |-> n.key, at |-> n.at]
               /\ n.at \in 0..now /\ Reminder(n) \in Possible(n.at)

\* What an execution looks at can be due at its time; what it stages is of its time.
ExecutionIsSound(e) ==
  LET x == execution[e]
  IN  /\ x = [at |-> x.at, todo |-> x.todo, next |-> x.next, staged |-> x.staged]
      /\ x.at \in 0..now /\ x.todo \cup x.next \subseteq Possible(x.at) \cap due
      /\ NotesAreSound(x.staged) /\ \A n \in x.staged : n.at = x.at
      /\ \A i, j \in x.next : i = j
      /\ \A i \in x.next : \A n \in x.staged : ~Same(i, n)

DispatchIsSound ==
  /\ DispatchTypeOK /\ reminder \in Reminders /\ changes \in Nat
  /\ group \subseteq Pupils /\ last \in Int /\ NotesAreSound(row)
  /\ execution = [e \in Executions |-> execution[e]]
  /\ \A e \in Executions : ExecutionIsSound(e)

\* A key is staged or committed once.
Kept == row \cup UNION {execution[e].staged : e \in Executions}
KeysAreKept ==
  /\ \A e \in Executions : \A n \in execution[e].staged :
       /\ \A m \in execution[e].staged : Same(n, m) => n = m
       /\ \A o \in Executions \ {e} : \A m \in execution[o].staged : ~Same(n, m)
       /\ \A r \in row : ~Same(n, r)

\* The messages about one thing are numbered from 1; all of them but one, if that has
\* its row, are of executions that were rolled back.
SentIsKept ==
  /\ IsFiniteSet(sent)
  /\ \A m \in sent :
       LET N == Cardinality(About(sent, m.to, m.what))
       IN  /\ m = [to |-> m.to, what |-> m.what, n |-> m.n] /\ m.n \in 1..N
           /\ N <= undone \/ (N = undone + 1 /\ About(Kept, m.to, m.what) # {})

\* What an execution has taken up is not forgotten before it ends.
TakenUp(e, i) ==
  i \in execution[e].todo \cup execution[e].next \/ About(execution[e].staged, i.to, i.what) # {}

\* One execution at a time: what is due is told or taken up, and no key is in the way.
SerialIsTold ==
  limit = 1 /\ ~failed =>
    /\ \A e, o \in Active : e = o
    /\ \A e \in Executions : \A i \in execution[e].next : \A r \in row : ~Same(i, r)
    /\ \A i \in due : Told(i) \/ \E e \in Executions : TakenUp(e, i)

\* While nothing changes: a row tells that all that was due at its time is told, and
\* an execution takes up all that is due at its own.
SteadyIsTold ==
  changes = 0 /\ ~failed =>
    /\ \A i \in due : Told(i) \/ \E e \in Active : i \in Due(execution[e].at)
    /\ \A r \in row : \A i \in Due(r.at) : Told(i)
    /\ \A e \in Active : \A i \in Due(execution[e].at) : Told(i) \/ TakenUp(e, i)

\* The inductive invariant.
DispatchInv == DispatchIsSound /\ KeysAreKept /\ SentIsKept /\ SerialIsTold /\ SteadyIsTold

DispatchSpec == DispatchInit /\ [][DispatchNext]_<<limit, dispatch>>

=============================================================================
