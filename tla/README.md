# Verification of the mentorMe backend

TLA+ modules, TLC configurations and TLAPS proofs for the backend of a
multi-tenant school management system (FastAPI, SQLAlchemy over PostgreSQL with
a schema per tenant, Celery over Redis, a Telegram bot). Paths below are
relative to the repository root.

## 1. The system

| Component | State | Operations | What is hard | What makes it correct |
|---|---|---|---|---|
| Notification pipeline | `notifications`, `notification_preferences`, Celery messages | `enqueue`, sender, flush, preferences | the message leaves before the COMMIT; late acknowledgement; two ways to send a delayed row | one row per key, nothing uncommitted or suppressed is sent, `sent` means delivered, delayed rows are settled |
| Beat dispatchers | the same rows, one transaction per tenant | six reminders | keys that are too coarse or too old, repeated and overlapping runs | what is found due is told, once |
| Broadcast | `broadcast_jobs`, notifications | create, cancel, `run_broadcast` | redelivered and overlapping executions, batches of 100 | a user hears twice only what was rolled back, bounded loss, the job ends |
| Payments and cash box | `payments`, `students.balance`, ledger, cash box | payment, income, expense, deletion | read-modify-write without locks, a swallowed exception, COMMIT in the middle | serial books agree, no overcredit, no unbooked payment |
| Lesson cancellation | requests, adjustments, payment days | propose, record, approve, reject | check-then-write reviews, absolute days | bounded repetition, nobody left out, every move has a row |
| Attendance | `attendance`, notifications | sheets of teachers and administrators | check-then-insert, XP and messages in one batch | an absence is told, "late" is true, the figures agree |
| Gamification | profiles and transactions of XP | `award_xp` | stale profiles, streaks, levels | profiles never exceed what was earned; serially they equal it |
| Syllabus | topics, assignments, progress | edit, move, assign, complete | a swallowed exception, chosen places, order after moves | a topic is paid once, after the one before it |
| Assessments and progress | `student_progress` | batches, corrections, deadlines | lookup and unique key differ, two notions of a member | a grade counts for its group, at its time |
| KPI and payslips | metrics, rules, results, payslips | calculate, approve, edit | recalculation against approval, roundings | net is what rules and results give but for roundings, approval sticks |
| Students and groups | students, memberships, payments | create, approve, reject, archive, restore, purge | decisions without guards, rows that vanish | decisions are whole, books outlive groups |
| Staff administration | accounts, roles, profiles | create, switch, block, purge | a dozen endpoints, each knowing some of the rows | one profile, a default role that is held |
| Sessions and roles | token pairs, blacklist, roles | login, refresh, switch, logout | rotation race, fallback store, stale roles | a refresh gives one pair, ended tokens stay out |
| Invites | codes in Redis or memory | issue, use, expire | three steps over two stores | one code, one person, until used |
| Telegram linking | tokens in the public table and the tenant's row | issue, revoke, use, sweep | two schemas, use before deletion | good until used, expired or revoked |
| Tenant sessions | `search_path` of pooled connections | begin, statement, COMMIT, of one session or several in a request | a COMMIT returns the connection | a request stays in its schema |
| Tenant provisioning and repair | tenants, plans, schemas | create, suspend, delete, upgrade, heal | steps that fail halfway | recorded tenants are complete, the dashboard counts who is served |
| Branches | branches, inspectors, expenses, requests for teachers | assign, ask, review | an exception swallowed inside a review | approved means hired |
| Marketing | referral codes, invitations, risks of leaving | use, issue in lists, compute | check and count in separate statements | counts are uses, "created" is stored |
| Live channel, bot menus, reports, seeds and migrations | | | no state of their own | not modelled, see section 6 |

How they meet:

- Payments, attendance, students, syllabus and cancellation call
  `NotificationService.enqueue` inside their own transaction, so its failure is
  theirs. `Notifications` models any such caller; the callers' modules keep the
  call where its failure or its dedupe key matters (`Payments`, `Attendance`).
- Celery executes the sender, the dispatchers, the broadcast and the KPI
  calculation at least once; executions may overlap.
- `Attendance` and `Syllabus` award XP: they extend `Gamification` and write its
  variables, so an instance can run both over the same profiles.
- `Invites` and `Sessions` keep what they issue and revoke in the same kind of store:
  both extend `FallbackStore`.
- A student's row is written by payments (balance), cancellation (payment day) and
  administration (approval, status): three disjoint sets of columns, so three
  modules.
- Every module but `TenantPool` takes a session to stay in its schema. `TenantPool`
  shows how far that is true.

`PROJECT.json` lists every component with its sources and status, and every hazard
with the line where it bites and the properties that watch it.

## 2. Modules

| Module | Models | Properties |
|---|---|---|
| `QuietHours`, `QuietDelay` | `_in_quiet_hours`, `_next_quiet_end`; one delayed notification against the clock | `WaitsOutQuietHours` |
| `Notifications` | the pipeline of one tenant; uses `QuietHours` | `DedupeUnique`, `NoPhantomDelivery`, `SentMeansDelivered`, `SkippedIsSilent`, `PrefsAreKept`, `ExtraDeliveriesAreFaults`, `DelayedIsSettled` |
| `NotificationLifecycle` | abstract specification of a notification | implemented by `Notifications` |
| `Dispatchers` | the six reminders, their keys, their transaction | `RemindersAgree` |
| `Broadcast` | one job and its executions | `RepeatsAreRolledBack`, `DoneMeansEveryone`, `LossIsBounded`, `JobEnds` |
| `Payments` | payments, ledger, balances and cash box of a tenant | `NeverOvercredited`, `PaymentIsBooked`, `SerialBooksAgree` |
| `LessonCancellation` | requests, reviews and payment days of a group | `RepeatsAreBounded`, `ApprovedIsAdjusted`, `MovesAreBooked` |
| `Gamification` | profiles and transactions of XP | `XpAgrees` |
| `Attendance` | sheets of several lessons and groups | `AbsenceIsTold`, `RegisterAgrees` |
| `Syllabus` | topics of one syllabus and who completed them | `TopicIsPaidOnce`, `TopicsAgree` |
| `Assessment` | grades of two groups in one month | `GradesAgree`, `RecordsStick` (with `Kpi`) |
| `Kpi` | one teacher's metrics, rules, results and payslip | `PayslipIsWhole`, `RecordsStick` |
| `Enrollment` | students, groups and memberships | `ApprovalIsWhole`, `BooksOutliveGroups` |
| `Staff` | accounts, roles and profiles | `AccountIsWhole` |
| `FallbackStore` | Redis with a dictionary per process beside it | through the next two |
| `Invites` | role, student and parent codes | `InviteServesOne` |
| `Sessions` | token pairs of one user | `RefreshOnce`, `EndedIsRefused`, `TokensAreFresh` |
| `TelegramLink` | link tokens in two schemas | `TokenServesOnce` |
| `TenantPool` | `search_path` of pooled connections | `FirstTransactionIsOwn` |
| `Tenants` | tenants, plans and their schemas | `TenantsAreWhole` |
| `Branches` | branches, expenses, requests for teachers | `ApprovedIsHired` |
| `Marketing`, `Churn` | referral codes and invitations; risks of leaving | `MarketingAgrees` |
| `NotificationsProofs`, `BroadcastProofs`, `PaymentsProofs`, `LessonCancellationProofs`, `SchoolProofs`, `PeopleProofs`, `OfficeProofs` | the theorems of section 5; the last three over the compositions below | |
| `Sums` | lemmas about sums over finite sets | |
| `MCNotifications`, `MCBroadcast`, `MCPayments`, `MCPool` | instances of one module for TLC | |
| `MCSchool`, `MCPeople`, `MCOffice` | instances of several, for TLC | |

The last three compose modules. A variable `part` names what runs; the other parts
stay in one of their initial states, because independent components only multiply each
other's states. Where components do share state they run together: `MCSchool` has
parts for attendance alone, topics alone, and one request of each over the same
profiles and clock.

An operator named `X_Something` beside an operator `X` is a faulty variant of
`X`. No specification uses it: `PROJECT.json` ("mutants") pairs each property
with a variant that breaks it, which shows that the property has teeth. A property
that is a conjunction of named parts says one thing about one component; its parts
are stated and commented one by one in its module.

**Granularity.** A handler is split exactly where another actor can run: at each
statement that reads what others write, at COMMIT, at each message that becomes
visible, and at the POST to Telegram. Transactions are READ COMMITTED: a session
sees committed rows and its own. The ORM sessions have `autoflush=False` and
write absolute values, so a handler's writes take effect at its COMMIT.

**Notifications.** A row is `free`, `open` (inserted, visible to its session
only), `committed` or `aborted`. `EnqueueSelect` is `enqueue` up to the INSERT
(dedupe SELECT, preferences, quiet hours, channels); `Insert` is the flush with
the dispatch and the publication after it; `Commit` is the caller's COMMIT.
`EnqueueSyncSelect` is the dispatchers' variant. A Celery message occupies a slot
of `Tasks` from its dispatch to its acknowledgement; `SenderFetch`, `SenderPost`,
`SenderSettle`, `SenderRetry` are the sender's SELECT, POST, UPDATE and retry.
`WorkerCrash` (late acknowledgement: the message comes back), `TaskDies` (it is
acknowledged although nothing was written) and `Redeliver` (visibility timeout)
are faults. `FlushSelect` and `FlushDispatch` are the two halves of
`flush_scheduled`.

**Broadcast.** An execution goes through `Start` (SELECT), `MarkRunning`
(unguarded UPDATE), `SelectUsers`, then per user `Check` (cancelled?),
`InsertUser`, `SaveBatch`, and `Finish`. `InsertUser` is the INSERT, the dispatch of the
Telegram task and the publication of the live message to the user's Redis channel:
the last leaves at once (`pushed`), whatever becomes of the row, while the sender
finds only rows that are committed (`got`). `InsertConflict` is the duplicate dedupe
key: the per-user `except` does not roll back, so the next statement fails, and
so does the UPDATE of the outer handler, which leaves `GiveUp`.

**Payments.** A request reads the student, flushes, reads the cash box, commits.
A flush locks the student's row; nothing locks the cash box before its UPDATE.
`finance` says whether the tenant has the finance tables (tenants created by
`tenant_provisioning.py` do not).

**LessonCancellation.** `BeginReview` is the status check, `ReadStudents` the
SELECT of those concerned, `CommitApproval` the writes. An administrator's own
cancellation (`RecordApproved`) has no review. Days, month lengths and rounding
are the code's integers.

**Attendance, Gamification, Syllabus.** A sheet is one transaction: `FindRow` (SELECT), the
INSERT or UPDATE with its flush, the award or the message, then COMMIT or abort. The figures
of a day are those of the active groups with a lesson in their schedule on that weekday
(`GroupsOn`); an extra lesson is in the register and in none of them. An inserted row locks
its unique key until then; another request's INSERT waits and then fails. Profiles are loaded
into the session, changed in memory and written at COMMIT: of a row that was there, only the
columns that changed; a profile that two requests create fails the second. A new topic goes
one after the last (`ReadMaxIndex`, `AddTopic`) or to a place the teacher chooses, which may
be taken or leave a gap (`AddTopicAt`); `squeezed` are the topics that were put below others.
`CheckTopic` is the sequence check of a student, `CompleteTopic` the INSERT and the award,
whose exception the code swallows.

**Assessment, Kpi.** A batch of grades flushes each grade; a grade is found by student and
group, and inserted under `UNIQUE(student_id, scheduled_date)`, whose day is the deadline at
that time. Whose grades a batch holds is not checked, and a student may be inactive and still
a member (`inactive`): what teachers are shown as pending leaves such members out, what
administrators are told is missing does not. A calculation reads metrics, rules, work and
salary, then writes results and payslip in one transaction; an approval reads the payslip and
its results and writes both. Inputs change in between. Money is counted in the ten-thousandth
part of a hundredth (`Unit`), in which rewards are exact; a result and each column of the
payslip are rounded to hundredths when they are stored (`Rounded`, `Stored`), the payslip from
the sum of rewards that are not rounded yet. A payslip that exists keeps its base salary.

**Enrollment, Staff, Tenants, Branches.** An endpoint reads the rows it needs in one
step and commits in another. The ORM writes the columns whose value differs from what
was read, so two requests that change different columns both succeed, and one that
"changes" a column to the value it read writes nothing. A row deleted meanwhile makes
the COMMIT fail. `Staff` has one action for each endpoint that writes more than one of
account, roles and profile. A creation in `Tenants` is one
transaction of several steps: `FlushTenant` (the row, which waits for and then loses
against another creation of the slug), `ProvisionTenantSchema`, `CreateDefaultBranch`,
`CreateAdminUser`, `CommitTenant`; after each of them it may fail or be cut off
(`Abandon`), which takes all of them back, the schema too. `crossed` are the tenants that
two requests changed at once. `HealTenantSchemas` runs at startup, when requests under
way are gone.

**FallbackStore, Invites, Sessions.** `up` says whether Redis answers. A process that
could not connect when it was first used keeps to its own memory (`client`); one that
could falls back per call. `faulty` remembers that Redis was away. A use of an invite
is read, write, delete; a refresh is check, read of the user, revocation, issue; the
processes are the API's workers and, for invites, the bot.

**TelegramLink.** Issuing writes the user's row (locked until COMMIT), commits the public
row, then the user's. A revocation reads the user's row without a lock (`RevokeLink`), its
flush waits for the lock and writes the columns that were not NULL when read (`FlushUser`,
`ClearUser`), and deletes the public row of the token it has read. The bot reads the public
row, loads and writes the user, and deletes the public row afterwards. `old` keeps what was
issued and what expired, `stale` the tokens that were superseded and not revoked.

**TenantPool.** The pool is a queue of idle connections (SQLAlchemy's default). What takes
connections is a session, not a request: a request has the session of its dependency
and may open another one while it holds the first (`telegram_link.py:49` and `:92`, the login
in `auth.py`). Which sessions belong to one request changes nothing, so the model has only
sessions, and `limit` says how many are open at once. A session checks a connection out
at its first statement after a COMMIT; `path` is the connection's committed `search_path`.
A session of the public schema sets none. A rollback of the first transaction undoes its
`SET`.

**Dispatchers.** An execution reads the clock and what is due, looks for each reminder
whether its user has a row with the key in 24 hours, inserts and sends, and commits at
the end; a conflict with an older row takes the whole batch with it. One clock, one
group and one tenant suffice, since tenants have transactions of their own.

**Left out** in all of them: wording, logging, paging, authorisation, and read-only endpoints
other than those whose figures a property compares. Further abstractions. Notifications:
inactive users are not in `Users` (`enqueue` returns early); the bot token is set; no caller
passes `scheduled_at`; `attempts`, the `LIMIT 500` of the flush and the rate-limit pause are
omitted; `created_at` is taken at the INSERT. Cancellation: a group is not deleted while its
requests are reviewed; an edit of a payment day is one step. Payments: a monthly fee does not
change. Assessments: a group is not deleted (the key would leave its grades without a group).
Staff: the tenant has the table `user_roles`. Tenants: statements of the schema are grouped by
whether they create a table or add a column.

## 3. Runs

Passing runs:

| Run | Instance | Shows |
|---|---|---|
| `notif_prefs` | preferences that change, a critical and an ordinary category, one fault | suppressed rows stay silent (`SkippedIsSilent`); critical ones are never held back, and app-only ones leave the app only by the flush, when they were delayed (`PrefsAreKept`); delayed rows are settled in the end (`DelayedIsSettled`) |
| `notif_rows` | an API request and a dispatcher, two rows, one key, a window shorter than the run; or one row, two messages, one retry, two faults, quiet hours | no two visible rows share a key (`DedupeUnique`), `NoPhantomDelivery`, `SentMeansDelivered`, extra deliveries are paid for by faults (`ExtraDeliveriesAreFaults`), the refinement of `NotificationLifecycle` (`ImplementsLifecycle`) |
| `broadcast` | a job whose executions crash, repeat and overlap; cancellation at any moment; errors | nobody hears twice on Telegram, and on the live channel only what was rolled back after it was published (`RepeatsAreRolledBack`); `DoneMeansEveryone`, `LossIsBounded`, `JobEnds` |
| `payments` | requests of every kind, one at a time or three at once, failing anywhere | `SerialBooksAgree`: one at a time, balances are payments and the cash box is the ledger, after failures and deletions too; at once, lost updates never credit too much (`NeverOvercredited`) a saved payment is booked and a payment that failed has left nothing (`PaymentIsBooked`) |
| `school` | cancelled lessons, attendance, topics, both together, grades, payslips | `RepeatsAreBounded`, `ApprovedIsAdjusted`, `MovesAreBooked`; `XpAgrees`, `AbsenceIsTold`, `RegisterAgrees`; `TopicIsPaidOnce`, `TopicsAgree`; `GradesAgree`; `PayslipIsWhole`; `RecordsStick` (no grade goes over to another group, no approval is taken back) |
| `people` | students and groups, staff, invitations, Telegram tokens | `ApprovalIsWhole`, `BooksOutliveGroups`, `AccountIsWhole`, `InviteServesOne`, `TokenServesOnce` |
| `office` | sessions, pooled connections, tenants, branches, marketing and risks, reminders, one quiet delay | `RefreshOnce`, `EndedIsRefused`, `TokensAreFresh`, `FirstTransactionIsOwn`, `TenantsAreWhole`, `ApprovedIsHired`, `MarketingAgrees`, `RemindersAgree`, `WaitsOutQuietHours` |

Runs whose violation documents a disagreement between the code and what it says
of itself:

| Run | Property | The disagreement |
|---|---|---|
| `quiet_local` | `DelayedInLocalQuietHours` | bounds in local time are compared with an instant in UTC |
| `notif_durable` | `DispatchedIsDurable` | a message is in the queue before its row is durable, and is dropped by a fast sender |
| `broadcast_stuck` | `GivingUpEndsTheJob` | a redelivered job meets its own rows, and the error path cannot write: it stays `running` |
| `payment_kept` | `KeptWithoutFinance` | a payment is said to be saved even when the finance module fails (`services/payment.py:132`); without the finance tables nothing is saved |
| `statements_own` | `StatementsAreOwn` | after a COMMIT in the middle of a request its statements may run in another tenant's schema, or on a connection on which no schema was ever set |

**Serial and overlapping.** Much of this code is correct for one request at a time and not for
two. `limit` (for `Assessment` `overlap`, for `Kpi` `parallel`) is chosen initially and says
how many requests may be under way; a run explores every choice. For `TenantPool` it counts
open sessions: the serial case is that of one session, and a request that opens a second one
is not in it. A property holds for each, or its definition says `limit = 1` where only the
serial guarantee is true; likewise `faulty`, `crashed` and `failed` for faults.

**Why the bounds suffice.** Two rows and one key are what a dedupe race needs;
two slots let a message and its duplicate, or an eta message and the flush,
coexist; two faults allow a crash after a redelivery; the clock bound is above
the window and reaches past one quiet period. Three executions of a broadcast
allow a crash, a redelivery and an overlap at once; three users against a batch
of two leave both a full and an unfinished batch. Two students and two methods
separate the accounts that must not mix; three requests let a deletion overlap
two bookings. Two reviewers produce every overlap of approve and reject; days 30, 2 and
31 in a month of 28 reach both clamps.

In `school`, four ticks are two local days with an offset from UTC, and two lessons of two
groups share a student and a day, which is where the daily key of an absence and the streak
can go wrong; the second lesson of one group is not on its schedule. Two topics are the least
that can be out of order, and the places 0 and 3 put one below another or leave a gap. Two
deadlines that may fall on the same day are what the unique key of grades confuses; one of the
two students is inactive and is the one member of the first group, and both are in the second,
so batches grade members, inactive members and strangers. The rules overlap, have gaps and
open ends; a salary of 107 hundredths makes every percentage end between two hundredths, above
and below the half. Of the types of rules `penalty_sum` and `none` are not instantiated; the
proofs cover them. In `people`, two clerks race over one student and two groups; one account
runs through every sequence of switches, since its rows belong to nobody else; two Telegram
users and two processes separate who issued, who used and who finds a code; two users and two
tokens make a token superseded and one taken over. In `office`, three pairs of tokens reach a
refresh of a refresh, three sessions and connections of two tenants and of the public schema a
connection that passes through another tenant, and four opened sessions its return; two slugs
give a creation that meets another; three pupils a list whose middle fails; two days of two
slots a key of today and one of yesterday; every pair of quiet bounds and every moment of two
days of eight ticks is tried.

`MCBroadcast!Narrow`, `MCPeople!Narrow`, `MCNotifications!Narrow` (the constraint of
`notif_rows`) and the `Narrow...` of `MCOffice` cut combinations of two independent causes,
such as an outage of Redis together with a third pair of tokens, or cancellation together with
redelivery; each cause alone is explored in full. Counters that would grow (`faults`,
`errors`, clocks, `changes`, `edits`, `opened`) are bounded in guards by the constants named
`Max...`, `Days`, `Nights`, `Slots`. `CHECK_DEADLOCK` is off because every instance comes to
rest when its requests or its clock are used up.

**Fairness.** `Notifications!Fairness`: time passes, beat fires
`flush_scheduled` every minute, and workers take and finish messages; nothing is
assumed of users, producers or faults. `Broadcast!Fairness`: the request that
created a job goes on to dispatch it and a worker executes what is queued.
Faults, errors, crashes and cancellations are never fair. The other components promise
nothing that must eventually happen: their requests end or are gone.

## 4. Hazards

`PROJECT.json` lists them with their lines; all but two have a property. A lesson reminder
whose task a worker takes in another minute finds nothing (`event_dispatchers.py:130`): no
promise says otherwise, and `RemindersAgree` speaks of what a run finds due. `uuid.UUID` is
applied to the user's id of the public row (`bot/handlers/start.py:193`); that column is a
UUID (`alembic/versions/014_notification_system_v2.py:36`) and asyncpg returns it as one, so
the line raises and binding fails every time. `TelegramLink` has that error and also models
the branch that goes on, which is what the handler is written for.

## 5. Proofs

Every safety invariant and every action property of the passing runs is a theorem;
the runs check each of them, and the invariants they rest on were checked by TLC before
they were proved. What a proof needs beyond the properties stands at the end of the
component's module, under "What the proofs need besides": the rows and requests as they
can be (`...IsSound`), what the code has read against what is there (`...IsCurrent`,
`...IsKept`), and the inductive invariant (`...Inv`). Invariants of requests that come one
at a time carry the hypothesis `limit = 1` inside, so that one proof covers serial and
overlapping requests.

`NotificationsProofs` proves, for any sets of ids, users, keys, callers and
messages and any bounds:

- `InvariantCorrect`: `IInv` is an invariant. It conjoins the type invariant, the
  safety invariants below, and three strengthenings that make them
  inductive: `PlansAndRowsExist` (a planned row has its shape and nothing goes
  out with a skipped one; an open row is unsettled), `MessagesNameRows` (a
  message names an inserted row, a *committed* one once the sender has read it,
  and one that was delivered once Telegram has answered), `DelaysAreKept` (the
  delay of a row is over or its message still waits for its end). Without
  `MessagesNameRows`, for instance, a POST could deliver a row that is not
  committed and `NoPhantomDelivery` would not survive the step.
- `TypeCorrect`, `DedupeCorrect`, `NoPhantoms`, `SentCorrect`, `SkippedCorrect`
  follow from it; `ScheduleRespected` proves the action property
  `NotBeforeSchedule` from it.
- `Refinement`: `Spec => ImplementsLifecycle`. A row's life is its status once it
  is committed, `none` before. A COMMIT is `Record` of the caller's open rows,
  an accepted POST is `Tell`, the sender's UPDATE is `Settle`, every other step
  stutters.
- `PrefsCorrect`: `PrefsAreKept`, which is `CriticalIsImmediate` and `OnlyTheFlushSendsAppRows`.
  It needs more than the rows: `PrefsInv` follows the preference from the plan of `enqueue` to
  the row and from there to the messages. A message may name a row of the app only when
  the delay of that row is over, which is when the flush dispatches it.
- `ExtraDeliveriesBounded`: `ExtraDeliveriesAreFaults`, from `ExtraInv`: a message that may still
  be accepted counts like a delivery, and only a fault adds one. It assumes that the slots
  for messages are finitely many, since it counts them.

`BroadcastProofs` proves, for any audience, batch size and number of executions,
crashes, errors and cancellations, that `Broadcast!IInv` is an invariant
(`JobInvariant`) and, from it, `JobTyping`, `RepeatsFollowRollbacks`, `HonestProgress` and
`BoundedLoss`. None of the last three is inductive. `OneRowPerUser` and
`ServedAreCommitted` give the first on Telegram, and with `PushedHaveRows` on the live
channel: each message is of a row that was inserted, and of two rows of a user one at least
was rolled back; `TallyCountsRows` ties an execution's counters
to its rows, so that a commit that publishes the counters also commits what they
count; `OpenSinceBatch` says that the uncommitted rows are the remainder of the
counters by the batch size (`ModSucc` carries it over one more user). The actions
fall into three kinds, each with a lemma of its own: those that keep the rows
(`RowsKept`), roll back (`RolledBack`) or commit (`Committed`); `InsertUserStep` is
the one that adds a row.
`DoneIsEveryone` proves `DoneMeansEveryone` under the hypothesis `OneCause` (nobody cancels, or
there is one execution): `DoneInv` says that an execution has a row for everyone it has come
to and that it leaves its loop with users left only when the job is cancelled, which
nobody can undo. Without `OneCause` a second execution may overwrite `cancelled` with `done`.

`PaymentsProofs` proves, for any number of students and of requests at once,
`BooksInvariant`, `BooksTyping`, `PaymentsAreBooked` and `NobodyIsOvercredited`.
`PaymentsAreBooked` says of a tenant without finance tables what there is to say: its failed
payment has left neither a payment nor a transaction (`FailureLeavesNothing`). What a
deletion undoes has to be known for the cash box to stay a number: `RequestsAreKnown` says
that the target of a deletion has arrived. `ReadsAreEarned` is what makes lost updates
harmless to the tenant: a balance that a payment has read, however long ago, was never more
than what the student has paid by now, since payments are only added. `SerialBooks` proves
`SerialBooksAgree` from `SerialInv`: with one request at a time what it has read is what is
there (`ReadsAreCurrent`) and the cash box has one row (`OneAtATime`).

`Sums` has what these proofs, those of XP, payslips and student payments need of
`SumFunctionOnSet`: the sum of nothing, of a set with one element more or less, of
functions that agree, and of one that changed in one place. The fold of the community
modules is a recursive function whose existence has to be shown first (`SumExists`), and
that it does not depend on the order of its choices (`SumRemove`). Both go by the smallest
counterexample: a set whose smaller subsets are all fine, which `SmallestSubset` provides
without an induction theorem.

`LessonCancellationProofs` proves, for any sets of requests, students and
workers, any schedule and any month length, that `LessonCancellation!IInv` is an
invariant (`Invariance`) and, from it, `Typing` (days stay in 1..31: the clamps of
`_create_adjustment` suffice because `DaysAdjusted` is a natural number for every
schedule), `BoundedRepeats`, `SerialApprovedOnce`, `ApprovalReachesMembers` and
`BookedMoves`. The bound on repetitions counts rows *and* the workers that are on
their way to add one: a commit moves one from the second count to the first, and
a review can begin only while the request has no rows at all
(`UndecidedIsUnadjusted`). `ReadersSeeMembers` carries what an approval has read to
its commit; `SessionsKnowRequests` says that all reviews of a request agree on its
lesson and that an uncommitted row has one owner. `SerialApprovedOnce` assumes one
worker: with two, TLC finds two adjustments.

`SchoolProofs` proves the properties of `school`, for any lessons, groups, students,
topics, grades, metrics, rules and requests.

- `ClassSpec` is attendance and topics over one set of profiles, with any number of
  requests and no end of the clock; `SchoolIsAClass` proves that the run's specification
  implements it. `ClassInv` conjoins the invariants of three modules, because a sheet and a
  topic write the same profile: `XpInv` with `AwardsAreSound` (what a request has loaded
  of a profile never showed more than was earned, whoever earned it meanwhile), `AInv`
  with `AbsenceIsUnderway` (an absence about to be saved is told already, or its key comes
  with it), `SInv` and `TInv`.
- From it follow `XpAgreesCorrect`, `AbsenceIsToldCorrect`, `RegisterAgreesCorrect` and
  `TopicsAgreeCorrect`. That the streak is the run of consecutive days needs `DaysAgree`: the
  last day of the profile is the last of the transactions. `RegisterAgreesCorrect` is about
  lessons of groups that are scheduled on their day, for any schedule (`GroupsOn`), and has
  hypotheses of its own, fewer than two thousand lessons and at most two thousand students:
  percentages are rounded to tenths, and beyond that one absence in many lessons rounds to
  100.
- `TopicPaidOnceCorrect` needs no more than `Syllabus` itself (`SSpec`): `PaidIsDone` says
  that the transactions of a topic are those of the rows, until the syllabus and its rows are
  deleted; it survives a COMMIT because `PendingIsNew` knows that what is being inserted is in
  no other transaction and not in the table. `TopicsAgreeCorrect`
  says what the sequence check is worth: a student is `Led` to a topic when the one at the place
  before it is completed or was put there later. `TaskIsSound` keeps that of the topic a
  request is about to complete, however topics are added at chosen places and deleted
  meanwhile, until one is moved; nothing is claimed of gaps.
- `GradesAgreeCorrect`: a row that was found, or found missing, is still so (`ReadIsSound`), and
  two batches never hold the same row (`EntryIsSound`), since the second waits. That every
  student has one row at most turns counts of rows into counts of students, and
  `MissingIsExplained` is then about four sets: members, inactive students, the graded, and
  the graded that are no members.
- `PayslipIsWholeCorrect`: `NewIsSound` and `SlipIsSound` tie what a calculation is about to
  write to the rows it was calculated from; up to there sums are exact. What is stored is off
  by the roundings: `Near` adds up over the results, half a hundredth for each
  and for the payslip, and the net by three halves. The base is the salary until an input changes.
  `RecordsStickCorrect` proves both action
  properties: an absolute write gives back the status that was read, and none takes an approval
  away, because a row that was approved when read cannot have been anything else since.

`PeopleProofs` proves, for any students, groups, accounts, codes, users and requests:

- `InvitesServeOne` from `InvitesInv`: while Redis answers it has every code that is good
  (`GoodIsKept`), and one request at a time a code that was used is being deleted
  (`UsedIsDeleted`).
- `ApprovalsAreWhole` and `BooksOutliveTheirGroups` from `EInv`. `AsRead` is what holds of
  a request however others overlap: the groups that a student waited for only get fewer, and a
  membership that it saw goes only with its group. The sum of a student's payments
  over groups does not change when they lose their group, which is a lemma of `Sums`.
- `AccountsStayWhole` from `StaffInv`: `RowComesWithProfile` says that who has the role of a
  teacher has the profile, also for a request that found neither.
- `TokenServesOnceCorrect`. `TokenInv` holds however requests overlap and fail: the user's row
  has one owner (`OneLock`), a token in hand is nobody else's (`TokensInHand`,
  `TokensAreIssued`), and what the row names is in the public table unless something removed
  it (`PublicUntilUsed`). `CalmInv` is about requests that come one at a time and end: what has
  bound is being deleted (`UsedIsDeleted`), and whatever is public is the user's, superseded, or
  about to be one of the two (`PublicIsKnown`), so that after a revocation nothing is
  left to bind with.

`OfficeProofs` proves, for any values of their constants:

- `ARefreshTokenGivesOnePair`, `EndedTokensAreRefused`, `TokensAreIssuedFresh` from
  `SessionsInv`: `EndedIsKept` and `UsedIsKept` follow an ended and a used token until
  it expires, and `UsedIsKept` also knows that a request about to issue has spent its own.
- `TenantsStayWhole` from `TenantsInv`. `CreationsAreSound` orders the steps of a creation and
  lets one request at a time have a row for a slug, so that what COMMIT shows has its tables
  and, if asked for, branch and admin; `RecordIsFresh` says that a request that is the only
  one to change a tenant writes on the record as it is. Further, `ApprovedRequestsAreHired`
  from `BranchesInv`, `MarketingStaysInAgreement` from `MarketingInv` and `ChurnInv`: a use
  has read no more uses than there are, an invitation about to be made has a number that none
  has had.
- `PoolTypesCorrect` and `FirstTransactionCorrect`. That the first transaction is the tenant's own
  rests on what the session itself has set (`Types`); that a session stays in its schema while
  no other is open rests on there being one connection, which has the session's path from its
  first COMMIT on (`Alone`), and that needs `OwnedOnce`: no connection is idle twice or lent
  twice. The case of a session that is alone does not extend to a request that is: one that
  opens a second session may go on with the connection of that one.
- `RemindersStayTold` from `DispatchInv`. The keys carry the weight: `Twins` proves, for a
  day of any number of slots, that two reminders with one key are the same, less than a day
  apart, and due together with the same others; `KeyOf` is the converse. So a row in
  the way of an INSERT tells everything its execution found (`SteadyIsTold`), one execution at
  a time never meets an old key (`SerialIsTold`), and every message beyond the first of its
  kind is of an execution that was rolled back (`SentIsKept`).
- `QuietInvariant` (`QInv`), and from it `WaitsCorrect` and `DelayCorrect`.
  `WaitsOutQuietHours` is not inductive: one tick says nothing about the next
  unless the end of the quiet hours, as seen from *now*, is still the wake-up.
  `QInv` says that, and the arithmetic lemmas (the remainder of a successor, the
  next end as the first instant with that time of day) carry it over a tick.

There is one step lemma per action or kind of action, each with a step per conjunct it can
disturb. What is assumed of constants are the named assumptions of the modules, which TLC
evaluates in their runs: `NotifAssumption` and `RowAssumption` (`None` is no row),
`DayAssumption`, `OffsetAssumption`, `NoneAssumption`, `BroadcastAssumption`,
`PaymentsAssumption`, `GroupAssumption`, and `SchoolAssumption`, `PeopleAssumption`,
`OfficeAssumption` for the compositions: finite sets of requests and rows, numbers where
the code has numbers, and null values that are no rows. The theorems about `TenantPool` and
`TelegramLink` name their two hypotheses themselves: the null value is no connection or
token, and requests are finitely many. The bounds `Max...` of the instances are in no
assumption, except that `MaxMade` is a number.

**What proving changed.** Some attempts failed for a reason. `FiguresAgree` of `Attendance`
was false of groups without members and, from two thousand lessons on, for rounding. The guards of
`Staff!Written` overlapped, so that its value was left to `CHOOSE`. The limit of one
calculation at a time in `Kpi` has to count one that is saving, and `SlipIsSound` has to say
that a new payslip is a draft. `Conflict` of `Dispatchers` detected two executions that wait
for each other, but not three.

Only model-checked: liveness (`DelayedIsSettled`, `JobEnds`), which the prover does not
handle under fairness, and the five runs of section 3 that expect a violation.

## 6. Not modelled

- **Live channel** (`ws.py`): a relay without state. **Bot menus**, **reports**: queries
  and layout. **Seeds and migrations**: one-off scripts; the constraints they create are
  modelled where the code meets them.
- **Notification pipeline**, the rest: reading and marking the inbox, the rate-limit pause.
- **Gamification**, the rest: leaderboards in Redis, the weekly reset, achievements. No caller
  names the tenant whose leaderboard it is, the task beat runs is a placeholder
  (`tasks/gamification.py`), and nothing calls the others.
- **Students**, **staff**, **branches**, **marketing**, the rest: edits of fields no other
  operation depends on, dashboards, campaigns, certificates.

**What the code does not keep.** Besides the runs of section 3, these sentences of
documentation and comments were found not to hold while modelling; the models keep the
behaviour of the code. (Paths are relative to `src/app`.)

- Notifications: the flush dispatches delayed rows whose own message is not lost
  (`tasks/notifications.py:196`); a key older than 24 hours is not free again, its INSERT
  raises (`services/notification_service.py:10`); the dispatchers heed neither quiet hours nor
  preferences (`NOTIFICATIONS.md:85`, `tasks/event_dispatchers.py:76`); a row whose channel is
  the app alone leaves by Telegram when it was delayed, since the flush does not look at
  channels (`tasks/notifications.py:210`).
- Broadcast: the live message leaves before the COMMIT (`tasks/broadcast.py:133`): who saw it may
  find no row in the inbox when the batch is rolled back, and is told again by the next
  execution; `cancelled` and `done` may be overwritten by an execution that starts
  (`tasks/broadcast.py:63`).
- Payments: without the finance tables the failed booking spoils the session, and the payment
  is not saved (`services/payment.py:132`, run `payment_kept`); when only the cash box fails
  it is. An error after the books are committed tells the client that a saved payment failed
  (`services/payment.py:134`), and nothing identifies its repetition; two overlapping
  deletions reverse a transaction twice (`services/finance.py:197`).
- Cancellation: two overlapping reviews can both succeed
  (`services/lesson_cancellation.py:247`); with one worker they cannot, which is proved. A
  credit is said to put the payment day off (`services/lesson_cancellation.py:8`); of a day
  beyond the end of a shorter month it makes an earlier one, for good (`:385`).
- Attendance: nobody is told of the absence of a student without a parent
  (`services/attendance.py:504`), `bare` in the model; lessons that are not on the schedule
  are not in the figures of their day (`services/attendance.py:329`).
- Assessments: a late grade is said to cost KPI (`services/student_progress.py:8`), but
  `services/kpi.py` never reads `is_late`. What administrators are told is missing and what a
  teacher is shown as pending differ by inactive members
  (`services/student_progress.py:52`) and by graded students who are no members (`:130`).
- KPI: results and payslip are rounded each by themselves (`services/kpi.py:174`), so a
  payslip need not be the sum of its rows; a later calculation corrects bonuses, penalties
  and net of a payslip, but keeps its base (`services/kpi.py:206`).
- Syllabus: the sequence check looks only at the place just before a topic; when that place is
  empty, a locked topic can be completed (`services/syllabus.py:378`). No move is needed for
  that: a topic added at a place with a gap before it (`services/syllabus.py:153`) is open to
  everyone.
- Gamification: weekly XP is never reset.
- Students: a teacher's enrolment is active at once although the docstring asks for approval
  (`api/v1/teacher.py:413`); the list of pending students asks for inactive ones, which those
  a teacher creates are not (`api/v1/teacher.py:290`); overlapping approve and reject leave
  both set.
- Staff: deleting an inspector is said to deactivate an account whose only role that was
  (`api/v1/admin/inspectors.py:230`), but the list of what remains falls back to the default role
  and is never empty, so nobody is deactivated; that list is said to contain the default role
  always (`services/user_roles.py:33`), and does only when no role is active.
- Sessions: a refresh keeps the active role without checking that it is still held
  (`api/v1/auth.py:327`).
- Invites and tokens: a one-time code can serve two overlapping requests
  (`core/invite_store.py:147`); a revoked user can be bound again by a superseded token
  (`api/v1/telegram_link.py:80`); binding a token fails every time
  (section 4).
- Tenant sessions: a request that opens a second session while it holds the first needs two
  connections; requests that all hold one and wait for the other exhaust the pool, which is
  not modelled, since the pool waits with a timeout and fails.
- Tenants: overlapping suspension and activation leave a status and a flag that disagree
  (`crossed`); provisioned
  schemas lack tables of finance, KPI, marketing, syllabus and XP.
- Celery: `app.tasks.reminders` does not exist (`tasks/celery_app.py:22`); the reminder of missing
  attendance is called three times a day, but its key allows one (`tasks/celery_app.py:68`);
  `tasks/kpi.py` is not among the modules the worker loads and imports a name that does not exist.

What could be added: the leaderboards once something feeds them; a composition of
`Attendance` with `Notifications` over one set of rows; the refinement of the parts of
`people` and `office` by their runs, as `SchoolIsAClass` does for attendance and topics.
