----------------------------- MODULE QuietDelay -----------------------------
(***************************************************************************)
(* One notification that enqueue delays because its user is in quiet       *)
(* hours: the clock runs from the moment of the enqueue to the moment the  *)
(* notification wakes up, against the hours the user meant.                *)
(***************************************************************************)
EXTENDS QuietHours

CONSTANTS
  Offset,  \* local time minus UTC: five hours in Asia/Tashkent
  Days     \* bound: the day of the enqueue is below Days

ASSUME OffsetAssumption == Offset \in TimeOfDay /\ Days \in Nat \ {0}

VARIABLES
  now,     \* the instant, in UTC, as _now_utc returns it
  start,   \* quiet_hours_start of the user
  end,     \* quiet_hours_end of the user
  since,   \* the instant of the enqueue
  wake     \* scheduled_at of the notification, None when it is not delayed

vars == <<now, start, end, since, wake>>

\* enqueue at instant i for a user with these bounds.
DelayedUntil(i, s, e) == IF InQuietHours(i, s, e) THEN NextQuietEnd(i, e) ELSE None

Init ==
  /\ now \in 0 .. Days * Day - 1
  /\ start \in TimeOfDay
  /\ end \in TimeOfDay
  /\ since = now
  /\ wake = DelayedUntil(now, start, end)

\* A delayed notification waits.
Wait ==
  /\ wake # None /\ now < wake
  /\ now' = now + 1
  /\ UNCHANGED <<start, end, since, wake>>

Next == Wait

Spec == Init /\ [][Next]_vars

-----------------------------------------------------------------------------

TypeOK ==
  /\ now \in Nat /\ since \in Nat
  /\ start \in TimeOfDay /\ end \in TimeOfDay
  /\ wake \in Nat \cup {None}

\* A delayed notification wakes up at the first moment that is not quiet: it
\* waits through quiet hours only, also across midnight, and its eta is not
\* itself quiet.
WaitsOutQuietHours ==
  wake # None => IF now < wake THEN InQuietHours(now, start, end)
                               ELSE ~InQuietHours(now, start, end)

\* The delay is never zero, never negative and shorter than a day.
DelayIsShort == wake # None => since < wake /\ wake - since < Day

\* What both rest on: while the notification waits, its user is in quiet
\* hours that end at its wake-up, seen from now as from the enqueue.
QInv ==
  /\ TypeOK
  /\ DelayIsShort
  /\ wake # None =>
       \/ now < wake /\ InQuietHours(now, start, end) /\ NextQuietEnd(now, end) = wake
       \/ now = wake /\ now % Day = end

\* notification_service.py:58 "Soat now (local) quiet hours [start, end)
\* ichidami?": a notification is delayed exactly in the user's local quiet
\* hours.
DelayedInLocalQuietHours ==
  (wake # None) <=> InQuietHours(since + Offset, start, end)

=============================================================================
