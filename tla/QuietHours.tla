----------------------------- MODULE QuietHours -----------------------------
(***************************************************************************)
(* The clock arithmetic of app/services/notification_service.py: when a    *)
(* user's quiet hours hold and when they end.                              *)
(*                                                                         *)
(* An instant is a natural number of ticks since midnight of day 0 UTC, a  *)
(* day has Day ticks, a time of day is a number below Day, and a missing   *)
(* time of day is None.  The API stores the bounds as whole minutes, so    *)
(* the seconds that _next_quiet_end sets to zero are zero already; a tick  *)
(* is whatever fraction of a day the instance chooses.                     *)
(***************************************************************************)
EXTENDS Integers

CONSTANTS
  Day,   \* ticks in a day
  None   \* the missing value

ASSUME DayAssumption == Day \in Nat \ {0}

\* A quiet-hours bound is a time of day or missing; None is no time of day.
TimeOfDay == 0 .. Day - 1

ASSUME NoneAssumption == None \notin Int

InQuietHours_EndInclusive(now, start, end) ==
  /\ start # None
  /\ end # None
  /\ LET cur == now % Day
     IN  IF start <= end THEN start <= cur /\ cur <= end
                         ELSE start <= cur \/ cur <= end

\* _in_quiet_hours: [start, end), or across midnight when end < start.
InQuietHours(now, start, end) ==
  /\ start # None
  /\ end # None
  /\ LET cur == now % Day
     IN  IF start <= end THEN start <= cur /\ cur < end
                         ELSE start <= cur \/ cur < end

\* _next_quiet_end: the end on the day of now, or on the next day when that
\* instant is not in the future.
NextQuietEnd(now, end) ==
  LET candidate == (now - (now % Day)) + end
  IN  IF candidate <= now THEN candidate + Day ELSE candidate

=============================================================================
