\* The bounds are local times, the clock is UTC.
SPECIFICATION Spec
CONSTANTS
  None = None
  Day = 8
  Offset = 3
  Days = 2
INVARIANTS
  DelayedInLocalQuietHours
CHECK_DEADLOCK FALSE
