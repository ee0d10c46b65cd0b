\* One producer, preferences that change, one row; its message can overtake the
\* COMMIT or be lost.
SPECIFICATION FairSpec
CONSTANTS
  c1 = c1  c2 = c2  b1 = b1  n1 = n1  n2 = n2  t1 = t1  t2 = t2
  None = None  NoKey = NoKey
  Day = 2
  Ids = {n1}
  Users = {"u1"}
  Keys = {"k"}
  Categories = {"grade", "payment"}
  Critical = {"payment"}
  Tasks = {t1}
  ApiCallers = {c1}
  BeatCallers = {}
  PrefOptions <- MixedPrefs
  DedupeWindow = 1
  MaxRetries = 0
  MaxTime = 2
  MaxFaults = 1
INVARIANTS
  SkippedIsSilent
  PrefsAreKept
PROPERTIES
  DelayedIsSettled
CHECK_DEADLOCK FALSE
