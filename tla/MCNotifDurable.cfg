\* A message is in the queue before its row is committed.
SPECIFICATION Spec
CONSTANTS
  c1 = c1  c2 = c2  b1 = b1  n1 = n1  n2 = n2  t1 = t1  t2 = t2
  None = None  NoKey = NoKey
  Day = 2
  Ids = {n1}
  Users = {"u1"}
  Keys = {}
  Categories = {"grade"}
  Critical = {}
  Tasks = {t1, t2}
  ApiCallers = {c1}
  BeatCallers = {}
  PrefOptions <- NoPrefs
  DedupeWindow = 1
  MaxRetries = 1
  MaxTime = 1
  MaxFaults = 0
INVARIANT
  DispatchedIsDurable
CHECK_DEADLOCK FALSE
