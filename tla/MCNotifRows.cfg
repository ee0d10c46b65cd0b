\* An API request and a dispatcher race for one dedupe key; or one producer and one
\* row, with crashes, lost and duplicated messages, and retries.
SPECIFICATION Spec
CONSTANTS
  c1 = c1  c2 = c2  b1 = b1  n1 = n1  n2 = n2  t1 = t1  t2 = t2
  None = None  NoKey = NoKey
  Day = 2
  Ids = {n1, n2}
  Users = {"u1"}
  Keys = {"k"}
  Categories = {"grade"}
  Critical = {}
  Tasks = {t1, t2}
  ApiCallers = {c1}
  BeatCallers = {b1}
  PrefOptions <- QuietPrefs
  DedupeWindow = 1
  MaxRetries = 1
  MaxTime = 2
  MaxFaults = 2
CONSTRAINT Narrow
SYMMETRY Symmetry
INVARIANTS
  DedupeUnique
  NoPhantomDelivery
  SentMeansDelivered
  ExtraDeliveriesAreFaults
PROPERTIES
  ImplementsLifecycle
CHECK_DEADLOCK FALSE
