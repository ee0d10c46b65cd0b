\* Executions that crash, are redelivered or overlap; or one execution, an admin who
\* cancels, and errors.
SPECIFICATION EitherSpec
CONSTANTS
  r1 = r1  r2 = r2  r3 = r3  u1 = u1  u2 = u2  u3 = u3
  Users = {u1, u2, u3}
  Runs = {r1, r2, r3}
  Batch = 2
  Channels = {"telegram", "in_app"}
  Cancels = TRUE
  MaxErrors = 2
INVARIANTS
  RepeatsAreRolledBack
  DoneMeansEveryone
  LossIsBounded
PROPERTIES
  JobEnds
CHECK_DEADLOCK FALSE
