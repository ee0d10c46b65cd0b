\* A redelivered execution meets the rows of the first.
SPECIFICATION Spec
CONSTANTS
  r1 = r1  r2 = r2  r3 = r3  u1 = u1  u2 = u2  u3 = u3
  Users = {u1, u2}
  Runs = {r1, r2}
  Batch = 1
  Channels = {"telegram", "in_app"}
  Cancels = FALSE
  MaxErrors = 0
SYMMETRY Symmetry
PROPERTIES
  GivingUpEndsTheJob
CHECK_DEADLOCK FALSE
