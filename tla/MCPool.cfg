\* Two sessions of two tenants, in two requests.
SPECIFICATION Spec
CONSTANTS
  Tenants = {ta, tb}
  AsyncSessions = {q1, q2}
  Connections = {c1, c2}
  Public = Public
  MaxSessions = 2
  MaxOpen = 2
  Nothing = Nothing
INVARIANT
  StatementsAreOwn
SYMMETRY Interchangeable
CHECK_DEADLOCK FALSE
