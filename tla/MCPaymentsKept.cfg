\* A payment of a tenant without finance tables.
SPECIFICATION Spec
CONSTANTS
  q1 = q1  q2 = q2  q3 = q3  s1 = s1  s2 = s2
  Students = {s1, s2}
  Requests = {q1, q2, q3}
  Methods = {"cash", "bank"}
  Amounts = {1, 2}
  Forms <- AllForms
  Default = Default
  NoForm = NoForm
  MaxOpen = 1
INVARIANTS
  KeptWithoutFinance
CHECK_DEADLOCK FALSE
