\* Requests of every kind one at a time; three payments, deletions and looks at
\* the cash box at once.
SPECIFICATION BooksSpec
CONSTANTS
  q1 = q1  q2 = q2  q3 = q3  s1 = s1  s2 = s2
  Students = {s1, s2}
  Requests = {q1, q2, q3}
  Methods = {"cash", "bank"}
  Amounts = {1, 2}
  Forms <- AllForms
  Default = Default
  NoForm = NoForm
  MaxOpen = 3
INVARIANTS
  NeverOvercredited
  PaymentIsBooked
  SerialBooksAgree
CHECK_DEADLOCK FALSE
