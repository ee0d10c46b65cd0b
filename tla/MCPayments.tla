----------------------------- MODULE MCPayments -----------------------------
(***************************************************************************)
(* Instances of Payments for TLC: requests of every kind one at a time, or *)
(* payments, deletions and a look at the cash box three at a time.         *)
(***************************************************************************)
EXTENDS Payments, TLC

CONSTANTS q1, q2, q3, s1, s2

Pay(s, a, m)  == [kind |-> "payment", student |-> s, amount |-> a, method |-> m, target |-> q1]
Book(k, a, m) == [kind |-> k, student |-> s1, amount |-> a, method |-> m, target |-> q1]
Delete(t)     == [kind |-> "delete", student |-> s1, amount |-> 1, method |-> "cash", target |-> t]
View          == [kind |-> "view", student |-> s1, amount |-> 1, method |-> "cash", target |-> q1]

Books         == {Book("income", 2, "cash"), Book("expense", 1, "bank"), View}
SerialForms   == {Pay(s1, 1, "cash"), Pay(s2, 2, "bank"), Delete(q1), Delete(q2)} \cup Books
RaceForms     == {Pay(s, a, "cash") : s \in {s1, s2}, a \in {1, 2}} \cup {View, Delete(q1)}
AllForms      == SerialForms \cup RaceForms

Asked == {form[q] : q \in Requests} \ {NoForm}

BooksInit == Init /\ limit \in {1, MaxOpen}
BooksNext == Next /\ Asked' \subseteq IF limit = 1 THEN SerialForms ELSE RaceForms
BooksSpec == BooksInit /\ [][BooksNext]_vars
=============================================================================
