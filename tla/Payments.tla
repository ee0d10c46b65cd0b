------------------------------ MODULE Payments ------------------------------
(***************************************************************************)
(* Money in one tenant: payments an inspector enters by hand               *)
(* (app/services/payment.py) and the finance module they are booked in     *)
(* (app/services/finance.py).  Students have a balance, the finance        *)
(* transactions form a ledger, and the rows of finance_balance hold what   *)
(* is in the cash box and in the bank.                                     *)
(*                                                                         *)
(* Every request reads rows into its session, computes and writes absolute *)
(* values: a flush takes the row lock of what it updates, a read takes no  *)
(* lock.  A request is split at each read, at the flush that takes the     *)
(* student's lock, and at each COMMIT.                                     *)
(***************************************************************************)
EXTENDS Integers, FiniteSets, Functions

CONSTANTS
  Students,
  Requests,    \* requests, each of which books at most one transaction
  Methods,     \* payment methods of the ledger: cash and bank
  Amounts,     \* amounts a request may name
  Forms,       \* what a request may ask for
  Default,     \* the finance_balance row that migration 003 inserts
  NoForm,      \* what a request asks for before it has arrived
  MaxOpen      \* bound on the requests under way at once

Kinds == {"payment", "income", "expense", "delete", "view"}

Form == [kind : Kinds, student : Students, amount : Amounts, method : Methods,
         target : Requests]

ASSUME PaymentsAssumption ==
  /\ Amounts \subseteq Nat \ {0}
  /\ Default \notin Requests
  /\ Forms \subseteq Form
  /\ MaxOpen \in Nat \ {0}
  /\ IsFiniteSet(Requests)

VARIABLES
  limit,     \* how many requests may be under way at once
  finance,   \* whether this tenant has the finance tables
  balance,   \* balance of a student
  paid,      \* requests whose payment is saved
  ledger,    \* requests whose finance transaction is saved
  kassa,     \* the finance_balance rows
  form,      \* what a request was asked to do
  pc,        \* where a request stands
  seen       \* what it has read: a student's balance, an amount, and its row

books == <<balance, paid, ledger, kassa>>
vars  == <<limit, finance, books, form, pc, seen>>

Rows  == Requests \cup {Default}

NoRows == [r \in {} |-> [m \in Methods |-> 0]]
Empty  == [m \in Methods |-> 0]
Unread == [balance |-> 0, row |-> Default, amount |-> 0]

Resting == {"idle", "done", "failed", "unbooked", "error"}
Open(q) == pc[q] \notin Resting

Init ==
  /\ limit \in 1..MaxOpen
  /\ finance \in BOOLEAN
  /\ balance = [s \in Students |-> 0]
  /\ paid = {} /\ ledger = {}
  /\ kassa \in {NoRows, [r \in {Default} |-> Empty]}
  /\ form = [q \in Requests |-> NoForm]
  /\ pc = [q \in Requests |-> "idle"]
  /\ seen = [q \in Requests |-> Unread]

-----------------------------------------------------------------------------

Goto(q, where) == pc' = [pc EXCEPT ![q] = where]

\* A request arrives.
Arrive(q, f) ==
  /\ pc[q] = "idle"
  /\ Cardinality({o \in Requests : Open(o)}) < limit
  /\ form' = [form EXCEPT ![q] = f]

\* What a transaction adds to its method, and its reversal takes away.
Sign(q) == IF form[q].kind \in {"payment", "income"} THEN 1 ELSE -1

Effect_SameSign(q) ==
  LET t == form[q].target
  IN  IF form[q].kind = "delete" THEN Sign(t) * form[t].amount
      ELSE Sign(q) * form[q].amount

\* What q adds to the cash box or the bank: its own transaction, or the
\* opposite of the one it deletes.
Effect(q) ==
  LET t == form[q].target
  IN  IF form[q].kind = "delete" THEN - Sign(t) * form[t].amount
      ELSE Sign(q) * form[q].amount

Method(q) == IF form[q].kind = "delete" THEN form[form[q].target].method ELSE form[q].method

\* create_manual: the student is read.
LoadStudent(q, f) ==
  /\ f.kind = "payment" /\ Arrive(q, f)
  /\ seen' = [seen EXCEPT ![q].balance = balance[f.student]]
  /\ Goto(q, "student")
  /\ UNCHANGED <<limit, finance, books>>

\* The flush in create_transaction: the payment, the balance computed from the
\* one that was read, and the transaction are written but not committed; the
\* student's row is locked.
FlushPayment(q) ==
  /\ pc[q] = "student" /\ finance
  /\ \A o \in Requests : pc[o] \in {"flushed", "kassa", "swallowed"}
       /\ form[o].kind = "payment" => form[o].student # form[q].student
  /\ Goto(q, "flushed")
  /\ UNCHANGED <<limit, finance, books, form, seen>>

\* POST /admin/finance/transactions.
FlushTransaction(q, f) ==
  /\ f.kind \in {"income", "expense"} /\ Arrive(q, f) /\ finance
  /\ Goto(q, "flushed")
  /\ UNCHANGED <<limit, finance, books, seen>>

\* DELETE /admin/finance/transactions/{id} finds its transaction.
LoadTransaction(q, f) ==
  /\ f.kind = "delete" /\ Arrive(q, f) /\ f.target \in ledger
  /\ Goto(q, "flushed")
  /\ UNCHANGED <<limit, finance, books, seen>>

\* GET /admin/finance/balance.
ViewBalance(q, f) ==
  /\ f.kind = "view" /\ Arrive(q, f) /\ finance
  /\ Goto(q, "flushed")
  /\ UNCHANGED <<limit, finance, books, seen>>

\* The flush fails without finance tables.  The session is then unusable, so
\* the except clause of create_manual saves nothing.
FlushFails(q) ==
  /\ pc[q] = "student" /\ ~finance
  /\ Goto(q, "unbooked")
  /\ UNCHANGED <<limit, finance, books, form, seen>>

\* SELECT of finance_balance with scalar_one_or_none: no row makes the request
\* add one of its own, two rows make it raise; create_manual swallows that.
ReadKassa(q) ==
  /\ pc[q] = "flushed"
  /\ CASE DOMAIN kassa = {} ->
            /\ seen' = [seen EXCEPT ![q].row = q, ![q].amount = 0]
            /\ Goto(q, "kassa")
       [] Cardinality(DOMAIN kassa) = 1 ->
            /\ \E r \in DOMAIN kassa :
                 seen' = [seen EXCEPT ![q].row = r, ![q].amount = kassa[r][Method(q)]]
            /\ Goto(q, "kassa")
       [] OTHER ->
            /\ Goto(q, IF form[q].kind = "payment" THEN "swallowed" ELSE "failed")
            /\ UNCHANGED seen
  /\ UNCHANGED <<limit, finance, books, form>>

\* The payment half of a COMMIT.
SavePayment(q) ==
  IF form[q].kind = "payment"
  THEN /\ paid' = paid \cup {q}
       /\ balance' = [balance EXCEPT ![form[q].student] = seen[q].balance + form[q].amount]
  ELSE UNCHANGED <<paid, balance>>

LedgerAfter(q) ==
  CASE form[q].kind = "delete" -> ledger \ {form[q].target}
    [] form[q].kind = "view" -> ledger
    [] OTHER -> ledger \cup {q}

\* The amount of the one method is written, computed from what was read; a
\* new row starts empty.
KassaAfter(q) ==
  LET r   == seen[q].row
      old == IF r \in DOMAIN kassa THEN kassa[r] ELSE Empty
      new == IF form[q].kind = "view" THEN old
             ELSE [old EXCEPT ![Method(q)] = seen[q].amount + Effect(q)]
  IN  [k \in DOMAIN kassa \cup {r} |-> IF k = r THEN new ELSE kassa[k]]

\* UPDATE of finance_balance and the COMMIT of create_transaction or
\* delete_transaction; a payment goes on to its notifications.
CommitBooks(q) ==
  /\ pc[q] = "kassa"
  /\ SavePayment(q)
  /\ ledger' = LedgerAfter(q)
  /\ kassa' = KassaAfter(q)
  /\ Goto(q, IF form[q].kind = "payment" THEN "saved" ELSE "done")
  /\ UNCHANGED <<limit, finance, form, seen>>

\* The notifications of a saved payment are enqueued, or raise: the client
\* then gets an error for a payment that is saved.
Notify(q) ==
  /\ pc[q] = "saved"
  /\ Goto(q, "done") \/ Goto(q, "error")
  /\ UNCHANGED <<limit, finance, books, form, seen>>

CommitSwallowed_WithoutLedger(q) ==
  /\ pc[q] = "swallowed"
  /\ SavePayment(q)
  /\ Goto(q, "done")
  /\ UNCHANGED <<limit, finance, ledger, kassa, form, seen>>

\* After the swallowed exception the session still holds the payment and the
\* transaction: the last COMMIT saves both, the cash box is left out.
CommitSwallowed(q) ==
  /\ pc[q] = "swallowed"
  /\ SavePayment(q)
  /\ ledger' = ledger \cup {q}
  /\ Goto(q, "done")
  /\ UNCHANGED <<limit, finance, kassa, form, seen>>

Rollback_KeepsBalance(q) ==
  /\ pc[q] \in {"student", "flushed", "kassa", "swallowed"}
  /\ balance' = IF form[q].kind = "payment"
                THEN [balance EXCEPT ![form[q].student] = seen[q].balance + form[q].amount]
                ELSE balance
  /\ Goto(q, "failed")
  /\ UNCHANGED <<limit, finance, paid, ledger, kassa, form, seen>>

\* The process dies or anything else raises before the COMMIT.
Rollback(q) ==
  /\ pc[q] \in {"student", "flushed", "kassa", "swallowed"}
  /\ Goto(q, "failed")
  /\ UNCHANGED <<limit, finance, books, form, seen>>

Next ==
  \E q \in Requests :
    \/ \E f \in Forms :
         LoadStudent(q, f) \/ FlushTransaction(q, f) \/ LoadTransaction(q, f) \/ ViewBalance(q, f)
    \/ FlushPayment(q) \/ FlushFails(q) \/ ReadKassa(q) \/ CommitBooks(q)
    \/ Notify(q) \/ CommitSwallowed(q) \/ Rollback(q)

Spec == Init /\ [][Next]_vars

-----------------------------------------------------------------------------
(* What the books guarantee *)

TypeOK ==
  /\ limit \in 1..MaxOpen
  /\ finance \in BOOLEAN
  /\ balance \in [Students -> Int]
  /\ paid \subseteq Requests /\ ledger \subseteq Requests
  /\ DOMAIN kassa \subseteq Rows
  /\ \A r \in DOMAIN kassa : kassa[r] \in [Methods -> Int]
  /\ form \in [Requests -> Forms \cup {NoForm}]
  /\ pc \in [Requests -> {"student", "flushed", "kassa", "swallowed", "saved"} \cup Resting]
  /\ seen \in [Requests -> [balance : Int, row : Rows, amount : Int]]

PaidBy(s) == {q \in paid : form[q].student = s}
SumOf(S)  == SumFunctionOnSet([q \in S |-> form[q].amount], S)

\* Lost updates only lose: however payments interleave, fail and roll back, a
\* student is never credited more than the saved payments add up to.
NeverOvercredited == \A s \in Students : balance[s] <= SumOf(PaidBy(s))

\* Also when the cash box cannot be updated: a saved payment has its
\* transaction in the ledger until somebody deletes it.
SavedIsBooked ==
  \A q \in paid : q \in ledger \/ \E d \in Requests :
    pc[d] = "done" /\ form[d].kind = "delete" /\ form[d].target = q

\* A payment under way or failed, for want of the finance tables as for any other
\* reason, has left neither a payment nor a transaction; one that was answered, or
\* whose notifications raised, is saved.
FailureLeavesNothing ==
  \A q \in Requests : pc[q] # "idle" /\ form[q].kind = "payment" =>
    /\ q \in paid <=> pc[q] \in {"saved", "done", "error"}
    /\ q \in ledger => q \in paid

\* A payment and its booking go together: both or, when the request fails at any
\* point, neither.
PaymentIsBooked == SavedIsBooked /\ FailureLeavesNothing

\* What is in the cash box and the bank, over all rows, and what the ledger says.
InKassa(m) == SumFunctionOnSet([r \in DOMAIN kassa |-> kassa[r][m]], DOMAIN kassa)
BookedIn(m) == {q \in ledger : form[q].method = m}
Booked(m) == SumFunctionOnSet([q \in BookedIn(m) |-> Sign(q) * form[q].amount], BookedIn(m))

\* One request at a time: every balance is the sum of its payments, and the
\* cash box holds what the ledger says, also after deletions and when a
\* request has failed at any point.
SerialBooksAgree ==
  limit = 1 =>
    /\ \A s \in Students : balance[s] = SumOf(PaidBy(s))
    /\ \A m \in Methods : InKassa(m) = Booked(m)

-----------------------------------------------------------------------------
(* What the proofs need besides *)

\* A request under way knows what it was asked for; the transaction it deletes,
\* and everything that is saved, comes from a request that has arrived.
Working == {"student", "flushed", "kassa", "swallowed"}
RequestsAreKnown ==
  /\ \A q \in Requests : pc[q] # "idle" =>
       /\ form[q] \in Forms
       /\ form[q].kind = "delete" => pc[form[q].target] # "idle"
  /\ \A q \in paid \cup ledger : pc[q] \in {"saved", "done", "error"}

\* The balance a payment is computed from was never more than was paid.
ReadsAreEarned ==
  \A q \in Requests, s \in Students :
    pc[q] \in Working /\ form[q].kind = "payment" /\ form[q].student = s
      => seen[q].balance <= SumOf(PaidBy(s))

\* The inductive invariant.
IInv ==
  /\ TypeOK /\ RequestsAreKnown /\ SavedIsBooked /\ FailureLeavesNothing
  /\ NeverOvercredited /\ ReadsAreEarned

\* What one request at a time adds to it: what the request has read is what is
\* there, and the cash box has one row at most.
ReadsAreCurrent ==
  \A q \in Requests :
    /\ pc[q] = "student" => form[q].kind = "payment"
    /\ pc[q] \in Working /\ form[q].kind = "payment" => seen[q].balance = balance[form[q].student]
    /\ pc[q] \in {"flushed", "kassa"} /\ form[q].kind = "delete" => form[q].target \in ledger
    /\ pc[q] = "kassa" =>
         \/ DOMAIN kassa = {} /\ seen[q].row = q /\ seen[q].amount = 0
         \/ seen[q].row \in DOMAIN kassa /\ seen[q].amount = kassa[seen[q].row][Method(q)]

OneAtATime ==
  /\ \A q, o \in Requests : Open(q) /\ Open(o) => q = o
  /\ \A q \in Requests : pc[q] # "swallowed"
  /\ \A r, k \in DOMAIN kassa : r = k

SerialInv == limit = 1 => OneAtATime /\ ReadsAreCurrent /\ SerialBooksAgree

-----------------------------------------------------------------------------
(* What its documentation promises and the code does not do *)

\* app/services/payment.py:132 "Moliya moduli ishlamasa asosiy to'lov baribir
\* saqlanadi": when the finance module does not work the payment is saved all the
\* same.  It is when the cash box has two rows, and it is not without finance tables.
KeptWithoutFinance == \A q \in Requests : pc[q] = "unbooked" => q \in paid

=============================================================================
