--------------------------- MODULE PaymentsProofs ---------------------------
(***************************************************************************)
(* Proofs about Payments: for any students, amounts and number of requests *)
(* at once, the books keep their shape, a saved payment has its            *)
(* transaction in the ledger until a deletion takes it away, and a failed  *)
(* one leaves nothing.                                                     *)
(***************************************************************************)
EXTENDS Payments, Sums

-----------------------------------------------------------------------------
(* Amounts *)

\* What a request may ask for.
LEMMA FormType ==
  ASSUME NEW f \in Forms
  PROVE  /\ f.amount \in Int /\ f.target \in Requests
         /\ f.student \in Students /\ f.method \in Methods
<1>1. f \in Form
  BY PaymentsAssumption
<1>2. /\ f.amount \in Amounts /\ f.target \in Requests
      /\ f.student \in Students /\ f.method \in Methods
  BY <1>1 DEF Form
<1>3. Amounts \subseteq Int
  BY PaymentsAssumption
<1> QED
  BY <1>2, <1>3

\* A request that has arrived adds a whole amount, or takes one away.
LEMMA SignedAmount ==
  ASSUME NEW q \in Requests, form[q] \in Forms
  PROVE  Sign(q) * form[q].amount \in Int /\ - Sign(q) * form[q].amount \in Int
<1>1. form[q].amount \in Int
  BY FormType
<1>2. Sign(q) = 1 \/ Sign(q) = -1
  BY DEF Sign
<1> QED
  BY <1>1, <1>2

\* So does the effect of a request on the cash box.
LEMMA EffectType ==
  ASSUME IInv, NEW q \in Requests, pc[q] # "idle"
  PROVE  Effect(q) \in Int
<1>1. form[q] \in Forms
  BY DEF IInv, RequestsAreKnown
<1>2. CASE form[q].kind = "delete"
  <2>1. form[q].target \in Requests /\ pc[form[q].target] # "idle"
    BY <1>1, <1>2, FormType DEF IInv, RequestsAreKnown
  <2>2. form[form[q].target] \in Forms
    BY <2>1 DEF IInv, RequestsAreKnown
  <2> QED
    BY <1>2, <2>1, <2>2, SignedAmount DEF Effect
<1>3. CASE form[q].kind # "delete"
  BY <1>1, <1>3, SignedAmount DEF Effect
<1> QED
  BY <1>2, <1>3

\* And so is its method one of the ledger's.
LEMMA MethodType ==
  ASSUME IInv, NEW q \in Requests, pc[q] # "idle"
  PROVE  Method(q) \in Methods
<1>1. form[q] \in Forms
  BY DEF IInv, RequestsAreKnown
<1>2. form[q].kind = "delete" => form[form[q].target] \in Forms
  BY <1>1, FormType DEF IInv, RequestsAreKnown
<1> QED
  BY <1>1, <1>2, FormType DEF Method

\* The cash box after a commit holds whole amounts, in rows that may exist.
LEMMA KassaType ==
  ASSUME IInv, NEW q \in Requests, pc[q] # "idle"
  PROVE  /\ DOMAIN KassaAfter(q) \subseteq Rows
         /\ \A r \in DOMAIN KassaAfter(q) : KassaAfter(q)[r] \in [Methods -> Int]
<1> DEFINE r   == seen[q].row
           old == IF r \in DOMAIN kassa THEN kassa[r] ELSE Empty
           new == IF form[q].kind = "view" THEN old
                  ELSE [old EXCEPT ![Method(q)] = seen[q].amount + Effect(q)]
<1>1. old \in [Methods -> Int]
  BY DEF IInv, TypeOK, Empty
<1>2. seen[q].amount + Effect(q) \in Int
  <2>1. seen[q].amount \in Int
    BY DEF IInv, TypeOK
  <2> QED
    BY <2>1, EffectType
<1> HIDE DEF old
<1>3. new \in [Methods -> Int]
  BY <1>1, <1>2
<1>4. r \in Rows
  BY DEF IInv, TypeOK
<1>5. KassaAfter(q) = [k \in DOMAIN kassa \cup {r} |-> IF k = r THEN new ELSE kassa[k]]
  BY DEF KassaAfter, old
<1> HIDE DEF new, r
<1> QED
  BY <1>3, <1>4, <1>5 DEF IInv, TypeOK

\* A saved payment belongs to a student, whose balance stays a whole amount.
LEMMA SaveType ==
  ASSUME IInv, NEW q \in Requests, pc[q] # "idle", SavePayment(q)
  PROVE  /\ balance' \in [Students -> Int]
         /\ paid \subseteq paid' /\ paid' \subseteq paid \cup {q}
         /\ form[q].kind # "payment" => paid' = paid
<1>1. /\ form[q].amount \in Int /\ seen[q].balance \in Int
      /\ balance \in [Students -> Int]
  BY FormType DEF IInv, TypeOK, RequestsAreKnown
<1>2. seen[q].balance + form[q].amount \in Int
  BY <1>1
<1> QED
  BY <1>1, <1>2 DEF SavePayment

-----------------------------------------------------------------------------
(* What was paid *)

\* What the saved payments of a student add up to is a whole amount.
LEMMA PaidType ==
  ASSUME IInv
  PROVE  \A s \in Students : IsFiniteSet(PaidBy(s)) /\ SumOf(PaidBy(s)) \in Int
<1> SUFFICES ASSUME NEW s \in Students
             PROVE  IsFiniteSet(PaidBy(s)) /\ SumOf(PaidBy(s)) \in Int
  OBVIOUS
<1>1. PaidBy(s) \subseteq Requests
  BY DEF PaidBy, IInv, TypeOK
<1>2. IsFiniteSet(PaidBy(s))
  BY <1>1, FS_Subset, PaymentsAssumption
<1>3. \A q \in PaidBy(s) : form[q].amount \in Int
  BY <1>1, FormType DEF PaidBy, IInv, RequestsAreKnown
<1> DEFINE amount == [q \in PaidBy(s) |-> form[q].amount]
<1>4. \A q \in PaidBy(s) : amount[q] \in Int
  BY <1>3
<1> HIDE DEF amount
<1>5. SumFunctionOnSet(amount, PaidBy(s)) \in Int
  BY <1>2, <1>4, SumType
<1> QED
  BY <1>2, <1>5 DEF SumOf, amount

\* It stays while no payment is saved.
LEMMA PaidStays ==
  ASSUME IInv, paid' = paid, \A o \in paid : form'[o] = form[o]
  PROVE  \A s \in Students : SumOf(PaidBy(s))' = SumOf(PaidBy(s))
<1> SUFFICES ASSUME NEW s \in Students
             PROVE  SumOf(PaidBy(s))' = SumOf(PaidBy(s))
  OBVIOUS
<1>1. PaidBy(s)' = PaidBy(s)
  BY DEF PaidBy
<1> DEFINE amount == [q \in PaidBy(s) |-> form[q].amount]
<1>2. [q \in PaidBy(s)' |-> form'[q].amount] = amount
  BY <1>1 DEF PaidBy
<1> QED
  BY <1>1, <1>2 DEF SumOf

\* A payment that is saved adds its amount to those of its student.
LEMMA PaidGrows ==
  ASSUME IInv, NEW q \in Requests, pc[q] \in Working, SavePayment(q), form' = form
  PROVE  \A s \in Students : SumOf(PaidBy(s))' =
           IF form[q].kind = "payment" /\ form[q].student = s
           THEN SumOf(PaidBy(s)) + form[q].amount ELSE SumOf(PaidBy(s))
<1> SUFFICES ASSUME NEW s \in Students
             PROVE  SumOf(PaidBy(s))' =
                      IF form[q].kind = "payment" /\ form[q].student = s
                      THEN SumOf(PaidBy(s)) + form[q].amount ELSE SumOf(PaidBy(s))
  OBVIOUS
<1> DEFINE S == PaidBy(s)
<1>1. q \notin paid /\ form[q] \in Forms
  BY DEF IInv, RequestsAreKnown, Working
<1>2. CASE form[q].kind = "payment" /\ form[q].student = s
  <2>1. PaidBy(s)' = S \cup {q} /\ q \notin S
    BY <1>1, <1>2 DEF PaidBy, SavePayment
  <2> DEFINE more == [o \in S \cup {q} |-> form[o].amount]
             less == [o \in S |-> form[o].amount]
  <2>2. SumOf(PaidBy(s))' = SumFunctionOnSet(more, S \cup {q})
    BY <2>1 DEF SumOf
  <2>3. \A o \in S \cup {q} : more[o] \in Int
    BY <1>1, FormType DEF PaidBy, IInv, TypeOK, RequestsAreKnown
  <2>4. IsFiniteSet(S) /\ SumOf(S) \in Int
    BY PaidType
  <2>5. \A o \in S : more[o] = less[o]
    OBVIOUS
  <2>6. more[q] = form[q].amount /\ SumOf(S) = SumFunctionOnSet(less, S)
    BY DEF SumOf
  <2>7. more[q] \in Int
    BY <2>3
  <2> HIDE DEF more, less, S
  <2>8. SumFunctionOnSet(more, S \cup {q}) = more[q] + SumFunctionOnSet(more, S)
    BY <2>1, <2>3, <2>4, SumAdd
  <2>9. SumFunctionOnSet(more, S) = SumFunctionOnSet(less, S)
    BY <2>4, <2>5, SumSame
  <2>10. SumOf(PaidBy(s))' = SumOf(S) + form[q].amount
    BY <2>2, <2>4, <2>6, <2>7, <2>8, <2>9
  <2> QED
    BY <1>2, <2>10 DEF S
<1>3. CASE ~ (form[q].kind = "payment" /\ form[q].student = s)
  <2>1. PaidBy(s)' = S
    BY <1>3 DEF PaidBy, SavePayment
  <2>2. SumOf(PaidBy(s))' = SumOf(S)
    BY <2>1 DEF SumOf
  <2> QED
    BY <1>3, <2>2
<1> QED
  BY <1>2, <1>3

\* A save never credits a student more than was paid, and what was read before
\* stays earned.
LEMMA SaveCredits ==
  ASSUME IInv, NEW q \in Requests, pc[q] \in Working, SavePayment(q), form' = form
  PROVE  /\ \A s \in Students : balance'[s] <= SumOf(PaidBy(s))'
         /\ \A s \in Students : SumOf(PaidBy(s)) <= SumOf(PaidBy(s))'
<1>1. form[q] \in Forms
  BY DEF IInv, RequestsAreKnown, Working
<1>2. form[q].amount \in Nat
  BY <1>1, PaymentsAssumption DEF Form
<1> SUFFICES ASSUME NEW s \in Students
             PROVE  /\ balance'[s] <= SumOf(PaidBy(s))'
                    /\ SumOf(PaidBy(s)) <= SumOf(PaidBy(s))'
  OBVIOUS
<1> DEFINE sum == SumOf(PaidBy(s))
<1>3. sum \in Int /\ balance[s] \in Int /\ balance[s] <= sum /\ balance \in [Students -> Int]
  BY PaidType DEF IInv, TypeOK, NeverOvercredited
<1>4. CASE form[q].kind = "payment" /\ form[q].student = s
  <2>1. sum' = sum + form[q].amount
    BY <1>4, PaidGrows
  <2>2. balance'[s] = seen[q].balance + form[q].amount
    BY <1>3, <1>4 DEF SavePayment
  <2>3. seen[q].balance <= sum /\ seen[q].balance \in Int
    BY <1>4 DEF IInv, TypeOK, ReadsAreEarned
  <2> HIDE DEF sum
  <2>4. balance'[s] <= sum' /\ sum <= sum'
    BY <1>2, <1>3, <2>1, <2>2, <2>3
  <2> QED
    BY <2>4 DEF sum
<1>5. CASE ~ (form[q].kind = "payment" /\ form[q].student = s)
  <2>1. sum' = sum
    BY <1>5, PaidGrows
  <2>2. balance'[s] = balance[s]
    BY <1>3, <1>5 DEF SavePayment
  <2> HIDE DEF sum
  <2>3. balance'[s] <= sum' /\ sum <= sum'
    BY <1>3, <2>1, <2>2
  <2> QED
    BY <2>3 DEF sum
<1> QED
  BY <1>4, <1>5

-----------------------------------------------------------------------------
(* The initial states *)

\* Nothing is saved before the first request.
LEMMA InitHolds ==
  ASSUME Init
  PROVE  IInv
<1>1. TypeOK
  BY DEF Init, TypeOK, NoRows, Empty, Unread, Rows, Resting
<1>2. RequestsAreKnown /\ SavedIsBooked /\ FailureLeavesNothing /\ ReadsAreEarned
  BY DEF Init, RequestsAreKnown, SavedIsBooked, FailureLeavesNothing, ReadsAreEarned, Working
<1>3. NeverOvercredited
  <2>1. \A s \in Students : PaidBy(s) = {} /\ balance[s] = 0
    BY DEF Init, PaidBy
  <2>2. \A s \in Students : SumOf(PaidBy(s)) = 0
    BY <2>1, SumEmpty DEF SumOf
  <2> QED
    BY <2>1, <2>2 DEF NeverOvercredited
<1> QED
  BY <1>1, <1>2, <1>3 DEF IInv

-----------------------------------------------------------------------------
(* Every action preserves the invariant *)

\* A request arrives with a form of the allowed ones.
LEMMA ArriveStep ==
  ASSUME IInv, NEW q \in Requests, NEW f \in Forms,
         LoadStudent(q, f) \/ FlushTransaction(q, f) \/ LoadTransaction(q, f)
         \/ ViewBalance(q, f)
  PROVE  IInv'
<1> USE DEF books
<1>0. /\ pc[q] = "idle" /\ form' = [form EXCEPT ![q] = f]
      /\ UNCHANGED <<limit, finance, books>>
      /\ \E where \in {"student", "flushed"} : pc' = [pc EXCEPT ![q] = where]
      /\ f.kind = "delete" => f.target \in ledger
  BY DEF LoadStudent, FlushTransaction, LoadTransaction, ViewBalance, Arrive, Goto
<1>1. TypeOK'
  <2>1. seen' \in [Requests -> [balance : Int, row : Rows, amount : Int]]
    <3>1. CASE LoadStudent(q, f)
      <4>1. balance[f.student] \in Int
        BY FormType DEF IInv, TypeOK
      <4> QED
        BY <3>1, <4>1 DEF IInv, TypeOK, LoadStudent
    <3>2. CASE ~LoadStudent(q, f)
      BY <3>2 DEF IInv, TypeOK, FlushTransaction, LoadTransaction, ViewBalance
    <3> QED
      BY <3>1, <3>2
  <2> QED
    BY <1>0, <2>1 DEF IInv, TypeOK
<1>2. \A o \in Requests : /\ pc[o] # "idle" => pc'[o] # "idle" /\ form'[o] = form[o]
                          /\ pc'[o] # "idle" => pc[o] # "idle" \/ o = q
  BY <1>0 DEF IInv, TypeOK
<1>3. RequestsAreKnown'
  <2>1. ASSUME NEW o \in Requests, pc'[o] # "idle"
        PROVE  /\ form'[o] \in Forms
               /\ form'[o].kind = "delete" => pc'[form'[o].target] # "idle"
    <3>1. CASE o = q
      <4>1. form'[o] = f
        BY <1>0, <3>1 DEF IInv, TypeOK
      <4>2. f.kind = "delete" => pc[f.target] # "idle"
        BY <1>0 DEF IInv, RequestsAreKnown
      <4> QED
        BY <1>2, <4>1, <4>2, FormType
    <3>2. CASE o # q
      BY <1>2, <2>1, <3>2, FormType DEF IInv, RequestsAreKnown
    <3> QED
      BY <3>1, <3>2
  <2>2. \A o \in paid' \cup ledger' : pc'[o] \in {"saved", "done", "error"}
    <3>1. \A o \in paid \cup ledger : o # q /\ pc'[o] = pc[o]
      BY <1>0 DEF IInv, TypeOK, RequestsAreKnown
    <3> QED
      BY <1>0, <3>1 DEF IInv, RequestsAreKnown
  <2> QED
    BY <2>1, <2>2 DEF RequestsAreKnown
<1>4. SavedIsBooked' /\ FailureLeavesNothing'
  <2>1. SavedIsBooked'
    BY <1>0, <1>2 DEF IInv, TypeOK, SavedIsBooked
  <2>2. q \notin paid \cup ledger /\ pc'[q] \in {"student", "flushed"}
        /\ \A o \in Requests : o # q => pc'[o] = pc[o] /\ form'[o] = form[o]
    BY <1>0 DEF IInv, TypeOK, RequestsAreKnown
  <2>3. FailureLeavesNothing'
    BY <1>0, <2>2 DEF IInv, FailureLeavesNothing
  <2> QED
    BY <2>1, <2>3
<1>5. \A s \in Students : SumOf(PaidBy(s))' = SumOf(PaidBy(s))
  <2>1. paid' = paid /\ \A o \in paid : form'[o] = form[o]
    BY <1>0, <1>2 DEF IInv, TypeOK, RequestsAreKnown
  <2> QED
    BY <2>1, PaidStays
<1>6. NeverOvercredited'
  BY <1>0, <1>5 DEF IInv, NeverOvercredited
<1>7. ReadsAreEarned'
  <2> SUFFICES ASSUME NEW o \in Requests, NEW s \in Students, pc'[o] \in Working,
                      form'[o].kind = "payment", form'[o].student = s
               PROVE  seen'[o].balance <= SumOf(PaidBy(s))'
    BY DEF ReadsAreEarned
  <2>1. CASE o # q
    <3>1. pc[o] = pc'[o] /\ form'[o] = form[o] /\ seen'[o] = seen[o]
      BY <1>0, <2>1 DEF IInv, TypeOK, LoadStudent, FlushTransaction, LoadTransaction, ViewBalance
    <3> QED
      BY <1>5, <3>1 DEF IInv, ReadsAreEarned
  <2>2. CASE o = q
    <3>1. form'[q] = f
      BY <1>0 DEF IInv, TypeOK
    <3>2. LoadStudent(q, f)
      BY <2>2, <3>1 DEF FlushTransaction, LoadTransaction, ViewBalance
    <3>3. seen'[q].balance = balance[f.student]
      BY <3>2 DEF LoadStudent, IInv, TypeOK
    <3> QED
      BY <1>5, <2>2, <3>1, <3>3 DEF IInv, NeverOvercredited
  <2> QED
    BY <2>1, <2>2
<1> QED
  BY <1>1, <1>3, <1>4, <1>6, <1>7 DEF IInv

\* What a step of a request under way leaves of the requests: their forms, and
\* what is done.
LEMMA UnderWay ==
  ASSUME IInv, NEW q \in Requests, pc[q] \notin {"idle", "done"}, form' = form,
         NEW where, where # "idle", pc' = [pc EXCEPT ![q] = where]
  PROVE  /\ \A o \in Requests : pc'[o] = "idle" <=> pc[o] = "idle"
         /\ \A o \in Requests : pc[o] = "done" => pc'[o] = "done"
         /\ \A o \in Requests : pc'[o] # "idle" =>
              /\ form'[o] \in Forms
              /\ form'[o].kind = "delete" => pc'[form'[o].target] # "idle"
<1>1. \A o \in Requests : pc'[o] = IF o = q THEN where ELSE pc[o]
  BY DEF IInv, TypeOK
<1>2. \A o \in Requests : (pc'[o] = "idle" <=> pc[o] = "idle")
                          /\ (pc[o] = "done" => pc'[o] = "done")
  BY <1>1
<1> QED
  BY <1>2, FormType DEF IInv, RequestsAreKnown

\* A look at the cash box leaves what was read of a student.
LEMMA ReadKassaReads ==
  ASSUME IInv, NEW q \in Requests, ReadKassa(q)
  PROVE  \A o \in Requests : /\ seen'[o].balance = seen[o].balance
                             /\ o # q => seen'[o] = seen[o]
<1>1. seen' = seen \/ \E r, a : seen' = [seen EXCEPT ![q].row = r, ![q].amount = a]
  BY DEF ReadKassa
<1>2. ASSUME NEW r, NEW a, seen' = [seen EXCEPT ![q].row = r, ![q].amount = a]
      PROVE  /\ seen'[q] = [seen[q] EXCEPT !.row = r, !.amount = a]
             /\ \A o \in Requests : o # q => seen'[o] = seen[o]
  BY <1>2 DEF IInv, TypeOK
<1>3. ASSUME NEW r, NEW a, seen' = [seen EXCEPT ![q].row = r, ![q].amount = a]
      PROVE  seen'[q].balance = seen[q].balance
  <2>1. seen[q] \in [balance : Int, row : Rows, amount : Int]
    BY DEF IInv, TypeOK
  <2> DEFINE new == [seen[q] EXCEPT !.row = r, !.amount = a]
  <2>2. new.balance = seen[q].balance
    BY <2>1
  <2>3. seen'[q] = new
    BY <1>2, <1>3
  <2> HIDE DEF new
  <2> QED
    BY <2>2, <2>3
<1>4. CASE seen' = seen
  BY <1>4
<1>5. ASSUME NEW r, NEW a, seen' = [seen EXCEPT ![q].row = r, ![q].amount = a]
      PROVE  \A o \in Requests : /\ seen'[o].balance = seen[o].balance
                                 /\ o # q => seen'[o] = seen[o]
  BY <1>2, <1>3, <1>5
<1> QED
  BY <1>1, <1>4, <1>5

\* A step that saves nothing.
LEMMA UnsavedStep ==
  ASSUME IInv, NEW q \in Requests,
         FlushPayment(q) \/ FlushFails(q) \/ ReadKassa(q) \/ Notify(q) \/ Rollback(q)
  PROVE  IInv'
<1> USE DEF books
<1>0. /\ pc[q] \notin {"idle", "done"} /\ form' = form
      /\ UNCHANGED <<limit, finance, books>>
      /\ \E where \in {"flushed", "unbooked", "kassa", "swallowed", "failed", "done", "error"} :
           pc' = [pc EXCEPT ![q] = where]
  BY DEF FlushPayment, FlushFails, ReadKassa, Notify, Rollback, Goto
<1>a. /\ \A o \in Requests : pc'[o] = "idle" <=> pc[o] = "idle"
      /\ \A o \in Requests : pc[o] = "done" => pc'[o] = "done"
      /\ \A o \in Requests : pc'[o] # "idle" =>
           /\ form'[o] \in Forms
           /\ form'[o].kind = "delete" => pc'[form'[o].target] # "idle"
  BY <1>0, UnderWay
<1>1. TypeOK'
  <2>1. seen' \in [Requests -> [balance : Int, row : Rows, amount : Int]]
    <3>1. CASE ReadKassa(q)
      <4>1. CASE UNCHANGED seen
        BY <4>1 DEF IInv, TypeOK
      <4>2. ASSUME NEW r \in Rows, NEW a \in Int,
                   seen' = [seen EXCEPT ![q].row = r, ![q].amount = a]
            PROVE  seen' \in [Requests -> [balance : Int, row : Rows, amount : Int]]
        <5>1. seen' = [seen EXCEPT ![q] = [seen[q] EXCEPT !.row = r, !.amount = a]]
          BY <4>2 DEF IInv, TypeOK
        <5>2. [seen[q] EXCEPT !.row = r, !.amount = a]
                \in [balance : Int, row : Rows, amount : Int]
          BY DEF IInv, TypeOK
        <5> QED
          BY <5>1, <5>2 DEF IInv, TypeOK
      <4>3. ASSUME NEW r \in DOMAIN kassa
            PROVE  r \in Rows /\ kassa[r][Method(q)] \in Int
        <5>1. Method(q) \in Methods
          BY <1>0, MethodType
        <5> QED
          BY <5>1 DEF IInv, TypeOK
      <4>4. q \in Rows /\ 0 \in Int
        BY DEF Rows
      <4> QED
        BY <3>1, <4>1, <4>2, <4>3, <4>4 DEF ReadKassa
    <3>2. CASE ~ReadKassa(q)
      BY <3>2 DEF IInv, TypeOK, FlushPayment, FlushFails, Notify, Rollback
    <3> QED
      BY <3>1, <3>2
  <2> QED
    BY <1>0, <2>1 DEF IInv, TypeOK, Resting
<1>2. RequestsAreKnown'
  <2>1. \A o \in paid \cup ledger : pc'[o] \in {"saved", "done", "error"}
    BY <1>0 DEF IInv, TypeOK, RequestsAreKnown, FlushPayment, FlushFails, ReadKassa, Notify,
                Rollback, Goto
  <2> QED
    BY <1>0, <1>a, <2>1 DEF RequestsAreKnown
<1>3. SavedIsBooked' /\ FailureLeavesNothing'
  <2>1. SavedIsBooked'
    BY <1>0, <1>a DEF IInv, TypeOK, SavedIsBooked
  <2>2. pc[q] \in {"saved", "done", "error"} <=> pc'[q] \in {"saved", "done", "error"}
    BY <1>0 DEF IInv, TypeOK, FlushPayment, FlushFails, ReadKassa, Notify, Rollback, Goto
  <2>3. \A o \in Requests :
          pc[o] \in {"saved", "done", "error"} <=> pc'[o] \in {"saved", "done", "error"}
    BY <1>0, <2>2 DEF IInv, TypeOK
  <2>4. FailureLeavesNothing'
    BY <1>0, <1>a, <2>3 DEF IInv, FailureLeavesNothing
  <2> QED
    BY <2>1, <2>4
<1>4. \A s \in Students : SumOf(PaidBy(s))' = SumOf(PaidBy(s))
  BY <1>0, PaidStays
<1>5. NeverOvercredited'
  BY <1>0, <1>4 DEF IInv, NeverOvercredited
<1>6. ReadsAreEarned'
  <2> SUFFICES ASSUME NEW o \in Requests, NEW s \in Students, pc'[o] \in Working,
                      form'[o].kind = "payment", form'[o].student = s
               PROVE  seen'[o].balance <= SumOf(PaidBy(s))'
    BY DEF ReadsAreEarned
  <2>1. pc[o] \in Working
    BY DEF IInv, TypeOK, Working, FlushPayment, FlushFails, ReadKassa, Notify, Rollback, Goto
  <2>2. seen'[o].balance = seen[o].balance
    <3>1. CASE ReadKassa(q)
      BY <3>1, ReadKassaReads
    <3>2. CASE ~ReadKassa(q)
      BY <3>2 DEF FlushPayment, FlushFails, Notify, Rollback
    <3> QED
      BY <3>1, <3>2
  <2> QED
    BY <1>0, <1>4, <2>1, <2>2 DEF IInv, ReadsAreEarned
<1> QED
  BY <1>1, <1>2, <1>3, <1>5, <1>6 DEF IInv

\* A commit that saves a payment credits its student what was read and paid.
LEMMA CreditStep ==
  ASSUME IInv, NEW q \in Requests, pc[q] \in Working, SavePayment(q), form' = form, seen' = seen,
         NEW where, where \notin Working, pc' = [pc EXCEPT ![q] = where]
  PROVE  NeverOvercredited' /\ ReadsAreEarned'
<1>1. NeverOvercredited'
  BY SaveCredits DEF NeverOvercredited
<1>2. ASSUME NEW o \in Requests, NEW s \in Students, pc'[o] \in Working,
             form'[o].kind = "payment", form'[o].student = s
      PROVE  seen'[o].balance <= SumOf(PaidBy(s))'
  <2>1. pc[o] \in Working
    BY <1>2 DEF IInv, TypeOK
  <2> DEFINE sum == SumOf(PaidBy(s))
  <2>2. /\ seen[o].balance <= sum /\ seen[o].balance \in Int /\ sum \in Int /\ sum <= sum'
    BY <1>2, <2>1, SaveCredits, PaidType DEF IInv, TypeOK, ReadsAreEarned
  <2>3. sum' \in Int
    <3>1. form[q].amount \in Int
      BY FormType DEF IInv, RequestsAreKnown, Working
    <3>2. sum' = sum + form[q].amount \/ sum' = sum
      BY PaidGrows
    <3> HIDE DEF sum
    <3> QED
      BY <2>2, <3>1, <3>2
  <2> HIDE DEF sum
  <2>4. seen'[o].balance <= sum'
    BY <2>2, <2>3
  <2> QED
    BY <2>4 DEF sum
<1> QED
  BY <1>1, <1>2 DEF ReadsAreEarned

\* A commit of the books: a payment and its transaction are saved together, a
\* deletion takes a transaction away and is done.
LEMMA CommitBooksStep ==
  ASSUME IInv, NEW q \in Requests, CommitBooks(q)
  PROVE  IInv'
<1>0. /\ pc[q] \notin {"idle", "done"} /\ form' = form /\ UNCHANGED <<limit, finance>> /\ seen' = seen
      /\ SavePayment(q) /\ ledger' = LedgerAfter(q) /\ kassa' = KassaAfter(q)
      /\ pc' = [pc EXCEPT ![q] = IF form[q].kind = "payment" THEN "saved" ELSE "done"]
  BY DEF CommitBooks, Goto
<1>a. /\ \A o \in Requests : pc'[o] = "idle" <=> pc[o] = "idle"
      /\ \A o \in Requests : pc[o] = "done" => pc'[o] = "done"
      /\ \A o \in Requests : pc'[o] # "idle" =>
           /\ form'[o] \in Forms
           /\ form'[o].kind = "delete" => pc'[form'[o].target] # "idle"
  BY <1>0, UnderWay
<1>b. /\ balance' \in [Students -> Int]
      /\ paid \subseteq paid' /\ paid' \subseteq paid \cup {q}
      /\ form[q].kind # "payment" => paid' = paid
  BY <1>0, SaveType
<1>c. /\ ledger' \subseteq ledger \cup {q}
      /\ form[q].kind # "delete" => ledger \subseteq ledger'
      /\ form[q].kind = "delete" => ledger' = ledger \ {form[q].target}
      /\ form[q].kind = "payment" => q \in ledger'
  BY <1>0 DEF LedgerAfter
<1>1. TypeOK'
  <2>1. /\ DOMAIN kassa' \subseteq Rows
        /\ \A r \in DOMAIN kassa' : kassa'[r] \in [Methods -> Int]
    BY <1>0, KassaType
  <2>2. pc' \in [Requests -> {"student", "flushed", "kassa", "swallowed", "saved"} \cup Resting]
    BY <1>0 DEF IInv, TypeOK, Resting
  <2> QED
    BY <1>0, <1>b, <1>c, <2>1, <2>2 DEF IInv, TypeOK
<1>2. RequestsAreKnown'
  BY <1>0, <1>a, <1>b, <1>c DEF IInv, TypeOK, RequestsAreKnown
<1>3. SavedIsBooked'
  <2>1. ASSUME NEW o \in paid', o \notin ledger'
        PROVE  \E d \in Requests :
                 pc'[d] = "done" /\ form'[d].kind = "delete" /\ form'[d].target = o
    <3>1. o \in paid
      BY <1>b, <1>c, <2>1
    <3>2. CASE o \in ledger
      <4>1. form[q].kind = "delete" /\ form[q].target = o
        BY <1>c, <2>1, <3>2
      <4>2. pc'[q] = "done"
        BY <1>0, <4>1 DEF IInv, TypeOK
      <4> QED
        BY <1>0, <4>1, <4>2
    <3>3. CASE o \notin ledger
      BY <1>0, <1>a, <3>1, <3>3 DEF IInv, SavedIsBooked
    <3> QED
      BY <3>2, <3>3
  <2> QED
    BY <2>1 DEF SavedIsBooked
<1>d. FailureLeavesNothing'
  <2>1. \A o \in Requests : o # q =>
          /\ pc'[o] = pc[o] /\ (o \in paid' <=> o \in paid) /\ (o \in ledger' => o \in ledger)
    BY <1>0, <1>b, <1>c DEF IInv, TypeOK
  <2>2. /\ pc'[q] \in {"saved", "done"}
        /\ form[q].kind = "payment" => q \in paid'
    BY <1>0 DEF IInv, TypeOK, SavePayment
  <2> QED
    BY <1>0, <1>a, <2>1, <2>2 DEF IInv, FailureLeavesNothing
<1>4. NeverOvercredited' /\ ReadsAreEarned'
  BY <1>0, CreditStep DEF CommitBooks, Working
<1> QED
  BY <1>1, <1>2, <1>3, <1>4, <1>d DEF IInv

\* The commit after a swallowed exception saves the payment and the
\* transaction, too.
LEMMA CommitSwallowedStep ==
  ASSUME IInv, NEW q \in Requests, CommitSwallowed(q)
  PROVE  IInv'
<1>0. /\ pc[q] \notin {"idle", "done"} /\ form' = form /\ UNCHANGED <<limit, finance>> /\ seen' = seen
      /\ SavePayment(q) /\ ledger' = ledger \cup {q} /\ kassa' = kassa
      /\ pc' = [pc EXCEPT ![q] = "done"]
  BY DEF CommitSwallowed, Goto
<1>a. /\ \A o \in Requests : pc'[o] = "idle" <=> pc[o] = "idle"
      /\ \A o \in Requests : pc[o] = "done" => pc'[o] = "done"
      /\ \A o \in Requests : pc'[o] # "idle" =>
           /\ form'[o] \in Forms
           /\ form'[o].kind = "delete" => pc'[form'[o].target] # "idle"
  BY <1>0, UnderWay
<1>b. /\ balance' \in [Students -> Int]
      /\ paid \subseteq paid' /\ paid' \subseteq paid \cup {q}
  BY <1>0, SaveType
<1>1. TypeOK'
  BY <1>0, <1>b DEF IInv, TypeOK, Resting
<1>2. RequestsAreKnown'
  BY <1>0, <1>a, <1>b DEF IInv, TypeOK, RequestsAreKnown
<1>3. SavedIsBooked'
  BY <1>0, <1>a, <1>b DEF IInv, SavedIsBooked
<1>d. FailureLeavesNothing'
  <2>1. \A o \in Requests : o # q =>
          /\ pc'[o] = pc[o] /\ (o \in paid' <=> o \in paid) /\ (o \in ledger' => o \in ledger)
    BY <1>0, <1>b DEF IInv, TypeOK
  <2>2. /\ pc'[q] \in {"saved", "done"}
        /\ form[q].kind = "payment" => q \in paid'
    BY <1>0 DEF IInv, TypeOK, SavePayment
  <2> QED
    BY <1>0, <1>a, <2>1, <2>2 DEF IInv, FailureLeavesNothing
<1>4. NeverOvercredited' /\ ReadsAreEarned'
  BY <1>0, CreditStep DEF CommitSwallowed, Working
<1> QED
  BY <1>1, <1>2, <1>3, <1>4, <1>d DEF IInv

\* Nothing happens.
LEMMA StutterStep ==
  ASSUME IInv, UNCHANGED vars
  PROVE  IInv'
BY DEF IInv, TypeOK, RequestsAreKnown, SavedIsBooked, FailureLeavesNothing,
       NeverOvercredited, ReadsAreEarned, SumOf, PaidBy, Sign, vars, books

-----------------------------------------------------------------------------
(* The theorems *)

\* The inductive invariant of the books holds for any number of students and of
\* requests at once (services/payment.py, services/finance.py).
THEOREM BooksInvariant == Spec => []IInv
<1>1. Init => IInv
  BY InitHolds
<1>2. IInv /\ [Next]_vars => IInv'
  <2> SUFFICES ASSUME IInv, [Next]_vars
               PROVE  IInv'
    OBVIOUS
  <2>1. ASSUME NEW q \in Requests, NEW f \in Forms,
               LoadStudent(q, f) \/ FlushTransaction(q, f) \/ LoadTransaction(q, f)
               \/ ViewBalance(q, f)
        PROVE  IInv'
    BY <2>1, ArriveStep
  <2>2. ASSUME NEW q \in Requests,
               FlushPayment(q) \/ FlushFails(q) \/ ReadKassa(q) \/ Notify(q) \/ Rollback(q)
        PROVE  IInv'
    BY <2>2, UnsavedStep
  <2>3. ASSUME NEW q \in Requests, CommitBooks(q) \/ CommitSwallowed(q)
        PROVE  IInv'
    BY <2>3, CommitBooksStep, CommitSwallowedStep
  <2>4. CASE UNCHANGED vars
    BY <2>4, StutterStep
  <2> QED
    BY <2>1, <2>2, <2>3, <2>4 DEF Next
<1> QED
  BY <1>1, <1>2, PTL DEF Spec

\* Balances, ledger and cash box keep their shape, whatever fails.
THEOREM BooksTyping == Spec => []TypeOK
<1>1. IInv => TypeOK
  BY DEF IInv
<1> QED
  BY <1>1, BooksInvariant, PTL

\* A saved payment is in the ledger until a request has deleted its
\* transaction, although create_manual (services/payment.py) swallows what goes
\* wrong in the cash box, and one that failed has left neither.
THEOREM PaymentsAreBooked == Spec => []PaymentIsBooked
<1>1. IInv => PaymentIsBooked
  BY DEF IInv, PaymentIsBooked
<1> QED
  BY <1>1, BooksInvariant, PTL

\* However payments interleave, fail and roll back, no student is credited more
\* than the saved payments add up to: the balance a payment is computed from was
\* once in the row, and payments only ever add to it.
THEOREM NobodyIsOvercredited == Spec => []NeverOvercredited
<1>1. IInv => NeverOvercredited
  BY DEF IInv
<1> QED
  BY <1>1, BooksInvariant, PTL

-----------------------------------------------------------------------------
(* One request at a time *)

\* What the ledger says of a method is made of whole amounts.
LEMMA BookedType ==
  ASSUME IInv
  PROVE  /\ IsFiniteSet(ledger)
         /\ \A q \in ledger : Sign(q) * form[q].amount \in Int /\ form[q].method \in Methods
<1>1. ledger \subseteq Requests /\ \A q \in ledger : form[q] \in Forms
  BY DEF IInv, TypeOK, RequestsAreKnown
<1>2. IsFiniteSet(ledger)
  BY <1>1, FS_Subset, PaymentsAssumption
<1> QED
  BY <1>1, <1>2, SignedAmount, FormType

\* It stays while the ledger does.
LEMMA BookedStays ==
  ASSUME IInv, ledger' = ledger, \A o \in ledger : form'[o] = form[o], NEW m \in Methods
  PROVE  Booked(m)' = Booked(m)
<1>1. BookedIn(m)' = BookedIn(m)
  BY DEF BookedIn
<1>2. \A q \in BookedIn(m) : Sign(q)' = Sign(q) /\ form'[q].amount = form[q].amount
  BY DEF BookedIn, Sign
<1>3. [q \in BookedIn(m)' |-> Sign(q)' * form'[q].amount]
        = [q \in BookedIn(m) |-> Sign(q) * form[q].amount]
  BY <1>1, <1>2
<1> QED
  BY <1>1, <1>3 DEF Booked

\* A transaction that comes adds to its method, one that goes takes from it.
LEMMA BookedMoves ==
  ASSUME IInv, NEW q \in Requests, form' = form, q \notin ledger, form[q] \in Forms,
         form[q].kind # "view", ledger' = LedgerAfter(q),
         form[q].kind = "delete" => form[q].target \in ledger,
         NEW m \in Methods
  PROVE  Booked(m)' = IF m = Method(q) THEN Booked(m) + Effect(q) ELSE Booked(m)
<1> DEFINE t == IF form[q].kind = "delete" THEN form[q].target ELSE q
           With == ledger \cup {t}
           Without == With \ {t}
           All(S) == {o \in S : form[o].method = m}
           amount == [o \in With |-> Sign(o) * form[o].amount]
           Sum(S) == SumFunctionOnSet(amount, All(S))
<1>1. /\ IsFiniteSet(ledger)
      /\ \A o \in With : amount[o] \in Int
      /\ form[t] \in Forms
  BY BookedType, SignedAmount DEF IInv, TypeOK, RequestsAreKnown
<1>2. ASSUME NEW S \in SUBSET With
      PROVE  /\ IsFiniteSet(All(S)) /\ All(S) \subseteq With
             /\ SumFunctionOnSet([o \in All(S) |-> Sign(o) * form[o].amount], All(S)) = Sum(S)
             /\ Sum(S) \in Int
  <2>1. IsFiniteSet(All(S)) /\ All(S) \subseteq With
    BY <1>1, FS_AddElement, FS_Subset
  <2> DEFINE part == [o \in All(S) |-> Sign(o) * form[o].amount]
  <2>2. \A o \in All(S) : part[o] = amount[o] /\ amount[o] \in Int
    BY <1>1, <2>1
  <2> HIDE DEF part, amount, All
  <2>3. SumFunctionOnSet(part, All(S)) = SumFunctionOnSet(amount, All(S))
    BY <2>1, <2>2, SumSame
  <2>4. SumFunctionOnSet(amount, All(S)) \in Int
    BY <2>1, <2>2, SumType
  <2> QED
    BY <2>1, <2>3, <2>4 DEF part
<1>3. Booked(m) = Sum(ledger)
  BY <1>2 DEF Booked, BookedIn
<1>4. Booked(m)' = Sum(ledger')
  <2>1. ledger' \subseteq With
    BY DEF LedgerAfter
  <2>2. Booked(m)' = SumFunctionOnSet([o \in All(ledger') |-> Sign(o) * form[o].amount], All(ledger'))
    BY DEF Booked, BookedIn, Sign
  <2> QED
    BY <1>2, <2>1, <2>2
<1>5. Sum(With) = IF m = form[t].method THEN amount[t] + Sum(Without) ELSE Sum(Without)
  <2>1. CASE m = form[t].method
    <3>1. t \in All(With) /\ All(Without) = All(With) \ {t}
      BY <2>1
    <3>2. IsFiniteSet(All(With)) /\ \A o \in All(With) : amount[o] \in Int
      BY <1>1, <1>2
    <3>3. SumFunctionOnSet(amount, All(With))
            = amount[t] + SumFunctionOnSet(amount, All(With) \ {t})
      <4> DEFINE whole == All(With)
      <4>1. t \in whole /\ IsFiniteSet(whole) /\ \A o \in whole : amount[o] \in Int
        BY <3>1, <3>2
      <4> HIDE DEF whole, amount, t
      <4>2. SumFunctionOnSet(amount, whole) = amount[t] + SumFunctionOnSet(amount, whole \ {t})
        BY <4>1, SumRemove
      <4> QED
        BY <4>2 DEF whole
    <3> HIDE DEF amount, All
    <3> QED
      BY <2>1, <3>1, <3>3
  <2>2. CASE m # form[t].method
    <3>1. All(Without) = All(With)
      BY <2>2
    <3> QED
      BY <2>2, <3>1
  <2> QED
    BY <2>1, <2>2
<1>6. Sum(With) \in Int /\ Sum(Without) \in Int /\ amount[t] \in Int
  BY <1>1, <1>2
<1>7. Method(q) = form[t].method
  BY DEF Method
<1>8. CASE form[q].kind = "delete"
  <2>1. ledger = With /\ ledger' = Without
    BY <1>8 DEF LedgerAfter
  <2>2. Effect(q) = - amount[t]
    BY <1>1, <1>8, SignedAmount DEF Effect, Sign
  <2> HIDE DEF Sum, amount, t, With, Without
  <2> QED
    BY <1>3, <1>4, <1>5, <1>6, <1>7, <2>1, <2>2
<1>9. CASE form[q].kind # "delete"
  <2>1. ledger' = With /\ ledger = Without
    BY <1>9 DEF LedgerAfter
  <2>2. Effect(q) = amount[t]
    BY <1>9 DEF Effect
  <2> HIDE DEF Sum, amount, t, With, Without
  <2> QED
    BY <1>3, <1>4, <1>5, <1>6, <1>7, <2>1, <2>2
<1> QED
  BY <1>8, <1>9

\* One row is the whole cash box.
LEMMA OneRow ==
  ASSUME NEW box, NEW r, NEW m, DOMAIN box = {r}, box[r][m] \in Int
  PROVE  SumFunctionOnSet([k \in DOMAIN box |-> box[k][m]], DOMAIN box) = box[r][m]
<1> DEFINE held == [k \in {r} |-> box[k][m]]
<1>1. held[r] = box[r][m] /\ \A k \in {r} : held[k] \in Int
  OBVIOUS
<1> HIDE DEF held
<1>2. SumFunctionOnSet(held, {r}) = held[r] + SumFunctionOnSet(held, {r} \ {r})
  BY <1>1, FS_Singleton, SumRemove
<1>3. SumFunctionOnSet(held, {r} \ {r}) = 0
  BY SumEmpty
<1>4. SumFunctionOnSet(held, {r}) = box[r][m]
  BY <1>1, <1>2, <1>3
<1> QED
  BY <1>4 DEF held


\* A commit moves the cash box by the effect of its request.
LEMMA KassaMoves ==
  ASSUME IInv, OneAtATime, ReadsAreCurrent, NEW q \in Requests, pc[q] = "kassa",
         kassa' = KassaAfter(q), NEW m \in Methods
  PROVE  /\ \A r, k \in DOMAIN kassa' : r = k
         /\ InKassa(m)' = IF form[q].kind # "view" /\ m = Method(q)
                          THEN InKassa(m) + Effect(q) ELSE InKassa(m)
         /\ InKassa(m) \in Int
<1> DEFINE r   == seen[q].row
           old == IF r \in DOMAIN kassa THEN kassa[r] ELSE Empty
           new == IF form[q].kind = "view" THEN old
                  ELSE [old EXCEPT ![Method(q)] = seen[q].amount + Effect(q)]
<1>1. \/ DOMAIN kassa = {} /\ r = q /\ seen[q].amount = 0
      \/ DOMAIN kassa = {r} /\ seen[q].amount = kassa[r][Method(q)]
  BY DEF OneAtATime, ReadsAreCurrent
<1>2. old \in [Methods -> Int] /\ Method(q) \in Methods /\ Effect(q) \in Int
  BY MethodType, EffectType DEF IInv, TypeOK, Empty
<1>3. seen[q].amount = old[Method(q)]
  BY <1>1, <1>2 DEF Empty
<1>4. DOMAIN kassa' = {r} /\ kassa'[r] = new
  <2>1. kassa' = [k \in DOMAIN kassa \cup {r} |-> IF k = r THEN new ELSE kassa[k]]
    BY DEF KassaAfter
  <2> HIDE DEF new, r
  <2>2. DOMAIN kassa \cup {r} = {r}
    BY <1>1
  <2> QED
    BY <2>1, <2>2
<1>5. InKassa(m) = old[m]
  <2>1. CASE DOMAIN kassa = {}
    <3>1. InKassa(m) = 0
      BY <2>1, SumEmpty DEF InKassa
    <3> QED
      BY <2>1, <3>1 DEF Empty
  <2>2. CASE DOMAIN kassa = {r}
    <3>1. kassa[r][m] = old[m] /\ kassa[r][m] \in Int
      BY <1>2, <2>2
    <3> HIDE DEF r, old
    <3>2. InKassa(m) = kassa[r][m]
      BY <2>2, <3>1, OneRow DEF InKassa
    <3> QED
      BY <3>1, <3>2
  <2> QED
    BY <1>1, <2>1, <2>2
<1>6. /\ new[m] \in Int
      /\ new[m] = IF form[q].kind # "view" /\ m = Method(q) THEN old[m] + Effect(q) ELSE old[m]
  <2> HIDE DEF old
  <2> QED
    BY <1>2, <1>3
<1>7. InKassa(m)' = new[m]
  <2> HIDE DEF new, r
  <2> QED
    BY <1>4, <1>6, OneRow DEF InKassa
<1> QED
  BY <1>2, <1>4, <1>5, <1>6, <1>7

\* Nothing is under way when a request arrives.
LEMMA ArrivesAlone ==
  ASSUME IInv, limit = 1, NEW q \in Requests, NEW f \in Forms, Arrive(q, f)
  PROVE  \A o \in Requests : ~Open(o)
<1> DEFINE S == {o \in Requests : Open(o)}
<1>1. IsFiniteSet(S)
  BY FS_Subset, PaymentsAssumption
<1>2. Cardinality(S) = 0
  <2>1. Cardinality(S) < 1
    BY DEF Arrive
  <2>2. Cardinality(S) \in Nat
    BY <1>1, FS_CardinalityType
  <2> HIDE DEF S
  <2> QED
    BY <2>1, <2>2
<1> QED
  BY <1>1, <1>2, FS_EmptySet

\* It reads the balance as it is, and finds the transaction it deletes.
LEMMA SerialArrive ==
  ASSUME IInv, SerialInv, limit = 1, NEW q \in Requests, NEW f \in Forms,
         LoadStudent(q, f) \/ FlushTransaction(q, f) \/ LoadTransaction(q, f)
         \/ ViewBalance(q, f)
  PROVE  SerialInv'
<1> USE DEF books
<1>0. /\ pc[q] = "idle" /\ form' = [form EXCEPT ![q] = f]
      /\ UNCHANGED <<limit, finance, books>>
      /\ \E where \in {"student", "flushed"} : pc' = [pc EXCEPT ![q] = where]
  BY DEF LoadStudent, FlushTransaction, LoadTransaction, ViewBalance, Arrive, Goto
<1>1. \A o \in Requests : ~Open(o)
  BY ArrivesAlone DEF LoadStudent, FlushTransaction, LoadTransaction, ViewBalance
<1>2. /\ \A o \in Requests : o # q => pc'[o] = pc[o] /\ pc[o] \in Resting
      /\ pc'[q] \in {"student", "flushed"}
  BY <1>0, <1>1 DEF Open, IInv, TypeOK
<1>3. OneAtATime'
  BY <1>0, <1>2 DEF SerialInv, OneAtATime, Open, Resting
<1>4. ReadsAreCurrent'
  <2>1. form'[q] = f
    BY <1>0 DEF IInv, TypeOK
  <2>2. f.kind = "payment" => seen'[q].balance = balance[f.student]
    <3>1. CASE LoadStudent(q, f)
      BY <3>1 DEF LoadStudent, IInv, TypeOK
    <3>2. CASE ~LoadStudent(q, f)
      BY <3>2 DEF FlushTransaction, LoadTransaction, ViewBalance
    <3> QED
      BY <3>1, <3>2
  <2>3. f.kind = "delete" => f.target \in ledger
    BY DEF LoadStudent, FlushTransaction, LoadTransaction, ViewBalance
  <2>4. pc'[q] = "student" => f.kind = "payment"
    BY DEF LoadStudent, FlushTransaction, LoadTransaction, ViewBalance, Goto, IInv, TypeOK
  <2>5. \A o \in Requests : o # q => pc'[o] \notin Working
    BY <1>2 DEF Working, Resting
  <2>6. balance' = balance /\ ledger' = ledger
    BY <1>0
  <2> QED
    BY <1>2, <2>1, <2>2, <2>3, <2>4, <2>5, <2>6 DEF ReadsAreCurrent, Working
<1>5. SerialBooksAgree'
  <2>1. \A o \in paid \cup ledger : form'[o] = form[o]
    BY <1>0 DEF IInv, TypeOK, RequestsAreKnown
  <2>2. \A s \in Students : SumOf(PaidBy(s))' = SumOf(PaidBy(s))
    BY <1>0, <2>1, PaidStays
  <2>3. \A m \in Methods : Booked(m)' = Booked(m) /\ InKassa(m)' = InKassa(m)
    BY <1>0, <2>1, BookedStays DEF InKassa
  <2> QED
    BY <1>0, <2>2, <2>3 DEF SerialInv, SerialBooksAgree
<1> QED
  BY <1>3, <1>4, <1>5 DEF SerialInv

\* It finds one row in the cash box, or none.
LEMMA ReadKassaFinds ==
  ASSUME IInv, OneAtATime, NEW q \in Requests, ReadKassa(q)
  PROVE  /\ pc' = [pc EXCEPT ![q] = "kassa"]
         /\ \/ DOMAIN kassa = {} /\ seen'[q].row = q /\ seen'[q].amount = 0
            \/ seen'[q].row \in DOMAIN kassa /\ seen'[q].amount = kassa[seen'[q].row][Method(q)]
<1>1. ASSUME NEW r, NEW a, seen' = [seen EXCEPT ![q].row = r, ![q].amount = a]
      PROVE  seen'[q].row = r /\ seen'[q].amount = a
  <2> DEFINE new == [seen[q] EXCEPT !.row = r, !.amount = a]
  <2>1. seen[q] \in [balance : Int, row : Rows, amount : Int]
    BY DEF IInv, TypeOK
  <2>2. new.row = r /\ new.amount = a
    BY <2>1
  <2>3. seen'[q] = new
    BY <1>1 DEF IInv, TypeOK
  <2> HIDE DEF new
  <2> QED
    BY <2>2, <2>3
<1>2. CASE DOMAIN kassa = {}
  <2>1. seen' = [seen EXCEPT ![q].row = q, ![q].amount = 0] /\ Goto(q, "kassa")
    BY <1>2 DEF ReadKassa
  <2> QED
    BY <1>1, <1>2, <2>1 DEF Goto
<1>3. ASSUME NEW k \in DOMAIN kassa
      PROVE  /\ Goto(q, "kassa")
             /\ seen' = [seen EXCEPT ![q].row = k, ![q].amount = kassa[k][Method(q)]]
  <2>1. DOMAIN kassa = {k}
    BY DEF OneAtATime
  <2>2. Cardinality(DOMAIN kassa) = 1
    BY <2>1, FS_Singleton
  <2>3. /\ Goto(q, "kassa")
        /\ \E r \in DOMAIN kassa :
             seen' = [seen EXCEPT ![q].row = r, ![q].amount = kassa[r][Method(q)]]
    BY <2>2 DEF ReadKassa
  <2> QED
    BY <2>1, <2>3
<1>4. CASE DOMAIN kassa # {}
  <2>1. PICK k \in DOMAIN kassa : TRUE
    BY <1>4
  <2>2. seen'[q].row = k /\ seen'[q].amount = kassa[k][Method(q)] /\ Goto(q, "kassa")
    BY <1>1, <1>3
  <2> QED
    BY <2>1, <2>2 DEF Goto
<1> QED
  BY <1>2, <1>4

\* A step that saves nothing moves the one request under way.
LEMMA SerialUnsaved ==
  ASSUME IInv, SerialInv, limit = 1, NEW q \in Requests,
         FlushPayment(q) \/ FlushFails(q) \/ ReadKassa(q) \/ Notify(q) \/ Rollback(q)
  PROVE  SerialInv'
<1> USE DEF books
<1>0. /\ pc[q] \in Working \cup {"saved"} /\ UNCHANGED <<limit, finance, books, form>>
      /\ \E where \in {"flushed", "unbooked", "kassa", "swallowed", "failed", "done", "error"} :
           pc' = [pc EXCEPT ![q] = where]
  BY DEF FlushPayment, FlushFails, ReadKassa, Notify, Rollback, Goto, Working
<1>1. \A o \in Requests : o # q => pc'[o] = pc[o] /\ pc[o] \in Resting
  BY <1>0 DEF SerialInv, OneAtATime, Open, Working, Resting, IInv, TypeOK
<1>2. pc'[q] # "swallowed" /\ (pc'[q] = "kassa" => ReadKassa(q))
  <2>1. CASE ReadKassa(q)
    BY <2>1, ReadKassaFinds DEF SerialInv, IInv, TypeOK
  <2>2. CASE ~ReadKassa(q)
    BY <2>2 DEF FlushPayment, FlushFails, Notify, Rollback, Goto, IInv, TypeOK
  <2> QED
    BY <2>1, <2>2
<1>3. OneAtATime'
  BY <1>0, <1>1, <1>2 DEF SerialInv, OneAtATime, Open, Resting
<1>4. ReadsAreCurrent'
  <2>1. pc'[q] \in Working => pc[q] \in Working
    BY <1>0, <1>2 DEF Working, FlushPayment, FlushFails, ReadKassa, Notify, Rollback, Goto,
                      IInv, TypeOK
  <2>2. seen'[q].balance = seen[q].balance
    <3>1. CASE ReadKassa(q)
      BY <3>1, ReadKassaReads
    <3>2. CASE ~ReadKassa(q)
      BY <3>2 DEF FlushPayment, FlushFails, Notify, Rollback
    <3> QED
      BY <3>1, <3>2
  <2>3. pc'[q] \in {"flushed", "kassa"} /\ form[q].kind = "delete" => form[q].target \in ledger
    <3>1. pc'[q] \in {"flushed", "kassa"} => FlushPayment(q) \/ ReadKassa(q)
      BY DEF FlushPayment, FlushFails, ReadKassa, Notify, Rollback, Goto, IInv, TypeOK
    <3>2. ReadKassa(q) /\ form[q].kind = "delete" => form[q].target \in ledger
      BY DEF ReadKassa, SerialInv, ReadsAreCurrent
    <3>3. FlushPayment(q) => form[q].kind # "delete"
      BY DEF FlushPayment, SerialInv, ReadsAreCurrent
    <3> QED
      BY <3>1, <3>2, <3>3
  <2>4. pc'[q] = "kassa" =>
         \/ DOMAIN kassa = {} /\ seen'[q].row = q /\ seen'[q].amount = 0
         \/ seen'[q].row \in DOMAIN kassa /\ seen'[q].amount = kassa[seen'[q].row][Method(q)]
    <3>1. CASE ReadKassa(q)
      BY <3>1, ReadKassaFinds DEF SerialInv
    <3>2. CASE ~ReadKassa(q)
      BY <1>2, <3>2
    <3> QED
      BY <3>1, <3>2
  <2>5. Method(q)' = Method(q)
    BY <1>0 DEF Method
  <2> QED
    BY <1>0, <1>1, <2>1, <2>2, <2>3, <2>4, <2>5 DEF SerialInv, ReadsAreCurrent, Working, Resting
<1>5. SerialBooksAgree'
  <2>1. \A s \in Students : SumOf(PaidBy(s))' = SumOf(PaidBy(s))
    BY <1>0, PaidStays
  <2>2. \A m \in Methods : Booked(m)' = Booked(m) /\ InKassa(m)' = InKassa(m)
    BY <1>0, BookedStays DEF InKassa
  <2> QED
    BY <1>0, <2>1, <2>2 DEF SerialInv, SerialBooksAgree
<1> QED
  BY <1>3, <1>4, <1>5 DEF SerialInv

\* A commit adds the same to the cash box as to the ledger, and to a balance as to
\* the payments of its student.
LEMMA SerialCommit ==
  ASSUME IInv, SerialInv, limit = 1, NEW q \in Requests, CommitBooks(q)
  PROVE  SerialInv'
<1>0. /\ pc[q] = "kassa" /\ form' = form /\ UNCHANGED <<limit, finance>> /\ seen' = seen
      /\ SavePayment(q) /\ ledger' = LedgerAfter(q) /\ kassa' = KassaAfter(q)
      /\ pc' = [pc EXCEPT ![q] = IF form[q].kind = "payment" THEN "saved" ELSE "done"]
  BY DEF CommitBooks, Goto
<1>1. /\ \A o \in Requests : o # q => pc'[o] = pc[o] /\ pc[o] \in Resting
      /\ pc'[q] \in {"saved", "done"}
  BY <1>0 DEF SerialInv, OneAtATime, Open, Resting, IInv, TypeOK
<1>2. OneAtATime'
  <2>1. \A r, k \in DOMAIN kassa' : r = k
    <3>1. Method(q) \in Methods
      BY <1>0, MethodType
    <3> QED
      BY <1>0, <3>1, KassaMoves DEF SerialInv
  <2> QED
    BY <1>1, <2>1 DEF OneAtATime, Open, Resting
<1>3. ReadsAreCurrent'
  BY <1>1 DEF ReadsAreCurrent, Working, Resting
<1>4. form[q] \in Forms /\ q \notin ledger /\ q \notin paid
  BY <1>0 DEF IInv, RequestsAreKnown
<1>5. ASSUME NEW s \in Students
      PROVE  balance'[s] = SumOf(PaidBy(s))'
  <2>1. balance[s] = SumOf(PaidBy(s)) /\ balance \in [Students -> Int]
    BY <1>0 DEF SerialInv, SerialBooksAgree, IInv, TypeOK
  <2>2. CASE form[q].kind = "payment" /\ form[q].student = s
    <3>1. balance'[s] = balance[s] + form[q].amount
      BY <1>0, <2>1, <2>2 DEF SavePayment, SerialInv, ReadsAreCurrent, Working
    <3>2. SumOf(PaidBy(s))' = SumOf(PaidBy(s)) + form[q].amount
      BY <1>0, <2>2, PaidGrows DEF Working
    <3> QED
      BY <2>1, <3>1, <3>2
  <2>3. CASE ~ (form[q].kind = "payment" /\ form[q].student = s)
    <3>1. balance'[s] = balance[s]
      BY <1>0, <2>1, <2>3 DEF SavePayment
    <3>2. SumOf(PaidBy(s))' = SumOf(PaidBy(s))
      BY <1>0, <2>3, PaidGrows DEF Working
    <3> QED
      BY <2>1, <3>1, <3>2
  <2> QED
    BY <2>2, <2>3
<1>6. ASSUME NEW m \in Methods
      PROVE  InKassa(m)' = Booked(m)'
  <2>1. InKassa(m) = Booked(m)
    BY DEF SerialInv, SerialBooksAgree
  <2>2. InKassa(m)' = IF form[q].kind # "view" /\ m = Method(q)
                      THEN InKassa(m) + Effect(q) ELSE InKassa(m)
    BY <1>0, KassaMoves DEF SerialInv
  <2>3. CASE form[q].kind = "view"
    <3>1. ledger' = ledger
      BY <1>0, <2>3 DEF LedgerAfter
    <3>2. Booked(m)' = Booked(m)
      BY <1>0, <3>1, BookedStays
    <3> QED
      BY <2>1, <2>2, <2>3, <3>2
  <2>4. CASE form[q].kind # "view"
    <3>1. form[q].kind = "delete" => form[q].target \in ledger
      BY <1>0 DEF SerialInv, ReadsAreCurrent
    <3>2. Booked(m)' = IF m = Method(q) THEN Booked(m) + Effect(q) ELSE Booked(m)
      BY <1>0, <1>4, <2>4, <3>1, BookedMoves
    <3> QED
      BY <2>1, <2>2, <2>4, <3>2
  <2> QED
    BY <2>3, <2>4
<1>7. SerialBooksAgree'
  BY <1>5, <1>6 DEF SerialBooksAgree
<1> QED
  BY <1>2, <1>3, <1>7 DEF SerialInv

\* With one request at a time the balances are the sums of the payments and the
\* cash box holds what the ledger says, for any number of students, requests and
\* deletions, wherever a request fails (services/payment.py, services/finance.py).
THEOREM SerialBooks == Spec => []SerialBooksAgree
<1>1. Init => SerialInv
  <2> SUFFICES ASSUME Init
               PROVE  OneAtATime /\ ReadsAreCurrent /\ SerialBooksAgree
    BY DEF SerialInv
  <2>1. OneAtATime /\ ReadsAreCurrent
    BY DEF Init, OneAtATime, ReadsAreCurrent, Open, Resting, Working, NoRows
  <2>2. \A s \in Students : SumOf(PaidBy(s)) = 0
    <3>1. \A s \in Students : PaidBy(s) = {}
      BY DEF Init, PaidBy
    <3> QED
      BY <3>1, SumEmpty DEF SumOf
  <2>3. ASSUME NEW m \in Methods
        PROVE  InKassa(m) = 0 /\ Booked(m) = 0
    <3>1. Booked(m) = 0
      <4>1. BookedIn(m) = {}
        BY DEF Init, BookedIn
      <4> QED
        BY <4>1, SumEmpty DEF Booked
    <3>2. CASE kassa = NoRows
      <4>1. DOMAIN kassa = {}
        BY <3>2 DEF NoRows
      <4> QED
        BY <3>1, <4>1, SumEmpty DEF InKassa
    <3>3. CASE kassa = [r \in {Default} |-> Empty]
      <4>1. DOMAIN kassa = {Default} /\ kassa[Default][m] = 0
        BY <3>3 DEF Empty
      <4>2. InKassa(m) = kassa[Default][m]
        BY <4>1, OneRow DEF InKassa
      <4> QED
        BY <3>1, <4>1, <4>2
    <3> QED
      BY <3>1, <3>2, <3>3 DEF Init
  <2> QED
    BY <2>1, <2>2, <2>3 DEF Init, SerialBooksAgree
<1>2. IInv /\ SerialInv /\ [Next]_vars => SerialInv'
  <2> SUFFICES ASSUME IInv, SerialInv, [Next]_vars, limit' = 1
               PROVE  SerialInv'
    BY DEF SerialInv
  <2>1. CASE UNCHANGED vars
    BY <2>1 DEF SerialInv, OneAtATime, ReadsAreCurrent, SerialBooksAgree, Open, Method, SumOf,
                PaidBy, InKassa, Booked, BookedIn, Sign, vars, books
  <2>2. ASSUME Next
        PROVE  limit = 1
    BY <2>2 DEF Next, LoadStudent, FlushTransaction, LoadTransaction, ViewBalance, FlushPayment,
                FlushFails, ReadKassa, CommitBooks, Notify, CommitSwallowed, Rollback
  <2>3. ASSUME limit = 1, NEW q \in Requests, NEW f \in Forms,
               LoadStudent(q, f) \/ FlushTransaction(q, f) \/ LoadTransaction(q, f)
               \/ ViewBalance(q, f)
        PROVE  SerialInv'
    BY <2>3, SerialArrive
  <2>4. ASSUME limit = 1, NEW q \in Requests,
               FlushPayment(q) \/ FlushFails(q) \/ ReadKassa(q) \/ Notify(q) \/ Rollback(q)
        PROVE  SerialInv'
    BY <2>4, SerialUnsaved
  <2>5. ASSUME limit = 1, NEW q \in Requests, CommitBooks(q)
        PROVE  SerialInv'
    BY <2>5, SerialCommit
  <2>6. ASSUME limit = 1, NEW q \in Requests, CommitSwallowed(q)
        PROVE  FALSE
    BY <2>6 DEF CommitSwallowed, SerialInv, OneAtATime
  <2> QED
    BY <2>1, <2>2, <2>3, <2>4, <2>5, <2>6 DEF Next
<1>3. SerialInv => SerialBooksAgree
  BY DEF SerialInv, SerialBooksAgree
<1> QED
  BY <1>1, <1>2, <1>3, BooksInvariant, PTL DEF Spec
=============================================================================
