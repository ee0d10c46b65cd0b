------------------------------ MODULE Marketing ------------------------------
(***************************************************************************)
(* Referral codes and invitations (app/services/marketing.py,              *)
(* app/api/v1/admin/marketing.py).  A code or an invitation is looked up   *)
(* and used in two steps.  Invitations are made for a list of students in  *)
(* one session; an error of one student leaves the rest to be tried.       *)
(***************************************************************************)
EXTENDS Integers, FiniteSets

CONSTANTS
  Pupils,
  MaxMade,     \* how many invitations may be made
  Callers,     \* requests
  None

VARIABLES
  limit,       \* how many requests may be under way at once
  code,        \* referral_codes: total_uses by the student the code is of
  used,        \* referral_uses: pairs of an owner and a new student
  invitation,  \* invitations committed: whose, whether it expires, used_by
  given,       \* history: discounts given, invitation and new student
  asking,      \* the use of a code or an invitation under way
  batch        \* the list of students under way, with what is not yet committed
               \* and what the answer says

marketing == <<code, used, invitation, given, asking, batch>>

Quiet == [what |-> None, of |-> None, by |-> None, saw |-> 0]
NoBatch == [todo |-> {}, expires |-> FALSE, flushed |-> {}, created |-> {}, dead |-> FALSE, made |-> 0]

MarketingInit ==
  /\ code = [s \in Pupils |-> None] /\ used = {}
  /\ invitation = [i \in 1..MaxMade |-> None] /\ given = {}
  /\ asking = [c \in Callers |-> Quiet] /\ batch = NoBatch

Asking == {c \in Callers : asking[c] # Quiet}
Ask(c, use) ==
  /\ asking[c] = Quiet /\ Cardinality(Asking) < limit
  /\ asking' = [asking EXCEPT ![c] = use]
  /\ UNCHANGED <<limit, code, used, invitation, given, batch>>
Answer(c) == asking' = [asking EXCEPT ![c] = Quiet]

\* The first look at a student's code makes it.
GetReferralCode(s) ==
  /\ code[s] = None /\ code' = [code EXCEPT ![s] = 0]
  /\ UNCHANGED <<limit, used, invitation, given, asking, batch>>

\* The student has not used this code and it is not his own ...
CheckReferral(c, owner, s) ==
  /\ code[owner] # None /\ <<owner, s>> \notin used /\ owner # s
  /\ Ask(c, [what |-> "code", of |-> owner, by |-> s, saw |-> code[owner]])

UseReferral_NoUnique(c) ==
  LET r == asking[c]
  IN  /\ r.what = "code" /\ Answer(c) /\ UNCHANGED <<limit, invitation, given, batch>>
      /\ used' = used \cup {<<r.of, r.by>>} /\ code' = [code EXCEPT ![r.of] = @ + 1]

\* ... the row of the use is unique, the new total is the one read and one more.
UseReferral(c) ==
  LET r == asking[c]
  IN  /\ r.what = "code" /\ Answer(c) /\ UNCHANGED <<limit, invitation, given, batch>>
      /\ IF <<r.of, r.by>> \in used THEN UNCHANGED <<used, code>>
         ELSE used' = used \cup {<<r.of, r.by>>} /\ code' = [code EXCEPT ![r.of] = r.saw + 1]

\* The invitation is not used ...  One that expires is never used: the comparison
\* of its time is an error.
Usable(i) == invitation[i] # None /\ invitation[i].by = None /\ ~invitation[i].expires

CheckInvitation(c, i, s) ==
  Usable(i) /\ Ask(c, [what |-> "invitation", of |-> i, by |-> s, saw |-> 0])

\* ... then it is, and the discount given.
UseInvitation(c) ==
  LET r == asking[c]
  IN  /\ r.what = "invitation" /\ Answer(c) /\ UNCHANGED <<limit, code, used, batch>>
      /\ IF invitation[r.of] = None THEN UNCHANGED <<invitation, given>>
         ELSE /\ invitation' = [invitation EXCEPT ![r.of].by = r.by]
              /\ given' = given \cup {<<r.of, r.by>>}

DeleteInvitation(i) ==
  /\ invitation[i] # None /\ invitation' = [invitation EXCEPT ![i] = None]
  /\ given' = {g \in given : g[1] # i}
  /\ batch' = [batch EXCEPT !.created = @ \ {i}]
  /\ UNCHANGED <<limit, code, used, asking>>

\* POST /invitations/generate: a list of students, or a group.
GenerateInvitations(list, expires) ==
  /\ batch.todo = {} /\ batch.flushed = {} /\ list # {} /\ batch.made + Cardinality(list) <= MaxMade
  /\ batch' = [batch EXCEPT !.todo = list, !.expires = expires, !.created = {}, !.dead = FALSE]
  /\ UNCHANGED <<limit, code, used, invitation, given, asking>>

Stored(rows) ==
  invitation' = [i \in DOMAIN invitation |->
    IF \E r \in rows : r[1] = i THEN [of |-> (CHOOSE r \in rows : r[1] = i)[2],
                                         expires |-> batch.expires, by |-> None]
    ELSE invitation[i]]

\* One student: the row is flushed, the PDF written, the row committed with those an
\* error of the PDF had left; an error of the database spoils the session for the rest.
GenerateInvitation(s, outcome) ==
  LET n == batch.made + 1
      next == [batch EXCEPT !.todo = @ \ {s}]
  IN  /\ s \in batch.todo /\ UNCHANGED <<limit, code, used, given, asking>>
      /\ \/ outcome = "made" /\ ~batch.dead /\ Stored(batch.flushed \cup {<<n, s>>})
            /\ batch' = [next EXCEPT !.created = @ \cup {n}, !.flushed = {}, !.made = n]
         \/ outcome = "pdf" /\ ~batch.dead /\ UNCHANGED invitation
            /\ batch' = [next EXCEPT !.flushed = @ \cup {<<n, s>>}, !.made = n]
         \/ outcome = "database" /\ UNCHANGED invitation
            /\ batch' = [next EXCEPT !.flushed = {}, !.dead = TRUE]

\* The end of the request commits what is left.
EndBatch ==
  /\ batch.todo = {} /\ batch.flushed # {} /\ Stored(batch.flushed)
  /\ batch' = [batch EXCEPT !.flushed = {}]
  /\ UNCHANGED <<limit, code, used, given, asking>>

MarketingNext ==
  \/ \E c \in Callers :
       \/ \E s \in Pupils : \/ \E owner \in Pupils : CheckReferral(c, owner, s)
                            \/ \E i \in 1..MaxMade : CheckInvitation(c, i, s)
       \/ UseReferral(c) \/ UseInvitation(c)
  \/ \E s \in Pupils : GetReferralCode(s) \/ \E o \in {"made", "pdf", "database"} : GenerateInvitation(s, o)
  \/ \E i \in 1..MaxMade : DeleteInvitation(i)
  \/ \E list \in SUBSET Pupils, expires \in BOOLEAN : GenerateInvitations(list, expires)
  \/ EndBatch

-----------------------------------------------------------------------------

\* However requests overlap: a code is not counted more often than it is used, and
\* not less often with one request at a time; nobody uses his own code; then also an
\* invitation gives one discount.
UsesAgree ==
  /\ \A s \in Pupils : code[s] # None =>
       LET n == Cardinality({u \in used : u[1] = s}) IN code[s] <= n /\ (limit = 1 => code[s] = n)
  /\ \A u \in used : u[1] # u[2]
  /\ limit = 1 => \A g, h \in given : g[1] = h[1] => g = h

\* Whatever fails in a list: the invitations the answer calls created are there.
CreatedIsStored == \A i \in batch.created : invitation[i] # None

-----------------------------------------------------------------------------
(* What the proofs need besides *)

Invitation == [of : Pupils, expires : BOOLEAN, by : Pupils \cup {None}]
UsesOf(s)  == {u \in used : u[1] = s}

\* Of the codes: a use under way is of a code that is there, by another student, and
\* has read no more than the uses there are.
CodesAreSound ==
  /\ code \in [Pupils -> Nat \cup {None}] /\ used \subseteq Pupils \X Pupils /\ IsFiniteSet(used)
  /\ \A u \in used : code[u[1]] # None
  /\ asking = [c \in Callers |-> asking[c]]
  /\ \A c \in Callers : asking[c].what = "code" =>
       LET r == asking[c]
       IN  /\ r.of \in Pupils /\ r.by \in Pupils /\ r.of # r.by /\ code[r.of] # None
           /\ r.saw \in Nat /\ r.saw <= Cardinality(UsesOf(r.of))
           /\ limit = 1 => r.saw = Cardinality(UsesOf(r.of)) /\ <<r.of, r.by>> \notin used

\* Of the list: what is to be made has a number left, and what is flushed has one
\* that no invitation has had.
BatchIsSound ==
  /\ invitation \in [1..MaxMade -> Invitation \cup {None}]
  /\ batch.todo \subseteq Pupils /\ batch.expires \in BOOLEAN /\ batch.made \in 0..MaxMade
  /\ batch = [todo |-> batch.todo, expires |-> batch.expires, flushed |-> batch.flushed,
              created |-> batch.created, dead |-> batch.dead, made |-> batch.made]
  /\ batch.made + Cardinality(batch.todo) <= MaxMade
  /\ batch.flushed \subseteq (1..batch.made) \X Pupils /\ batch.created \subseteq 1..batch.made
  /\ \A r \in batch.flushed : invitation[r[1]] = None /\ \A g \in given : g[1] # r[1]
  /\ \A i \in 1..MaxMade : invitation[i] # None => i <= batch.made

\* Of the invitations: one that gave a discount is used; one that is looked at has
\* its number, and is free with one request at a time.
InvitationsAreSound ==
  /\ given \subseteq (1..batch.made) \X Pupils
  /\ \A g \in given : invitation[g[1]] # None /\ invitation[g[1]].by # None
  /\ \A c \in Callers : asking[c].what = "invitation" =>
       LET r == asking[c]
       IN  /\ r.of \in 1..batch.made /\ r.by \in Pupils /\ \A f \in batch.flushed : f[1] # r.of
           /\ limit = 1 => invitation[r.of] = None \/ invitation[r.of].by = None

OneAsks == limit = 1 => \A c, o \in Asking : c = o

\* The inductive invariant.
MarketingInv ==
  CodesAreSound /\ BatchIsSound /\ InvitationsAreSound /\ OneAsks /\ UsesAgree /\ CreatedIsStored

MarketingSpec == MarketingInit /\ [][MarketingNext]_<<limit, marketing>>

=============================================================================
