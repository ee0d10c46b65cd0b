------------------------------- MODULE MCPeople -------------------------------
(***************************************************************************)
(* Students and groups, staff, invitations and Telegram tokens, one of the *)
(* four at a time, for TLC.                                                *)
(***************************************************************************)
EXTENDS TelegramLink, TLC

CONSTANTS MaxOpen,
          Students, Groups, Clerks, MaxPaid,
          Staffers, Profiles, Roles, Admins,
          RoleCodes, LinkCodes, ParentCodes, Processes, Visits

VARIABLES part,
  status, student, login, member, payments, seen, wanted, rejected, decided, patched, linked, paid,
  staffer, held, profile, request, bare, spare, mixed,
  up, redis, memory, client, faulty, account, parent, visit, issued, gone, used, shown

E == INSTANCE Enrollment
S == INSTANCE Staff WITH Users <- Staffers, account <- staffer
I == INSTANCE Invites

\* What the proofs need of the constants: finitely many requests and groups, the roles
\* of the staff, and a value for nothing that is none of the others.
ASSUME PeopleAssumption ==
  /\ IsFiniteSet(Visits) /\ IsFiniteSet(Clerks) /\ IsFiniteSet(Groups) /\ IsFiniteSet(Admins)
  /\ {"teacher", "inspector"} \subseteq Roles
  /\ None \notin Students \cup Groups \cup E!Rows \cup BOOLEAN \cup E!Statuses \cup {"deleted"}
  /\ None \notin S!Account \cup S!ProfileRow \cup S!Request \cup [Roles -> S!Marks]

enrollment == <<status, student, login, member, payments, seen, wanted, rejected, decided, patched, linked, paid>>
staff      == <<staffer, held, profile, request, bare, spare, mixed>>
invites    == <<up, redis, memory, client, faulty, account, parent, visit, issued, gone, used, shown>>

\* Overlapping requests: one group and a student who is neither invited nor patched;
\* active accounts and no administrator; two codes when Redis or a process fails;
\* one person and nothing that expires when a request breaks off.
Narrow ==
  limit = 2 =>
    CASE part = "students" -> /\ linked = {} /\ patched = {}
                              /\ Cardinality({g \in Groups : status[g] # None}) <= 1
      [] part = "staff"    -> \A u \in S!Accounts : staffer[u].active /\ held[u]["admin"] = "none"
      [] part = "invites"  -> Cardinality(issued) <= IF faulty THEN 2 ELSE 3
      [] part = "links"    -> crashed => /\ old.expired = {}
                                         /\ Cardinality({telegram[u] : u \in Users} \cup {call[c].who : c \in Calls}) <= 2

\* The parts that do not run stay in one of their initial states.
Init ==
  /\ part \in {"students", "staff", "invites", "links"} /\ limit \in 1..MaxOpen
  /\ E!EInit /\ (part # "students" => \A g \in Groups : status[g] = None)
  /\ S!StaffInit /\ (part # "staff" \/ limit = 2 => S!Accounts = {})
  /\ I!InvitesInit /\ TelegramInit
  /\ Narrow

Next ==
  \/ part = "students" /\ E!ENext /\ UNCHANGED <<part, limit, staff, invites, telegramVars>> /\ Narrow'
  \/ part = "staff" /\ S!StaffNext /\ UNCHANGED <<part, enrollment, invites, telegramVars>> /\ Narrow'
  \/ part = "invites" /\ I!InvitesNext /\ UNCHANGED <<part, enrollment, staff, telegramVars>> /\ Narrow'
  \/ part = "links" /\ TelegramNext /\ UNCHANGED <<part, enrollment, staff, invites>> /\ Narrow'

Spec == Init /\ [][Next]_<<part, limit, enrollment, staff, invites, telegramVars>>

\* The requests of all parts are the same model values, so are the things they
\* write (groups, profiles, people, processes).
Interchangeable == Permutations(Clerks) \cup Permutations(Groups)

\* The properties of the parts, with the types of their modules.
ApprovalIsWhole    == part = "students" => E!ETypeOK /\ E!ApprovalIsWhole
BooksOutliveGroups == E!BooksOutliveGroups
AccountIsWhole     == part = "staff" => S!StaffTypeOK /\ S!AccountIsWhole
InviteServesOne    == part = "invites" => I!InvitesTypeOK /\ I!InviteServesOne
=============================================================================
