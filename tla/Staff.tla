-------------------------------- MODULE Staff --------------------------------
(***************************************************************************)
(* Accounts of the staff, their roles and the profiles of teachers         *)
(* (app/api/v1/admin/teachers.py, inspectors.py and users.py,              *)
(* app/services/user_roles.py).  A user has a default role in users.role   *)
(* and rows in user_roles; the roles of a session come from the active     *)
(* rows, or from the default when there is none.  A request reads the user *)
(* with his rows and profiles and writes what it changed at its COMMIT.    *)
(***************************************************************************)
EXTENDS Integers, FiniteSets

CONSTANTS
  Users, Profiles,
  Roles,       \* teacher, inspector and others
  Admins,      \* requests
  None

VARIABLES
  limit,       \* how many requests may be under way at once
  account,     \* rows of users: is_active and the default role
  held,        \* user_roles: no row, an active or an inactive one
  profile,     \* rows of teachers
  request,     \* what a request has read
  bare,        \* history: users that were without an active row
  spare,       \* history: users with a row of teacher while they had no profile
  mixed        \* history: users whose roles or profile were edited one by one

staff == <<account, held, profile, request, bare, spare, mixed>>

NoRows      == [r \in Roles |-> "none"]
Row(r)      == [NoRows EXCEPT ![r] = "on"]
Accounts    == {u \in Users : account[u] # None}
On(u)       == {r \in Roles : held[u][r] = "on"}
Of(u)       == {p \in Profiles : profile[p] # None /\ profile[p].user = u}
Teaching(u) == {p \in Of(u) : profile[p].active}

\* users.role is in the list only when user_roles has nothing to say.
ListActiveRoles(u) == IF On(u) = {} THEN {account[u].role} ELSE On(u)

\* An account of the provisioning has no row of user_roles.
StaffInit ==
  /\ account \in [Users -> {None} \cup {[active |-> TRUE, role |-> r] : r \in Roles \ {"teacher", "inspector"}}]
  /\ held = [u \in Users |-> NoRows]
  /\ profile = [p \in Profiles |-> None]
  /\ request = [a \in Admins |-> None]
  /\ bare = Accounts /\ spare = {} /\ mixed = {}

New(u)  == u \notin Accounts /\ \A a \in Admins : request[a] # None => request[a].user # u
Free(p) == profile[p] = None /\ \A a \in Admins : request[a] # None => request[a].profile[p] = None
Profile(u, approved) == [user |-> u, active |-> TRUE, approved |-> approved]
Hire(u, role, active) ==
  /\ New(u)
  /\ account' = [account EXCEPT ![u] = [active |-> active, role |-> role]]
  /\ held' = [held EXCEPT ![u] = Row(role)]
  /\ UNCHANGED <<limit, request>>

\* A teacher an inspector creates waits for the approval.
CreateTeacher(u, p, approved) ==
  /\ Hire(u, "teacher", approved) /\ Free(p)
  /\ profile' = [profile EXCEPT ![p] = Profile(u, approved)]
  /\ mixed' = mixed

CreateInspector(u) == Hire(u, "inspector", TRUE) /\ UNCHANGED <<profile, mixed>>

\* /auth/register with an invitation to a role: teachers and inspectors get a
\* profile that is not approved, and are active.
RegisterStaff(u, p, role) ==
  /\ Hire(u, role, TRUE) /\ Free(p)
  /\ profile' = [profile EXCEPT ![p] = Profile(u, FALSE)]
  /\ mixed' = mixed \cup {u}

Load(a, u) ==
  /\ request[a] = None /\ u \in Accounts
  /\ Cardinality({o \in Admins : request[o] # None}) < limit
  /\ request' = [request EXCEPT ![a] = [user |-> u, account |-> account[u], held |-> held[u],
                                        profile |-> profile]]
  /\ UNCHANGED <<limit, account, held, profile, mixed>>

Abort(a) ==
  /\ request[a] # None /\ request' = [request EXCEPT ![a] = None]
  /\ UNCHANGED <<limit, account, held, profile, mixed>>

Written(now, old, new) ==
  CASE new = old                               -> now
    [] new # old /\ (old = None \/ new = None) -> new
    [] OTHER                                   -> [x \in DOMAIN new |-> IF new[x] = old[x] THEN now[x] ELSE new[x]]

\* COMMIT of what differs from what was read: a row to insert must not be there
\* (PRIMARY KEY), a row to change must.
Save(a, acc, rows, profiles) ==
  LET old == request[a]
      u   == old.user
  IN  /\ u \in Accounts
      /\ \A r \in Roles : rows[r] # old.held[r] => (held[u][r] = "none") = (old.held[r] = "none")
      /\ \A p \in Profiles : profiles[p] # old.profile[p] => (profile[p] = None) = (old.profile[p] = None)
      /\ account' = [account EXCEPT ![u] = Written(@, old.account, acc)]
      /\ held' = [held EXCEPT ![u] = Written(@, old.held, rows)]
      /\ profile' = [p \in Profiles |-> Written(profile[p], old.profile[p], profiles[p])]
      /\ request' = [request EXCEPT ![a] = None]
      /\ UNCHANGED limit

Open(a)   == request[a] # None
Mine(a)   == {p \in Profiles : request[a].profile[p] # None /\ request[a].profile[p].user = request[a].user}
Edited(a) == mixed' = mixed \cup {request[a].user}

GrantRole(rows, r) == [rows EXCEPT ![r] = "on"]

\* A row that is not there cannot be revoked; the default role moves to one of
\* the other active roles.
RevokeRole(rows, r) == [rows EXCEPT ![r] = IF @ = "none" THEN @ ELSE "off"]
Defaults_Same(old, r) == {old.account.role}

Defaults(old, r) ==
  LET others == {o \in Roles \ {r} : old.held[o] = "on"}
  IN  IF old.held[r] # "none" /\ old.account.role = r /\ others # {} THEN others
      ELSE {old.account.role}

\* POST /teachers for a user that exists: only without a profile.
AttachTeacher(a, p, approved) ==
  LET old == request[a]
  IN  /\ Open(a) /\ Mine(a) = {} /\ Free(p)
      /\ Save(a, old.account, GrantRole(old.held, "teacher"),
              [old.profile EXCEPT ![p] = Profile(old.user, approved)])
      /\ Edited(a)

\* POST /inspectors for a user that exists, and POST /users/{id}/roles.
AttachRole(a, r) ==
  /\ Open(a) /\ Save(a, request[a].account, GrantRole(request[a].held, r), request[a].profile)
  /\ Edited(a)

\* From teacher to inspector or back, with the profile; two profiles make it fail.
ChangeRole(a, from, to, p) ==
  LET old == request[a]
  IN  /\ Open(a) /\ from # to /\ Cardinality(Mine(a)) <= 1
      /\ Save(a, [active |-> TRUE, role |-> to], GrantRole(RevokeRole(old.held, from), to),
           [q \in Profiles |->
              IF q \in Mine(a) THEN [old.profile[q] EXCEPT !.active = to = "teacher",
                                                           !.approved = @ \/ to = "teacher"]
              ELSE IF q = p /\ Mine(a) = {} /\ to = "teacher" THEN Profile(old.user, TRUE)
              ELSE old.profile[q]])
      /\ (to = "teacher" /\ Mine(a) = {} => Free(p))
      /\ UNCHANGED mixed

\* DELETE /users/{id}/roles/{role}.
DetachRole(a, r) ==
  LET old == request[a]
  IN  /\ Open(a)
      /\ \E d \in Defaults(old, r) :
           Save(a, [old.account EXCEPT !.role = d], RevokeRole(old.held, r), old.profile)
      /\ Edited(a)

\* DELETE /inspectors/{id} revokes the role.  The list of what remains is read
\* before the row is written (autoflush is off), and falls back to the default:
\* it is never empty, and the account stays active.
DeleteInspector(a) == DetachRole(a, "inspector")

\* PATCH /inspectors/{id}, of a user with the role.
UpdateInspector(a, active) ==
  LET old == request[a]
  IN  /\ Open(a) /\ old.held["inspector"] = "on"
      /\ Save(a, [old.account EXCEPT !.active = active], old.held, old.profile)
      /\ Edited(a)

SetActive(a, p, active) ==
  LET old == request[a]
  IN  /\ Open(a) /\ p \in Mine(a)
      /\ Save(a, [old.account EXCEPT !.active = active], old.held,
              [old.profile EXCEPT ![p].active = active])
      /\ Edited(a)

UpdateTeacher(a, p, active) == SetActive(a, p, active)
DeleteTeacher(a, p)  == SetActive(a, p, FALSE)
RestoreTeacher(a, p) == SetActive(a, p, TRUE)

ApproveTeacher(a, p) ==
  LET old == request[a]
  IN  /\ Open(a) /\ p \in Mine(a)
      /\ Save(a, [old.account EXCEPT !.active = TRUE], old.held,
              [old.profile EXCEPT ![p].active = TRUE, ![p].approved = TRUE])
      /\ Edited(a)

\* The account goes with its rows and profiles (CASCADE), whatever other roles
\* it has.
Remove(a, p) ==
  LET u == request[a].user
  IN  /\ Open(a) /\ p \in Mine(a) /\ u \in Accounts /\ profile[p] # None
      /\ account' = [account EXCEPT ![u] = None]
      /\ held' = [held EXCEPT ![u] = NoRows]
      /\ profile' = [q \in Profiles |-> IF q \in Of(u) THEN None ELSE profile[q]]
      /\ request' = [request EXCEPT ![a] = None]
      /\ mixed' = mixed \ {u} /\ UNCHANGED limit

RejectTeacher(a, p) == Remove(a, p)
PermanentDeleteTeacher(a, p) == Remove(a, p) /\ ~request[a].profile[p].active

\* The repair of a schema gives each account the row of its default role, active
\* when the account is.
Backfill ==
  /\ held' = [u \in Users |->
       IF u \in Accounts /\ held[u][account[u].role] = "none"
       THEN [held[u] EXCEPT ![account[u].role] = IF account[u].active THEN "on" ELSE "off"]
       ELSE held[u]]
  /\ UNCHANGED <<limit, account, profile, request, mixed>>

Operations ==
  \/ \E u \in Users, p \in Profiles :
       \/ \E ok \in BOOLEAN : CreateTeacher(u, p, ok)
       \/ \E r \in {"teacher", "inspector"} : RegisterStaff(u, p, r)
  \/ \E u \in Users : CreateInspector(u) \/ \E a \in Admins : Load(a, u)
  \/ \E a \in Admins :
       \/ Abort(a) \/ DeleteInspector(a)
       \/ \E r \in Roles : AttachRole(a, r) \/ DetachRole(a, r)
       \/ \E ok \in BOOLEAN : UpdateInspector(a, ok)
       \/ \E p \in Profiles :
            \/ \E ok \in BOOLEAN : AttachTeacher(a, p, ok) \/ UpdateTeacher(a, p, ok)
            \/ \E from, to \in {"teacher", "inspector"} : ChangeRole(a, from, to, p)
            \/ DeleteTeacher(a, p) \/ RestoreTeacher(a, p) \/ ApproveTeacher(a, p)
            \/ RejectTeacher(a, p) \/ PermanentDeleteTeacher(a, p)
  \/ Backfill

\* Notes the accounts that have, or had, no active row, or a row and no profile.
StaffNext ==
  /\ Operations
  /\ bare' = {u \in Users : account'[u] # None /\ (u \in bare \/ \A r \in Roles : held'[u][r] # "on")}
  /\ spare' = {u \in Users : account'[u] # None /\ (u \in spare \/
       (held'[u]["teacher"] # "none" /\ \A p \in Profiles : profile'[p] # None => profile'[p].user # u))}

-----------------------------------------------------------------------------

StaffTypeOK ==
  /\ account \in [Users -> [active : BOOLEAN, role : Roles] \cup {None}]
  /\ held \in [Users -> [Roles -> {"none", "on", "off"}]]
  /\ \A p \in Profiles : profile[p] # None => profile[p].user \in Accounts
  /\ \A u \in Users \ Accounts : held[u] = NoRows

\* Whatever is attached, switched, revoked, deleted and repaired, a user has one
\* profile of a teacher at most (two make the switch of roles and the teacher's
\* own requests fail); of overlapping requests the primary key of user_roles lets
\* one through, unless the role had been there before the profile.
OneProfile ==
  \A u \in Users : limit = 1 \/ u \notin spare => Cardinality(Of(u)) <= 1

\* One request at a time: the default role of a user is one of his active roles,
\* unless he ever was without an active row.
DefaultIsHeld == limit = 1 => \A u \in Accounts \ bare : account[u].role \in On(u)

\* One request at a time: however often a user is switched between teacher and
\* inspector, he has the one role, and an active profile exactly as a teacher.
SwitchIsWhole ==
  limit = 1 => \A u \in Accounts \ (mixed \cup bare) :
    /\ On(u) = {account[u].role}
    /\ (Teaching(u) # {}) = (account[u].role = "teacher")

\* The three together.
AccountIsWhole == OneProfile /\ DefaultIsHeld /\ SwitchIsWhole

-----------------------------------------------------------------------------
(* What the proofs need besides *)

Account    == [active : BOOLEAN, role : Roles]
Marks      == {"none", "on", "off"}
ProfileRow == [user : Users, active : BOOLEAN, approved : BOOLEAN]
Request    == [user : Users, account : Account, held : [Roles -> Marks],
               profile : [Profiles -> {None} \cup ProfileRow]]
RowsAreSound ==
  /\ account \in [Users -> {None} \cup Account] /\ held \in [Users -> [Roles -> Marks]]
  /\ profile \in [Profiles -> {None} \cup ProfileRow] /\ request \in [Admins -> {None} \cup Request]

Reading == {a \in Admins : request[a] # None}

\* A profile that a request has read is still of the same user, or gone.
SameUser ==
  \A a \in Reading, p \in Profiles :
    request[a].profile[p] # None /\ profile[p] # None => profile[p].user = request[a].profile[p].user

\* Who has a row of teacher has a profile, also when a request found neither and the
\* profile came later: the row came with it.
RowComesWithProfile ==
  /\ \A u \in Accounts \ spare : held[u]["teacher"] # "none" => Of(u) # {}
  /\ \A a \in Reading : \A u \in Accounts \ spare :
       request[a].user = u /\ Mine(a) = {} =>
         /\ request[a].held["teacher"] = "none"
         /\ Of(u) # {} => held[u]["teacher"] # "none"
ProfileIsOne ==
  \A u \in Users : limit = 1 \/ u \notin spare => \A p, q \in Of(u) : p = q

\* One request at a time: what it has read of its user is what is there, but for the
\* row that the repair may insert for a user without an active one.
ReadIsCurrent ==
  limit = 1 =>
    /\ \A a, b \in Reading : a = b
    /\ \A a \in Reading : \A u \in Users : request[a].user = u =>
         /\ u \in Accounts /\ request[a].account = account[u]
         /\ u \notin bare => request[a].held = held[u]
         /\ \A p \in Profiles : request[a].profile[p] # None \/ p \in Of(u) =>
              request[a].profile[p] = profile[p]

\* Only teachers and inspectors are created with their role.
SwitchedAreStaff ==
  limit = 1 => \A u \in Accounts \ (mixed \cup bare) : account[u].role \in {"teacher", "inspector"}

\* The inductive invariant.
StaffInv ==
  /\ StaffTypeOK /\ RowsAreSound /\ SameUser /\ RowComesWithProfile /\ ProfileIsOne
  /\ ReadIsCurrent /\ DefaultIsHeld /\ SwitchIsWhole /\ SwitchedAreStaff

StaffSpec == StaffInit /\ [][StaffNext]_<<limit, staff>>

=============================================================================
