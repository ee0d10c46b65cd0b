----------------------------- MODULE TenantPool -----------------------------
(***************************************************************************)
(* Database sessions over pooled connections (app/core/database.py,        *)
(* get_tenant_session and get_db_session in app/core/dependencies.py).  A  *)
(* tenant session sets search_path once, at its start, on the connection   *)
(* it has then taken; a COMMIT in the middle of the request gives the      *)
(* connection back, and the next statement takes the first one of the      *)
(* pool.  A session of the public schema sets nothing.  A request has one  *)
(* session, or opens a second and a third one while it holds the first.    *)
(***************************************************************************)
EXTENDS Integers, FiniteSets, SequencesExt

CONSTANTS
  Tenants, AsyncSessions, Connections,
  Public,      \* search_path of a new connection, and the schema of a session that sets none
  MaxSessions, \* how many sessions a model opens
  Nothing

VARIABLES
  limit,       \* how many sessions may be open at once
  path,        \* search_path of a connection, as committed
  pool,        \* idle connections, the next one first; others are not made yet
  session,     \* the schema of a session, its connection and commits
  strayed,     \* history: statements that met another schema, by how often their
               \* session had committed before
  opened       \* counts sessions

poolVars == <<path, pool, session, strayed, opened>>

Off   == [tenant |-> Nothing, on |-> Nothing, commits |-> 0, first |-> Nothing]
InUse == {session[q].on : q \in AsyncSessions} \ {Nothing}
Made  == ToSet(pool) \cup InUse

PoolInit ==
  /\ path = [c \in Connections |-> Public] /\ pool = <<>>
  /\ session = [q \in AsyncSessions |-> Off]
  /\ strayed = {} /\ opened = 0

\* The connection a session gets: an idle one, first in first out, or a new one.
Checkout == IF pool # <<>> THEN {Head(pool)} ELSE Connections \ Made
Taken    == IF pool # <<>> THEN Tail(pool) ELSE pool

Begin_NoSet(q, t, c) ==
  /\ session[q] = Off /\ opened < MaxSessions /\ c \in Checkout
  /\ Cardinality({o \in AsyncSessions : session[o] # Off}) < limit
  /\ pool' = Taken /\ opened' = opened + 1
  /\ session' = [session EXCEPT ![q] = [tenant |-> t, on |-> c, commits |-> 0, first |-> path[c]]]
  /\ UNCHANGED <<limit, path, strayed>>

\* A tenant session, of a request or beside its first one: SET search_path, in the
\* first transaction.
Begin(q, t, c) ==
  /\ session[q] = Off /\ opened < MaxSessions /\ c \in Checkout
  /\ Cardinality({o \in AsyncSessions : session[o] # Off}) < limit
  /\ pool' = Taken /\ opened' = opened + 1
  /\ session' = [session EXCEPT ![q] = [tenant |-> t, on |-> c, commits |-> 0, first |-> t]]
  /\ UNCHANGED <<limit, path, strayed>>

\* A session of the public schema, of a request or beside its first one: no SET.
BeginPublic(q, c) ==
  /\ session[q] = Off /\ opened < MaxSessions /\ c \in Checkout
  /\ Cardinality({o \in AsyncSessions : session[o] # Off}) < limit
  /\ pool' = Taken /\ opened' = opened + 1
  /\ session' = [session EXCEPT ![q] =
                   [tenant |-> Public, on |-> c, commits |-> 0, first |-> path[c]]]
  /\ UNCHANGED <<limit, path, strayed>>

\* What a statement of the session sees: in the first transaction what was set,
\* later what the connection has.
Sees(q) == IF session[q].commits = 0 THEN session[q].first ELSE path[session[q].on]

\* A statement after a COMMIT takes a connection again.
Reconnect(q, c) ==
  /\ session[q] # Off /\ session[q].on = Nothing /\ c \in Checkout
  /\ pool' = Taken /\ session' = [session EXCEPT ![q].on = c]
  /\ UNCHANGED <<limit, path, strayed, opened>>

\* Statements on the public schema name it.
Statement(q) ==
  /\ session[q].on # Nothing /\ session[q].tenant # Public /\ Sees(q) # session[q].tenant
  /\ strayed' = strayed \cup {session[q].commits}
  /\ UNCHANGED <<limit, path, pool, session, opened>>

\* COMMIT, of a service in the middle of the request or at its end: the path stays
\* with the connection.
Commit(q) ==
  /\ session[q].on # Nothing
  /\ path' = [path EXCEPT ![session[q].on] = Sees(q)]
  /\ pool' = Append(pool, session[q].on)
  /\ session' = [session EXCEPT ![q].on = Nothing, ![q].commits = 1]
  /\ UNCHANGED <<limit, strayed, opened>>

\* ROLLBACK, after an error or of a session that is closed without a COMMIT: it undoes
\* the SET of its transaction.
Rollback(q) ==
  /\ session[q].on # Nothing
  /\ pool' = Append(pool, session[q].on) /\ session' = [session EXCEPT ![q] = Off]
  /\ UNCHANGED <<limit, path, strayed, opened>>

\* The end of a session that has nothing to commit any more.
End(q) ==
  /\ session[q] # Off /\ session[q].on = Nothing /\ session' = [session EXCEPT ![q] = Off]
  /\ UNCHANGED <<limit, path, pool, strayed, opened>>

PoolNext == \E q \in AsyncSessions :
  \/ \E c \in Connections : \/ Reconnect(q, c) \/ BeginPublic(q, c)
                            \/ \E t \in Tenants : Begin(q, t, c)
  \/ Statement(q) \/ Commit(q) \/ Rollback(q) \/ End(q)

-----------------------------------------------------------------------------

PoolTypeOK ==
  /\ path \in [Connections -> Tenants \cup {Public}]
  /\ IsInjective(pool) /\ ToSet(pool) \cap InUse = {}
  /\ strayed \subseteq {0, 1}

\* A tenant session works in the schema of its tenant until its first COMMIT, however
\* sessions overlap, fail and hand connections on; and to its end when no other session
\* is open, neither of another request nor of its own, as the pool then has made one
\* connection.
FirstTransactionIsOwn ==
  PoolTypeOK /\ 0 \notin strayed /\ (limit = 1 => strayed = {})

\* notification_service.py:78 "Tenant scope ichida ishlaydi (db sessiya allaqachon
\* search_path ga sozlangan)" (works in the scope of the tenant, the session is set
\* to its search_path): every statement of a request meets the schema of its tenant,
\* also the notification of a payment whose books are committed.
StatementsAreOwn == strayed = {}

=============================================================================
