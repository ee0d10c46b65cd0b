---------------------------- MODULE TelegramLink ----------------------------
(***************************************************************************)
(* Tokens that bind a user to a Telegram account                           *)
(* (app/api/v1/telegram_link.py and bot/handlers/start.py).  A token is    *)
(* written into the tenant's row of the user, which stays locked, and into *)
(* a public table that is committed first; the bot finds it there, writes  *)
(* the user and deletes it afterwards.                                     *)
(***************************************************************************)
EXTENDS Integers, FiniteSets

CONSTANTS
  Users, Tokens, People, Calls,
  MaxBinds,    \* how often a token is used
  None

VARIABLES
  limit,       \* how many requests may be under way at once
  token, telegram, \* columns of users: telegram_link_token and telegram_id
  public,      \* rows of public.telegram_link_tokens: the user of a token
  call,        \* where a request stands
  old,         \* tokens that were issued, and those past their expiry
  links,       \* history: how often a token bound a user
  revoked,     \* history: users without a token since their last revocation
  stale,       \* history: tokens that were in public when their user got another
  crashed      \* history: a request did not come to its end

telegramVars == <<token, telegram, public, call, old, links, revoked, stale, crashed>>

NoCall    == [at |-> "idle", user |-> None, token |-> None, who |-> None]
Published == {t \in Tokens : public[t] # None}
Locked(u) == \E c \in Calls : call[c].user = u /\ call[c].at \in {"publish", "saveToken", "unpublish", "clear"}

TelegramInit ==
  /\ token = [u \in Users |-> None] /\ telegram = [u \in Users |-> None]
  /\ public = [t \in Tokens |-> None]
  /\ call = [c \in Calls |-> NoCall]
  /\ old = [issued |-> {}, expired |-> {}] /\ links = [t \in Tokens |-> 0]
  /\ revoked = {} /\ stale = {} /\ crashed = FALSE

Start(c, next) ==
  /\ call[c].at = "idle" /\ Cardinality({o \in Calls : call[o].at # "idle"}) < limit
  /\ call' = [call EXCEPT ![c] = next]
Goto(c, step) == call' = [call EXCEPT ![c].at = step]
Leave(c) == call' = [call EXCEPT ![c] = NoCall]

\* create_telegram_link: the flush locks the row of the user ...
CreateLink(c, u, t) ==
  /\ ~Locked(u) /\ t \notin old.issued
  /\ Start(c, [NoCall EXCEPT !.at = "publish", !.user = u, !.token = t])
  /\ old' = [old EXCEPT !.issued = @ \cup {t}]
  /\ UNCHANGED <<limit, token, telegram, public, links, revoked, stale, crashed>>

\* ... the public row is committed ...
Publish(c) ==
  /\ call[c].at = "publish" /\ Goto(c, "saveToken")
  /\ public' = [public EXCEPT ![call[c].token] = call[c].user]
  /\ UNCHANGED <<limit, token, telegram, old, links, revoked, stale, crashed>>

\* ... and the tenant's row at the end of the request.
SaveToken(c) ==
  LET u == call[c].user
      t == call[c].token
  IN  /\ call[c].at = "saveToken" /\ Leave(c)
      /\ token' = [token EXCEPT ![u] = t]
      /\ revoked' = revoked \ {u}
      /\ stale' = stale \cup {o \in Published \ {t} : public[o] = u}
      /\ UNCHANGED <<limit, telegram, public, old, links, crashed>>

\* revoke_telegram_link reads the row of the user without a lock ...
RevokeLink(c, u) ==
  /\ Start(c, [at |-> "revoke", user |-> u, token |-> token[u], who |-> telegram[u]])
  /\ UNCHANGED <<limit, token, telegram, public, old, links, revoked, stale, crashed>>

\* ... the flush writes what is to be cleared, and waits for the lock ...
FlushUser(c) ==
  /\ call[c].at = "revoke" /\ (call[c].token # None \/ call[c].who # None)
  /\ ~Locked(call[c].user) /\ Goto(c, "unpublish")
  /\ UNCHANGED <<limit, token, telegram, public, old, links, revoked, stale, crashed>>

\* ... or finds nothing to write.
NothingToClear(c) ==
  /\ call[c].at = "revoke" /\ call[c].token = None /\ call[c].who = None
  /\ Leave(c) /\ revoked' = revoked \cup {call[c].user}
  /\ UNCHANGED <<limit, token, telegram, public, old, links, stale, crashed>>

\* Only the token that was read.
Unpublish(c) ==
  /\ call[c].at = "unpublish" /\ Goto(c, "clear")
  /\ public' = [t \in Tokens |-> IF t = call[c].token THEN None ELSE public[t]]
  /\ UNCHANGED <<limit, token, telegram, old, links, revoked, stale, crashed>>

\* A column that was read as NULL is not written.
ClearUser(c) ==
  LET u == call[c].user
  IN  /\ call[c].at = "clear" /\ Leave(c)
      /\ token' = [token EXCEPT ![u] = IF call[c].token = None THEN @ ELSE None]
      /\ telegram' = [telegram EXCEPT ![u] = IF call[c].who = None THEN @ ELSE None]
      /\ revoked' = revoked \cup {u}
      /\ UNCHANGED <<limit, public, old, links, stale, crashed>>

Pass(t) ==
  /\ t \in old.issued \ old.expired /\ old' = [old EXCEPT !.expired = @ \cup {t}]
  /\ UNCHANGED <<limit, token, telegram, public, call, links, revoked, stale, crashed>>

\* The bot finds the token; one that is too old it deletes.
FindToken(c, t, p) ==
  /\ t \in Published \ old.expired /\ links[t] < MaxBinds
  /\ Start(c, [at |-> "load", user |-> public[t], token |-> t, who |-> p])
  /\ UNCHANGED <<limit, token, telegram, public, old, links, revoked, stale, crashed>>

SweepToken(t) ==
  /\ t \in Published \cap old.expired /\ public' = [public EXCEPT ![t] = None]
  /\ UNCHANGED <<limit, token, telegram, call, old, links, revoked, stale, crashed>>

\* A person who is bound to another user is turned away.  The user_id of the public
\* row is taken for what the handler takes it for, a string.
LoadUser(c) ==
  LET taken == \E u \in Users \ {call[c].user} : telegram[u] = call[c].who
  IN  /\ call[c].at = "load"
      /\ IF taken THEN Leave(c) ELSE Goto(c, IF token[call[c].user] = None THEN "bind" ELSE "bindAndClear")
      /\ UNCHANGED <<limit, token, telegram, public, old, links, revoked, stale, crashed>>

\* The token is cleared when the row that was read had one; telegram_id is UNIQUE.
BindUser(c) ==
  LET u == call[c].user
      p == call[c].who
  IN  /\ call[c].at \in {"bind", "bindAndClear"} /\ ~Locked(u)
      /\ \A o \in Users \ {u} : telegram[o] # p
      /\ telegram' = [telegram EXCEPT ![u] = p]
      /\ token' = [token EXCEPT ![u] = IF call[c].at = "bindAndClear" THEN None ELSE @]
      /\ links' = [links EXCEPT ![call[c].token] = @ + 1]
      /\ Goto(c, "delete")
      /\ UNCHANGED <<limit, public, old, revoked, stale, crashed>>

DeleteToken_Keeps(c) ==
  /\ call[c].at = "delete" /\ Leave(c)
  /\ UNCHANGED <<limit, token, telegram, public, old, links, revoked, stale, crashed>>

DeleteToken(c) ==
  /\ call[c].at = "delete" /\ Leave(c)
  /\ public' = [public EXCEPT ![call[c].token] = None]
  /\ UNCHANGED <<limit, token, telegram, old, links, revoked, stale, crashed>>

\* An error or a crash; what was committed stays.
Crash(c) ==
  /\ call[c].at # "idle" /\ Leave(c) /\ crashed' = TRUE
  /\ UNCHANGED <<limit, token, telegram, public, old, links, revoked, stale>>

TelegramNext ==
  \/ \E c \in Calls :
       \/ \E u \in Users : RevokeLink(c, u) \/ \E t \in Tokens : CreateLink(c, u, t)
       \/ \E t \in Tokens, p \in People : FindToken(c, t, p)
       \/ Publish(c) \/ SaveToken(c) \/ FlushUser(c) \/ NothingToClear(c) \/ Unpublish(c) \/ ClearUser(c)
       \/ LoadUser(c) \/ BindUser(c) \/ DeleteToken(c) \/ Crash(c)
  \/ \E t \in Tokens : Pass(t) \/ SweepToken(t)

-----------------------------------------------------------------------------

TelegramTypeOK ==
  /\ token \in [Users -> {None} \cup Tokens] /\ telegram \in [Users -> {None} \cup People]
  /\ \A t \in Published : public[t] \in Users /\ t \in old.issued
  /\ \A t \in Tokens : links[t] \in Nat

\* One request at a time, none of which breaks off: a token binds once.
TokenBindsOnce ==
  limit = 1 /\ ~crashed => \A t \in Tokens : links[t] <= 1

\* However requests overlap and break off: the token the row of a user names has
\* been published, and is still there unless it has bound the user, has expired,
\* or a revocation is under way or was broken off.
TokenIsPublic ==
  \A u \in Users : LET t == token[u] IN
    t # None => \/ public[t] = u \/ links[t] > 0 \/ t \in old.expired \/ crashed
                \/ \E c \in Calls : call[c].at = "clear" /\ call[c].token = t

\* One request at a time: after a revocation the user stays unbound until a new
\* token is issued, but for a token that was superseded without being revoked.
RevocationSticks ==
  limit = 1 /\ ~crashed => \A u \in revoked :
    telegram[u] # None => \E t \in stale : links[t] > 0

\* All three: a token is good for one binding, and stays good until then or until
\* it is revoked.
TokenServesOnce == TelegramTypeOK /\ TokenBindsOnce /\ TokenIsPublic /\ RevocationSticks

=============================================================================
