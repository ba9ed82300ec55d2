---------------------------- MODULE AuthSessions ----------------------------
(***************************************************************************)
(* The auth-service (routers/auth.py, routers/users.py): accounts, refresh *)
(* tokens ("sessions") and password reset links, changed by request        *)
(* handlers that run concurrently under READ COMMITTED.                    *)
(*                                                                         *)
(* As in Ledger a handler reads, then commits; Rollback is every other     *)
(* end.  reset_password has a step more: its flush updates the account row *)
(* and locks it until the commit, and its DELETE sees the sessions that    *)
(* are committed at that moment, no later ones.  A token is named by the   *)
(* primary key of its row; hashes and JWT signatures are left out, so is   *)
(* is_active, which nothing ever clears.                                   *)
(***************************************************************************)
EXTENDS Integers, FiniteSets

CONSTANTS
    Emails,      \* addresses, lower-cased as the handlers do
    Passwords,
    Names,
    Handlers,    \* request handlers in flight at the same time
    SessionTTL,  \* REFRESH_TOKEN_EXPIRE_DAYS
    ResetTTL,    \* one hour
    MaxClock,    \* bound on time
    Budget       \* bound on the requests

ASSUME AuthAssumption ==
    /\ SessionTTL \in Nat /\ ResetTTL \in Nat
    /\ MaxClock \in Nat /\ Budget \in Nat

VARIABLES
    users,     \* rows of users
    sessions,  \* rows of refresh_tokens
    resets,    \* rows of password_resets
    tx,        \* tx[h]: what handler h has read and will write
    clock,
    nextId,    \* the next fresh primary key
    budget

vars == <<users, sessions, resets, tx, clock, nextId, budget>>

\* `since` is a history field: the primary key that was next when the DELETE
\* of the account's last committed password reset ran.  `uses` stands for
\* used_at: how often it has been set.
User == [id : Nat, email : Emails, password : Passwords, name : Names,
         since : Nat]
Session == [id : Nat, user : Nat, expires : Nat]
Reset == [id : Nat, user : Nat, expires : Nat, uses : Nat]

Idle == [op |-> "idle"]
Tx == {Idle}
      \cup [op : {"register"}, email : Emails, password : Passwords,
            name : Names]
      \cup [op : {"login"}, user : Nat]
      \cup [op : {"refresh"}, session : Nat]
      \cup [op : {"forgot"}, user : Nat, old : SUBSET Nat]
      \cup [op : {"reset"}, link : Nat, user : Nat, password : Passwords]
      \cup [op : {"flushed"}, link : Nat, user : Nat, password : Passwords,
            old : SUBSET Nat, since : Nat]
      \cup [op : {"profile"}, row : User, name : Names]

Expired(row) == row.expires < clock

-----------------------------------------------------------------------------
(* Handlers *)

Begin(h, t) ==
    /\ tx[h] = Idle
    /\ budget > 0
    /\ budget' = budget - 1
    /\ tx' = [tx EXCEPT ![h] = t]
    /\ UNCHANGED <<users, sessions, resets, clock, nextId>>

Done(h) ==
    /\ tx' = [tx EXCEPT ![h] = Idle]
    /\ UNCHANGED <<clock, budget>>

\* A row was inserted.
Inserted == nextId' = nextId + 1

Rollback(h) ==
    /\ tx[h] # Idle
    /\ tx' = [tx EXCEPT ![h] = Idle]
    /\ UNCHANGED <<users, sessions, resets, clock, nextId, budget>>

NewSession(user) ==
    [id |-> nextId, user |-> user, expires |-> clock + SessionTTL]

Registered(email) == {u \in users : u.email = email}

BeginRegister(h) ==
    \E email \in Emails, password \in Passwords, name \in Names :
        /\ Registered(email) = {}
        /\ Begin(h, [op |-> "register", email |-> email,
                     password |-> password, name |-> name])

\* users.email is unique: the second of two INSERTs of one address waits for
\* the first and then fails (only Rollback is left).
EmailFree_Unindexed(email) == TRUE
EmailFree(email) == Registered(email) = {}

\* The account and its first session; both keys are fresh.
CommitRegister(h) ==
    LET t == tx[h] IN
    /\ t.op = "register"
    /\ EmailFree(t.email)
    /\ users' = users \cup {[id |-> nextId, email |-> t.email,
                             password |-> t.password, name |-> t.name,
                             since |-> 0]}
    /\ sessions' = sessions \cup {NewSession(nextId)}
    /\ Done(h)
    /\ Inserted
    /\ UNCHANGED resets

\* verify_password against the row that was read.
BeginLogin(h) ==
    \E u \in users, password \in Passwords :
        /\ u.password = password
        /\ Begin(h, [op |-> "login", user |-> u.id])

\* Expired sessions of the user are pruned with every login.
CommitLogin(h) ==
    LET t == tx[h] IN
    /\ t.op = "login"
    /\ sessions' = {s \in sessions : ~(s.user = t.user /\ Expired(s))}
                   \cup {NewSession(t.user)}
    /\ Done(h)
    /\ Inserted
    /\ UNCHANGED <<users, resets>>

\* One DELETE and a COMMIT: nothing is read before.
Logout ==
    /\ budget > 0
    /\ budget' = budget - 1
    /\ \E s \in sessions : sessions' = sessions \ {s}
    /\ UNCHANGED <<users, resets, tx, clock, nextId>>

\* refresh: the session is looked up, then its user.
BeginRefresh(h) ==
    \E s \in sessions :
        ~Expired(s) /\ Begin(h, [op |-> "refresh", session |-> s.id])

\* An access token is issued, whatever happened to the session meanwhile; the
\* session is not rotated.
FinishRefresh(h) ==
    /\ tx[h].op = "refresh"
    /\ Done(h)
    /\ UNCHANGED <<users, sessions, resets, nextId>>

\* The lookup finds an expired session: it is deleted, 401.
RefreshExpired ==
    /\ budget > 0
    /\ budget' = budget - 1
    /\ \E s \in sessions : Expired(s) /\ sessions' = sessions \ {s}
    /\ UNCHANGED <<users, resets, tx, clock, nextId>>

-----------------------------------------------------------------------------
(* Password reset *)

Unused(user) == {r \in resets : r.user = user /\ r.uses = 0}

\* The unused links the DELETE of forgot_password sees.
BeginForgot(h) ==
    \E u \in users :
        Begin(h, [op |-> "forgot", user |-> u.id,
                  old |-> {r.id : r \in Unused(u.id)}])

\* A flushed reset holds the row locks of its account and its link.
LinkLocked(id) == \E g \in Handlers : tx[g].op = "flushed" /\ tx[g].link = id
UserLocked(id) == \E g \in Handlers : tx[g].op = "flushed" /\ tx[g].user = id

\* The DELETE waits for a locked row and then looks at it again: a link that
\* was used meanwhile stays.
Superseded_Unchecked(r, old) == r.id \in old
Superseded(r, old) == r.id \in old /\ r.uses = 0

CommitForgot(h) ==
    LET t == tx[h] IN
    /\ t.op = "forgot"
    /\ \A id \in t.old : ~LinkLocked(id)
    /\ resets' = {r \in resets : ~Superseded(r, t.old)}
                 \cup {[id |-> nextId, user |-> t.user,
                        expires |-> clock + ResetTTL, uses |-> 0]}
    /\ Done(h)
    /\ Inserted
    /\ UNCHANGED <<users, sessions>>

BeginReset(h) ==
    \E r \in resets, password \in Passwords :
        /\ r.uses = 0
        /\ ~Expired(r)
        /\ Begin(h, [op |-> "reset", link |-> r.id, user |-> r.user,
                     password |-> password])

\* The UPDATE of the link must match its row: StaleDataError otherwise, and
\* only Rollback is left.
LinkThere(id) == \E r \in resets : r.id = id

\* The sessions the DELETE of reset_password sees.
Doomed_ExpiredOnly(user) == {s \in sessions : s.user = user /\ Expired(s)}
Doomed(user) == {s \in sessions : s.user = user}

FlushReset(h) ==
    LET t == tx[h] IN
    /\ t.op = "reset"
    /\ ~UserLocked(t.user)
    /\ LinkThere(t.link)
    /\ tx' = [tx EXCEPT ![h] =
                [op |-> "flushed", link |-> t.link, user |-> t.user,
                 password |-> t.password,
                 old |-> {s.id : s \in Doomed(t.user)}, since |-> nextId]]
    /\ UNCHANGED <<users, sessions, resets, clock, nextId, budget>>

CommitReset(h) ==
    LET t == tx[h] IN
    /\ t.op = "flushed"
    /\ users' = {IF u.id = t.user
                 THEN [u EXCEPT !.password = t.password, !.since = t.since]
                 ELSE u : u \in users}
    /\ resets' = {IF r.id = t.link THEN [r EXCEPT !.uses = @ + 1] ELSE r
                  : r \in resets}
    /\ sessions' = {s \in sessions : s.id \notin t.old}
    /\ Done(h)
    /\ UNCHANGED nextId

-----------------------------------------------------------------------------
(* Profile (routers/users.py) *)

\* get_current_user reads the row.
BeginProfile(h) ==
    \E u \in users, name \in Names :
        Begin(h, [op |-> "profile", row |-> u, name |-> name])

\* The ORM writes the changed column only.
Renamed_WholeRow(u, row, name) == [row EXCEPT !.name = name]
Renamed(u, row, name) == [u EXCEPT !.name = name]

CommitProfile(h) ==
    LET t == tx[h] IN
    /\ t.op = "profile"
    /\ ~UserLocked(t.row.id)
    /\ users' = {IF u.id = t.row.id THEN Renamed(u, t.row, t.name) ELSE u
                 : u \in users}
    /\ Done(h)
    /\ UNCHANGED <<sessions, resets, nextId>>

-----------------------------------------------------------------------------
Tick ==
    /\ clock < MaxClock
    /\ clock' = clock + 1
    /\ UNCHANGED <<users, sessions, resets, tx, nextId, budget>>

Init ==
    /\ users = {}
    /\ sessions = {}
    /\ resets = {}
    /\ tx = [h \in Handlers |-> Idle]
    /\ clock = 0
    /\ nextId = 1
    /\ budget = Budget

Step(h) ==
    \/ BeginRegister(h) \/ CommitRegister(h)
    \/ BeginLogin(h) \/ CommitLogin(h)
    \/ BeginRefresh(h) \/ FinishRefresh(h)
    \/ BeginForgot(h) \/ CommitForgot(h)
    \/ BeginReset(h) \/ FlushReset(h) \/ CommitReset(h)
    \/ BeginProfile(h) \/ CommitProfile(h)
    \/ Rollback(h)

Next == (\E h \in Handlers : Step(h)) \/ Logout \/ RefreshExpired \/ Tick

Spec == Init /\ [][Next]_vars

-----------------------------------------------------------------------------
(* Properties *)

\* Every table and every handler's local state is well formed.
AuthTypeOK ==
    /\ users \subseteq User
    /\ sessions \subseteq Session
    /\ resets \subseteq Reset
    /\ tx \in [Handlers -> Tx]
    /\ clock \in Nat
    /\ nextId \in Nat
    /\ budget \in Nat

\* Two registrations of one address that both pass the check leave one account.
OneAccountPerEmail ==
    \A u, v \in users : u.email = v.email => u = v

\* A password reset ends every session that was open when it deleted them; one
\* that is left was opened by a login that committed later.  (Such a login may
\* have verified the old password: nothing stops it.)
ResetEndsSessions ==
    \A u \in users, s \in sessions : s.user = u.id => s.id >= u.since

\* A password changes only by a link that is still there, for its own account,
\* and is marked used by the same commit: neither a link that a later
\* forgot-password has superseded nor a profile update that read the row
\* before sets one.
PasswordOnlyByLink ==
    [][\A u \in users, v \in users' :
         u.id = v.id /\ u.password # v.password =>
           \E r \in resets : /\ r.user = u.id
                             /\ [r EXCEPT !.uses = @ + 1] \in resets']_vars

\* A link that was used stays on record as used, also when forgot-password
\* deletes "unused" links at the same time: no later request can use it again.
UsedLinksKept ==
    [][\A r \in resets : r.uses > 0 =>
         \E q \in resets' : q.id = r.id /\ q.uses >= r.uses]_vars
=============================================================================
