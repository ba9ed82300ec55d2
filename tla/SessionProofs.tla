---------------------------- MODULE SessionProofs ----------------------------
(* Sessions at both ends.  On the server (AuthSessions): accounts, sessions *)
(* and reset links for any number of concurrent requests, addresses and    *)
(* passwords.  In the browser (TokenRefresh): one refresh at a time, and   *)
(* nobody waits for none, with any number of requests and logins.          *)
EXTENDS AuthSessions, TokenRefresh, FiniteSetTheorems, TLAPS

-----------------------------------------------------------------------------
(* The auth-service *)

\* Primary keys are fresh when they are given out, and identify rows.
KeysOK ==
    /\ \A u \in users : u.id < nextId /\ u.since <= nextId
    /\ \A s \in sessions : s.id < nextId
    /\ \A r \in resets : r.id < nextId
    /\ \A u, v \in users : u.id = v.id => u = v
    /\ \A q, r \in resets : q.id = r.id => q = r

\* What a reset in flight knows stays true until it commits: whose link it
\* holds, and, once it is flushed, that the link is there and that every
\* session it did not see is newer.
TxOK(t) ==
    /\ t.op \in {"reset", "flushed"} =>
         /\ t.link < nextId
         /\ \A r \in resets : r.id = t.link => r.user = t.user
    /\ t.op = "flushed" =>
         /\ t.since <= nextId
         /\ \E r \in resets : r.id = t.link
         /\ \A s \in sessions :
              s.user = t.user /\ s.id < t.since => s.id \in t.old
    /\ t.op = "profile" => t.row.id < nextId

IInv ==
    /\ AuthTypeOK
    /\ KeysOK
    /\ OneAccountPerEmail
    /\ ResetEndsSessions
    /\ \A h \in Handlers : TxOK(tx[h])

\* How the tables may change around a handler that is in flight.
Around(g) ==
    /\ nextId' \in {nextId, nextId + 1}
    /\ \A s \in sessions' : s \in sessions \/ s.id = nextId
    /\ \A r \in resets' :
         r.id = nextId \/ \E q \in resets : q.id = r.id /\ q.user = r.user
    /\ tx[g].op = "flushed" =>
         \A r \in resets : r.id = tx[g].link =>
           \E q \in resets' : q.id = r.id

\* Such changes leave what it knows true.
LEMMA TxKept ==
  ASSUME IInv, NEW g \in Handlers, Around(g), tx'[g] = tx[g]
  PROVE  TxOK(tx[g])'
<1> DEFINE t == tx[g]
<1>1. TxOK(t) /\ t \in Tx /\ nextId \in Nat
  BY DEF IInv, AuthTypeOK
<1>2. ASSUME t.op \in {"reset", "flushed"}
      PROVE  t.link < nextId' /\ \A r \in resets' : r.id = t.link => r.user = t.user
  <2>1. t.link \in Nat /\ t.link < nextId
    BY <1>1, <1>2 DEF TxOK, Tx, Idle
  <2> QED
    BY <1>1, <1>2, <2>1 DEF TxOK, Around
<1>3. ASSUME t.op = "flushed"
      PROVE  /\ t.since <= nextId'
             /\ \E r \in resets' : r.id = t.link
             /\ \A s \in sessions' :
                  s.user = t.user /\ s.id < t.since => s.id \in t.old
  <2>1. t.since \in Nat /\ t.since <= nextId
    BY <1>1, <1>3 DEF TxOK, Tx, Idle
  <2>2. t.since <= nextId'
    BY <1>1, <2>1 DEF Around
  <2>3. \E r \in resets' : r.id = t.link
    BY <1>1, <1>3 DEF TxOK, Around
  <2>4. ASSUME NEW s \in sessions', s.user = t.user, s.id < t.since
        PROVE  s.id \in t.old
    <3>1. s.id # nextId
      BY <1>1, <2>1, <2>4
    <3> QED
      BY <1>1, <1>3, <2>4, <3>1 DEF TxOK, Around
  <2> QED
    BY <2>2, <2>3, <2>4
<1>4. ASSUME t.op = "profile"
      PROVE  t.row.id < nextId'
  <2>1. t.row.id \in Nat /\ t.row.id < nextId
    BY <1>1, <1>4 DEF TxOK, Tx, Idle, User
  <2> QED
    BY <1>1, <2>1 DEF Around
<1> QED
  BY <1>2, <1>3, <1>4 DEF TxOK

\* An empty service.
LEMMA InitInv == Init => IInv
<1> SUFFICES ASSUME Init PROVE IInv
  OBVIOUS
<1>1. Idle \in Tx
  BY DEF Tx
<1>2. AuthTypeOK
  BY <1>1, AuthAssumption DEF Init, AuthTypeOK
<1>3. KeysOK /\ OneAccountPerEmail /\ ResetEndsSessions
  BY DEF Init, KeysOK, OneAccountPerEmail, ResetEndsSessions
<1>4. \A h \in Handlers : TxOK(tx[h])
  BY DEF Init, TxOK, Idle
<1> QED
  BY <1>2, <1>3, <1>4 DEF IInv

\* Steps of a handler that change no table: reading, giving up.
LEMMA OnlyTx ==
  ASSUME IInv, NEW h \in Handlers, NEW t \in Tx, TxOK(t),
         tx' = [tx EXCEPT ![h] = t], budget' \in Nat,
         UNCHANGED <<users, sessions, resets, clock, nextId>>
  PROVE  IInv'
<1>1. AuthTypeOK'
  BY DEF IInv, AuthTypeOK
<1>2. KeysOK' /\ OneAccountPerEmail' /\ ResetEndsSessions'
  BY DEF IInv, KeysOK, OneAccountPerEmail, ResetEndsSessions
<1>3. ASSUME NEW g \in Handlers PROVE TxOK(tx[g])'
  <2>1. CASE g = h
    <3>1. tx'[g] = t
      BY <2>1 DEF IInv, AuthTypeOK
    <3> QED
      BY <3>1 DEF TxOK
  <2>2. CASE g # h
    <3>1. tx'[g] = tx[g]
      BY <2>2 DEF IInv, AuthTypeOK
    <3>2. Around(g)
      BY DEF Around
    <3> QED
      BY <3>1, <3>2, TxKept
  <2> QED
    BY <2>1, <2>2
<1> QED
  BY <1>1, <1>2, <1>3 DEF IInv

LEMMA BeginOK ==
  ASSUME IInv, NEW h \in Handlers, NEW t \in Tx, TxOK(t), Begin(h, t)
  PROVE  IInv'
<1>1. budget' \in Nat
  BY DEF Begin, IInv, AuthTypeOK
<1> QED
  BY <1>1, OnlyTx DEF Begin

\* After a commit the handler is idle and the others know what they knew.
LEMMA CommitTx ==
  ASSUME IInv, NEW h \in Handlers, tx' = [tx EXCEPT ![h] = Idle],
         \A g \in Handlers \ {h} : Around(g)
  PROVE  tx' \in [Handlers -> Tx] /\ \A g \in Handlers : TxOK(tx[g])'
<1>1. tx' \in [Handlers -> Tx]
  BY DEF IInv, AuthTypeOK, Tx
<1>2. ASSUME NEW g \in Handlers PROVE TxOK(tx[g])'
  <2>1. CASE g = h
    <3>1. tx'[g] = Idle
      BY <2>1 DEF IInv, AuthTypeOK
    <3> QED
      BY <3>1 DEF TxOK, Idle
  <2>2. CASE g # h
    BY <2>2, TxKept DEF IInv, AuthTypeOK
  <2> QED
    BY <2>1, <2>2
<1> QED
  BY <1>1, <1>2

\* Reads and rollbacks keep the invariant: BeginReset is the one that learns
\* something, the owner of its link.
LEMMA BeginsInv ==
  ASSUME IInv, NEW h \in Handlers,
         \/ BeginRegister(h) \/ BeginLogin(h) \/ BeginRefresh(h)
         \/ BeginForgot(h) \/ BeginReset(h) \/ BeginProfile(h)
  PROVE  IInv'
<1>1. CASE BeginRegister(h)
  <2>1. PICK t \in Tx : t.op = "register" /\ Begin(h, t)
    BY <1>1 DEF BeginRegister, Tx
  <2> QED
    BY <2>1, BeginOK DEF TxOK
<1>2. CASE BeginLogin(h)
  <2>1. PICK t \in Tx : t.op = "login" /\ Begin(h, t)
    BY <1>2 DEF BeginLogin, Tx, IInv, AuthTypeOK, User
  <2> QED
    BY <2>1, BeginOK DEF TxOK
<1>3. CASE BeginRefresh(h)
  <2>1. PICK t \in Tx : t.op = "refresh" /\ Begin(h, t)
    BY <1>3 DEF BeginRefresh, Tx, IInv, AuthTypeOK, Session
  <2> QED
    BY <2>1, BeginOK DEF TxOK
<1>4. CASE BeginForgot(h)
  <2>1. PICK u \in users : Begin(h, [op |-> "forgot", user |-> u.id,
                                     old |-> {r.id : r \in Unused(u.id)}])
    BY <1>4 DEF BeginForgot
  <2>2. u.id \in Nat /\ {r.id : r \in Unused(u.id)} \in SUBSET Nat
    BY DEF IInv, AuthTypeOK, User, Reset, Unused
  <2>3. [op |-> "forgot", user |-> u.id,
         old |-> {r.id : r \in Unused(u.id)}] \in Tx
    BY <2>2 DEF Tx
  <2> QED
    BY <2>1, <2>3, BeginOK DEF TxOK
<1>5. CASE BeginReset(h)
  <2>1. PICK r \in resets, password \in Passwords :
          Begin(h, [op |-> "reset", link |-> r.id, user |-> r.user,
                    password |-> password])
    BY <1>5 DEF BeginReset
  <2> DEFINE t == [op |-> "reset", link |-> r.id, user |-> r.user,
                   password |-> password]
  <2>2. t \in Tx
    BY DEF Tx, IInv, AuthTypeOK, Reset
  <2>3. TxOK(t)
    BY DEF TxOK, IInv, KeysOK
  <2> QED
    BY <2>1, <2>2, <2>3, BeginOK
<1>6. CASE BeginProfile(h)
  <2>1. PICK u \in users, name \in Names :
          Begin(h, [op |-> "profile", row |-> u, name |-> name])
    BY <1>6 DEF BeginProfile
  <2>2. [op |-> "profile", row |-> u, name |-> name] \in Tx
    BY DEF Tx, IInv, AuthTypeOK
  <2>3. TxOK([op |-> "profile", row |-> u, name |-> name])
    BY DEF TxOK, IInv, KeysOK
  <2> QED
    BY <2>1, <2>2, <2>3, BeginOK
<1> QED
  BY <1>1, <1>2, <1>3, <1>4, <1>5, <1>6

\* An account with a fresh key and an address nobody has, and its session.
LEMMA CommitRegisterInv ==
  ASSUME IInv, NEW h \in Handlers, CommitRegister(h)
  PROVE  IInv'
<1> DEFINE t == tx[h]
           new == [id |-> nextId, email |-> t.email, password |-> t.password,
                   name |-> t.name, since |-> 0]
<1>1. /\ t \in Tx /\ t.op = "register" /\ nextId \in Nat /\ clock \in Nat
      /\ Registered(t.email) = {}
      /\ users' = users \cup {new}
      /\ sessions' = sessions \cup {NewSession(nextId)}
      /\ nextId' = nextId + 1
      /\ tx' = [tx EXCEPT ![h] = Idle]
      /\ UNCHANGED <<resets, clock, budget>>
  BY DEF CommitRegister, EmailFree, Done, Inserted, IInv, AuthTypeOK
<1>2. new \in User /\ NewSession(nextId) \in Session
  BY <1>1, AuthAssumption DEF Tx, Idle, User, Session, NewSession
<1>3. \A g \in Handlers \ {h} : Around(g)
  BY <1>1 DEF Around, NewSession
<1>4. AuthTypeOK' /\ \A g \in Handlers : TxOK(tx[g])'
  <2>1. tx' \in [Handlers -> Tx] /\ \A g \in Handlers : TxOK(tx[g])'
    BY <1>1, <1>3, CommitTx
  <2>2. users' \subseteq User /\ sessions' \subseteq Session
    BY <1>1, <1>2 DEF IInv, AuthTypeOK
  <2> QED
    BY <1>1, <2>1, <2>2 DEF IInv, AuthTypeOK
<1>5. \A u \in users : u \in User /\ u.id < nextId /\ u.since <= nextId
  BY DEF IInv, AuthTypeOK, KeysOK
<1>6. \A s \in sessions : s \in Session /\ s.id < nextId
  BY DEF IInv, AuthTypeOK, KeysOK
<1>7. \A r \in resets : r \in Reset /\ r.id < nextId
  BY DEF IInv, AuthTypeOK, KeysOK
<1>8. KeysOK'
  <2>1. \A u \in users' : u.id < nextId' /\ u.since <= nextId'
    BY <1>1, <1>5 DEF User
  <2>2. \A s \in sessions' : s.id < nextId'
    BY <1>1, <1>6 DEF Session, NewSession
  <2>3. \A r \in resets' : r.id < nextId'
    BY <1>1, <1>7 DEF Reset
  <2>4. \A u, v \in users' : u.id = v.id => u = v
    BY <1>1, <1>5 DEF IInv, KeysOK, User
  <2>5. \A q, r \in resets' : q.id = r.id => q = r
    BY <1>1 DEF IInv, KeysOK
  <2> QED
    BY <2>1, <2>2, <2>3, <2>4, <2>5 DEF KeysOK
<1>9. OneAccountPerEmail'
  <2>1. \A u \in users : u.email # t.email
    BY <1>1 DEF Registered
  <2> QED
    BY <1>1, <2>1 DEF IInv, OneAccountPerEmail
<1>10. ResetEndsSessions'
  <2>1. ASSUME NEW u \in users', NEW s \in sessions', s.user = u.id
        PROVE  s.id >= u.since
    <3>1. CASE u \in users /\ s \in sessions
      BY <2>1, <3>1 DEF IInv, ResetEndsSessions
    <3>2. CASE u = new
      BY <1>1, <1>6, <2>1, <3>2 DEF Session, NewSession
    <3>3. CASE u \in users /\ s = NewSession(nextId)
      BY <1>1, <1>5, <2>1, <3>3 DEF User, NewSession
    <3> QED
      BY <1>1, <3>1, <3>2, <3>3
  <2> QED
    BY <2>1 DEF ResetEndsSessions
<1> QED
  BY <1>4, <1>8, <1>9, <1>10 DEF IInv

\* Sessions come with fresh keys, or go.
LEMMA SessionsInv ==
  ASSUME IInv, NEW new \in SUBSET Session, sessions' \subseteq sessions \cup new,
         \A s \in new : s.id = nextId /\ nextId' = nextId + 1,
         nextId' \in {nextId, nextId + 1},
         UNCHANGED <<users, resets>>
  PROVE  /\ sessions' \subseteq Session
         /\ KeysOK' /\ OneAccountPerEmail' /\ ResetEndsSessions'
<1>1. nextId \in Nat /\ users \subseteq User /\ sessions \subseteq Session
      /\ resets \subseteq Reset
  BY DEF IInv, AuthTypeOK
<1>2. KeysOK'
  <2>1. \A u \in users' : u.id < nextId' /\ u.since <= nextId'
    BY <1>1 DEF IInv, KeysOK, User
  <2>2. \A s \in sessions' : s.id < nextId'
    BY <1>1 DEF IInv, KeysOK, Session
  <2>3. \A r \in resets' : r.id < nextId'
    BY <1>1 DEF IInv, KeysOK, Reset
  <2> QED
    BY <2>1, <2>2, <2>3 DEF IInv, KeysOK
<1>3. ResetEndsSessions'
  <2>1. ASSUME NEW u \in users', NEW s \in sessions', s.user = u.id
        PROVE  s.id >= u.since
    <3>1. u \in users /\ u.since \in Nat /\ u.since <= nextId
      BY <1>1 DEF IInv, KeysOK, User
    <3> QED
      BY <1>1, <2>1, <3>1 DEF IInv, ResetEndsSessions
  <2> QED
    BY <2>1 DEF ResetEndsSessions
<1> QED
  BY <1>1, <1>2, <1>3 DEF IInv, OneAccountPerEmail

LEMMA CommitLoginInv ==
  ASSUME IInv, NEW h \in Handlers, CommitLogin(h)
  PROVE  IInv'
<1> DEFINE t == tx[h]
<1>1. /\ t \in Tx /\ t.op = "login" /\ nextId \in Nat /\ clock \in Nat
      /\ sessions' \subseteq sessions \cup {NewSession(t.user)}
      /\ nextId' = nextId + 1
      /\ tx' = [tx EXCEPT ![h] = Idle]
      /\ UNCHANGED <<users, resets, clock, budget>>
  BY DEF CommitLogin, Done, Inserted, IInv, AuthTypeOK
<1>2. NewSession(t.user) \in Session
  BY <1>1, AuthAssumption DEF Tx, Idle, Session, NewSession
<1>3. \A s \in {NewSession(t.user)} : s.id = nextId
  BY DEF NewSession
<1>4. /\ sessions' \subseteq Session
      /\ KeysOK' /\ OneAccountPerEmail' /\ ResetEndsSessions'
  <2>1. {NewSession(t.user)} \in SUBSET Session
    BY <1>2
  <2> QED
    BY <1>1, <1>3, <2>1, SessionsInv
<1>5. \A g \in Handlers \ {h} : Around(g)
  BY <1>1, <1>3 DEF Around
<1>6. tx' \in [Handlers -> Tx] /\ \A g \in Handlers : TxOK(tx[g])'
  BY <1>1, <1>5, CommitTx
<1>7. AuthTypeOK'
  BY <1>1, <1>4, <1>6 DEF IInv, AuthTypeOK
<1> QED
  BY <1>4, <1>6, <1>7 DEF IInv

\* Steps that only delete sessions and leave the handlers alone.
LEMMA SessionsGone ==
  ASSUME IInv, sessions' \subseteq sessions, budget' \in Nat, clock' \in Nat,
         UNCHANGED <<users, resets, tx, nextId>>
  PROVE  IInv'
<1>1. nextId \in Nat
  BY DEF IInv, AuthTypeOK
<1>2. /\ sessions' \subseteq Session
      /\ KeysOK' /\ OneAccountPerEmail' /\ ResetEndsSessions'
  <2>1. {} \in SUBSET Session /\ sessions' \subseteq sessions \cup {}
    OBVIOUS
  <2>2. \A s \in {} : s.id = nextId /\ nextId' = nextId + 1
    OBVIOUS
  <2> QED
    BY <2>1, <2>2, SessionsInv
<1>3. AuthTypeOK'
  BY <1>2 DEF IInv, AuthTypeOK
<1>4. ASSUME NEW g \in Handlers PROVE TxOK(tx[g])'
  <2>1. Around(g)
    BY DEF Around
  <2> QED
    BY <2>1, TxKept
<1> QED
  BY <1>2, <1>3, <1>4 DEF IInv

LEMMA DeletesInv == IInv /\ (Logout \/ RefreshExpired \/ Tick) => IInv'
<1> SUFFICES ASSUME IInv, Logout \/ RefreshExpired \/ Tick PROVE IInv'
  OBVIOUS
<1>1. clock \in Nat /\ budget \in Nat
  BY DEF IInv, AuthTypeOK
<1>2. /\ sessions' \subseteq sessions /\ budget' \in Nat /\ clock' \in Nat
      /\ UNCHANGED <<users, resets, tx, nextId>>
  BY <1>1 DEF Logout, RefreshExpired, Tick
<1> QED
  BY <1>2, SessionsGone

\* Handlers that end without a write.
LEMMA EndsInv ==
  ASSUME IInv, NEW h \in Handlers, FinishRefresh(h) \/ Rollback(h)
  PROVE  IInv'
<1>1. Idle \in Tx /\ TxOK(Idle)
  BY DEF Tx, TxOK, Idle
<1>2. /\ tx' = [tx EXCEPT ![h] = Idle] /\ budget' = budget
      /\ UNCHANGED <<users, sessions, resets, clock, nextId>>
  BY DEF FinishRefresh, Rollback, Done
<1>3. budget' \in Nat
  BY <1>2 DEF IInv, AuthTypeOK
<1> QED
  BY <1>1, <1>2, <1>3, OnlyTx

\* The link of a flushed reset is locked, so the DELETE leaves it.
LEMMA CommitForgotInv ==
  ASSUME IInv, NEW h \in Handlers, CommitForgot(h)
  PROVE  IInv'
<1> DEFINE t == tx[h]
           new == [id |-> nextId, user |-> t.user,
                   expires |-> clock + ResetTTL, uses |-> 0]
<1>1. /\ t \in Tx /\ t.op = "forgot" /\ nextId \in Nat /\ clock \in Nat
      /\ \A id \in t.old : ~LinkLocked(id)
      /\ resets' = {r \in resets : ~Superseded(r, t.old)} \cup {new}
      /\ nextId' = nextId + 1
      /\ tx' = [tx EXCEPT ![h] = Idle]
      /\ UNCHANGED <<users, sessions, clock, budget>>
  BY DEF CommitForgot, Done, Inserted, IInv, AuthTypeOK
<1>2. new \in Reset
  BY <1>1, AuthAssumption DEF Tx, Idle, Reset
<1>3. ASSUME NEW g \in Handlers \ {h} PROVE Around(g)
  <2>1. ASSUME tx[g].op = "flushed", NEW r \in resets, r.id = tx[g].link
        PROVE  r \in resets'
    BY <1>1, <2>1 DEF LinkLocked, Superseded
  <2>2. \A r \in resets' : r.id = nextId \/ r \in resets
    BY <1>1
  <2> QED
    BY <1>1, <2>1, <2>2 DEF Around
<1>4. tx' \in [Handlers -> Tx] /\ \A g \in Handlers : TxOK(tx[g])'
  BY <1>1, <1>3, CommitTx
<1>5. AuthTypeOK'
  <2>1. resets' \subseteq Reset
    BY <1>1, <1>2 DEF IInv, AuthTypeOK
  <2> QED
    BY <1>1, <1>4, <2>1 DEF IInv, AuthTypeOK
<1>6. KeysOK'
  <2>1. \A u \in users' : u.id < nextId' /\ u.since <= nextId'
    BY <1>1 DEF IInv, AuthTypeOK, KeysOK, User
  <2>2. \A s \in sessions' : s.id < nextId'
    BY <1>1 DEF IInv, AuthTypeOK, KeysOK, Session
  <2>3. \A r \in resets : r.id \in Nat /\ r.id < nextId
    BY DEF IInv, AuthTypeOK, KeysOK, Reset
  <2>4. \A r \in resets' : r.id < nextId'
    BY <1>1, <2>3
  <2>5. \A q, r \in resets' : q.id = r.id => q = r
    BY <1>1, <2>3 DEF IInv, KeysOK
  <2> QED
    BY <1>1, <2>1, <2>2, <2>4, <2>5 DEF IInv, KeysOK
<1> QED
  BY <1>1, <1>4, <1>5, <1>6 DEF IInv, OneAccountPerEmail, ResetEndsSessions

\* A flush notes every session there is: what it did not see is newer.
LEMMA FlushResetInv ==
  ASSUME IInv, NEW h \in Handlers, FlushReset(h)
  PROVE  IInv'
<1> DEFINE t == tx[h]
           old == {s.id : s \in Doomed(t.user)}
           new == [op |-> "flushed", link |-> t.link, user |-> t.user,
                   password |-> t.password, old |-> old, since |-> nextId]
<1>1. /\ t \in Tx /\ t.op = "reset" /\ nextId \in Nat /\ TxOK(t)
      /\ LinkThere(t.link)
      /\ tx' = [tx EXCEPT ![h] = new]
      /\ UNCHANGED <<users, sessions, resets, clock, nextId, budget>>
  BY DEF FlushReset, IInv, AuthTypeOK
<1>2. old \in SUBSET Nat
  BY DEF Doomed, IInv, AuthTypeOK, Session
<1>3. new \in Tx
  <2>1. t.link \in Nat /\ t.user \in Nat /\ t.password \in Passwords
    BY <1>1 DEF Tx, Idle
  <2> QED
    BY <1>1, <1>2, <2>1 DEF Tx
<1>4. TxOK(new)
  <2>1. new.link < nextId /\ \A r \in resets : r.id = new.link => r.user = new.user
    BY <1>1 DEF TxOK
  <2>2. \A s \in sessions : s.user = new.user => s.id \in new.old
    BY DEF Doomed
  <2>3. \E r \in resets : r.id = new.link
    BY <1>1 DEF LinkThere
  <2> QED
    BY <1>1, <2>1, <2>2, <2>3 DEF TxOK
<1>5. budget' \in Nat
  BY <1>1 DEF IInv, AuthTypeOK
<1> QED
  BY <1>1, <1>3, <1>4, <1>5, OnlyTx

LEMMA CommitResetInv ==
  ASSUME IInv, NEW h \in Handlers, CommitReset(h)
  PROVE  IInv'
<1> DEFINE t == tx[h]
           Set(u) == IF u.id = t.user
                     THEN [u EXCEPT !.password = t.password, !.since = t.since]
                     ELSE u
           Use(r) == IF r.id = t.link THEN [r EXCEPT !.uses = @ + 1] ELSE r
<1>1. /\ t \in Tx /\ t.op = "flushed" /\ nextId \in Nat /\ TxOK(t)
      /\ users' = {Set(u) : u \in users}
      /\ resets' = {Use(r) : r \in resets}
      /\ sessions' = {s \in sessions : s.id \notin t.old}
      /\ tx' = [tx EXCEPT ![h] = Idle]
      /\ UNCHANGED <<clock, nextId, budget>>
  BY DEF CommitReset, Done, IInv, AuthTypeOK
<1>2. t.since \in Nat /\ t.since <= nextId /\ t.password \in Passwords
  <2>1. t.since <= nextId
    BY <1>1 DEF TxOK
  <2>2. t \in Tx /\ t.op = "flushed"
    BY <1>1
  <2>3. t.since \in Nat /\ t.password \in Passwords
    BY <2>2 DEF Tx, Idle
  <2> QED
    BY <2>1, <2>3
<1>3. ASSUME NEW u \in users
      PROVE  /\ u \in User /\ Set(u) \in User
             /\ Set(u).id = u.id /\ Set(u).email = u.email
             /\ u.id < nextId /\ Set(u).since <= nextId
             /\ Set(u).since = IF u.id = t.user THEN t.since ELSE u.since
  <2>1. u \in User /\ u.id < nextId /\ u.since <= nextId
    BY DEF IInv, AuthTypeOK, KeysOK
  <2> QED
    BY <1>2, <2>1 DEF User
<1>4. ASSUME NEW r \in resets
      PROVE  /\ r \in Reset /\ Use(r) \in Reset /\ Use(r).id = r.id
             /\ Use(r).user = r.user /\ r.id < nextId
  <2>1. r \in Reset /\ r.id < nextId
    BY DEF IInv, AuthTypeOK, KeysOK
  <2> QED
    BY <2>1 DEF Reset
<1>5. ASSUME NEW g \in Handlers \ {h} PROVE Around(g)
  <2>1. \A r \in resets' : \E q \in resets : q.id = r.id /\ q.user = r.user
    BY <1>1, <1>4
  <2>2. \A r \in resets : \E q \in resets' : q.id = r.id
    BY <1>1, <1>4
  <2> QED
    BY <1>1, <2>1, <2>2 DEF Around
<1>6. tx' \in [Handlers -> Tx] /\ \A g \in Handlers : TxOK(tx[g])'
  BY <1>1, <1>5, CommitTx
<1>7. AuthTypeOK'
  <2>1. users' \subseteq User
    BY <1>1, <1>3
  <2>2. resets' \subseteq Reset
    BY <1>1, <1>4
  <2> QED
    BY <1>1, <1>6, <2>1, <2>2 DEF IInv, AuthTypeOK
<1>8. KeysOK'
  <2>1. \A u \in users' : u.id < nextId' /\ u.since <= nextId'
    BY <1>1, <1>3
  <2>2. \A s \in sessions' : s.id < nextId'
    BY <1>1 DEF IInv, KeysOK
  <2>3. \A r \in resets' : r.id < nextId'
    BY <1>1, <1>4
  <2>4. ASSUME NEW u \in users', NEW v \in users', u.id = v.id PROVE u = v
    <3>1. PICK a \in users, b \in users : u = Set(a) /\ v = Set(b)
      BY <1>1
    <3>2. a.id = b.id
      BY <1>3, <2>4, <3>1
    <3> QED
      BY <3>1, <3>2 DEF IInv, KeysOK
  <2>5. ASSUME NEW q \in resets', NEW r \in resets', q.id = r.id PROVE q = r
    <3>1. PICK a \in resets, b \in resets : q = Use(a) /\ r = Use(b)
      BY <1>1
    <3>2. a.id = b.id
      BY <1>4, <2>5, <3>1
    <3> QED
      BY <3>1, <3>2 DEF IInv, KeysOK
  <2> QED
    BY <2>1, <2>2, <2>3, <2>4, <2>5 DEF KeysOK
<1>9. OneAccountPerEmail'
  <2>1. ASSUME NEW u \in users', NEW v \in users', u.email = v.email PROVE u = v
    <3>1. PICK a \in users, b \in users : u = Set(a) /\ v = Set(b)
      BY <1>1
    <3>2. a.email = b.email
      BY <1>3, <2>1, <3>1
    <3> QED
      BY <3>1, <3>2 DEF IInv, OneAccountPerEmail
  <2> QED
    BY <2>1 DEF OneAccountPerEmail
<1>10. ResetEndsSessions'
  <2>1. ASSUME NEW u \in users', NEW s \in sessions', s.user = u.id
        PROVE  s.id >= u.since
    <3>1. PICK a \in users : u = Set(a)
      BY <1>1
    <3>2. s \in sessions /\ s.id \notin t.old /\ s.user = a.id /\ s.id \in Nat
      BY <1>1, <1>3, <2>1, <3>1 DEF IInv, AuthTypeOK, Session
    <3>3. CASE a.id = t.user
      <4>1. u.since = t.since
        BY <1>3, <3>1, <3>3
      <4>2. ~(s.id < t.since)
        BY <1>1, <3>2, <3>3 DEF TxOK
      <4> QED
        BY <1>2, <3>2, <4>1, <4>2
    <3>4. CASE a.id # t.user
      BY <1>3, <3>1, <3>2, <3>4 DEF IInv, ResetEndsSessions
    <3> QED
      BY <3>3, <3>4
  <2> QED
    BY <2>1 DEF ResetEndsSessions
<1> QED
  BY <1>6, <1>7, <1>8, <1>9, <1>10 DEF IInv

\* A name is all a profile update writes.
LEMMA CommitProfileInv ==
  ASSUME IInv, NEW h \in Handlers, CommitProfile(h)
  PROVE  IInv'
<1> DEFINE t == tx[h]
           Set(u) == IF u.id = t.row.id THEN Renamed(u, t.row, t.name) ELSE u
<1>1. /\ t \in Tx /\ t.op = "profile"
      /\ users' = {Set(u) : u \in users}
      /\ tx' = [tx EXCEPT ![h] = Idle]
      /\ UNCHANGED <<sessions, resets, clock, nextId, budget>>
  BY DEF CommitProfile, Done, IInv, AuthTypeOK
<1>2. ASSUME NEW u \in users
      PROVE  /\ u \in User /\ Set(u) \in User
             /\ Set(u).id = u.id /\ Set(u).email = u.email
             /\ Set(u).since = u.since
  <2>1. u \in User /\ t.name \in Names
    BY <1>1 DEF IInv, AuthTypeOK, Tx, Idle
  <2> QED
    BY <2>1 DEF User, Renamed
<1>3. \A g \in Handlers \ {h} : Around(g)
  BY <1>1 DEF Around
<1>4. tx' \in [Handlers -> Tx] /\ \A g \in Handlers : TxOK(tx[g])'
  BY <1>1, <1>3, CommitTx
<1>5. AuthTypeOK'
  <2>1. users' \subseteq User
    BY <1>1, <1>2
  <2> QED
    BY <1>1, <1>4, <2>1 DEF IInv, AuthTypeOK
<1>6. KeysOK'
  <2>1. \A u \in users' : u.id < nextId' /\ u.since <= nextId'
    BY <1>1, <1>2 DEF IInv, KeysOK
  <2>2. ASSUME NEW u \in users', NEW v \in users', u.id = v.id PROVE u = v
    <3>1. PICK a \in users, b \in users : u = Set(a) /\ v = Set(b)
      BY <1>1
    <3>2. a.id = b.id
      BY <1>2, <2>2, <3>1
    <3> QED
      BY <3>1, <3>2 DEF IInv, KeysOK
  <2> QED
    BY <1>1, <2>1, <2>2 DEF IInv, KeysOK
<1>7. OneAccountPerEmail'
  <2>1. ASSUME NEW u \in users', NEW v \in users', u.email = v.email PROVE u = v
    <3>1. PICK a \in users, b \in users : u = Set(a) /\ v = Set(b)
      BY <1>1
    <3>2. a.email = b.email
      BY <1>2, <2>1, <3>1
    <3> QED
      BY <3>1, <3>2 DEF IInv, OneAccountPerEmail
  <2> QED
    BY <2>1 DEF OneAccountPerEmail
<1>8. ResetEndsSessions'
  BY <1>1, <1>2 DEF IInv, ResetEndsSessions
<1> QED
  BY <1>4, <1>5, <1>6, <1>7, <1>8 DEF IInv

LEMMA NextInv == IInv /\ [Next]_vars => IInv'
<1> SUFFICES ASSUME IInv, [Next]_vars PROVE IInv'
  OBVIOUS
<1>1. CASE UNCHANGED vars
  BY <1>1 DEF vars, IInv, AuthTypeOK, KeysOK, OneAccountPerEmail,
              ResetEndsSessions, TxOK
<1>2. CASE Logout \/ RefreshExpired \/ Tick
  BY <1>2, DeletesInv
<1>3. ASSUME NEW h \in Handlers, Step(h) PROVE IInv'
  BY <1>3, BeginsInv, CommitRegisterInv, CommitLoginInv, EndsInv,
     CommitForgotInv, FlushResetInv, CommitResetInv, CommitProfileInv DEF Step
<1> QED
  BY <1>1, <1>2, <1>3 DEF Next

-----------------------------------------------------------------------------
(* What the runs check, for every value of the constants *)

\* Registrations that race leave one account per address.
THEOREM AuthOneAccountPerEmail == Spec => []OneAccountPerEmail
<1>1. IInv => OneAccountPerEmail
  BY DEF IInv
<1> QED
  BY InitInv, NextInv, <1>1, PTL DEF Spec

\* No session older than the account's last password reset is left.
THEOREM AuthResetEndsSessions == Spec => []ResetEndsSessions
<1>1. IInv => ResetEndsSessions
  BY DEF IInv
<1> QED
  BY InitInv, NextInv, <1>1, PTL DEF Spec

\* Only a reset writes a password, and its link is there and of that account:
\* the owner of the link was read with it and never changes.
LEMMA PasswordStep ==
  ASSUME IInv, [Next]_vars, NEW u \in users, NEW v \in users',
         u.id = v.id, u.password # v.password
  PROVE  \E r \in resets : /\ r.user = u.id
                           /\ [r EXCEPT !.uses = @ + 1] \in resets'
<1>1. \A a, b \in users : a.id = b.id => a = b
  BY DEF IInv, KeysOK
<1>2. CASE users' = users
  BY <1>1, <1>2
<1>3. ASSUME NEW h \in Handlers, CommitRegister(h) PROVE FALSE
  <2>1. v \in users \/ v.id = nextId
    BY <1>3 DEF CommitRegister
  <2>2. u.id # nextId
    BY DEF IInv, KeysOK, AuthTypeOK, User
  <2> QED
    BY <1>1, <2>1, <2>2
<1>4. ASSUME NEW h \in Handlers, CommitReset(h)
      PROVE \E r \in resets : /\ r.user = u.id
                             /\ [r EXCEPT !.uses = @ + 1] \in resets'
  <2> DEFINE t == tx[h]
  <2>1. PICK a \in users : v = IF a.id = t.user
               THEN [a EXCEPT !.password = t.password, !.since = t.since]
               ELSE a
    BY <1>4 DEF CommitReset
  <2>2. a \in User
    BY DEF IInv, AuthTypeOK
  <2>3. a.id = v.id
    BY <2>1, <2>2 DEF User
  <2>4. a = u /\ u.id = t.user
    BY <1>1, <2>1, <2>3
  <2>5. PICK r \in resets : r.id = t.link /\ r.user = t.user
    BY <1>4 DEF CommitReset, IInv, TxOK
  <2>6. [r EXCEPT !.uses = @ + 1] \in resets'
    BY <1>4, <2>5 DEF CommitReset
  <2> QED
    BY <2>4, <2>5, <2>6
<1>5. ASSUME NEW h \in Handlers, CommitProfile(h) PROVE FALSE
  <2>1. PICK a \in users : v = IF a.id = tx[h].row.id
                               THEN Renamed(a, tx[h].row, tx[h].name) ELSE a
    BY <1>5 DEF CommitProfile
  <2>2. a \in User
    BY DEF IInv, AuthTypeOK
  <2>3. a.id = v.id /\ a.password = v.password
    BY <2>1, <2>2 DEF User, Renamed
  <2> QED
    BY <1>1, <2>3
<1>6. \/ users' = users
      \/ \E h \in Handlers : CommitRegister(h) \/ CommitReset(h) \/ CommitProfile(h)
  BY DEF vars, Next, Step, Logout, RefreshExpired, Tick, Rollback,
         BeginRegister, BeginLogin, BeginRefresh, BeginForgot, BeginReset,
         BeginProfile, Begin, CommitLogin, FinishRefresh, CommitForgot,
         FlushReset
<1> QED
  BY <1>2, <1>3, <1>4, <1>5, <1>6

\* A password changes only together with a link of its account that is marked
\* used by the same commit.
THEOREM AuthPasswordOnlyByLink == Spec => PasswordOnlyByLink
<1>1. IInv /\ [Next]_vars =>
        [\A u \in users, v \in users' :
           u.id = v.id /\ u.password # v.password =>
             \E r \in resets : /\ r.user = u.id
                               /\ [r EXCEPT !.uses = @ + 1] \in resets']_vars
  BY PasswordStep
<1> QED
  BY InitInv, NextInv, <1>1, PTL DEF Spec, PasswordOnlyByLink

\* forgot-password looks again at the rows it waited for, and a reset only
\* counts up.
LEMMA UsedStep ==
  ASSUME IInv, [Next]_vars, NEW r \in resets, r.uses > 0
  PROVE  \E q \in resets' : q.id = r.id /\ q.uses >= r.uses
<1>1. r \in Reset
  BY DEF IInv, AuthTypeOK
<1>2. CASE resets' = resets
  BY <1>1, <1>2 DEF Reset
<1>3. ASSUME NEW h \in Handlers, CommitForgot(h)
      PROVE \E q \in resets' : q.id = r.id /\ q.uses >= r.uses
  <2>1. r \in resets'
    BY <1>1, <1>3 DEF CommitForgot, Superseded, Reset
  <2> QED
    BY <1>1, <2>1 DEF Reset
<1>4. ASSUME NEW h \in Handlers, CommitReset(h)
      PROVE \E q \in resets' : q.id = r.id /\ q.uses >= r.uses
  <2>1. \/ r \in resets'
        \/ [r EXCEPT !.uses = @ + 1] \in resets'
    BY <1>4 DEF CommitReset
  <2> QED
    BY <1>1, <2>1 DEF Reset
<1>5. \/ resets' = resets
      \/ \E h \in Handlers : CommitForgot(h) \/ CommitReset(h)
  BY DEF vars, Next, Step, Logout, RefreshExpired, Tick, Rollback,
         BeginRegister, BeginLogin, BeginRefresh, BeginForgot, BeginReset,
         BeginProfile, Begin, CommitRegister, CommitLogin, FinishRefresh,
         FlushReset, CommitProfile
<1> QED
  BY <1>2, <1>3, <1>4, <1>5

\* A used link stays on record as used.
THEOREM AuthUsedLinksKept == Spec => UsedLinksKept
<1>1. IInv /\ [Next]_vars =>
        [\A r \in resets : r.uses > 0 =>
           \E q \in resets' : q.id = r.id /\ q.uses >= r.uses]_vars
  BY UsedStep
<1> QED
  BY InitInv, NextInv, <1>1, PTL DEF Spec, UsedLinksKept
-----------------------------------------------------------------------------
(* The browser tab *)

States == {"idle"} \cup Waiting \cup Ended

TabTypeOK ==
    /\ state \in [Requests -> States]
    /\ retried \in [Requests -> BOOLEAN]
    /\ isRefreshing \in BOOLEAN
    /\ leaving \in BOOLEAN

QueueIsWaiting == failedQueue = {r \in Requests : state[r] = "queued"}

\* isRefreshing tells of a refresh, or of a page without a refresh token.
FlagOK ==
    /\ \A r \in Requests : state[r] = "refreshing" => isRefreshing
    /\ isRefreshing \/ failedQueue # {} =>
         leaving \/ \E r \in Requests : state[r] = "refreshing"

OnlyOne == \A q, r \in Requests :
              state[q] = "refreshing" /\ state[r] = "refreshing" => q = r

TabInv == TabTypeOK /\ QueueIsWaiting /\ FlagOK /\ OnlyOne

LEMMA TabInitInv == TabInit => TabInv
  BY DEF TabInit, TabInv, TabTypeOK, QueueIsWaiting, FlagOK, OnlyOne, States, Waiting, Ended

\* A request that is not waiting, moved to a state that waits for nobody.
LEMMA MoveOK ==
  ASSUME TabInv, NEW r \in Requests, NEW s \in {"sent", "done", "failed"},
         state[r] \in {"idle", "sent"}, state' = [state EXCEPT ![r] = s],
         UNCHANGED <<retried, page>>
  PROVE  TabInv'
<1>1. TabTypeOK'
  BY DEF TabInv, TabTypeOK, States, Waiting, Ended, page
<1>2. \A q \in Requests : /\ (state[q] = "refreshing") <=> (state'[q] = "refreshing")
                          /\ (state[q] = "queued") <=> (state'[q] = "queued")
  BY DEF TabInv, TabTypeOK
<1> QED
  BY <1>1, <1>2 DEF TabInv, QueueIsWaiting, FlagOK, OnlyOne, page

LEMMA TabNextInv == TabInv /\ [TabNext]_tabVars => TabInv'
<1> SUFFICES ASSUME TabInv, [TabNext]_tabVars PROVE TabInv'
  OBVIOUS
<1>1. ASSUME NEW r \in Requests, Send(r) PROVE TabInv'
  BY <1>1, MoveOK DEF Send
<1>2. ASSUME NEW r \in Requests, Answer(r) PROVE TabInv'
  BY <1>2, MoveOK DEF Answer
<1>3. ASSUME NEW r \in Requests, GiveUp(r) PROVE TabInv'
  BY <1>3, MoveOK DEF GiveUp, Unauthorized
<1>4. ASSUME NEW r \in Requests, Wait(r) PROVE TabInv'
  <2>1. TabTypeOK'
    BY <1>4 DEF Wait, TabInv, TabTypeOK, States, Waiting, Ended
  <2>2. QueueIsWaiting'
    BY <1>4 DEF Wait, TabInv, TabTypeOK, QueueIsWaiting
  <2>3. \A q \in Requests : (state[q] = "refreshing") <=> (state'[q] = "refreshing")
    BY <1>4 DEF Wait, TabInv, TabTypeOK, Unauthorized
  <2> QED
    BY <1>4, <2>1, <2>2, <2>3 DEF Wait, TabInv, FlagOK, OnlyOne
<1>5. ASSUME NEW r \in Requests, StartRefresh(r) PROVE TabInv'
  <2>1. TabTypeOK'
    BY <1>5 DEF StartRefresh, TabInv, TabTypeOK, States, Waiting, Ended
  <2>2. QueueIsWaiting'
    BY <1>5 DEF StartRefresh, Unauthorized, TabInv, TabTypeOK, QueueIsWaiting
  <2>3. \A q \in Requests : (state'[q] = "refreshing") <=> q = r
    BY <1>5 DEF StartRefresh, MayRefresh, TabInv, TabTypeOK, FlagOK
  <2> QED
    BY <1>5, <2>1, <2>2, <2>3 DEF StartRefresh, TabInv, FlagOK, OnlyOne
<1>6. ASSUME NEW r \in Requests, NoRefreshToken(r) PROVE TabInv'
  <2>1. TabTypeOK'
    BY <1>6 DEF NoRefreshToken, TabInv, TabTypeOK, States, Waiting, Ended
  <2>2. QueueIsWaiting'
    BY <1>6 DEF NoRefreshToken, Unauthorized, TabInv, TabTypeOK, QueueIsWaiting
  <2>3. \A q \in Requests : state'[q] # "refreshing"
    BY <1>6 DEF NoRefreshToken, MayRefresh, TabInv, TabTypeOK, FlagOK
  <2> QED
    BY <1>6, <2>1, <2>2, <2>3 DEF NoRefreshToken, TabInv, FlagOK, OnlyOne
<1>7. ASSUME NEW r \in Requests, RefreshAnswered(r) PROVE TabInv'
  <2>1. state' \in [Requests -> States]
    BY <1>7 DEF RefreshAnswered, RefreshSucceeds, RefreshFails, TabInv, TabTypeOK,
                States, Waiting, Ended
  <2>2. \A q \in Requests : state'[q] \notin {"refreshing", "queued"}
    <3> SUFFICES ASSUME NEW q \in Requests
                 PROVE  state'[q] \notin {"refreshing", "queued"}
      OBVIOUS
    <3>1. CASE q = r \/ q \in failedQueue
      BY <1>7, <3>1 DEF RefreshAnswered, RefreshSucceeds, RefreshFails, Resent, Rejected
    <3>2. CASE q # r /\ q \notin failedQueue
      <4>1. state'[q] = state[q]
        BY <1>7, <3>2 DEF RefreshAnswered, RefreshSucceeds, RefreshFails, Resent, Rejected
      <4>2. state[r] = "refreshing"
        BY <1>7 DEF RefreshAnswered, RefreshSucceeds, RefreshFails
      <4> QED
        BY <3>2, <4>1, <4>2 DEF TabInv, OnlyOne, QueueIsWaiting
    <3> QED
      BY <3>1, <3>2
  <2>3. failedQueue' = {} /\ isRefreshing' = FALSE /\ leaving' \in BOOLEAN
        /\ retried' = retried
    BY <1>7 DEF RefreshAnswered, RefreshSucceeds, RefreshFails, Refreshed, TabInv, TabTypeOK
  <2> QED
    BY <2>1, <2>2, <2>3 DEF TabInv, TabTypeOK, QueueIsWaiting, FlagOK, OnlyOne
<1>8. CASE Login \/ LogoutHere \/ Expire
  BY <1>8 DEF Login, LogoutHere, Expire, page, session, TabInv, TabTypeOK, QueueIsWaiting,
              FlagOK, OnlyOne
<1>9. CASE Reload
  <2>1. state' \in [Requests -> States]
    BY <1>9 DEF Reload, TabInv, TabTypeOK, States, Waiting, Ended
  <2>2. \A q \in Requests : state'[q] \notin {"refreshing", "queued"}
    BY <1>9 DEF Reload, Waiting
  <2> QED
    BY <1>9, <2>1, <2>2 DEF Reload, TabInv, TabTypeOK, QueueIsWaiting, FlagOK, OnlyOne
<1>10. CASE UNCHANGED tabVars
  BY <1>10 DEF tabVars, page, session, TabInv, TabTypeOK, QueueIsWaiting, FlagOK, OnlyOne
<1> QED
  BY <1>1, <1>2, <1>3, <1>4, <1>5, <1>6, <1>7, <1>8, <1>9, <1>10
  DEF TabNext, Refused

LEMMA TabInvariance == TabSpec => []TabInv
  BY TabInitInv, TabNextInv, PTL DEF TabSpec

\* Of any number of requests that are refused, one refreshes at a time.
THEOREM TokenOneRefresh == TabSpec => []OneRefresh
<1>1. TabInv => OneRefresh
  <2> SUFFICES ASSUME TabInv PROVE OneRefresh
    OBVIOUS
  <2>1. CASE Refreshing = {}
    BY <2>1, FS_EmptySet DEF OneRefresh
  <2>2. CASE Refreshing # {}
    <3>1. PICK r : r \in Refreshing
      BY <2>2
    <3>2. Refreshing = {r}
      BY <3>1 DEF Refreshing, TabInv, OnlyOne
    <3>3. Cardinality({r}) = 1
      BY FS_Singleton
    <3> QED
      BY <3>2, <3>3 DEF OneRefresh
  <2> QED
    BY <2>1, <2>2
<1> QED
  BY TabInvariance, <1>1, PTL

\* A request that waits, waits for a refresh, or for a page that leaves.
THEOREM TokenWaitersAreServed == TabSpec => []WaitersAreServed
<1>1. TabInv => WaitersAreServed
  BY DEF TabInv, QueueIsWaiting, FlagOK, WaitersAreServed, Refreshing
<1> QED
  BY TabInvariance, <1>1, PTL
=============================================================================
