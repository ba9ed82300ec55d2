---------------------------- MODULE TokenRefresh ----------------------------
(***************************************************************************)
(* One browser tab of the web client: its requests (api/client.ts), the    *)
(* refresh of an expired access token that they share, and the tokens it   *)
(* keeps (store/authStore.ts, localStorage).                               *)
(*                                                                         *)
(* JavaScript runs a handler and the promise callbacks it resolves to the  *)
(* end: an answer is one action, with the requests it sends again.  Access *)
(* tokens are numbered as they are issued, and expire in that order.       *)
(***************************************************************************)
EXTENDS Integers, FiniteSets

CONSTANTS
    Requests,   \* the requests of the tab, each sent once by a page
    Denied,     \* those answered 401 whatever the token (a wrong password)
    MaxLogins   \* bound on logins

ASSUME RefreshAssumption ==
    /\ Denied \subseteq Requests
    /\ MaxLogins \in Nat

VARIABLES
    state,        \* state[r]: where request r is
    carried,      \* carried[r]: the token in its header, 0 for none
    retried,      \* retried[r]: original._retry
    isRefreshing,
    failedQueue,  \* the requests that wait for the token of another
    accessToken,  \* of the store, 0 for none
    hasRefresh,   \* localStorage has a refresh token
    leaving,      \* window.location.href was set, the page is still there
    issued,       \* the last token issued (by the auth-service)
    valid,        \* the tokens from this one on have not expired
    logins

tabVars == <<state, carried, retried, isRefreshing, failedQueue, accessToken,
          hasRefresh, leaving, issued, valid, logins>>

page == <<isRefreshing, failedQueue, leaving>>
session == <<accessToken, hasRefresh, logins>>

Ended == {"done", "failed", "gone"}
Waiting == {"sent", "refreshing", "queued"}
Refreshing == {r \in Requests : state[r] = "refreshing"}

-----------------------------------------------------------------------------
Send(r) ==
    /\ state[r] = "idle"
    /\ state' = [state EXCEPT ![r] = "sent"]
    /\ carried' = [carried EXCEPT ![r] = accessToken]
    /\ UNCHANGED <<retried, page, session, issued, valid>>

\* The gateway lets a token through that has not expired.
Accepted(r) == r \notin Denied /\ carried[r] # 0 /\ carried[r] >= valid

\* An answer that is not 401: of success, or of any other error (a time-out
\* after 15 seconds among them).
Answer(r) ==
    /\ state[r] = "sent"
    /\ \E s \in {"failed"} \cup {x \in {"done"} : Accepted(r)} :
         state' = [state EXCEPT ![r] = s]
    /\ UNCHANGED <<carried, retried, page, session, issued, valid>>

Unauthorized(r) == state[r] = "sent" /\ ~Accepted(r)

MayRefresh_Anybody(r) == ~retried[r]
MayRefresh(r) == ~retried[r] /\ ~isRefreshing

\* 401 for the second time.
GiveUp(r) ==
    /\ Unauthorized(r)
    /\ retried[r]
    /\ state' = [state EXCEPT ![r] = "failed"]
    /\ UNCHANGED <<carried, retried, page, session, issued, valid>>

\* Somebody refreshes.  A request that waits is not marked as retried.
Wait(r) ==
    /\ Unauthorized(r)
    /\ ~retried[r] /\ isRefreshing
    /\ state' = [state EXCEPT ![r] = "queued"]
    /\ failedQueue' = failedQueue \cup {r}
    /\ UNCHANGED <<carried, retried, isRefreshing, leaving, session, issued, valid>>

\* The refresh is sent.  The number of its token is taken here; its answer may
\* come when that token has expired.
StartRefresh(r) ==
    /\ Unauthorized(r)
    /\ MayRefresh(r) /\ hasRefresh
    /\ state' = [state EXCEPT ![r] = "refreshing"]
    /\ retried' = [retried EXCEPT ![r] = TRUE]
    /\ isRefreshing' = TRUE
    /\ issued' = issued + 1
    /\ carried' = [carried EXCEPT ![r] = issued + 1]
    /\ UNCHANGED <<failedQueue, leaving, session, valid>>

\* The early return is before the try: isRefreshing stays set until the page
\* has left.
NoRefreshToken(r) ==
    /\ Unauthorized(r)
    /\ MayRefresh(r) /\ ~hasRefresh
    /\ state' = [state EXCEPT ![r] = "failed"]
    /\ retried' = [retried EXCEPT ![r] = TRUE]
    /\ isRefreshing' = TRUE
    /\ accessToken' = 0
    /\ leaving' = TRUE
    /\ UNCHANGED <<carried, failedQueue, hasRefresh, issued, valid, logins>>

\* processQueue, on success (the queue is sent again with the token) ...
Resent(r) == {r} \cup failedQueue

\* ... or on failure.
Rejected_Alone(r) == {r}
Rejected(r) == {r} \cup failedQueue

\* finally
Refreshed_Still == isRefreshing
Refreshed == FALSE

RefreshSucceeds(r) ==
    /\ state[r] = "refreshing"
    /\ accessToken' = carried[r]
    /\ state' = [q \in Requests |-> IF q \in Resent(r) THEN "sent" ELSE state[q]]
    /\ carried' = [q \in Requests |->
                     IF q \in Resent(r) THEN carried[r] ELSE carried[q]]
    /\ failedQueue' = {}
    /\ isRefreshing' = Refreshed
    /\ UNCHANGED <<retried, hasRefresh, leaving, issued, valid, logins>>

RefreshFails(r) ==
    /\ state[r] = "refreshing"
    /\ state' = [q \in Requests |-> IF q \in Rejected(r) THEN "failed" ELSE state[q]]
    /\ failedQueue' = {}
    /\ accessToken' = 0
    /\ leaving' = TRUE
    /\ isRefreshing' = Refreshed
    /\ UNCHANGED <<carried, retried, hasRefresh, issued, valid, logins>>

-----------------------------------------------------------------------------
\* The answer of a login or a registration.
Login ==
    /\ logins < MaxLogins
    /\ logins' = logins + 1
    /\ issued' = issued + 1
    /\ accessToken' = issued + 1
    /\ hasRefresh' = TRUE
    /\ UNCHANGED <<state, carried, retried, page, valid>>

\* The end of authApi.logout, whatever its request returned.
LogoutHere ==
    /\ accessToken # 0 \/ hasRefresh
    /\ accessToken' = 0
    /\ hasRefresh' = FALSE
    /\ UNCHANGED <<state, carried, retried, page, issued, valid, logins>>

\* The page leaves, because of a redirect or of the user: its requests go with
\* it, the store and localStorage stay.
Reload ==
    /\ leaving \/ \E r \in Requests : state[r] \in Waiting
    /\ state' = [r \in Requests |-> IF state[r] \in Waiting THEN "gone" ELSE state[r]]
    /\ isRefreshing' = FALSE
    /\ failedQueue' = {}
    /\ leaving' = FALSE
    /\ UNCHANGED <<carried, retried, session, issued, valid>>

Expire ==
    /\ valid <= issued
    /\ valid' = valid + 1
    /\ UNCHANGED <<state, carried, retried, page, session, issued>>

TabInit ==
    /\ state = [r \in Requests |-> "idle"]
    /\ carried = [r \in Requests |-> 0]
    /\ retried = [r \in Requests |-> FALSE]
    /\ isRefreshing = FALSE
    /\ failedQueue = {}
    /\ accessToken = 1
    /\ hasRefresh = TRUE
    /\ leaving = FALSE
    /\ issued = 1
    /\ valid = 1
    /\ logins = 0

Refused(r) == GiveUp(r) \/ Wait(r) \/ StartRefresh(r) \/ NoRefreshToken(r)
RefreshAnswered(r) == RefreshSucceeds(r) \/ RefreshFails(r)

TabNext ==
    \/ \E r \in Requests : Send(r) \/ Answer(r) \/ Refused(r) \/ RefreshAnswered(r)
    \/ Login \/ LogoutHere \/ Reload \/ Expire

TabSpec == TabInit /\ [][TabNext]_tabVars

\* Every request of apiClient is answered, or fails after its 15 seconds, and a
\* page that was told to leave leaves.  The refresh is sent by axios itself,
\* without a time-out: nothing makes it end.
Fairness ==
    /\ \A r \in Requests : WF_tabVars(Answer(r) \/ Refused(r))
    /\ WF_tabVars(leaving /\ Reload)

FairTabSpec == TabSpec /\ Fairness

-----------------------------------------------------------------------------
(* Properties *)

\* However many requests are refused at once, one of them refreshes.
OneRefresh == Cardinality(Refreshing) <= 1

\* Nobody waits for a token that nobody asked for, but on a page that leaves.
WaitersAreServed ==
    /\ failedQueue = {r \in Requests : state[r] = "queued"}
    /\ failedQueue # {} => Refreshing # {} \/ leaving

\* The answer to a refresh is all that a request can wait for in vain: unless
\* one is outstanding for ever, a request that was sent ends, also when it
\* waits, is refused again after it waited (it then refreshes itself), or is
\* never accepted.
EveryRequestEnds ==
    (\A q \in Requests : []<>(state[q] # "refreshing"))
      => \A r \in Requests : state[r] \in Waiting ~> state[r] \in Ended
=============================================================================
