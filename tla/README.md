# A TLA+ model of SplitEase

SplitEase is a shared-expense application: a React client, an API gateway, an
auth-service, an expense-service, a notification worker, PostgreSQL and Redis.
This directory holds TLA+ modules translated from the source under `src/`, TLC
configurations that check them on small instances, and TLAPS proofs.

## 1. Inventory

| Component | State | Operations | Interacts with |
|---|---|---|---|
| API gateway, `services/api-gateway` | one circuit breaker per upstream; rate-limit windows in Redis | proxy a request, check the JWT, limit the rate, aggregate a dashboard, `/health/breakers` | calls auth- and expense-service over HTTP |
| auth-service | users, sessions, refresh and reset tokens | register, login, logout, refresh, forgot and reset password, profile, internal user lookups | called by the gateway and by the expense-service |
| expense-service: group ledger | `groups`, `group_members`, `expenses`, `expense_splits`, `settlements` | create group, add and remove member; create, update, delete expense; create settlement; balances, simplified debts | looks users up at the auth-service, publishes to Redis |
| expense-service: auth client | its own circuit breaker | `get_user`, `get_user_by_email`, `get_users_batch` (concurrent lookups) | auth-service |
| expense-service: recurring templates | `recurring_expenses` | create, update, deactivate | read and advanced by the recurring worker |
| event path | Redis stream `splitease:events`, consumer group, pending entries | `xadd` after a commit, `xreadgroup`, `xack` | expense-service to notification worker |
| notification worker | position in its batch; the tables of the other services through SQL | event consumer, recurring expenses, settlement reminders, weekly digests | PostgreSQL, Redis, push service, SMTP |
| web client | tokens, caches, offline queue | pages, token refresh on 401, replay of queued requests | API gateway |

### Behaviours that are hard

* **Handlers interleave.** Every handler reads, computes and commits. Sessions
  use READ COMMITTED and no read takes a row lock, so any other handler may
  commit between the SELECT and the COMMIT. A session may also end without one.
* **Nothing identifies a member but a row.** `group_members` has no unique
  constraint; two rows of one user break every `scalar_one_or_none()`.
* **The breakers await** between looking at their state and recording an outcome.
* **Commit and publish are two steps**, and so are reading and acknowledging an
  entry of the stream; each can fail or be cut off alone.
* **Money is rounded**: floor division with a remainder, tolerances, partial
  payments; and payloads carry Decimals of any precision (`schemas.py:85,108,133,178`)
  while the columns are `Numeric(10, 2)`, each rounded apart from the others.
* **Replays**: token refresh, password reset and the daily job may repeat or
  overlap what was already done.
* **One long transaction**: the daily job reads all due templates first and
  commits once, while members edit the same rows.
* **Time**: a rate-limit stamp is older than the pipeline that records it;
  sessions, links and tokens expire while handlers hold them.

`PROJECT.json` lists the hazards one by one with their lines (`"hazards"`) and
the properties that cover them.

### What makes each component correct

* Ledger: splits add up to the expense, up to what the columns round off, and do
  not outlive it; settled stays settled; no debt disappears unpaid; settlements clear no
  more than was paid, and what was paid when they do not race; balances follow
  from splits and settlements; nobody is invited who was a member; the owner stays.
* Breakers: open after the configured failures, closed only by a probe (the
  gateway's), open for their timeout (the expense-service's), and not for ever.
* Event path: events are handled in order, at most once, and acknowledged only
  afterwards; what is unread gets read.
* Recurring templates: one expense per due date, no due date skipped.
* Sessions: a token that was used, revoked or expired opens nothing.
* Debts: the simplified list settles the balances it is computed from, with few
  transfers.
* Rate limiter: no more than the limit in a window, and nobody refused in vain.
* Weekly mails: they tell the debts that the app shows.
* Client: one refresh at a time; waiting requests are released when it ends.

## 2. Modules

| Module | Models |
|---|---|
| `Money` | payload amounts and columns: parts of a cent, and what `Decimal.quantize` and `Numeric(10, 2)` make of them |
| `SettlementWalk` | the loop of `create_settlement` over the open rows of a debtor |
| `Ledger` | the writing handlers of the expense-service on one group: `routers/expenses.py`, `settlements.py`, `groups.py`, and the balances of `utils/debt_simplification.py` |
| `MCLedger` | values of its constants that a `.cfg` cannot write, and the symmetry |
| `LedgerProofs` | theorems about `Ledger` and `WeeklyDigest` |
| `SumsProofs` | lemmas about the library's sums over finite sets, used by the proofs about money |
| `CircuitBreaker` | both breakers: `AsyncCircuitBreaker` of `api-gateway/proxy.py` and `_AsyncCircuitBreaker` of `expense-service/utils/auth_client.py`, told apart by `service` |
| `CircuitBreakerProofs` | theorems about both breakers |
| `EventStream` | `create_expense`'s commit and `xadd`, the stream with its consumer group (external), and `workers/event_consumer.py` |
| `EventStreamProofs` | theorems about `EventStream` |
| `SplitCalc` | `_calculate_splits` for all split types, as operators on sequences |
| `DebtSimplification` | `simplify_debts`, one action per iteration of its loop |
| `Settling` | what a list of settling transfers promises: the abstract specification that `DebtSimplification` implements |
| `GroupDebts` | composes `SplitCalc`, `SettlementWalk` and `DebtSimplification` with `calculate_group_balances`, as `GET /groups/{id}/simplified-debts` does; `MCGroupDebts` has its values |
| `GroupDebtsProofs` | theorems about `DebtSimplification`, the refinement among them, about `SplitCalc` and about their composition |
| `WeeklyDigest` | extends `Ledger` with what the digest (`email_worker.py`) and the reminder (`push_worker.py`) read out of its tables |
| `AuthSessions` | `routers/auth.py` and the profile update of `routers/users.py` |
| `RecurringWorker`, `RecurringWorkerProofs` | `routers/recurring.py`, the daily job `recurring_worker.py`, membership changes; theorems. `MCRecurringWorker` has the calendar and the payloads |
| `RateLimiter`, `RateLimiterProofs` | `middleware/rate_limit.py` of the gateway; theorems |
| `TokenRefresh` | `api/client.ts`, `authApi`, the stored tokens, the gateway's JWT check |
| `SessionProofs` | theorems about `AuthSessions` and `TokenRefresh`, the two ends of a session |

### Ledger

A table is a set of rows. A handler is two steps. `Begin*(h)` is everything up to
the commit: permission checks, SELECTs and the computation; what it will write is
kept in `tx[h]`. `Commit*(h)` is the flush and the COMMIT. `Rollback(h)` is an error
response, a lost connection or a crash. Under READ COMMITTED
uncommitted writes are invisible to others, so the COMMIT is one step. Joining the
SELECTs of one handler into one step leaves out only the case that a membership
changes between a permission check and the read that follows it.

| Code | Actions |
|---|---|
| `create_expense` | `BeginCreate`, `CommitCreate` |
| `update_expense` | `BeginUpdate`, `CommitUpdate` (old rows deleted by primary key, new rows inserted, changed columns only) |
| `delete_expense` | `BeginDelete`, `CommitDelete` (splits cascade) |
| `create_settlement` | `BeginSettle` (the walk over the open rows), `CommitSettle` (only the changed column of each row is written) |
| `add_member_by_email`, `remove_member` | `BeginAdd`, `CommitAdd`, `BeginRemove`, `CommitRemove` |
| `create_group` | `Init` |
| `calculate_group_balances` | `Balance` |

Details that matter and are kept: the ORM writes only dirty columns (`Dirty`,
`ApplyWrite`); a DELETE that finds no row only warns, an UPDATE that finds none
raises, except in a batch of `settled_at` updates (`Counted`); the member query of
an equal split has no order, so anyone may take the remainder (`EqualShares`);
rows of equal date may be walked in any order of their primary keys within an
expense (`Listings`). `due` is a history field: the `owed_amount` at insertion.

One currency, one date, no descriptions; percentage splits are in `SplitCalc`. The
amounts of an exact list are any integers: the request schema (`schemas.py:82-86`) does
not ask them to be positive, so a share and a debt may be negative.

### Money

The schemas accept a Decimal with any number of places, the columns hold cents. A payload
amount is therefore an integer number of parts of a cent, `Fine` of which make one, and a
column an integer number of cents. `Stored` is the rounding of `Numeric(10, 2)` (half
up), `Quantized` that of `Decimal.quantize` (half to even). The code applies them in
different places, and the model follows it: `create_settlement` subtracts the payload's
Decimal from `owed_amount` and the column rounds the difference, whereas the settlement
stores the rounded amount; an expense stores its rounded amount, whereas its shares are
calculated from the Decimal and quantized one by one; the tolerance of an exact list is
tested on the unrounded list. `exact` (on a settlement) and `basis` (on an expense) are
history: the amounts as the payloads had them. The proofs are for every `Fine`.

### SplitCalc, DebtSimplification, GroupDebts

`GroupDebts` runs requests one at a time: `CreateExpense` (the rows of `SplitCalc`),
`CreateSettlement` (the walk of `SettlementWalk` over the open rows, which settles them
or lowers the `owed_amount` that balances read), then `SimplifiedDebts`, which computes
the balances of all rows and starts the loop of `simplify_debts` (`Ask`, `Match`, `Return`). A balance is the
sum of what each row and each settlement moves in or out of it (`Moved`), which is what
the code's successive `add`s come to. A member list is any order that differs in who
comes first; the shares depend on nothing else of it. The two sorted
lists with their indices are sets of users from the index on: the lists are sorted
once, so the entry at the index is the first of the set by the amounts at the start.
`Rest`, the refinement mapping to `Settling`, is what is left of a balance: the entry's
amount for a creditor, its negation for a debtor.

### WeeklyDigest

Both weekly jobs only read; their queries are operators that are evaluated in every
state of `Ledger`, as if the job ran then. The digest's JOIN with `group_members`
repeats a row for each membership row of the recipient (`Summed`). A user whose
digest is read later than another's may see a later state; that is left out.

### AuthSessions

Handlers are `Begin*` and `Commit*` as in `Ledger`. `reset_password` has a step in
between, `FlushReset`: its UPDATEs lock the account and the link until the commit
(`UserLocked`, `LinkLocked`), and its DELETE sees only the sessions committed by then.
The DELETE of `forgot_password` waits for a locked link and looks at it again
(`Superseded`), as READ COMMITTED does. `since` (on a user) and `uses` (on a link)
are history: the key that was next at the last reset, and how often `used_at` was set.

### RecurringWorker

The job is one transaction: `Start` is the SELECT, `Process` and `FailRow` a savepoint
that is released or rolled back, `Commit` the COMMIT, `Crash` its absence. Until then
`job` holds what others cannot see. Requests run in between; an edit of a row the job
has updated waits for its lock. Dates are numbers of days and months intervals of
days, so the clamping of `_add_months` to the last day of a month is kept.
`HasUpdatedAt` says whether `recurring_expenses` has the column that the job's UPDATE
sets. Migration 001 and `models.py` do not give it one: see the run
`recurring_never_materialised`.

### RateLimiter

A request takes its stamp (`Arrive`) before its pipeline runs (`CheckRedis`), so
pipelines run out of order. An entry of the sorted set is a stamp: requests with the
same microsecond are one entry. `FallBack` is a pipeline that raised, before or after
it ran. Redis is asked to expire a key that nobody touched for two windows (`Expire`).

### TokenRefresh

JavaScript runs a handler to its end, so each answer is one action together with
all requests that it sends again or rejects. A request that waited is sent again
without `_retry`, so a second 401 makes it refresh in turn. `NoRefreshToken` returns
before the `try`: `isRefreshing` stays set until the page has left (`Reload`).

### Breakers

`call[c]` is the state captured at entry, so `Admit` is `call` up to the await, and
`Succeed`, `Fail` and `OtherError` are what follows it. Reading `current_state` may
change it, also from `/health/breakers` (`Health`). The counter and the clock are
cut off where the code's comparisons stop to tell values apart. `service` is chosen in
`Init` and says whose breaker this is; the two differ in one test (`Closes`): the gateway
looks at the state captured before the await, the expense-service at the breaker's state
after it. `streak` is history: the failures since the last success.

### EventStream

Entries are named by position, so a batch is an interval. `Start` and
`StartWithoutRedis` are the two outcomes of `xgroup_create`; `Deliver` is
`XREADGROUP >`, whose reply arrives (`Read`) or is lost (`ReadLost`); `Handle` is
`_handle_message` up to its `finally`, `Ack` and `AckFails` the `xack` in it; `Cancel`
is a shutdown while a handler runs, whose `finally` still acknowledges; `NoGroup` is
what every read answers when the group was never created.

## 3. Runs

| Run | Result | What it shows |
|---|---|---|
| `ledger` | pass | Two handlers, two users, three requests in any interleaving, with rollbacks and fractions of a cent: no orphan splits; settled is final; racing settlements never clear more than was paid (`ClearedUpToPaid`); a debt goes to zero unsettled only by a payment with a fraction of a cent (`DebtStaysVisible`); shares add up up to what is rounded off (`SplitsCoverAmount`); a second member row only by an overlap (`InvitedOnce`); a settlement that found its rows unchanged takes what it records, or a cent less (`SettlementClearsItsAmount`); balances agree with a definition from the shares and with the weekly digest |
| `ledger_partial_payment` | violation | a partial payment moves the balance by twice its amount |
| `breakers` | pass | Three calls and either breaker: state and counter agree, only a probe closes the gateway's, the expense-service's stays open for its timeout, a healthy upstream is used again |
| `breaker_streak` | violation | failures with a success between them open the gateway's breaker, without any concurrency |
| `event_stream` | pass | Order, at most one handling per entry, acknowledgement after handling, catching up after failures |
| `event_redelivery` | violation | an entry that was handed out when the worker crashed is pending for good |
| `group_debts` | pass | Four members, up to three rows of every split type, amounts with half cents: shares cover the charge, the correction of the first share stays within the rounding and the tolerance (downwards only by one cent for each negative percentage, which is rounded towards zero), the list settles the balances it was asked for up to the ignored cents, few transfers, and the loop implements `Settling` |
| `auth_sessions` | pass | Two overlapping handlers: one account per address, a reset ends the sessions it can see, only a link changes a password, used links stay used |
| `recurring_worker` | pass | With failing rows, crashes, edits and members that come and go: no date charged twice or passed over, shares add up, a due date is charged in the end |
| `recurring_never_materialised` | violation | with the schema as it is, no template is ever charged |
| `rate_limiter` | pass | Two processes, out-of-order pipelines, a failing pipeline or restart: what each store lets through in a window, and that only busy clients are refused |
| `token_refresh` | pass | Three requests, one always refused, tokens that expire any time, logins, logouts, reloads: one refresh at a time, nobody waits but for a refresh or a redirect, and every request ends unless a refresh is never answered |

The violations are disagreements between the code and what its documentation or
its own messages say; `PROJECT.json` quotes both sides.

**How to read some of them.** A property that speaks of an overlap or of a fraction
of a cent does so because the code allows it, and says how far it can go:

* `SplitsCoverAmount` excepts an expense whose rows come from two calculations, which is
  what two overlapping updates leave. It holds for every other overlap: an update never
  combines its amount with the rows of another, because the rows it did not read stay.
* `InvitedOnce` says that of two rows of one user the later was looked for before the
  earlier was committed; the overlap itself is in the run.
* `SettlementClearsItsAmount` is about a commit that still finds open what its handler
  read; what a race may do is the subject of `ClearedUpToPaid`. Racing settlements may
  lose a payment (two that read the same `owed_amount` both write it), never invent one.
* `ListSettles` is about the balances the list was computed from. Recording its transfers
  through `create_settlement` also lowers rows, and the balances then move twice: the run
  `ledger_partial_payment`.
* `OpenLastsItsTimeout` is the expense-service's alone: the gateway's test of the captured
  state lets a probe that succeeds late close a breaker which another probe has just
  reopened. `ClosesOnlyOnProbe` is the gateway's alone: the other breaker may be closed by
  a call that was sent before the outage. Each test gives up what the other keeps.

### Observed without a run

Met while translating, each visible in the module named; none has a run of its own.

* `Ledger`, overlaps: two updates of one expense double its rows, two invitations add
  a member twice (and every `scalar_one_or_none()` on that user raises from then on;
  `groups.py:273` answers that the user is a member already), two settlements undo one
  payment.
* `Ledger`, fractions of a cent: a payment of 1.996 on a row of 2.00 leaves it at 0.00
  and unsettled, for good, as nothing looks at a row of zero. A payment of 1.995 is
  recorded as 2.00 and takes 1.99 off a row of 5.00. 10.005 split equally between two is
  an expense of 10.01 with shares of 5.00 and 5.00. Five times 2.004 is accepted as a
  list for 10.04 and comes to 10.00.
* `Ledger`, edits: a new payer alone leaves the rows of the old one; a recalculation
  replaces rows that were paid by unsettled ones; a member with open debts can be removed.
* Breakers: in half-open all waiting calls go through (`REPORT.md:472` says one).
* `GroupDebts`: recording the transfers of the list counts those twice that pay a row
  only partly. A owes B 5 and B owes A 3: the list says that A pays B 2, and afterwards
  the row of 5 is 3 and the settlement of 2 is added to it, so that B owes A 2.
* `GroupDebts`: the list is not always minimal, as the docstring of `simplify_debts`
  says: greedy matching misses pairs that cancel. A percentage list whose first entry
  is 0 can give it a negative share.
* `AuthSessions`: two overlapping resets may both use one link, and the later sets the
  password; two overlapping forgot-passwords leave two live links; a login that verified the old password may
  open a session after the reset.
* `RecurringWorker`: a date that the owner moves while the job runs is overwritten;
  a template advances one period per run, so a missed day is caught up late or, for
  a daily template, never; months clamp for good (31 January, 28 February,
  28 March); an update accepts an amount that creation refuses; 0.02 among
  four members gives the payer a negative share.
* `RateLimiter`: requests with the same stamp are one entry of the sorted set and count
  once; each process has a limit of its own when Redis is away; refused
  requests count, so a client that retries fast is never served again.
* `TokenRefresh`: the refresh is a bare `axios.post` (`client.ts:85`), without the
  time-out of 15 s that `apiClient` has (`client.ts:30-34`), and the gateway awaits Redis
  without one: a refresh that hangs keeps `isRefreshing` set, and all later 401s wait
  with it until the page is left. The answer of a refresh that arrives after a logout, or
  after another login, puts the old session's token into the store.
* Push: `push_worker.py` reads and writes columns (`p256dh`, `auth_key`, `is_active`,
  `updated_at`) that the table `push_subscriptions` of the auth-service does not have,
  so every push fails; in `event_consumer.py` that failure is logged and acknowledged.

### Bounds

* Ledger: `Fine` is 4, so that amounts end below, at and above half a cent. The amounts
  12 and 14 are 3 and 3.5 cents (between two users the first leaves a remainder, and of
  the second the share and the amount are both half way between two cents, and rounded
  apart); payments of 2, 7 and 8 are half a cent, a little less than two
  cents, which a row of two cents stores as zero, and two cents exactly. One exact list has
  a negative amount and halves of a cent, and is off by less than the tolerance; one is
  refused. Three requests are what a race needs: one to create the rows,
  two to overlap. `Budget` bounds requests; the runs end when it is used up, hence
  `CHECK_DEADLOCK FALSE`. Handlers are symmetric, users are not (the owner and the lists
  name them).
* Breakers: three calls, `FailMax` 3, two ticks: one call can be a probe while
  another fails and a third was sent before the outage. The state space is finite
  without any cut. `breaker_streak` has one call, so that nothing overlaps.
* GroupDebts: `Fine` is 2 (half cents); four members and three rows allow two creditors
  with two debtors and chains of transfers; amounts leave remainders, cents that are ignored, an exact
  list within and one beyond the tolerance, percentages that come to 99.99, 100.01 and
  101 (refused), a payment of 3.5 cents that ends within a row or covers it.
* AuthSessions: two handlers, one address, two passwords and six requests: after a
  registration, a login and a forgotten password there are requests left for any two
  operations to overlap; a session and a link (one tick each) can expire within the
  clock of two ticks.
* RecurringWorker: two templates, three days, one edit and one fault are what a run
  with an edit, a failing row and a later run need; the group starts with any set of
  users that contains the owner, so that one membership change, a user who joins or one
  who leaves, fits the same budget. Its last day repeats itself, so
  that a bound on time does not end the job (liveness).
* RateLimiter: a limit of 2 and four requests, a window of 3 ticks within 7, delays
  of a tick: windows overlap and pipelines are reordered.
* TokenRefresh: three requests make one that refreshes and two that wait; logins are
  bounded by one, tokens only by what asks for them.
* EventStream: three events and batches of two give a full and a short batch; two
  faults of any kind, in any order. The model ends when events are handled and no
  more crash is allowed, hence `CHECK_DEADLOCK FALSE`. `event_redelivery` needs two
  events and one fault.

### Fairness

* Breakers: time passes; every admitted call ends (httpx times out after 30 s in
  the gateway, 5 s in the expense-service); callers keep calling. `Recovers` adds its own
  premise, an upstream that eventually stops failing.
* EventStream: the consumer's loop never stops and the orchestrator restarts a
  stopped worker; a handler that has committed goes on to its `xadd`. Nothing
  forces a client to create an expense, nor a fault to happen or to end.
* RecurringWorker: the scheduler starts the job every day and the job goes on to its
  end; faults are finite; no request need come.
* TokenRefresh: every request of `apiClient` is answered (axios gives up after 15 s), and
  a page told to leave leaves. Nothing is assumed of the refresh, which has no time-out;
  that none is outstanding for ever is the premise of `EveryRequestEnds`, and
  without it the property fails. `WaitersAreServed` needs no such premise.
* Ledger, GroupDebts, AuthSessions, RateLimiter: safety only, no fairness.

## 4. Proofs

All proofs hold for every value of the constants that satisfies the modules'
assumptions (`FineAssumption`, `LedgerAssumption`, `BreakerAssumption`,
`EventAssumption`, `DebtAssumption`, `GroupAssumption`, `AuthAssumption`, `CalendarAssumption`, `RequestAssumption`,
`LimiterAssumption`, `RefreshAssumption`: the owner is a user, the users are finitely
many, amounts of expenses and payments are natural numbers, in parts of a cent of which
there is at least one, limits are natural numbers,
a window is not empty (60 seconds, `rate_limit.py:54`), months follow each other).
They state every safety invariant, every action property and the refinement that the
passing runs check. None has a premise on the number of handlers.

**Sums** (`SumsProofs`). Most properties about money compare sums over sets of rows.
The library's `SumFunctionOnSet` is a fold, defined by a recursive function over
subsets. Its unfolding (`SumStep`) is proved here from the definition, and from it what
the other proofs cite: a sum changes with one element (`SumRemove`, `SumChange`), splits
over disjoint parts (`SumUnion`, `SumParts`), is monotone, linear and independent of
names (`SumRenamed`), telescopes, and may be taken by rows or by columns (`SumSwap`). The
facts about the two roundings are here as well (`NearestUpBounds` to `NearestEvenRest`),
and what a sum of rounded amounts can be off (`SumNear`, `ListedMisses`).
The library's induction theorems take an operator and cannot be used; the induction is
carried out on sets instead: the sizes at which a claim fails would have a least element
(`LeastNumber`, from the well-foundedness of the natural numbers).

**Ledger** (`LedgerProofs`). `LedgerTypeCorrect`, `LedgerNoOrphanSplits`,
`LedgerOwnerStays`, `LedgerInvitedOnce`, `LedgerDebtStaysVisible`, `LedgerSettledIsFinal`
follow from one inductive invariant, `IInv`. A committed settlement writes values that
were computed earlier, so the invariant speaks about the transactions in flight (`TxOK`):
a settlement holds at most one write per row, its partial writes leave a debt no larger
than the row began with, which is zero only if the payment has a fraction of a cent
(`PaidDownOK`), and they refer to rows calculated before (`WritesOK`). These facts survive
the commits of others because new rows carry fresh keys (`MembersOK`, `SplitsOK`): a write
held by one handler can hit only the row it was computed from, or none. `WalkOK` proves
the facts of the walk in `create_settlement`, `CalculationsOK` those of
`_calculate_splits`, `ApplyOK` those of the UPDATE statements; an invitation in flight has
found no row that was committed before it looked (`AddOK`). One lemma per action
preserves `IInv`.

`LedgerClearedUpToPaid` holds however settlements race, and its invariant has to say how
the debt cleared so far is paid for when any handler may overwrite what another wrote.
`PayInv` says that the payments can be distributed over the rows of the payer so that no
row is cleared of more than it was given, and that a settlement in flight could add enough
to this, out of its own amount, for each of the writes it holds. When it overwrites what
another settlement did, what the other had given stays where it is: a payment is lost, and
none is invented. `LedgerBalancesFair` follows
from `IInv` by comparing row by row.

`LedgerSplitsCoverAmount` needs to know what an update in flight would leave. Its shares
fit the amount it was calculated with, and the columns it does not write may have been
changed meanwhile by another update. `CoverInv` says (`Computed`) that the shares fit the
expense as the commit would leave it for as long as the expense has no row that the update
has not read; every recalculation in between leaves such a row, after which the rows come
from two calculations. That the shares of one calculation fit is `CalculationsFit`: the
floor shares and the quantized remainder miss the amount by what its fraction loses
(`EqualSharesFit`), a list by its tolerance and half a cent a row (`ExactSharesFit`).

`LedgerSettlementClearsItsAmount` shows of any order of the rows that the walk takes the
smaller of its amount and what is open (`WalkTakes`), up to the cent that the last row
loses when both the row and the settlement are rounded up from a half (`StepTakes`,
`TieKept`), and that its writes are exactly these (`WalkWrites`); `CoverInv` keeps the walk
that a settlement in flight has computed.

`LedgerReportsAgree` splits each row's debt into what is open and what is settled, sums
both by the other party, and uses the premise of `ReportsAgree` to exchange settled
rows for payments.

**Breakers** (`CircuitBreakerProofs`). `ClosedIffBelowLimit` is inductive with the
type invariant, for both breakers (`BreakerClosedIffBelowLimit`, `BreakerTypeCorrect`);
`GatewayClosesOnlyOnProbe` and `ClientOpenLastsItsTimeout` follow from it.

**Event path** (`EventStreamProofs`). `HandledInOrder` needs `BatchOK` (the batch lies
within what was delivered) and `HandledBelowNext` (everything handled lies before
`next`, or at it while its acknowledgement is due). `AckedAfterHandling` adds that an
entry whose acknowledgement is due has been handled; then every step acknowledges
nothing unhandled, or is a fault that acknowledges one entry (`AckBound`).

**Debts** (`GroupDebtsProofs`). For `DebtSimplification` alone, the invariant says that
nobody is on both lists, that whoever is still on a list has a positive rest, and that each
transfer so far took one user off a list; `DebtFewTransfers` counts these, and
`SimplifyImplementsSettling` shows that `Init` maps to `Settling`'s and that every
`Match` is one of its transfers, the other steps stutters. `GroupRunsSimplify` lifts both
to the endpoint. `GroupSharesCoverCharge` and `GroupFirstShareFair` are about
`_calculate_splits`: the latter bounds each rounding by a cent on the side it goes to,
adds these up (`SumBetween`) and the tolerance of the percentages to them. Both count
the cent that the rounding of an amount with a fraction is worth.
`GroupListSettles` needs more than the loop's invariant: the balances that a list starts
from add up to zero, because every row and settlement gives one user what it takes from
another (`SumSwap`), also after a walk has lowered rows, and what is left of a balance
is the balance less the transfers so far (`Listed` in `GroupIInv`). When the loop ends one of the two lists is used up. What is
left is positive on one side only, apart from cents that were ignored, and adds up to zero,
so that nobody is left with more than the ignored cents (`SumBalanced`).

**AuthSessions** (`SessionProofs`). Primary keys are fresh, so a transaction in
flight refers to rows older than `nextId`; a flushed reset holds its account and its
link; its `since` is the key that was next when its DELETE ran, so whatever it did not
see has a larger key. The four properties follow.

**RecurringWorker** (`RecurringWorkerProofs`). `next_due_date` moves a date forward
(`CalendarAssumption` is used here); whatever a template was charged for lies before
its date unless a member moved it back; what a run has read and written of a template
has a date no member can have changed, or one that is recorded in `back`. For
`RecurringSharesAddUp` the invariant records of each charge the members it was
made for; that group always contains the owner, so it is not empty, and rounding half up
is off by at most half a cent for each of them.

**RateLimiter** (`RateLimiterProofs`). Entries let through and younger than a window
are still recorded (`Kept`), stamps are at most `MaxDelay` behind the pipeline; hence
the count at the last entry of a window bounds the window. For
`LimiterRefusedOnlyIfBusy`, every entry of a store stems from a request of the client
(`Traced`), so what a request counts are requests of its window.

**TokenRefresh** (`SessionProofs`). At most one request is refreshing, the queue
is the set of those who wait, and `isRefreshing` tells of one that refreshes or of a
page that leaves.

Model-checked only: the liveness properties (`Recovers`, `CatchesUp`,
`DueIsMaterialised`, `EveryRequestEnds`), because fairness and ENABLED are beyond the
provers; and the four violations, which are counterexamples.

## 5. Not modelled

* Password hashing, JWT signatures, SMTP, the push protocol, message texts:
  libraries and formatting.
* PostgreSQL, Redis and httpx themselves: external, modelled from how the code
  uses them. Statements that wait for a row lock are ordered by their commits.
* The gateway's proxy and dashboard: each request is handled on its own, and the
  dashboard only adds up balances of several groups.
* Push subscriptions and the sending of mails and pushes.
* The offline queue of the web client: nothing ever adds a request to it
  (`addToQueue` has no caller), so its replay never runs.
* Currencies, several groups at a time, the metadata of a group.
* React pages, Docker, Kubernetes, Terraform, CI, migrations, seed scripts.
* Read-only endpoints of the ledger, except balances and simplified debts.

## 6. What could follow

1. Currencies in `Ledger`: an update stores one as given while settlements compare
   with the upper-case one.
2. Abstract specifications of the documented breaker and of a stream that handles
   each entry at most once, implemented by the detailed modules.
3. Push subscriptions, once the worker and the table agree on their columns.
