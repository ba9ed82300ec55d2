------------------------------- MODULE Ledger -------------------------------
(***************************************************************************)
(* The expense-service's view of ONE group: who belongs to it, the         *)
(* expenses with their split rows, and the settlements, changed by request *)
(* handlers that run concurrently against PostgreSQL (READ COMMITTED, no   *)
(* row locks taken by the reads).                                          *)
(*                                                                         *)
(* A handler is two steps.  Begin* is everything up to the commit: the     *)
(* permission checks, the SELECTs, and the computation on what they        *)
(* returned, kept in tx[h].  Commit* is the flush and COMMIT of what was   *)
(* computed.  Anything may be committed by another handler in between.     *)
(* Rollback is every way a session ends without a commit.                  *)
(*                                                                         *)
(* Tables hold cents, payloads parts of a cent (Money).  A table is a set  *)
(* of rows.  Fields marked as history record, for the properties, what     *)
(* the program does not keep; no guard reads them.                         *)
(***************************************************************************)
EXTENDS SettlementWalk, FiniteSets, Sequences, FiniteSetsExt

CONSTANTS
    Users,        \* user ids known to the auth-service
    Owner,        \* the user that created the group
    Guests,       \* the users invited before the model starts
    Handlers,     \* request handlers that can be in flight at the same time
    Amounts,      \* expense amounts a payload may carry
    Payments,     \* settlement amounts a payload may carry
    ExactInputs,  \* "splits" lists a payload may carry
    Budget,       \* how many requests are made: bounds every counter
    None          \* an absent optional field

ASSUME LedgerAssumption ==
    /\ Owner \in Users
    /\ Guests \subseteq Users \ {Owner}
    /\ IsFiniteSet(Users)
    /\ Amounts \subseteq Nat \ {0}
    /\ Payments \subseteq Nat \ {0}
    /\ ExactInputs \subseteq Seq([user : Users, amount : Int])
    /\ Budget \in Nat
    /\ None \notin Users /\ None \notin Nat
    /\ None \notin ExactInputs /\ None \notin {"equal", "exact"}

VARIABLES
    members,      \* rows of group_members
    expenses,     \* rows of expenses
    splits,       \* rows of expense_splits
    settlements,  \* rows of settlements
    nextId,       \* the next fresh primary key (uuid4 in the code)
    tx,           \* tx[h]: what handler h has read and will write
    budget        \* requests still allowed

vars == <<members, expenses, splits, settlements, nextId, tx, budget>>
tables == <<members, expenses, splits, settlements>>

Modes == {"equal", "exact"}
Roles == {"owner", "member"}
Tolerance == 2          \* exact lists may miss the amount by 0.02

\* `checked` is history: the next primary key when the row's user was looked
\* for among the members.
Member == [id : Nat, user : Users, role : Roles, checked : Nat]

\* `basis` is history: the amount the last rows were calculated from, which
\* the column need not hold.
Expense == [id : Nat, amount : Nat, payer : Users, by : Users, mode : Modes,
            basis : Nat]

\* `exact` is history: the amount as the payload had it.
Settlement == [id : Nat, from : Users, to : Users, amount : Nat, exact : Nat]

\* `due` is history: the owed_amount the row was inserted with.
\* A row's primary key is its calculation, the place in it and the user.
\* Nothing keeps a listed amount from being negative (ExpenseSplitInput).
Split == [exp : Nat, calc : Nat, key : Nat, user : Users, share : Int,
          due : Int, owed : Int, settled : BOOLEAN]
PK(s) == <<s.calc, s.key, s.user>>
PKs == Nat \X Nat \X Users

Share == [key : Nat, user : Users, share : Int, due : Int]
Write == [row : PKs, settled : BOOLEAN, owed : Nat]
Columns == [amount : Nat \cup {None}, payer : Users \cup {None},
            mode : Modes \cup {None}, basis : Nat \cup {None}]

Idle == [op |-> "idle"]
Tx == {Idle}
      \cup [op : {"create"}, amount : Amounts, payer : Users, by : Users,
            mode : Modes, shares : SUBSET Share]
      \cup [op : {"update"}, exp : Nat, set : Columns, old : SUBSET PKs,
            shares : SUBSET Share]
      \cup [op : {"delete"}, exp : Nat]
      \cup [op : {"settle"}, from : Users, to : Users, amount : Payments,
            read : SUBSET Split, writes : SUBSET Write]
      \cup [op : {"add"}, user : Users, checked : Nat]
      \cup [op : {"remove"}, row : Member]

-----------------------------------------------------------------------------
(* Membership checks *)

Rows(u) == {m \in members : m.user = u}

\* scalar_one_or_none() in the expense and settlement routers: two rows for
\* one user raise MultipleResultsFound, so such a user is served nothing.
IsMember(u) == Cardinality(Rows(u)) = 1

IsOwner(u) == \E m \in Rows(u) : m.role = "owner"

(* Split calculation *)

OwedBy(user, payer, share) == IF user = payer THEN 0 ELSE share

EqualShare_NoRemainder(amount, n, isFirst) == amount \div (n * Fine)

\* Whole cents for everybody; the first member listed takes what remains.
EqualShare(amount, n, isFirst) ==
    LET base == amount \div (n * Fine)
    IN IF isFirst THEN Quantized(amount - Fine * base * (n - 1)) ELSE base

\* The member query has no ORDER BY: any row may come first.
EqualShares(amount, payer) ==
    { { [key |-> m.id, user |-> m.user,
         share |-> EqualShare(amount, Cardinality(members), m = first),
         due |-> OwedBy(m.user, payer,
                        EqualShare(amount, Cardinality(members), m = first))]
        : m \in members } : first \in members }

Listed(input) == SumFunction([i \in DOMAIN input |-> input[i].amount])

\* The tolerance is for the amounts as listed; the rows get whole cents.
ExactShares(amount, payer, input) ==
    IF input # <<>>
       /\ Listed(input) - amount \in -(Fine * Tolerance) .. Fine * Tolerance
    THEN { { [key |-> i, user |-> input[i].user,
              share |-> Quantized(input[i].amount),
              due |-> OwedBy(input[i].user, payer, Quantized(input[i].amount))]
             : i \in DOMAIN input } }
    ELSE {}

\* The possible results of _calculate_splits; none when it raises (422).
Calculations(amount, payer, mode, input) ==
    IF mode = "equal" THEN EqualShares(amount, payer)
                      ELSE ExactShares(amount, payer, input)

SplitRows(exp, calc, shares) ==
    { [exp |-> exp, calc |-> calc, key |-> s.key, user |-> s.user,
       share |-> s.share, due |-> s.due, owed |-> s.due, settled |-> FALSE]
      : s \in shares }

-----------------------------------------------------------------------------
(* Handlers *)

Free(h) == tx[h] = Idle /\ budget > 0

Accept(h, t) ==
    /\ budget' = budget - 1
    /\ tx' = [tx EXCEPT ![h] = t]
    /\ UNCHANGED <<members, expenses, splits, settlements, nextId>>

Done(h) ==
    /\ tx' = [tx EXCEPT ![h] = Idle]
    /\ nextId' = nextId + 1
    /\ UNCHANGED budget

\* Error response, lost connection, process crash: the session is discarded.
Rollback(h) ==
    /\ tx[h] # Idle
    /\ tx' = [tx EXCEPT ![h] = Idle]
    /\ UNCHANGED <<members, expenses, splits, settlements, nextId, budget>>

BeginCreate(h) ==
    /\ Free(h)
    /\ \E u \in Users, amount \in Amounts, payer \in Users, mode \in Modes,
          input \in ExactInputs :
         /\ IsMember(u)
         /\ \E shares \in Calculations(amount, payer, mode, input) :
              Accept(h, [op |-> "create", amount |-> amount, payer |-> payer,
                         by |-> u, mode |-> mode, shares |-> shares])

CommitCreate(h) ==
    LET t == tx[h] IN
    /\ t.op = "create"
    /\ expenses' = expenses \cup
         {[id |-> nextId, amount |-> Stored(t.amount), payer |-> t.payer,
           by |-> t.by, mode |-> t.mode, basis |-> t.amount]}
    /\ splits' = splits \cup SplitRows(nextId, nextId, t.shares)
    /\ Done(h)
    /\ UNCHANGED <<members, settlements>>

\* The value an optional field leaves on a loaded row, and the column the ORM
\* writes back: none when the value did not change.
Merged(new, old) == IF new = None THEN old ELSE new
Dirty(new, old) == IF new = old THEN None ELSE new
DirtyAmount(new, old) == IF new = None \/ new = Fine * old THEN None ELSE Stored(new)

\* update_expense: splits are recalculated when amount, split_type or splits
\* is in the payload; a new paid_by alone leaves the rows as they are.
BeginUpdate(h) ==
    /\ Free(h)
    /\ \E u \in Users, e \in expenses,
          amount \in Amounts \cup {None}, payer \in Users \cup {None},
          mode \in Modes \cup {None}, input \in ExactInputs \cup {None} :
         LET recalculate == amount # None \/ mode # None \/ input # None
             basis == Merged(amount, Fine * e.amount)
             set == [amount |-> DirtyAmount(amount, e.amount),
                     payer |-> Dirty(payer, e.payer),
                     mode |-> Dirty(mode, e.mode),
                     basis |-> IF recalculate THEN basis ELSE None]
         IN
         /\ IsMember(u)
         /\ \/ /\ ~recalculate
               /\ Accept(h, [op |-> "update", exp |-> e.id, set |-> set,
                             old |-> {}, shares |-> {}])
            \/ /\ recalculate
               /\ \E shares \in Calculations(basis,
                                             Merged(payer, e.payer),
                                             Merged(mode, e.mode),
                                             Merged(input, <<>>)) :
                    Accept(h, [op |-> "update", exp |-> e.id, set |-> set,
                               old |-> {PK(s) : s \in {r \in splits : r.exp = e.id}},
                               shares |-> shares])

Overwrite(e, set) ==
    [e EXCEPT !.amount = Merged(set.amount, e.amount),
              !.payer = Merged(set.payer, e.payer),
              !.mode = Merged(set.mode, e.mode),
              !.basis = Merged(set.basis, e.basis)]

\* The rows that were read are deleted by primary key (rows already gone are
\* only warned about).  An expense deleted meanwhile fails the flush.
CommitUpdate(h) ==
    LET t == tx[h] IN
    /\ t.op = "update"
    /\ \E e \in expenses :
         /\ e.id = t.exp
         /\ expenses' = (expenses \ {e}) \cup {Overwrite(e, t.set)}
    /\ splits' = {s \in splits : PK(s) \notin t.old}
                 \cup SplitRows(t.exp, nextId, t.shares)
    /\ Done(h)
    /\ UNCHANGED <<members, settlements>>

BeginDelete(h) ==
    /\ Free(h)
    /\ \E u \in Users, e \in expenses :
         /\ IsMember(u)
         /\ e.by = u \/ IsOwner(u)
         /\ Accept(h, [op |-> "delete", exp |-> e.id])

SplitsWithout_NoCascade(exp) == splits
SplitsWithout(exp) == {s \in splits : s.exp # exp}

CommitDelete(h) ==
    LET t == tx[h] IN
    /\ t.op = "delete"
    /\ expenses' = {e \in expenses : e.id # t.exp}
    /\ splits' = SplitsWithout(t.exp)
    /\ Done(h)
    /\ UNCHANGED <<members, settlements>>

-----------------------------------------------------------------------------
(* Settlements *)

\* The rows create_settlement walks: what `from` still owes on `to`'s expenses.
Open_IgnoresSettledAt(from, to) ==
    {s \in splits : /\ s.user = from
                    /\ s.owed > 0
                    /\ \E e \in expenses : e.id = s.exp /\ e.payer = to}
Open(from, to) ==
    {s \in splits : /\ s.user = from
                    /\ s.owed > 0
                    /\ ~s.settled
                    /\ \E e \in expenses : e.id = s.exp /\ e.payer = to}

\* Every order the query may return the rows in: by expense, oldest first.
\* (Primary keys grow with time; all expenses carry the same date.)
Listings(S) ==
    {q \in [1 .. Cardinality(S) -> S] :
        \A i, j \in 1 .. Cardinality(S) :
            i < j => q[i] # q[j] /\ q[i].exp <= q[j].exp}

RowWrite(s, left) ==
    [row |-> PK(s),
     settled |-> SettlesInFull(s.owed, left),
     owed |-> IF SettlesInFull(s.owed, left) THEN s.owed
                                             ELSE PaidDown(s.owed, left)]

WritesOf(q, n, left) == {RowWrite(q[i], left[i - 1]) : i \in Reached(n, left)}

BeginSettle(h) ==
    /\ Free(h)
    /\ \E u \in Users, from \in Users, to \in Users, amount \in Payments :
         /\ IsMember(u)
         /\ from = u \/ IsOwner(u)
         /\ LET S == Open(from, to)
                n == Cardinality(S)
            IN \E q \in Listings(S) :
               \E left \in Walks([i \in 1 .. n |-> q[i].owed], n, amount) :
                 Accept(h, [op |-> "settle", from |-> from, to |-> to,
                            amount |-> amount, read |-> S,
                            writes |-> WritesOf(q, n, left)])

\* The ORM updates only the column it changed.
ApplyWrite_WholeRow(s, w) == [s EXCEPT !.settled = w.settled, !.owed = w.owed]
ApplyWrite(s, w) == IF w.settled THEN [s EXCEPT !.settled = TRUE]
                                 ELSE [s EXCEPT !.owed = w.owed]

Apply(writes) ==
    {s \in splits : \A w \in writes : w.row # PK(s)}
    \cup UNION {{ApplyWrite(s, w) : w \in {x \in writes : x.row = PK(s)}}
                : s \in splits}

\* An UPDATE that matches no row raises StaleDataError (then only Rollback
\* is left), except in a batch of settled_at updates, which is not counted.
Counted(writes) ==
    {w \in writes : ~w.settled
                    \/ Cardinality({x \in writes : x.settled}) = 1}

CommitSettle(h) ==
    LET t == tx[h] IN
    /\ t.op = "settle"
    /\ \A w \in Counted(t.writes) : \E s \in splits : PK(s) = w.row
    /\ splits' = Apply(t.writes)
    /\ settlements' = settlements \cup
         {[id |-> nextId, from |-> t.from, to |-> t.to,
           amount |-> Stored(t.amount), exact |-> t.amount]}
    /\ Done(h)
    /\ UNCHANGED <<members, expenses>>

-----------------------------------------------------------------------------
(* Membership *)

Absent_Unchecked(user) == TRUE
Absent(user) == Rows(user) = {}

\* The invited e-mail resolves to a user, or the lookup answers 404 and
\* nothing changes.  The members are those loaded before the lookup, and
\* group_members has no unique constraint.
BeginAdd(h) ==
    /\ Free(h)
    /\ \E u \in Users, user \in Users :
         /\ IsOwner(u)
         /\ Absent(user)
         /\ Accept(h, [op |-> "add", user |-> user, checked |-> nextId])

CommitAdd(h) ==
    LET t == tx[h] IN
    /\ t.op = "add"
    /\ members' = members \cup {[id |-> nextId, user |-> t.user,
                                 role |-> "member", checked |-> t.checked]}
    /\ Done(h)
    /\ UNCHANGED <<expenses, splits, settlements>>

Removable(m) == m.role # "owner"

BeginRemove(h) ==
    /\ Free(h)
    /\ \E u \in Users, m \in members :
         /\ IsOwner(u)
         /\ Removable(m)
         /\ Accept(h, [op |-> "remove", row |-> m])

CommitRemove(h) ==
    LET t == tx[h] IN
    /\ t.op = "remove"
    /\ members' = members \ {t.row}
    /\ Done(h)
    /\ UNCHANGED <<expenses, splits, settlements>>

-----------------------------------------------------------------------------
\* create_group, and the invitations made before the model starts.
Init ==
    /\ members = {[id |-> 0, user |-> Owner, role |-> "owner", checked |-> 0]}
                 \cup {[id |-> 0, user |-> g, role |-> "member", checked |-> 0]
                          : g \in Guests}
    /\ expenses = {}
    /\ splits = {}
    /\ settlements = {}
    /\ nextId = 1
    /\ tx = [h \in Handlers |-> Idle]
    /\ budget = Budget

Step(h) ==
    \/ BeginCreate(h) \/ CommitCreate(h)
    \/ BeginUpdate(h) \/ CommitUpdate(h)
    \/ BeginDelete(h) \/ CommitDelete(h)
    \/ BeginSettle(h) \/ CommitSettle(h)
    \/ BeginAdd(h) \/ CommitAdd(h)
    \/ BeginRemove(h) \/ CommitRemove(h)
    \/ Rollback(h)

Next == \E h \in Handlers : Step(h)

Spec == Init /\ [][Next]_vars

-----------------------------------------------------------------------------
(* What the balances endpoint computes (calculate_group_balances) *)

PayerOf(s) == (CHOOSE e \in expenses : e.id = s.exp).payer

FromSplit(u, s) ==
    IF s.user = PayerOf(s) THEN 0
    ELSE IF u = PayerOf(s) THEN s.owed ELSE IF u = s.user THEN -s.owed ELSE 0

FromSettlement_PayerOnly(u, p) == IF u = p.from THEN p.amount ELSE 0
FromSettlement(u, p) ==
    (IF u = p.from THEN p.amount ELSE 0) - (IF u = p.to THEN p.amount ELSE 0)

Balance(u) == SumFunction([s \in splits |-> FromSplit(u, s)])
              + SumFunction([p \in settlements |-> FromSettlement(u, p)])

-----------------------------------------------------------------------------
(* Properties *)

\* Every table and every handler's local state is well formed.
TypeOK ==
    /\ members \subseteq Member
    /\ expenses \subseteq Expense
    /\ splits \subseteq Split
    /\ settlements \subseteq Settlement
    /\ nextId \in Nat
    /\ tx \in [Handlers -> Tx]
    /\ budget \in Nat

\* Whatever settlements race on the same rows, the debt that create_settlement
\* has taken off a user's splits never exceeds what that user has paid: the
\* walk clears rows only "up to the settlement amount".
Cleared(u) == SumFunction([s \in {r \in splits : r.user = u} |->
                             IF s.settled THEN s.due ELSE s.due - s.owed])
Paid(u) == SumFunction([p \in {q \in settlements : q.from = u} |-> p.amount])
Received(u) == SumFunction([p \in {q \in settlements : q.to = u} |-> p.amount])
ClearedUpToPaid == \A u \in Users : Cleared(u) <= Paid(u)

\* No payment raises a debt, and a row is left with owed_amount 0 and no
\* settled_at, owed by nobody and settled by nothing, only where that user has
\* paid an amount with a fraction of a cent.
DebtStaysVisible ==
    \A s \in splits :
        /\ s.owed <= s.due
        /\ s.due > 0 /\ s.owed = 0 =>
             \E p \in settlements : p.from = s.user /\ ~Whole(p.exact)

\* No split row outlives its expense, however an update or a settlement
\* interleaves with the deletion.
NoOrphanSplits == \A s \in splits : \E e \in expenses : e.id = s.exp

\* The group always keeps the member row of its creator with role owner:
\* nobody could invite, remove or rename otherwise.
OwnerStays == \E m \in members : m.user = Owner /\ m.role = "owner"

\* A split that has been marked settled is never reopened: it stays settled
\* until its expense is recalculated or deleted.
SettledIsFinal ==
    [][\A s \in splits :
         s.settled => \A r \in splits' : PK(r) = PK(s) => r.settled]_vars

\* The rows of an expense add up to its amount however its edits overlapped,
\* unless two calculations left their rows side by side.  To the cent when an
\* amount in whole cents was split equally; otherwise to within what is lost
\* between the payload and the columns: a cent for an equal split; for an exact
\* list its tolerance, and half a cent for the amount and for each row.
Slack(e, rows) ==
    IF e.mode = "exact" THEN 2 * Tolerance + Cardinality(rows) + 1
                        ELSE IF Whole(e.basis) THEN 0 ELSE 2
SplitsCoverAmount ==
    \A e \in expenses :
        LET rows == {s \in splits : s.exp = e.id}
            off == SumFunction([s \in rows |-> s.share]) - e.amount
        IN (\A r, s \in rows : r.calc = s.calc)
             => 2 * off \in -Slack(e, rows) .. Slack(e, rows)

\* add_member_by_email answers "User is already a member of this group" to
\* whoever was one when it looked: a user has a second row, and is locked out
\* of every IsMember check, only by an invitation that had looked before the
\* first row was committed.
InvitedOnce ==
    \A m, n \in members : m.user = n.user /\ m.id < n.id => n.checked <= m.id

\* When the rows it found open are open still, a settlement takes what it is
\* recorded with, or all there is, off them; a cent less only where the column
\* rounded the recorded amount up from half a cent.
SettlementClearsItsAmount ==
    [][\A h \in Handlers, u \in Users :
         CommitSettle(h) /\ tx[h].from = u /\ tx[h].read = Open(u, tx[h].to) =>
           LET took == Cleared(u)' - Cleared(u)
               recorded == Stored(tx[h].amount)
               open == SumFunction([s \in tx[h].read |-> s.owed])
           IN \/ took = Min({recorded, open})
              \/ Tie(tx[h].amount) /\ took = recorded - 1]_vars

\* As long as no row is partly paid and no payer was replaced after the split
\* was calculated, a balance is what a user paid for others minus what others
\* paid for that user, corrected by the settlements.
Fair(u) ==
    SumFunction([s \in splits |-> (IF u = PayerOf(s) THEN s.share ELSE 0)
                                  - (IF u = s.user THEN s.share ELSE 0)])
    + Paid(u) - Received(u)
BalancesFair ==
    (\A s \in splits : s.owed = OwedBy(s.user, PayerOf(s), s.share))
        => \A u \in Users : Balance(u) = Fair(u)

\* Recording a settlement moves the debtor's balance by its amount: it
\* "clears part of their debt" (REPORT.md).
SettlementMovesBalance ==
    [][\A h \in Handlers, u \in Users :
         CommitSettle(h) /\ tx[h].from = u /\ tx[h].to # u =>
           Balance(u)' = Balance(u) + Stored(tx[h].amount)]_vars
=============================================================================
