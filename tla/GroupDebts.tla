----------------------------- MODULE GroupDebts -----------------------------
(***************************************************************************)
(* From expenses to "who pays whom": _calculate_splits, create_settlement, *)
(* the balances of calculate_group_balances, and simplify_debts, composed  *)
(* as the endpoint GET /groups/{id}/simplified-debts (routers/groups.py)   *)
(* composes them.  Requests come one after another; what happens when they *)
(* overlap is the subject of Ledger.                                       *)
(***************************************************************************)
EXTENDS DebtSimplification, SplitCalc, SettlementWalk

CONSTANTS
    Charges,   \* the expenses a payload may describe: [amount, type, inputs]
    Payments,  \* settlements that may be recorded: [from, to, amount]
    MaxRows    \* bound on the expenses and settlements recorded

ASSUME GroupAssumption ==
    /\ Charges \subseteq [amount : Nat, type : SplitTypes,
                         inputs : Seq([user : Users, given : Int])]
    /\ Payments \subseteq [from : Users, to : Users, amount : Nat]
    /\ MaxRows \in Nat

VARIABLES expenses, settlements

groupVars == <<debtVars, expenses, settlements>>

\* The member query has no ORDER BY: anyone may be listed first, which is all
\* that equal shares depend on; the others are kept in one order.
MemberLists ==
    {ids \in [1 .. Cardinality(Users) -> Users] :
        /\ IsInjective(ids)
        /\ \A i, j \in 2 .. Cardinality(Users) : i < j => ids[i] < ids[j]}

Room == phase = "idle" /\ Len(expenses) + Len(settlements) < MaxRows

CreateExpense ==
    /\ Room
    /\ \E charge \in Charges, payer \in Users, ids \in MemberLists :
         /\ Accepted(charge.type, charge.amount, ids, charge.inputs)
         /\ expenses' = Append(expenses,
              [paidBy |-> payer, amount |-> Stored(charge.amount),
               charge |-> charge,
               rows |-> Splits(charge.type, charge.amount, payer, ids,
                               charge.inputs)])
    /\ UNCHANGED <<debtVars, settlements>>

\* The rows create_settlement walks, by expense and place in it: what the
\* debtor owes on the expenses of the creditor.
Open(debtor, creditor) ==
    UNION { { <<i, k>> : k \in {j \in DOMAIN expenses[i].rows :
                                 LET row == expenses[i].rows[j]
                                 IN /\ row.user = debtor
                                    /\ row.owed > 0
                                    /\ ~row.settled} }
            : i \in {j \in DOMAIN expenses : expenses[j].paidBy = creditor} }

\* Oldest expense first; the rows of one in any order.
Listings(S) ==
    {q \in [1 .. Cardinality(S) -> S] :
        \A i, j \in 1 .. Cardinality(S) :
            i < j => q[i] # q[j] /\ q[i][1] <= q[j][1]}

\* A row that the loop has got to with `left` remaining.
Walked(row, left) ==
    IF SettlesInFull(row.owed, left) THEN [row EXCEPT !.settled = TRUE]
    ELSE [row EXCEPT !.owed = PaidDown(@, left)]

\* What the loop makes of the row at a place, if it gets there.
AfterWalk(place, row, q, left, reached) ==
    IF \E j \in reached : q[j] = place
    THEN Walked(row, left[(CHOOSE j \in reached : q[j] = place) - 1])
    ELSE row

CreateSettlement ==
    /\ Room
    /\ \E p \in Payments :
         /\ settlements' = Append(settlements, [p EXCEPT !.amount = Stored(@)])
         /\ LET S == Open(p.from, p.to)
                n == Cardinality(S)
                OwedAt(place) == expenses[place[1]].rows[place[2]].owed
            IN \E q \in Listings(S) :
               \E left \in Walks([i \in 1 .. n |-> OwedAt(q[i])], n, p.amount) :
                 expenses' =
                   [i \in DOMAIN expenses |->
                      [expenses[i] EXCEPT !.rows =
                         [k \in DOMAIN @ |->
                            AfterWalk(<<i, k>>, @[k], q, left, Reached(n, left))]]]
    /\ UNCHANGED debtVars

-----------------------------------------------------------------------------
(* calculate_group_balances *)

\* What add(to, amount), add(from, -amount) give to u.
Moved(u, from, to, amount) ==
    (IF u = to THEN amount ELSE 0) - (IF u = from THEN amount ELSE 0)

\* A row of the payer moves nothing; any other is owed to the payer.
FromRow(u, paidBy, row) ==
    IF row.user = paidBy THEN 0 ELSE Moved(u, row.user, paidBy, row.owed)

FromExpense(u, e) ==
    SumFunction([k \in DOMAIN e.rows |-> FromRow(u, e.paidBy, e.rows[k])])

FromSettlement(u, s) == Moved(u, s.to, s.from, s.amount)

BalancesOf(exps, setts) ==
    [u \in Users |->
       SumFunction([i \in DOMAIN exps |-> FromExpense(u, exps[i])])
       + SumFunction([i \in DOMAIN setts |-> FromSettlement(u, setts[i])])]

\* Both endpoints read all expenses and settlements of the group.
SimplifiedDebts ==
    /\ Ask(BalancesOf(expenses, settlements))
    /\ UNCHANGED <<expenses, settlements>>

GroupInit == Init /\ expenses = <<>> /\ settlements = <<>>

GroupNext ==
    \/ CreateExpense
    \/ CreateSettlement
    \/ SimplifiedDebts
    \/ Match /\ UNCHANGED <<expenses, settlements>>
    \/ Return /\ UNCHANGED <<expenses, settlements>>

GroupSpec == GroupInit /\ [][GroupNext]_groupVars

-----------------------------------------------------------------------------
(* Properties *)

Magnitude(x) == IF x < 0 THEN -x ELSE x

\* An expense is charged exactly once: the shares of equal and percentage
\* splits of whole cents add up to the amount to the cent, whatever the
\* rounding.  The columns are rounded apart from each other, so an amount with
\* a fraction of a cent is met to within a cent, and an exact list to within
\* its tolerance and half a cent for the amount and for each row.
Slack(charge) ==
    IF charge.type = "exact" THEN 2 * ExactTolerance + Len(charge.inputs) + 1
                             ELSE IF Whole(charge.amount) THEN 0 ELSE 2
SharesCoverCharge ==
    \A i \in DOMAIN expenses :
        LET e == expenses[i] IN
        Near(2 * SumFunction([k \in DOMAIN e.rows |-> e.rows[k].share]),
             2 * e.amount, Slack(e.charge))

\* The correction of the first share stays a rounding matter: it is what the
\* tolerance on the sum of percentages is worth, and a cent more for each
\* participant, downwards only for those with a negative percentage; and a cent
\* either way where the amount is not in whole cents.
\* (The share may well be negative: 0 percent of a large amount.)
FirstShareFair ==
    \A i \in DOMAIN expenses :
        LET e == expenses[i]
            inputs == e.charge.inputs
            worth == (PercentTolerance * e.charge.amount) \div (Hundred * Fine)
            negative == {k \in DOMAIN inputs : inputs[k].given < 0}
            odd == IF Whole(e.charge.amount) THEN 0 ELSE 1
        IN e.charge.type = "percentage" =>
             e.rows[1].share
               - RoundedDown(inputs[1].given * e.charge.amount, Hundred * Fine)
               \in -worth - Cardinality(negative) - odd
                   .. worth + Len(inputs) - Cardinality(negative) + odd

\* The list settles the balances it was asked for: everybody's balance and the
\* transfers to and from that user come to no more than the cents that
\* simplify_debts ignored in all.  (Recorded through create_settlement, which
\* lowers rows besides, they come to something else: SettlementMovesBalance
\* of Ledger.)
Ignored == {u \in Users : Magnitude(balances[u]) = Epsilon}
ListSettles ==
    phase = "answered" =>
        \A u \in Users :
            Magnitude(balances[u]
                      + SumFunction([i \in DOMAIN transactions |->
                                       FromSettlement(u, transactions[i])]))
              <= Cardinality(Ignored)
=============================================================================
