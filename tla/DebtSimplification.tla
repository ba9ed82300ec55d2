------------------------- MODULE DebtSimplification -------------------------
(***************************************************************************)
(* simplify_debts (utils/debt_simplification.py): the greedy matching of   *)
(* the largest creditor with the largest debtor, one action per iteration. *)
(*                                                                         *)
(* The two sorted lists with their indices i and j are kept as the sets of *)
(* the entries from the index on.  They are sorted once, by the amounts at *)
(* the start and then by user id, so the entry at the index is the first   *)
(* of the set whatever has been subtracted since.  Amounts are cents; user *)
(* ids are numbers, compared as the code compares UUIDs.                   *)
(***************************************************************************)
EXTENDS Integers, Sequences, FiniteSets

CONSTANT Users     \* the users of the group

ASSUME DebtAssumption ==
    /\ Users \subseteq Nat
    /\ IsFiniteSet(Users)

VARIABLES
    balances,     \* the argument
    credit,       \* amounts in the entries of `creditors`
    debt,         \* amounts in the entries of `debtors`
    creditors,    \* users of the creditors list from index i on
    debtors,      \* users of the debtors list from index j on
    transactions, \* the list that is built
    phase         \* "idle", "matching" (in the loop), "answered"

debtVars == <<balances, credit, debt, creditors, debtors, transactions, phase>>

Epsilon == 1      \* Decimal("0.01")

CreditorsOf(b) == {u \in Users : b[u] > Epsilon}
DebtorsOf(b) == {u \in Users : b[u] < -Epsilon}

\* sort(reverse=True) on [amount, user_id]: u comes first of S.
IsFirst(u, S, amount) ==
    \A v \in S : amount[u] > amount[v] \/ (amount[u] = amount[v] /\ u >= v)

Lesser(a, b) == IF a <= b THEN a ELSE b
Settle_Larger(a, b) == IF a <= b THEN b ELSE a
Settle(a, b) == Lesser(a, b)

\* The entry stays at its index unless less than Epsilon is left of it.
Passed_Below(left) == left < 0
Passed(left) == left < Epsilon

Remaining(S, u, left) == IF Passed(left) THEN S \ {u} ELSE S

Payment_Reversed(debtor, creditor, amount) ==
    [from |-> creditor, to |-> debtor, amount |-> amount]
Payment(debtor, creditor, amount) ==
    [from |-> debtor, to |-> creditor, amount |-> amount]

\* The while condition fails.
Finished == creditors = {} \/ debtors = {}

Init ==
    /\ balances = [u \in Users |-> 0]
    /\ credit = [u \in Users |-> 0]
    /\ debt = [u \in Users |-> 0]
    /\ creditors = {}
    /\ debtors = {}
    /\ transactions = <<>>
    /\ phase = "idle"

\* A request for the simplified debts: the two lists are filled and sorted.
Ask(b) ==
    /\ phase = "idle"
    /\ balances' = b
    /\ credit' = b
    /\ debt' = [u \in Users |-> -b[u]]
    /\ creditors' = CreditorsOf(b)
    /\ debtors' = DebtorsOf(b)
    /\ transactions' = <<>>
    /\ phase' = "matching"

\* One iteration of the while loop.
Match ==
    /\ phase = "matching"
    /\ ~Finished
    /\ \E c \in creditors, d \in debtors :
         /\ IsFirst(c, creditors, balances)
         /\ IsFirst(d, debtors, [u \in Users |-> -balances[u]])
         /\ LET amount == Settle(credit[c], debt[d])
            IN /\ transactions' = Append(transactions, Payment(d, c, amount))
               /\ credit' = [credit EXCEPT ![c] = @ - amount]
               /\ debt' = [debt EXCEPT ![d] = @ - amount]
               /\ creditors' = Remaining(creditors, c, credit[c] - amount)
               /\ debtors' = Remaining(debtors, d, debt[d] - amount)
    /\ UNCHANGED <<balances, phase>>

Return ==
    /\ phase = "matching"
    /\ Finished
    /\ phase' = "answered"
    /\ UNCHANGED <<balances, credit, debt, creditors, debtors, transactions>>

Next == (\E b \in [Users -> Int] : Ask(b)) \/ Match \/ Return

Spec == Init /\ [][Next]_debtVars

-----------------------------------------------------------------------------
(* Properties *)

Transaction == [from : Users, to : Users, amount : Int]

\* The variables are well formed; nobody is on both lists.
DebtTypeOK ==
    /\ balances \in [Users -> Int]
    /\ credit \in [Users -> Int]
    /\ debt \in [Users -> Int]
    /\ creditors \subseteq Users
    /\ debtors \subseteq Users
    /\ creditors \cap debtors = {}
    /\ transactions \in Seq(Transaction)
    /\ phase \in {"idle", "matching", "answered"}

\* simplify_debts never asks for more transfers than the users with a debt or
\* a claim, less one: every iteration finishes an entry, and the last one that
\* finishes leaves no partner.
FewTransfers ==
    transactions # <<>> =>
        Len(transactions) < Cardinality(CreditorsOf(balances))
                            + Cardinality(DebtorsOf(balances))

\* What is left for a user after the transfers so far.
Rest == [u \in Users |-> IF balances[u] > 0 THEN credit[u] ELSE -debt[u]]

Settles == INSTANCE Settling WITH asked <- phase # "idle", rest <- Rest

\* The loop implements Settling: money only moves from a user who owes to one
\* who is owed, never more than either has left, and each transfer completes
\* one of them, although the amounts are kept in two lists that are never
\* compared with the balances again.
ImplementsSettling == Settles!Spec
=============================================================================
