---------------------------- MODULE SettlementWalk ----------------------------
(***************************************************************************)
(* The loop of create_settlement over the open rows of one debtor: each is *)
(* marked settled while the payment covers it, the first that it does not  *)
(* cover is lowered, and the loop ends with nothing left.  `owed` is a     *)
(* column, in cents; `left`, what remains of the payment, is the payload's *)
(* Decimal, in parts of a cent.                                            *)
(***************************************************************************)
EXTENDS Money

SettlesInFull_Strict(owed, left) == Fine * owed < left
SettlesInFull(owed, left) == Fine * owed <= left

LeftAfter_NotZeroed(owed, left) ==
    IF SettlesInFull(owed, left) THEN left - Fine * owed ELSE left
LeftAfter(owed, left) ==
    IF SettlesInFull(owed, left) THEN left - Fine * owed ELSE 0

\* The column rounds what is left of the debt; settled_at stays NULL even
\* when that is 0.00.
PaidDown_Swapped(owed, left) == Stored(left - Fine * owed)
PaidDown(owed, left) == Stored(Fine * owed - left)

\* What can remain of a payment after some rows.
Leftovers(amount) == {amount - Fine * k : k \in 0 .. amount \div Fine} \cup {0}

\* left[i] is `remaining` after the first i of n rows, owes[i] what is owed on
\* the i-th.
Walks(owes, n, amount) ==
    {left \in [0 .. n -> Leftovers(amount)] :
        /\ left[0] = amount
        /\ \A i \in 1 .. n : left[i] = LeftAfter(owes[i], left[i - 1])}

\* The rows the loop gets to.
Reached(n, left) == {i \in 1 .. n : left[i - 1] > 0}
=============================================================================
