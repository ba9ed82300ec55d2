------------------------------ MODULE Settling ------------------------------
(***************************************************************************)
(* What a list of transfers that settles a group's debts promises, without *)
(* saying which transfers are chosen or in which order.  Whoever asks gets *)
(* transfers from users who owe to users who are owed; none pays more than *)
(* the one still owes and the other still is owed; each transfer is the    *)
(* last one for at least one of the two.                                   *)
(***************************************************************************)
EXTENDS Integers

CONSTANT Users     \* the members of the group

VARIABLES
    asked,         \* whether the group's balances are known
    rest           \* what each user is owed (positive) or owes (negative) if
                   \* the transfers so far are made

Init == asked = FALSE /\ rest = [u \in Users |-> 0]

Ask == ~asked /\ asked' = TRUE /\ rest' \in [Users -> Int]

\* The most that neither overpays nor is overpaid.
Transferred(debtor, creditor) ==
    IF -rest[debtor] <= rest[creditor] THEN -rest[debtor] ELSE rest[creditor]

Transfer(debtor, creditor) ==
    LET amount == Transferred(debtor, creditor) IN
    /\ asked /\ asked'
    /\ amount > 0
    /\ rest' = [rest EXCEPT ![debtor] = @ + amount, ![creditor] = @ - amount]

Next == Ask \/ \E debtor, creditor \in Users : Transfer(debtor, creditor)

Spec == Init /\ [][Next]_<<asked, rest>>
=============================================================================
