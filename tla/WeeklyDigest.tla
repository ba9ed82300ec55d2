---------------------------- MODULE WeeklyDigest ----------------------------
(***************************************************************************)
(* What the weekly jobs of the notification worker tell the members of the *)
(* group of Ledger: the e-mail digest (email_worker.py) and the reminder   *)
(* of unsettled debts (push_worker.py).  Both only read, in SQL of their   *)
(* own, the rows that the expense-service turns into balances.             *)
(***************************************************************************)
EXTENDS Ledger

\* Everybody with a row in group_members (nothing clears users.is_active).
Recipients == {m.user : m \in members}

Outstanding_All == {s \in splits : s.owed > 0}
Outstanding == {s \in splits : ~s.settled /\ s.owed > 0}

Owed(debtor, creditor) ==
    SumFunction([s \in {r \in Outstanding : r.user = debtor
                                           /\ PayerOf(r) = creditor} |-> s.owed])

\* The digest's JOIN repeats a row for each member row of the recipient u.
Summed(u, debtor, creditor) == Cardinality(Rows(u)) * Owed(debtor, creditor)

\* A line for each pair with u in it; an own debt is one that u owes.
Digest(u) ==
    {[direction |-> "owe", other |-> v, amount |-> Summed(u, u, v)] :
        v \in {w \in Users : Summed(u, u, w) > 0}}
    \cup
    {[direction |-> "owed", other |-> v, amount |-> Summed(u, v, u)] :
        v \in {w \in Users \ {u} : Summed(u, w, u) > 0}}

\* What the reminder names, when all expenses are a week old.
Reminded(u) == SumFunction([s \in {r \in Outstanding : r.user = u} |-> s.owed])

-----------------------------------------------------------------------------
(* Properties *)

\* What the lines of one direction come to.
Sums(lines, direction) ==
    SumFunction([l \in {k \in lines : k.direction = direction} |-> l.amount])

\* Every payment between two users settled rows of these two exactly.
PaidInFull ==
    \A a, b \in Users :
        SumFunction([s \in {r \in splits : r.settled /\ r.user = a
                                            /\ PayerOf(r) = b} |-> s.owed])
          = SumFunction([p \in {q \in settlements : q.from = a /\ q.to = b}
                           |-> p.amount])

\* The digest explains the balance the app shows, although one adds up what is
\* open and the other everything that ever was, less the payments: they agree
\* when payments settled whole rows, no listed amount is negative and no payer
\* was replaced (a replaced payer is told to owe money to himself).  Who is
\* reminded of a debt reads it in the digest.  For a user with two member rows
\* the JOIN doubles the digest.
ReportsAgree ==
    LET full == PaidInFull /\ \A s \in splits : s.owed >= 0
    IN \A u \in {v \in Recipients : IsMember(v)} :
         LET lines == Digest(u)
             owes == Sums(lines, "owe")
         IN /\ Reminded(u) <= owes
            /\ full /\ Owed(u, u) = 0 =>
                 Balance(u) = Sums(lines, "owed") - owes
=============================================================================
