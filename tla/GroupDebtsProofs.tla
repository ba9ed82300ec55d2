------------------------ MODULE GroupDebtsProofs ------------------------
(* What simplify_debts guarantees for any set of users and any balances, and *)
(* the endpoint around it for any expenses and settlements.                  *)
EXTENDS GroupDebts, SumsProofs, FiniteSetTheorems, SequenceTheorems, TLAPS

-----------------------------------------------------------------------------
(* simplify_debts *)

\* An entry that is still in its list has at least a cent left, on the side
\* its user was on when the lists were filled.
EntriesOpen ==
    /\ \A u \in creditors : balances[u] > 0 /\ credit[u] > 0
    /\ \A u \in debtors : balances[u] < 0 /\ debt[u] > 0

\* Every transfer has been paid for with an entry.
EntriesSpent ==
    Len(transactions) + Cardinality(creditors) + Cardinality(debtors)
        <= Cardinality(CreditorsOf(balances)) + Cardinality(DebtorsOf(balances))

IInv == DebtTypeOK /\ EntriesOpen /\ EntriesSpent /\ FewTransfers

\* Sets of users are finite, so they can be counted.
LEMMA CountUsers ==
  ASSUME NEW S, S \subseteq Users
  PROVE  IsFiniteSet(S) /\ Cardinality(S) \in Nat
  BY DebtAssumption, FS_Subset, FS_CardinalityType

\* Taking a finished entry out of a list makes it shorter by one.
LEMMA RemainingCount ==
  ASSUME NEW S, S \subseteq Users, NEW u \in S, NEW left \in Int
  PROVE  /\ Remaining(S, u, left) \subseteq S
         /\ Cardinality(Remaining(S, u, left)) \in Nat
         /\ Cardinality(S) \in Nat /\ Cardinality(S) > 0
         /\ Cardinality(Remaining(S, u, left)) <= Cardinality(S)
         /\ left < 1 =>
              Cardinality(Remaining(S, u, left)) = Cardinality(S) - 1
<1>1. Remaining(S, u, left) \subseteq S
  BY DEF Remaining
<1>2. /\ IsFiniteSet(S) /\ Cardinality(S) \in Nat
      /\ Cardinality(Remaining(S, u, left)) \in Nat
  BY <1>1, CountUsers
<1>3. Cardinality(S \ {u}) = Cardinality(S) - 1
  BY <1>2, FS_RemoveElement
<1>4. Cardinality(S) > 0
  BY <1>2, FS_EmptySet
<1>5. CASE Passed(left)
  BY <1>1, <1>2, <1>3, <1>4, <1>5 DEF Remaining
<1>6. CASE ~Passed(left)
  BY <1>1, <1>2, <1>4, <1>6 DEF Remaining, Passed, Epsilon
<1> QED
  BY <1>5, <1>6

\* Before the request there is no entry and no transfer.
LEMMA InitInv == Init => IInv
<1> SUFFICES ASSUME Init PROVE IInv
  OBVIOUS
<1>1. Cardinality({}) = 0
  BY FS_EmptySet
<1>2. /\ Cardinality(CreditorsOf(balances)) \in Nat
      /\ Cardinality(DebtorsOf(balances)) \in Nat
  BY CountUsers DEF CreditorsOf, DebtorsOf
<1>3. DebtTypeOK /\ EntriesOpen /\ FewTransfers
  BY DEF Init, DebtTypeOK, EntriesOpen, FewTransfers
<1>4. EntriesSpent
  BY <1>1, <1>2 DEF Init, EntriesSpent
<1> QED
  BY <1>3, <1>4 DEF IInv

\* Filling the lists: nobody is above and below zero at once.
LEMMA AskInv ==
  ASSUME NEW b \in [Users -> Int], Ask(b)
  PROVE  IInv'
<1>1. /\ Cardinality(CreditorsOf(b)) \in Nat
      /\ Cardinality(DebtorsOf(b)) \in Nat
  BY CountUsers DEF CreditorsOf, DebtorsOf
<1>2. DebtTypeOK' /\ EntriesOpen'
  BY DEF Ask, DebtTypeOK, EntriesOpen, CreditorsOf, DebtorsOf, Epsilon
<1>3. EntriesSpent' /\ FewTransfers'
  BY <1>1 DEF Ask, EntriesSpent, FewTransfers
<1> QED
  BY <1>2, <1>3 DEF IInv

\* One iteration: both parties keep a non-negative rest, one of them none.
LEMMA SettleOK ==
  ASSUME NEW a \in Int, a > 0, NEW b \in Int, b > 0
  PROVE  /\ Settle(a, b) \in Int /\ Settle(a, b) > 0
         /\ Settle(a, b) <= a /\ Settle(a, b) <= b
         /\ a - Settle(a, b) < 1 \/ b - Settle(a, b) < 1
  BY DEF Settle, Lesser

\* An iteration spends at least one entry and leaves the others as they were.
LEMMA MatchInv ==
  ASSUME IInv, Match
  PROVE  IInv'
<1>1. PICK c \in creditors, d \in debtors :
        LET amount == Settle(credit[c], debt[d])
        IN /\ transactions' = Append(transactions, Payment(d, c, amount))
           /\ credit' = [credit EXCEPT ![c] = @ - amount]
           /\ debt' = [debt EXCEPT ![d] = @ - amount]
           /\ creditors' = Remaining(creditors, c, credit[c] - amount)
           /\ debtors' = Remaining(debtors, d, debt[d] - amount)
  BY DEF Match
<1> DEFINE amount == Settle(credit[c], debt[d])
<1>2. /\ c \in Users /\ d \in Users
      /\ credit[c] \in Int /\ credit[c] > 0
      /\ debt[d] \in Int /\ debt[d] > 0
  BY DEF IInv, DebtTypeOK, EntriesOpen
<1>3. /\ amount \in Int
      /\ credit[c] - amount \in Int /\ debt[d] - amount \in Int
      /\ credit[c] - amount < 1 \/ debt[d] - amount < 1
  BY <1>2, SettleOK
<1>4. balances' = balances /\ phase' = phase
  BY DEF Match
<1>5. creditors' \subseteq creditors /\ debtors' \subseteq debtors
  BY <1>1 DEF Remaining
<1>6. DebtTypeOK'
  BY <1>1, <1>2, <1>3, <1>4, <1>5
  DEF IInv, DebtTypeOK, Transaction, Payment
<1>7. EntriesOpen'
  <2>1. ASSUME NEW u \in creditors' PROVE balances'[u] > 0 /\ credit'[u] > 0
    <3>1. u \in creditors /\ u \in Users
      BY <1>5 DEF IInv, DebtTypeOK
    <3>2. CASE u = c
      BY <1>1, <1>2, <1>3, <1>4, <3>1, <3>2
      DEF IInv, DebtTypeOK, EntriesOpen, Remaining, Passed, Epsilon
    <3>3. CASE u # c
      BY <1>1, <1>2, <1>4, <3>1, <3>3 DEF IInv, DebtTypeOK, EntriesOpen
    <3> QED
      BY <3>2, <3>3
  <2>2. ASSUME NEW u \in debtors' PROVE balances'[u] < 0 /\ debt'[u] > 0
    <3>1. u \in debtors /\ u \in Users
      BY <1>5 DEF IInv, DebtTypeOK
    <3>2. CASE u = d
      BY <1>1, <1>2, <1>3, <1>4, <3>1, <3>2
      DEF IInv, DebtTypeOK, EntriesOpen, Remaining, Passed, Epsilon
    <3>3. CASE u # d
      BY <1>1, <1>2, <1>4, <3>1, <3>3 DEF IInv, DebtTypeOK, EntriesOpen
    <3> QED
      BY <3>2, <3>3
  <2> QED
    BY <2>1, <2>2 DEF EntriesOpen
<1>8. Len(transactions') = Len(transactions) + 1 /\ Len(transactions) \in Nat
  BY <1>1, <1>2, <1>3 DEF IInv, DebtTypeOK, Transaction, Payment
<1>9. /\ Cardinality(creditors) \in Nat /\ Cardinality(creditors) > 0
      /\ Cardinality(creditors') \in Nat
      /\ Cardinality(creditors') <= Cardinality(creditors)
      /\ credit[c] - amount < 1 =>
           Cardinality(creditors') = Cardinality(creditors) - 1
  BY <1>1, <1>3, RemainingCount DEF IInv, DebtTypeOK
<1>10. /\ Cardinality(debtors) \in Nat /\ Cardinality(debtors) > 0
       /\ Cardinality(debtors') \in Nat
       /\ Cardinality(debtors') <= Cardinality(debtors)
       /\ debt[d] - amount < 1 =>
            Cardinality(debtors') = Cardinality(debtors) - 1
  BY <1>1, <1>3, RemainingCount DEF IInv, DebtTypeOK
<1>11. /\ CreditorsOf(balances)' = CreditorsOf(balances)
       /\ DebtorsOf(balances)' = DebtorsOf(balances)
       /\ Cardinality(CreditorsOf(balances)) \in Nat
       /\ Cardinality(DebtorsOf(balances)) \in Nat
  BY <1>4, CountUsers DEF CreditorsOf, DebtorsOf
<1> HIDE DEF amount
<1>12. EntriesSpent' /\ FewTransfers'
  <2>1. \/ Cardinality(creditors') = Cardinality(creditors) - 1
        \/ Cardinality(debtors') = Cardinality(debtors) - 1
    BY <1>3, <1>9, <1>10
  <2>2. Cardinality(creditors') + Cardinality(debtors')
          <= Cardinality(creditors) + Cardinality(debtors) - 1
    BY <1>9, <1>10, <2>1
  <2>3. Len(transactions) + Cardinality(creditors) + Cardinality(debtors)
          <= Cardinality(CreditorsOf(balances)) + Cardinality(DebtorsOf(balances))
    BY DEF IInv, EntriesSpent
  <2>4. Len(transactions') + Cardinality(creditors') + Cardinality(debtors')
          <= Cardinality(CreditorsOf(balances)) + Cardinality(DebtorsOf(balances))
    BY <1>8, <1>9, <1>10, <1>11, <2>2, <2>3
  <2>5. EntriesSpent'
    BY <1>11, <2>4 DEF EntriesSpent
  <2>6. FewTransfers'
    <3>1. Len(transactions') < Cardinality(CreditorsOf(balances))
                                 + Cardinality(DebtorsOf(balances))
      BY <1>8, <1>9, <1>10, <1>11, <2>3
    <3> QED
      BY <1>11, <3>1 DEF FewTransfers
  <2> QED
    BY <2>5, <2>6
<1> QED
  BY <1>6, <1>7, <1>12 DEF IInv

\* Returning, or doing nothing, changes no entry.
LEMMA UnchangedInv ==
  ASSUME IInv, phase' \in {"idle", "matching", "answered"},
         UNCHANGED <<balances, credit, debt, creditors, debtors, transactions>>
  PROVE  IInv'
  BY DEF IInv, DebtTypeOK, EntriesOpen, EntriesSpent, FewTransfers,
         CreditorsOf, DebtorsOf

LEMMA NextInv == IInv /\ [Next]_debtVars => IInv'
<1> SUFFICES ASSUME IInv, [Next]_debtVars PROVE IInv'
  OBVIOUS
<1>1. ASSUME NEW b \in [Users -> Int], Ask(b) PROVE IInv'
  BY <1>1, AskInv
<1>2. CASE Match
  BY <1>2, MatchInv
<1>3. CASE Return
  BY <1>3, UnchangedInv DEF Return
<1>4. CASE UNCHANGED debtVars
  BY <1>4, UnchangedInv DEF debtVars, IInv, DebtTypeOK
<1> QED
  BY <1>1, <1>2, <1>3, <1>4 DEF Next

\* The invariant holds throughout simplify_debts.
THEOREM DebtInvariant == Spec => []IInv
  BY InitInv, NextInv, PTL DEF Spec

\* However many users there are and whatever they owe, the list has fewer
\* transfers than there are users to settle.
THEOREM DebtFewTransfers == Spec => []FewTransfers
<1>1. IInv => FewTransfers
  BY DEF IInv
<1> QED
  BY <1>1, DebtInvariant, PTL

-----------------------------------------------------------------------------
(* The loop implements Settling *)

\* An iteration is a transfer that neither overpays nor is overpaid.
LEMMA MatchSettles ==
  ASSUME IInv, Match
  PROVE  Settles!Next
<1>1. PICK c \in creditors, d \in debtors :
        LET amount == Settle(credit[c], debt[d])
        IN /\ credit' = [credit EXCEPT ![c] = @ - amount]
           /\ debt' = [debt EXCEPT ![d] = @ - amount]
  BY DEF Match
<1> DEFINE amount == Settle(credit[c], debt[d])
<1>2. /\ c \in Users /\ d \in Users /\ c # d
      /\ balances[c] > 0 /\ credit[c] \in Int /\ credit[c] > 0
      /\ balances[d] < 0 /\ debt[d] \in Int /\ debt[d] > 0
      /\ balances \in [Users -> Int]
      /\ credit \in [Users -> Int] /\ debt \in [Users -> Int]
  BY DEF IInv, DebtTypeOK, EntriesOpen
<1>3. amount \in Int /\ amount > 0
  BY <1>2, SettleOK
<1>4. /\ Rest[c] = credit[c] /\ Rest[d] = -debt[d]
      /\ Rest \in [Users -> Int]
  BY <1>2 DEF Rest
<1>5. Settles!Transferred(d, c) = amount
  BY <1>2, <1>4 DEF Settles!Transferred, Settle, Lesser
<1>6. balances' = balances /\ phase = "matching" /\ phase' = "matching"
  BY DEF Match
<1>7. Rest' = [Rest EXCEPT ![d] = @ + amount, ![c] = @ - amount]
  <2>1. /\ credit' = [credit EXCEPT ![c] = @ - amount]
        /\ debt' = [debt EXCEPT ![d] = @ - amount]
    BY <1>1
  <2> HIDE DEF amount
  <2>2. Rest' = [u \in Users |-> IF balances[u] > 0 THEN credit'[u]
                                                   ELSE -debt'[u]]
    BY <1>6 DEF Rest
  <2>3. ASSUME NEW u \in Users
        PROVE  (IF balances[u] > 0 THEN credit'[u] ELSE -debt'[u])
                 = [Rest EXCEPT ![d] = @ + amount, ![c] = @ - amount][u]
    <3>1. CASE u = c
      BY <1>2, <1>3, <1>4, <2>1, <3>1
    <3>2. CASE u = d
      BY <1>2, <1>3, <1>4, <2>1, <3>2
    <3>3. CASE u # c /\ u # d
      BY <1>2, <1>3, <1>4, <2>1, <3>3 DEF Rest
    <3> QED
      BY <3>1, <3>2, <3>3
  <2> QED
    BY <2>2, <2>3, <1>4
<1>8. Settles!Transfer(d, c)
  BY <1>3, <1>5, <1>6, <1>7 DEF Settles!Transfer
<1> QED
  BY <1>2, <1>8 DEF Settles!Next

\* Every step of the loop is a step of Settling, or none.
LEMMA StepSettles ==
  IInv /\ [Next]_debtVars => [Settles!Next]_<<phase # "idle", Rest>>
<1> SUFFICES ASSUME IInv, [Next]_debtVars
             PROVE  [Settles!Next]_<<phase # "idle", Rest>>
  OBVIOUS
<1>1. ASSUME NEW b \in [Users -> Int], Ask(b) PROVE Settles!Next
  <2>1. Rest' \in [Users -> Int]
    BY <1>1 DEF Ask, Rest
  <2>2. phase = "idle" /\ phase' = "matching"
    BY <1>1 DEF Ask
  <2> QED
    BY <2>1, <2>2 DEF Settles!Next, Settles!Ask
<1>2. CASE Match
  BY <1>2, MatchSettles
<1>3. CASE Return
  BY <1>3 DEF Return, Rest
<1>4. CASE UNCHANGED debtVars
  BY <1>4 DEF debtVars, Rest
<1> QED
  BY <1>1, <1>2, <1>3, <1>4 DEF Next

\* simplify_debts implements Settling for any users and balances: it only moves
\* money from users who owe to users who are owed, never more than is left on
\* either side.
THEOREM SimplifyImplementsSettling == Spec => ImplementsSettling
<1>1. Init => Settles!Init
  <2> SUFFICES ASSUME Init PROVE Settles!Init
    OBVIOUS
  <2>1. ASSUME NEW u \in Users
        PROVE  (IF balances[u] > 0 THEN credit[u] ELSE -debt[u]) = 0
    <3>1. balances[u] = 0 /\ debt[u] = 0
      BY DEF Init
    <3>2. ~(balances[u] > 0)
      BY <3>1
    <3>3. ASSUME NEW x \in Int, x >= 0, x <= 0 PROVE -x = 0
      BY <3>3
    <3>4. debt[u] \in Int /\ debt[u] >= 0 /\ debt[u] <= 0
      BY <3>1
    <3>5. -debt[u] = 0
      BY <3>3, <3>4
    <3> QED
      BY <3>2, <3>5
  <2>2. Rest = [u \in Users |-> 0]
    BY <2>1 DEF Rest
  <2>3. (phase # "idle") = FALSE
    BY DEF Init
  <2> QED
    BY <2>2, <2>3 DEF Settles!Init
<1> QED
  BY <1>1, StepSettles, DebtInvariant, PTL
  DEF Spec, Settles!Spec, ImplementsSettling

-----------------------------------------------------------------------------
(* Amounts *)

LEMMA MoneyKept ==
  /\ \A x \in Int : Stored(x) = NearestUp(x, Fine)
  /\ \A x \in Int : Quantized(x) = NearestEven(x, Fine)
  /\ Fine \in Nat /\ Fine > 0
  /\ \A x \in Int : Stored(x) \in Int /\ Quantized(x) \in Int
  /\ \A x \in Nat : Stored(x) \in Nat
<1>1. Fine \in Nat /\ Fine > 0
  BY FineAssumption
<1>2. /\ \A x \in Int : Stored(x) = NearestUp(x, Fine)
      /\ \A x \in Int : Quantized(x) = NearestEven(x, Fine)
  BY DEF Stored, NearestUp, Quantized, NearestEven, Tie
<1>3. \A x \in Int : NearestUp(x, Fine) \in Int /\ NearestEven(x, Fine) \in Int
  BY <1>1, NearestUpBounds, NearestEvenBounds
<1>4. ASSUME NEW x \in Nat PROVE Stored(x) \in Nat
  <2>1. NearestUp(Fine * 0, Fine) = 0
    BY <1>1, NearestUpWhole
  <2>2. Fine * 0 = 0
    BY <1>1
  <2>3. NearestUp(0, Fine) = 0 /\ 0 \in Int /\ x \in Int /\ 0 <= x
    BY <2>1, <2>2
  <2>4. NearestUp(0, Fine) <= NearestUp(x, Fine)
    BY <1>1, <2>3, NearestUpLeq
  <2> QED
    BY <1>2, <1>3, <2>3, <2>4
<1> QED
  BY <1>1, <1>2, <1>3, <1>4

-----------------------------------------------------------------------------
(* _calculate_splits *)

\* What the cents may miss, in half cents, when the first share takes the rest.
RestSlack(amount) == IF Whole(amount) THEN 0 ELSE 2

\* With the first share corrected, the cents add up to the amount as stored.
LEMMA ToFirstAdds ==
  ASSUME NEW n \in Nat, n > 0, NEW cents \in [1 .. n -> Int], NEW amount \in Nat
  PROVE  LET g == ToFirst(cents, amount)
             s == SumFunctionOnSet(cents, 1 .. n)
             w == s - cents[1]
         IN /\ s \in Int /\ g \in [1 .. n -> Int]
            /\ g[1] = Quantized(amount - Fine * w)
            /\ Near(2 * SumFunctionOnSet(g, 1 .. n), 2 * Stored(amount),
                    RestSlack(amount))
<1> DEFINE S == 1 .. n
           y == 1
           f == cents
           g == ToFirst(cents, amount)
           s == SumFunctionOnSet(f, S)
           w == s - f[y]
           q == Quantized(amount - Fine * w)
<1>1. IsFiniteSet(S) /\ y \in S
  BY FS_Interval
<1>2. \A x \in S : f[x] \in Int
  OBVIOUS
<1>3. s \in Int /\ f[y] \in Int
  <2> HIDE DEF S, f, y
  <2> QED
    BY <1>1, <1>2, SumInt
<1>4. Fine \in Nat /\ Fine > 0 /\ amount - Fine * w \in Int
  <2>1. Fine \in Nat /\ Fine > 0 /\ w \in Int
    BY <1>3, MoneyKept
  <2> HIDE DEF w
  <2> QED
    BY <2>1
<1>5. q \in Int
  <2> DEFINE x == amount - Fine * w
  <2> HIDE DEF x
  <2>1. x \in Int
    BY <1>4 DEF x
  <2>2. Quantized(x) \in Int
    BY <2>1, MoneyKept
  <2> QED
    BY <2>2 DEF x
<1>6. Fine * f[y] + amount - Fine * s = amount - Fine * w
  <2> DEFINE c == f[y]
  <2> HIDE DEF s, c
  <2>1. Fine * (s - c) = Fine * s - Fine * c /\ Fine * s \in Int /\ Fine * c \in Int
    BY <1>3, <1>4 DEF c
  <2>2. Fine * c + amount - Fine * s = amount - Fine * (s - c)
    BY <2>1
  <2> QED
    BY <2>2 DEF c
<1>7. SumFunction(cents) = s
  BY DEF SumFunction
<1>8. g = [f EXCEPT ![y] = q]
  BY <1>6, <1>7 DEF ToFirst
<1> HIDE DEF g, q, s, w
<1>9. g \in [S -> Int] /\ g[y] = q /\ \A x \in S \ {y} : f[x] = g[x]
  BY <1>1, <1>5, <1>8
<1> HIDE DEF S, f, y
<1>10. SumFunctionOnSet(g, S) = SumFunctionOnSet(f, S) + g[y] - f[y]
  <2> DEFINE R == S \ {y}
             sf == SumFunctionOnSet(f, R)
             sg == SumFunctionOnSet(g, R)
  <2>1. /\ IsFiniteSet(S) /\ y \in S
        /\ \A x \in S : f[x] \in Int
        /\ \A x \in S : g[x] \in Int
    BY <1>1, <1>2, <1>9
  <2>2. /\ SumFunctionOnSet(f, S) = f[y] + sf
        /\ SumFunctionOnSet(g, S) = g[y] + sg
    BY ONLY <2>1, SumRemove
  <2>3. IsFiniteSet(R) /\ \A x \in R : f[x] \in Int /\ f[x] = g[x]
    BY <1>9, <2>1, FS_Subset
  <2> HIDE DEF R
  <2>4. sf = sg /\ sf \in Int
    BY <2>3, SumSame, SumInt
  <2>5. f[y] \in Int /\ g[y] \in Int
    BY <2>1
  <2> HIDE DEF sf, sg
  <2> QED
    BY <2>2, <2>4, <2>5
<1>11. SumFunctionOnSet(g, S) = q + w
  BY <1>3, <1>5, <1>9, <1>10 DEF s, w
<1>12. w \in Int
  BY <1>3 DEF w
<1>13. /\ q + w - Stored(amount) \in -1 .. 1
       /\ Whole(amount) => q + w - Stored(amount) = 0
       /\ Stored(amount) \in Int
  <2>a. amount \in Int /\ w \in Int /\ Fine \in Nat /\ Fine > 0
    BY <1>4, <1>12
  <2>1. LET off == NearestEven(amount - Fine * w, Fine) + w - NearestUp(amount, Fine)
        IN off \in -1 .. 1 /\ (amount % Fine = 0 => off = 0)
    BY ONLY <2>a, NearestEvenRest
  <2>2. Stored(amount) = NearestUp(amount, Fine) /\ Stored(amount) \in Int
    BY <2>a, MoneyKept
  <2>3. q = NearestEven(amount - Fine * w, Fine)
    <3> DEFINE x == amount - Fine * w
    <3>1. x \in Int /\ q = Quantized(x)
      BY <1>4 DEF q
    <3> HIDE DEF x
    <3>2. q = NearestEven(x, Fine)
      BY <3>1, MoneyKept
    <3> QED
      BY <3>2 DEF x
  <2> QED
    BY <2>1, <2>2, <2>3 DEF Whole
<1> DEFINE p == Stored(amount)
<1>14. /\ p \in Int /\ q + w - p \in -1 .. 1
       /\ Whole(amount) => q + w - p = 0
  BY <1>13
<1> HIDE DEF p
<1>15. Near(2 * (q + w), 2 * p, RestSlack(amount))
  BY <1>5, <1>12, <1>14 DEF Near, RestSlack
<1> QED
  BY <1>3, <1>9, <1>11, <1>15 DEF S, y, f, g, s, w, q, p

\* Equal shares add up.
LEMMA EqualShares ==
  ASSUME NEW a \in Nat, NEW n \in Nat, n > 0
  PROVE  /\ EqualCents(a, n) \in [1 .. n -> Int]
         /\ Near(2 * SumFunctionOnSet(EqualCents(a, n), 1 .. n), 2 * Stored(a),
                 RestSlack(a))
<1> DEFINE base == a \div (n * Fine)
           f == [i \in 1 .. n |-> base]
<1>1. base \in Int
  <2> DEFINE d == n * Fine
  <2>1. Fine \in Nat /\ Fine > 0
    BY MoneyKept
  <2>2. d \in Nat /\ d > 0
    BY <2>1
  <2> HIDE DEF d
  <2>3. a \div d \in Int
    BY <2>2
  <2> QED
    BY <2>3 DEF d
<1>2. EqualCents(a, n) = ToFirst(f, a)
  BY DEF EqualCents
<1>3. f \in [1 .. n -> Int]
  BY <1>1
<1> HIDE DEF f
<1> QED
  BY <1>2, <1>3, ToFirstAdds

\* What a percentage comes to, without the correction of the first entry.
Computed(a, p) == [i \in DOMAIN p |-> RoundedDown(p[i] * a, Hundred * Fine)]

\* Rounding down misses less than one, towards zero.
LEMMA RoundedDownOK ==
  ASSUME NEW x \in Int, NEW d \in Nat, d > 0
  PROVE  /\ RoundedDown(x, d) \in Int
         /\ x >= 0 => 0 <= x - d * RoundedDown(x, d)
                      /\ x - d * RoundedDown(x, d) <= d - 1
         /\ x <= 0 => -(d - 1) <= x - d * RoundedDown(x, d)
                      /\ x - d * RoundedDown(x, d) <= 0
<1>1. ASSUME NEW y \in Nat
      PROVE  /\ y \div d \in Int
             /\ d * (y \div d) \in Int
             /\ 0 <= y - d * (y \div d)
             /\ y - d * (y \div d) <= d - 1
  <2> DEFINE q == y \div d
             r == y % d
             w == d * q
  <2>1. /\ q \in Int /\ w \in Int /\ r \in 0 .. d - 1 /\ y = w + r
    BY Divided
  <2> HIDE DEF q, r, w
  <2>2. 0 <= y - w /\ y - w <= d - 1
    BY <2>1
  <2> QED
    BY <2>1, <2>2 DEF q, w
<1>2. CASE x >= 0
  <2> DEFINE q == x \div d
  <2>1. x \in Nat /\ RoundedDown(x, d) = q
    BY <1>2 DEF RoundedDown
  <2>2. q \in Int /\ d * q \in Int /\ 0 <= x - d * q /\ x - d * q <= d - 1
    BY <1>1, <2>1
  <2> HIDE DEF q
  <2> QED
    BY <1>2, <2>1, <2>2
<1>3. CASE ~(x >= 0)
  <2> DEFINE q == (-x) \div d
  <2>1. -x \in Nat /\ RoundedDown(x, d) = -q
    BY <1>3 DEF RoundedDown
  <2>2. q \in Int /\ d * q \in Int /\ 0 <= (-x) - d * q /\ (-x) - d * q <= d - 1
    BY <1>1, <2>1
  <2> HIDE DEF q
  <2>3. d * (-q) = -(d * q)
    BY <2>2
  <2> DEFINE w == d * q
  <2>4. /\ w \in Int /\ d * RoundedDown(x, d) = -w /\ RoundedDown(x, d) \in Int
        /\ 0 <= (-x) - w /\ (-x) - w <= d - 1
    BY <2>1, <2>2, <2>3
  <2> HIDE DEF w
  <2> QED
    BY <1>3, <2>4
<1> QED
  BY <1>2, <1>3

\* What an entry misses, in parts of a cent of which there are d.
MissedBy(a, given, d) == a * given + (-d) * RoundedDown(given * a, d)

\* One entry misses less than a cent.
LEMMA OneMisses ==
  ASSUME NEW a \in Nat, NEW given \in Int, NEW d \in Nat, d > 0
  PROVE  /\ MissedBy(a, given, d) \in Int
         /\ given < 0 => -(d - 1) <= MissedBy(a, given, d)
                         /\ MissedBy(a, given, d) <= 0
         /\ ~(given < 0) => 0 <= MissedBy(a, given, d)
                            /\ MissedBy(a, given, d) <= d - 1
<1> DEFINE y == given * a
           q == RoundedDown(y, d)
           w == d * q
<1>1. /\ y \in Int /\ a * given = y
      /\ (given < 0 => y <= 0) /\ (~(given < 0) => y >= 0)
  OBVIOUS
<1> HIDE DEF y
<1>2. /\ q \in Int
      /\ y >= 0 => 0 <= y - d * q /\ y - d * q <= d - 1
      /\ y <= 0 => -(d - 1) <= y - d * q /\ y - d * q <= 0
  BY <1>1, RoundedDownOK
<1> HIDE DEF q
<1>3. w \in Int /\ (-d) * q = -w
  BY <1>2
<1>4. /\ y >= 0 => 0 <= y - w /\ y - w <= d - 1
      /\ y <= 0 => -(d - 1) <= y - w /\ y - w <= 0
  BY <1>2
<1> HIDE DEF w
<1>5. MissedBy(a, given, d) = y - w
  BY <1>1, <1>3 DEF MissedBy, q, y
<1> QED
  BY <1>1, <1>3, <1>4, <1>5

\* Percentages in hundredths, of amounts in parts of a cent.
Parts == Hundred * Fine

LEMMA PartsOK == Parts \in Nat /\ Parts > 0
  BY MoneyKept DEF Parts, Hundred

\* What all entries miss.
Missed(a, n, p) ==
    a * SumFunctionOnSet(p, 1 .. n)
      - Parts * SumFunctionOnSet(Computed(a, p), 1 .. n)

Negatives(n, p) == {k \in 1 .. n : p[k] < 0}

\* Every entry misses less than a cent: above for percentages from zero on,
\* below for negative ones.
LEMMA PercentMisses ==
  ASSUME NEW a \in Nat, NEW n \in Nat, n > 0,
         NEW p, DOMAIN p = 1 .. n, \A k \in 1 .. n : p[k] \in Int
  PROVE  LET negative == Negatives(n, p)
             missed == Missed(a, n, p)
         IN /\ Cardinality(negative) \in Nat /\ Cardinality(negative) <= n
            /\ SumFunctionOnSet(p, 1 .. n) \in Int
            /\ SumFunctionOnSet(Computed(a, p), 1 .. n) \in Int
            /\ -((Parts - 1) * Cardinality(negative)) <= missed
            /\ missed <= (Parts - 1) * (n - Cardinality(negative))
<1> DEFINE S == 1 .. n
           N == Negatives(n, p)
           F == p
           G == Computed(a, p)
           D == Parts
           most == D - 1
           factor == -D
           x == [i \in S |-> a * F[i]]
           h == [i \in S |-> factor * G[i]]
           d == [i \in S |-> x[i] + h[i]]
<1>1. IsFiniteSet(S) /\ Cardinality(S) = n
  <2>1. 1 \in Int /\ n \in Int /\ ~(1 > n) /\ n - 1 + 1 = n
    OBVIOUS
  <2> QED
    BY <2>1, FS_Interval
<1>2. /\ N \subseteq S /\ \A i \in S : i \in N <=> F[i] < 0
      /\ \A i \in S : F[i] \in Int
      /\ \A i \in S : G[i] = RoundedDown(F[i] * a, D)
  BY DEF Computed, Negatives, Parts
<1>3. D \in Nat /\ D > 0 /\ most \in Nat /\ factor \in Int /\ a \in Int
  BY PartsOK
<1> HIDE DEF S, N, F, G, D
<1>4. ASSUME NEW i \in S
      PROVE  /\ G[i] \in Int /\ x[i] \in Int /\ h[i] \in Int /\ d[i] \in Int
             /\ x[i] = a * F[i] /\ h[i] = factor * G[i] /\ d[i] = x[i] + h[i]
             /\ i \in N => -most <= d[i] /\ d[i] <= 0
             /\ i \notin N => 0 <= d[i] /\ d[i] <= most
  <2>1. PICK v \in Int : v = F[i]
    BY <1>2
  <2> DEFINE q == RoundedDown(v * a, D)
             m == MissedBy(a, v, D)
  <2>2. /\ (i \in N <=> v < 0) /\ G[i] = q /\ x[i] = a * v
        /\ h[i] = factor * G[i] /\ d[i] = x[i] + h[i]
    BY <1>2, <2>1
  <2>3. /\ m \in Int
        /\ v < 0 => -(D - 1) <= m /\ m <= 0
        /\ ~(v < 0) => 0 <= m /\ m <= D - 1
    BY ONLY OneMisses, a \in Nat, v \in Int, <1>3
  <2> HIDE DEF x, h, d
  <2>4. d[i] = m
    BY <2>2 DEF factor, MissedBy
  <2>5. q \in Int /\ a * v \in Int /\ factor * q \in Int
    <3> DEFINE y == v * a
    <3>1. y \in Int /\ a * v \in Int
      OBVIOUS
    <3> HIDE DEF y
    <3>2. RoundedDown(y, D) \in Int
      BY <1>3, <3>1, RoundedDownOK
    <3> HIDE DEF factor
    <3> QED
      BY <1>3, <3>1, <3>2 DEF y
  <2> QED
    BY <2>1, <2>2, <2>3, <2>4, <2>5 DEF most
<1> HIDE DEF x, h, d, most, factor
<1>5. /\ \A i \in S : F[i] \in Int /\ x[i] = a * F[i]
      /\ \A i \in S : G[i] \in Int /\ h[i] = factor * G[i]
      /\ \A i \in S : x[i] \in Int /\ h[i] \in Int /\ d[i] = x[i] + h[i]
      /\ \A i \in S : F[i] \in Int
      /\ \A i \in S : G[i] \in Int
      /\ \A i \in S : d[i] \in Int
      /\ \A i \in N : -most <= d[i] /\ d[i] <= 0
      /\ \A i \in S \ N : 0 <= d[i] /\ d[i] <= most
  BY <1>2, <1>4
<1> DEFINE sF == SumFunctionOnSet(F, S)
           sG == SumFunctionOnSet(G, S)
<1>6. SumFunctionOnSet(x, S) = a * sF /\ SumFunctionOnSet(h, S) = factor * sG
  BY <1>1, <1>3, <1>5, SumScale
<1>7. SumFunctionOnSet(d, S) = SumFunctionOnSet(x, S) + SumFunctionOnSet(h, S)
  BY <1>1, <1>5, SumPlus
<1>8. sF \in Int /\ sG \in Int
  BY <1>1, <1>5, SumInt
<1>9. /\ Cardinality(N) \in Nat /\ Cardinality(S \ N) \in Nat
      /\ Cardinality(S) = Cardinality(N) + Cardinality(S \ N)
      /\ -(most * Cardinality(N)) <= SumFunctionOnSet(d, S)
      /\ SumFunctionOnSet(d, S) <= most * Cardinality(S \ N)
  BY <1>1, <1>2, <1>3, <1>5, SumBetween
<1> HIDE DEF sF, sG
<1> DEFINE asF == a * sF
<1>10. asF \in Int
  BY <1>8
<1>11. SumFunctionOnSet(d, S) = asF + factor * sG
  BY <1>6, <1>7
<1> HIDE DEF asF
<1>12. SumFunctionOnSet(d, S) = asF - D * sG
  <2>1. factor * sG = -(D * sG) /\ D * sG \in Int
    BY <1>3, <1>8 DEF factor
  <2> QED
    BY <1>10, <1>11, <2>1
<1>13. Cardinality(S \ N) = n - Cardinality(N) /\ Cardinality(N) <= n
  BY <1>1, <1>9
<1>14. /\ -(most * Cardinality(N)) <= asF - D * sG
       /\ asF - D * sG <= most * (n - Cardinality(N))
  BY <1>9, <1>12, <1>13
<1> QED
  BY <1>8, <1>9, <1>13, <1>14 DEF S, N, F, G, sF, sG, asF, Missed, D, most

Odd(amount) == IF Whole(amount) THEN 0 ELSE 1

\* What a hundredth of a percent is worth, in cents.
Worth(amount) == (PercentTolerance * amount) \div (Hundred * Fine)

\* The first share, which takes the rest: what the tolerance is worth, a cent
\* for every entry, and one where the amount is rounded.
LEMMA PercentFair ==
  ASSUME NEW a \in Nat, NEW n \in Nat, n > 0, NEW p \in [1 .. n -> Int],
         Near(SumFunctionOnSet(p, 1 .. n), Hundred, PercentTolerance)
  PROVE  LET m == Cardinality(Negatives(n, p))
         IN /\ PercentCents(a, p) \in [1 .. n -> Int]
            /\ Near(2 * SumFunctionOnSet(PercentCents(a, p), 1 .. n), 2 * Stored(a),
                    RestSlack(a))
            /\ PercentCents(a, p)[1] - RoundedDown(p[1] * a, Hundred * Fine)
                 \in -Worth(a) - m - Odd(a) .. Worth(a) + n - m + Odd(a)
<1> DEFINE N == Negatives(n, p)
           m == Cardinality(N)
           D == Parts
           k == Worth(a)
           odd == Odd(a)
           sp == SumFunctionOnSet(p, 1 .. n)
           c == Computed(a, p)
           sc == SumFunctionOnSet(c, 1 .. n)
           asp == a * sp
           w == sc - c[1]
           q == Quantized(a - Fine * w)
           v == q - c[1]
           g == PercentCents(a, p)
<1>1. D \in Nat /\ D > 0 /\ D = 10000 * Fine /\ Fine \in Nat /\ Fine > 0
  BY PartsOK, MoneyKept DEF Parts, Hundred
<1>2. c \in [1 .. n -> Int] /\ c[1] = RoundedDown(p[1] * a, Hundred * Fine)
  <2>1. \A i \in 1 .. n : p[i] * a \in Int
    OBVIOUS
  <2>2. \A x \in Int : RoundedDown(x, D) \in Int
    BY <1>1, RoundedDownOK
  <2>3. \A i \in 1 .. n : c[i] = RoundedDown(p[i] * a, D)
    BY DEF Computed, Parts
  <2>4. DOMAIN c = 1 .. n /\ c = [i \in 1 .. n |-> c[i]]
    BY DEF Computed
  <2> HIDE DEF c, D
  <2>5. \A i \in 1 .. n : c[i] \in Int
    BY <2>1, <2>2, <2>3
  <2>6. c[1] = RoundedDown(p[1] * a, D)
    BY <2>3
  <2> QED
    BY <2>4, <2>5, <2>6 DEF D, Parts
<1>3. g = ToFirst(c, a)
  BY DEF PercentCents, Computed
<1>4. /\ m \in Nat /\ m <= n /\ sp \in Int /\ sc \in Int
      /\ -((D - 1) * m) <= asp - D * sc
      /\ asp - D * sc <= (D - 1) * (n - m)
  <2>1. /\ m \in Nat /\ m <= n /\ sp \in Int /\ sc \in Int
        /\ -((D - 1) * m) <= Missed(a, n, p)
        /\ Missed(a, n, p) <= (D - 1) * (n - m)
    <3>1. DOMAIN p = 1 .. n /\ \A i \in 1 .. n : p[i] \in Int
      OBVIOUS
    <3> HIDE DEF m, N, sp, sc, c, D
    <3> QED
      BY <3>1, PercentMisses DEF m, N, sp, sc, c, D
  <2>2. Missed(a, n, p) = asp - D * sc
    BY DEF Missed
  <2> HIDE DEF m, sp, sc, asp, D
  <2> QED
    BY <2>1, <2>2
<1>5. sp \in {9999, 10000, 10001}
  <2> HIDE DEF sp
  <2>1. Near(sp, Hundred, PercentTolerance) /\ sp \in Int
    BY <1>4 DEF sp
  <2> QED
    BY <2>1 DEF Near, Hundred, PercentTolerance
<1> HIDE DEF N, m, sp, sc, c, D, g
<1>6. /\ g \in [1 .. n -> Int] /\ g[1] = q
      /\ Near(2 * SumFunctionOnSet(g, 1 .. n), 2 * Stored(a), RestSlack(a))
  BY <1>2, <1>3, ToFirstAdds DEF sc
<1>7. c[1] \in Int
  BY <1>2
<1>8. asp \in Int /\ a * 10000 - a <= asp /\ asp <= a * 10000 + a
  BY <1>5
<1> HIDE DEF asp
<1>9. k \in Nat /\ D * k <= a /\ a <= D * k + (D - 1) /\ D * k \in Int
  <2> DEFINE r == a % D
  <2>1. k = a \div D
    BY DEF Worth, PercentTolerance, D, Parts
  <2>2. a \div D \in Int /\ D * (a \div D) \in Int /\ r \in 0 .. D - 1
        /\ a = D * (a \div D) + r
    BY <1>1, Divided
  <2> HIDE DEF k, r
  <2>3. k \in Int /\ D * k \in Int /\ r \in 0 .. D - 1 /\ a = D * k + r
    BY <2>1, <2>2
  <2> DEFINE dk == D * k
  <2>4. dk \in Int /\ r \in 0 .. D - 1 /\ a = dk + r
    BY <2>3
  <2> HIDE DEF dk
  <2>5. dk <= a /\ a <= dk + (D - 1)
    BY <1>1, <2>4
  <2>6. D * 0 = 0 /\ D * 0 < D * k + D
    <3>1. D * 0 = 0
      BY <1>1
    <3>2. 0 < dk + D
      BY <1>1, <2>4, <2>5
    <3> QED
      BY <3>1, <3>2 DEF dk
  <2>7. 0 <= k
    BY <1>1, <2>3, <2>6, Cancelled
  <2> QED
    BY <2>3, <2>5, <2>7 DEF dk
<1> HIDE DEF k
<1>10. w \in Int /\ a - Fine * w \in Int
  <2>1. w \in Int
    BY <1>4, <1>7
  <2> HIDE DEF w
  <2> QED
    BY <1>1, <2>1
<1>11. /\ q \in Int /\ Fine * q \in Int
       /\ 2 * (Fine * q) <= 2 * (a - Fine * w) + Fine
       /\ 2 * (a - Fine * w) <= 2 * (Fine * q) + Fine
       /\ Whole(a) => Fine * q = a - Fine * w
  <2> DEFINE x == a - Fine * w
  <2>1. x \in Int /\ q = Quantized(x)
    BY <1>10
  <2>2. Whole(a) => x % Fine = 0
    <3> SUFFICES ASSUME Whole(a) PROVE x % Fine = 0
      OBVIOUS
    <3> DEFINE e == a \div Fine
    <3>1. a = Fine * e /\ e \in Int
      <4>1. a = Fine * e + (a % Fine) /\ Fine * e \in Int /\ e \in Int
        BY <1>1, Divided
      <4>2. a % Fine = 0
        BY DEF Whole
      <4> HIDE DEF e
      <4> QED
        BY <4>1, <4>2
    <3> HIDE DEF e, w
    <3>2. x = Fine * (e - w) /\ e - w \in Int
      BY <1>1, <1>10, <3>1
    <3> DEFINE z == e - w
    <3>3. x = Fine * z /\ z \in Int
      BY <3>2
    <3> HIDE DEF z, x
    <3> DEFINE b == x \div Fine
               s == x % Fine
    <3>4. b \in Int /\ s \in 0 .. Fine - 1 /\ x = Fine * b + s /\ Fine * b \in Int
      BY <1>1, <2>1, Divided
    <3> HIDE DEF b, s
    <3>5. Fine * z < Fine * b + Fine /\ Fine * b < Fine * z + Fine
      <4> DEFINE fz == Fine * z
                 fb == Fine * b
      <4>1. x = fz /\ x = fb + s /\ fb \in Int /\ fz \in Int /\ s \in 0 .. Fine - 1
        BY <2>1, <3>3, <3>4
      <4> HIDE DEF fz, fb
      <4>2. fz < fb + Fine /\ fb < fz + Fine
        BY <1>1, <4>1
      <4> QED
        BY <4>2 DEF fz, fb
    <3>6. z <= b /\ b <= z
      BY <1>1, <3>3, <3>4, <3>5, Cancelled
    <3>7. z = b
      BY <3>3, <3>4, <3>6
    <3>8. s = 0
      BY <3>3, <3>4, <3>7
    <3> QED
      BY <3>8 DEF s
  <2> HIDE DEF x, q
  <2>b. x \in Int /\ Fine \in Nat /\ Fine > 0
    BY <1>1, <2>1
  <2>3. /\ NearestEven(x, Fine) \in Int /\ Fine * NearestEven(x, Fine) \in Int
        /\ 2 * (Fine * NearestEven(x, Fine)) <= 2 * x + Fine
        /\ 2 * x <= 2 * (Fine * NearestEven(x, Fine)) + Fine
        /\ x % Fine = 0 => Fine * NearestEven(x, Fine) = x
    BY ONLY <2>b, NearestEvenBounds
  <2>4. q = NearestEven(x, Fine)
    BY <2>1, MoneyKept
  <2> QED
    BY <2>2, <2>3, <2>4 DEF x
<1> HIDE DEF q
<1>12. v \in Int /\ q = v + c[1] /\ odd \in {0, 1} /\ (~Whole(a) <=> odd = 1)
  BY <1>7, <1>11 DEF Odd
<1> DEFINE fv == Fine * v
           fc == Fine * sc
<1>13. /\ fv \in Int /\ fc \in Int
       /\ Fine * q + Fine * w = fv + fc
  <2>1. q + w = v + sc /\ q \in Int /\ w \in Int
    BY <1>4, <1>7, <1>10, <1>11
  <2> HIDE DEF v, w
  <2>2. Fine * (q + w) = Fine * q + Fine * w /\ Fine * (v + sc) = fv + fc
        /\ fv \in Int /\ fc \in Int
    BY <1>1, <1>4, <1>12, <2>1
  <2> QED
    BY <2>1, <2>2
<1>14. /\ 2 * fv + 2 * fc <= 2 * a + Fine * odd
       /\ 2 * a <= 2 * fv + 2 * fc + Fine * odd
       /\ Fine * odd \in Int
  <2> DEFINE fq == Fine * q
             fw == Fine * w
  <2>1. /\ fq \in Int /\ fw \in Int /\ fq + fw = fv + fc
        /\ 2 * fq <= 2 * (a - fw) + Fine
        /\ 2 * (a - fw) <= 2 * fq + Fine
        /\ Whole(a) => fq = a - fw
    <3>1. fw \in Int
      <4> HIDE DEF w
      <4> QED
        BY <1>1, <1>10
    <3> QED
      BY <1>11, <1>13, <3>1
  <2> HIDE DEF fq, fw, fv, fc
  <2>2. CASE odd = 1
    <3>1. Fine * odd = Fine
      BY <1>1, <2>2
    <3> QED
      BY <1>1, <1>13, <2>1, <3>1
  <2>3. CASE odd = 0
    <3>1. Fine * odd = 0 /\ Whole(a)
      BY <1>1, <1>12, <2>3
    <3> QED
      BY <1>1, <1>13, <2>1, <3>1
  <2> QED
    BY <1>12, <2>2, <2>3
<1> DEFINE dv == D * v
           dc == D * sc
           dk == D * k
           dm == D * m
           dn == D * n
           do == D * odd
           hi == k + n - m + odd
           lo == k + m + odd
<1>15. /\ dv = 10000 * fv /\ dc = 10000 * fc /\ do = 10000 * (Fine * odd)
       /\ dv \in Int /\ dc \in Int /\ do \in Int /\ dm \in Int /\ dn \in Int
       /\ dk \in Int
  <2> HIDE DEF v
  <2> QED
    BY <1>1, <1>4, <1>9, <1>12
<1>16. /\ (D - 1) * m = dm - m /\ (D - 1) * (n - m) = dn - dm - (n - m)
       /\ D * hi = dk + dn - dm + do /\ D * lo = dk + dm + do
       /\ D * (-v) = -dv /\ hi \in Int /\ lo \in Int
  <2> HIDE DEF v
  <2> QED
    BY <1>1, <1>4, <1>9, <1>12
<1>17. /\ -(dm - m) <= asp - dc /\ asp - dc <= dn - dm - (n - m)
  BY <1>4, <1>16
<1> DEFINE fo == Fine * odd
<1>18. /\ 2 * dv + 2 * dc <= 20000 * a + do /\ 20000 * a <= 2 * dv + 2 * dc + do
       /\ dk <= a /\ a <= dk + (D - 1) /\ 0 <= do
  <2>1. /\ 2 * fv + 2 * fc <= 2 * a + fo /\ 2 * a <= 2 * fv + 2 * fc + fo
        /\ dv = 10000 * fv /\ dc = 10000 * fc /\ do = 10000 * fo
        /\ fo \in Int /\ 0 <= fo /\ dk <= a /\ a <= dk + (D - 1)
    <3>1. fo \in Int /\ 0 <= fo
      <4>1. odd = 0 \/ odd = 1
        BY <1>12
      <4> HIDE DEF odd
      <4> QED
        BY <1>1, <4>1
    <3> QED
      BY <1>9, <1>14, <1>15, <3>1
  <2> HIDE DEF fv, fc, fo, dv, dc, do, dk
  <2> QED
    BY <1>13, <1>15, <2>1
<1> HIDE DEF dv, dc, dk, dm, dn, do, fv, fc, fo
<1>19. dv < dk + dn - dm + do + D /\ -dv < dk + dm + do + D
  <2>1. /\ a \in Int /\ asp \in Int /\ D \in Int /\ m \in Int /\ n \in Int
        /\ dv \in Int /\ dc \in Int /\ do \in Int /\ dm \in Int /\ dn \in Int
        /\ dk \in Int
    BY <1>1, <1>4, <1>8, <1>15
  <2>2. /\ 0 <= m /\ m <= n /\ 0 <= do
        /\ m - dm <= asp - dc /\ asp - dc <= dn - dm - (n - m)
        /\ a * 10000 - a <= asp /\ asp <= a * 10000 + a
        /\ 2 * dv + 2 * dc <= 20000 * a + do
        /\ 20000 * a <= 2 * dv + 2 * dc + do
        /\ dk <= a /\ a <= dk + (D - 1)
    BY <1>4, <1>8, <1>17, <1>18, <2>1
  <2>3. /\ 2 * dv <= 20000 * a + do - 2 * dc
        /\ 20000 * a - do - 2 * dc <= 2 * dv
    BY <2>1, <2>2
  <2>4. /\ 20000 * a <= 2 * asp + 2 * a
        /\ 2 * asp <= 20000 * a + 2 * a
    BY <2>1, <2>2
  <2>5. /\ 2 * dv <= 2 * a + do + 2 * (asp - dc)
        /\ 2 * (asp - dc) <= 2 * dv + 2 * a + do
    BY <2>1, <2>3, <2>4
  <2>6. /\ 2 * dv <= 2 * a + do + 2 * (dn - dm - (n - m))
        /\ 2 * (m - dm) <= 2 * dv + 2 * a + do
    BY <2>1, <2>2, <2>5
  <2>7. /\ 2 * dv <= 2 * a + 2 * do + 2 * (dn - dm)
        /\ -(2 * dm) <= 2 * dv + 2 * a + 2 * do
    BY <2>1, <2>2, <2>6
  <2>8. dv <= a + do + dn - dm /\ -dv <= a + do + dm
    BY <2>1, <2>7
  <2> QED
    BY <2>1, <2>2, <2>8
<1>20. D * v < D * hi + D /\ D * (-v) < D * lo + D /\ -v \in Int
  <2> HIDE DEF v, hi, lo
  <2> QED
    BY <1>12, <1>16, <1>19 DEF dv
<1>21. v <= hi /\ -v <= lo
  <2> HIDE DEF v, hi, lo
  <2> QED
    BY <1>1, <1>12, <1>16, <1>20, Cancelled
<1>22. v \in -k - m - odd .. k + n - m + odd
  <2> HIDE DEF v, odd
  <2> QED
    BY <1>4, <1>9, <1>12, <1>21
<1> QED
  BY <1>2, <1>6, <1>22 DEF N, m, k, g

-----------------------------------------------------------------------------
(* Expenses *)

Row == [user : Users, share : Int, owed : Int, settled : BOOLEAN]

\* An expense whose shares _calculate_splits made from its charge; what is
\* owed of them changes with the settlements.
Booked ==
    {e \in [paidBy : Users, amount : Int, charge : Charges, rows : Seq(Row)] :
       /\ e.amount = Stored(e.charge.amount)
       /\ \E ids \in MemberLists :
            /\ Accepted(e.charge.type, e.charge.amount, ids, e.charge.inputs)
            /\ LET made == Splits(e.charge.type, e.charge.amount, e.paidBy, ids,
                                  e.charge.inputs)
               IN /\ DOMAIN e.rows = DOMAIN made
                  /\ \A k \in DOMAIN made : e.rows[k].share = made[k].share}

NegativeGiven(inputs) == Cardinality({k \in DOMAIN inputs : inputs[k].given < 0})

\* The amounts of an accepted charge: one for every participant, as many
\* cents as the charge, and a first one that is off by its correction only.
SharesOf(c, who, cents, n) ==
    /\ n \in Nat /\ n > 0
    /\ who \in [1 .. n -> Users]
    /\ cents \in [1 .. n -> Int]
    /\ Near(2 * SumFunctionOnSet(cents, 1 .. n), 2 * Stored(c.amount), Slack(c))
    /\ c.type = "percentage" =>
         /\ n = Len(c.inputs)
         /\ cents[1] - RoundedDown(c.inputs[1].given * c.amount, Hundred * Fine)
              \in -Worth(c.amount) - NegativeGiven(c.inputs) - Odd(c.amount)
                  .. Worth(c.amount) + n - NegativeGiven(c.inputs) + Odd(c.amount)

LEMMA ChargeTypes ==
  ASSUME NEW c \in Charges
  PROVE  /\ c.amount \in Nat /\ c.type \in SplitTypes
         /\ c.inputs \in Seq([user : Users, given : Int])
         /\ Len(c.inputs) \in Nat /\ DOMAIN c.inputs = 1 .. Len(c.inputs)
         /\ c.inputs # <<>> => Len(c.inputs) > 0
         /\ \A i \in 1 .. Len(c.inputs) :
              c.inputs[i].user \in Users /\ c.inputs[i].given \in Int
<1>1. /\ c.amount \in Nat /\ c.type \in SplitTypes
      /\ c.inputs \in Seq([user : Users, given : Int])
  BY GroupAssumption
<1> DEFINE S == [user : Users, given : Int]
<1>2. \A s \in S : s.user \in Users /\ s.given \in Int
  OBVIOUS
<1>3. c.inputs \in Seq(S)
  BY <1>1
<1> HIDE DEF S
<1>4. /\ Len(c.inputs) \in Nat /\ DOMAIN c.inputs = 1 .. Len(c.inputs)
      /\ \A i \in 1 .. Len(c.inputs) : c.inputs[i] \in S
  BY <1>3
<1>5. c.inputs # <<>> => Len(c.inputs) > 0
  BY <1>3, <1>4, EmptySeq
<1> QED
  BY <1>1, <1>2, <1>4, <1>5

LEMMA ListOK ==
  ASSUME NEW ids \in MemberLists, ids # <<>>
  PROVE  /\ Len(ids) \in Nat /\ Len(ids) > 0
         /\ ids \in [1 .. Len(ids) -> Users]
<1> DEFINE N == Cardinality(Users)
<1>1. N \in Nat
  BY DebtAssumption, FS_CardinalityType
<1>2. ids \in [1 .. N -> Users]
  BY DEF MemberLists
<1> HIDE DEF N
<1>3. ids \in Seq(Users) /\ DOMAIN ids = 1 .. N
  BY <1>1, <1>2, SeqDef
<1>4. Len(ids) = N
  BY <1>1, <1>3
<1>5. N # 0
  BY <1>3, <1>4, EmptySeq
<1> QED
  BY <1>1, <1>2, <1>4, <1>5

\* An exact list, once quantized, misses the amount by its tolerance, and half
\* a cent for the amount and for every entry.
LEMMA ExactShares ==
  ASSUME NEW a \in Nat, NEW n \in Nat, n > 0, NEW g \in [1 .. n -> Int],
         Near(SumFunctionOnSet(g, 1 .. n), a, Fine * ExactTolerance)
  PROVE  /\ ExactCents(g) \in [1 .. n -> Int]
         /\ Near(2 * SumFunctionOnSet(ExactCents(g), 1 .. n), 2 * Stored(a),
                 2 * ExactTolerance + n + 1)
<1> DEFINE S == 1 .. n
           c == ExactCents(g)
           listed == SumFunctionOnSet(g, S)
           sum == SumFunctionOnSet(c, S)
<1>1. IsFiniteSet(S) /\ Cardinality(S) = n
  <2>1. 1 \in Int /\ n \in Int /\ ~(1 > n) /\ n - 1 + 1 = n
    OBVIOUS
  <2> QED
    BY <2>1, FS_Interval
<1>2. Fine \in Nat /\ Fine > 0 /\ ExactTolerance = 2
  BY MoneyKept DEF ExactTolerance
<1>3. /\ c = [i \in S |-> Quantized(g[i])]
      /\ \A i \in S : g[i] \in Int /\ c[i] = NearestEven(g[i], Fine)
  BY MoneyKept DEF ExactCents
<1> HIDE DEF c
<1>4. ASSUME NEW i \in S
      PROVE  /\ g[i] \in Int /\ c[i] \in Int
             /\ 2 * (Fine * c[i]) <= 2 * g[i] + Fine
             /\ 2 * g[i] <= 2 * (Fine * c[i]) + Fine
  <2> DEFINE x == g[i]
  <2>1. x \in Int /\ Fine \in Nat /\ Fine > 0
    BY <1>2, <1>3
  <2>2. c[i] = NearestEven(x, Fine)
    BY <1>3
  <2> HIDE DEF x
  <2>3. /\ NearestEven(x, Fine) \in Int
        /\ 2 * (Fine * NearestEven(x, Fine)) <= 2 * x + Fine
        /\ 2 * x <= 2 * (Fine * NearestEven(x, Fine)) + Fine
    BY ONLY <2>1, NearestEvenBounds
  <2>4. x \in Int /\ c[i] \in Int
        /\ 2 * (Fine * c[i]) <= 2 * x + Fine
        /\ 2 * x <= 2 * (Fine * c[i]) + Fine
    BY <2>1, <2>2, <2>3
  <2> QED
    BY <2>4 DEF x
<1>5. c \in [S -> Int]
  <2>1. \A i \in S : Quantized(g[i]) \in Int
    BY MoneyKept
  <2> HIDE DEF S
  <2> QED
    BY <1>3, <2>1
<1> HIDE DEF S
<1>6. /\ listed \in Int /\ sum \in Int
      /\ 2 * (Fine * sum) <= 2 * listed + Fine * Cardinality(S)
      /\ 2 * listed <= 2 * (Fine * sum) + Fine * Cardinality(S)
  <2>1. /\ IsFiniteSet(S) /\ Fine \in Nat /\ Fine > 0
        /\ \A x \in S : /\ g[x] \in Int /\ c[x] \in Int
                        /\ 2 * (Fine * c[x]) <= 2 * g[x] + Fine
                        /\ 2 * g[x] <= 2 * (Fine * c[x]) + Fine
    BY <1>1, <1>2, <1>4
  <2> QED
    BY ONLY <2>1, SumNear
<1> HIDE DEF listed, sum
<1>7. listed - a \in -(Fine * ExactTolerance) .. Fine * ExactTolerance
  BY DEF Near, listed, S
<1>8. /\ a \in Int /\ listed \in Int /\ sum \in Int /\ n \in Nat
      /\ ExactTolerance \in Nat /\ Fine \in Nat /\ Fine > 0
      /\ listed - a \in -(Fine * ExactTolerance) .. Fine * ExactTolerance
      /\ 2 * (Fine * sum) <= 2 * listed + Fine * n
      /\ 2 * listed <= 2 * (Fine * sum) + Fine * n
  BY <1>1, <1>2, <1>6, <1>7
<1>9. LET slack == 2 * ExactTolerance + n + 1
      IN 2 * (sum - NearestUp(a, Fine)) \in -slack .. slack
  BY ONLY <1>8, ListedMisses
<1> DEFINE p == Stored(a)
           slack == 2 * ExactTolerance + n + 1
<1>10. p = NearestUp(a, Fine) /\ p \in Int
  BY MoneyKept
<1>11. 2 * (sum - p) \in -slack .. slack
  BY <1>9, <1>10
<1> HIDE DEF p, slack
<1>12. Near(2 * sum, 2 * p, slack)
  <2>1. 2 * (sum - p) = 2 * sum - 2 * p
    BY <1>6, <1>10
  <2> QED
    BY <1>11, <2>1 DEF Near
<1> QED
  BY <1>5, <1>12 DEF c, S, sum, p, slack

LEMMA ChargeShares ==
  ASSUME NEW c \in Charges, NEW ids \in MemberLists,
         Accepted(c.type, c.amount, ids, c.inputs)
  PROVE  LET who == Participants(c.type, ids, c.inputs)
         IN SharesOf(c, who, Cents(c.type, c.amount, ids, c.inputs), Len(who))
<1> DEFINE who == Participants(c.type, ids, c.inputs)
           cents == Cents(c.type, c.amount, ids, c.inputs)
           n == Len(who)
           a == c.amount
           g == Given(c.inputs)
           m == Len(c.inputs)
<1>1. /\ a \in Nat /\ c.type \in {"equal", "exact", "percentage"}
      /\ m \in Nat /\ DOMAIN c.inputs = 1 .. m
      /\ c.inputs # <<>> => m > 0
      /\ \A i \in 1 .. m :
           c.inputs[i].user \in Users /\ c.inputs[i].given \in Int
  BY ChargeTypes DEF SplitTypes
<1>2. /\ g \in [1 .. m -> Int] /\ DOMAIN g = 1 .. m
      /\ \A i \in 1 .. m : g[i] = c.inputs[i].given
      /\ SumFunction(g) = SumFunctionOnSet(g, 1 .. m)
  BY <1>1 DEF Given, SumFunction
<1>3. CASE c.type = "equal"
  <2>1. ids # <<>> /\ who = ids /\ cents = EqualCents(a, Len(ids))
    BY <1>3 DEF Accepted, Participants, Cents
  <2>2. n \in Nat /\ n > 0 /\ who \in [1 .. n -> Users]
    BY <2>1, ListOK
  <2>3. cents = EqualCents(a, n)
    BY <2>1
  <2>4. RestSlack(a) = Slack(c)
    BY <1>3 DEF RestSlack, Slack
  <2> HIDE DEF n, who, cents, a
  <2>5. a \in Nat /\ n \in Nat /\ n > 0
    BY <1>1, <2>2
  <2>6. /\ EqualCents(a, n) \in [1 .. n -> Int]
        /\ Near(2 * SumFunctionOnSet(EqualCents(a, n), 1 .. n), 2 * Stored(a),
                RestSlack(a))
    BY ONLY <2>5, EqualShares
  <2>7. /\ cents \in [1 .. n -> Int]
        /\ Near(2 * SumFunctionOnSet(cents, 1 .. n), 2 * Stored(a), Slack(c))
    BY <2>3, <2>4, <2>6
  <2> QED
    BY <1>3, <2>2, <2>7 DEF SharesOf, n, who, cents, a
<1>4. ASSUME c.type # "equal", c.inputs # <<>>
      PROVE  n = m /\ m > 0 /\ who \in [1 .. n -> Users]
  <2>1. who = [i \in 1 .. m |-> c.inputs[i].user]
    BY <1>1, <1>4 DEF Participants
  <2>2. who \in [1 .. m -> Users]
    BY <1>1, <2>1
  <2>3. who \in Seq(Users) /\ DOMAIN who = 1 .. m
    BY <1>1, <2>2, SeqDef
  <2> HIDE DEF who
  <2>4. n = m
    BY <1>1, <2>3
  <2> QED
    BY <1>1, <1>4, <2>2, <2>4
<1>5. CASE c.type = "exact"
  <2>1. c.inputs # <<>> /\ ExactAccepted(a, c.inputs) /\ cents = ExactCents(g)
    BY <1>5 DEF Accepted, Cents
  <2>2. n = m /\ n \in Nat /\ n > 0 /\ who \in [1 .. n -> Users]
    BY <1>1, <1>4, <1>5, <2>1
  <2>3. Near(SumFunctionOnSet(g, 1 .. n), a, Fine * ExactTolerance)
    BY <1>2, <2>1, <2>2 DEF ExactAccepted
  <2>4. g \in [1 .. n -> Int]
    BY <1>2, <2>2
  <2>5. Slack(c) = 2 * ExactTolerance + n + 1
    BY <1>5, <2>2 DEF Slack
  <2> HIDE DEF n, who, cents, g, a
  <2>6. a \in Nat /\ n \in Nat /\ n > 0 /\ g \in [1 .. n -> Int]
        /\ Near(SumFunctionOnSet(g, 1 .. n), a, Fine * ExactTolerance)
    BY <1>1, <2>2, <2>3, <2>4
  <2>7. /\ ExactCents(g) \in [1 .. n -> Int]
        /\ Near(2 * SumFunctionOnSet(ExactCents(g), 1 .. n), 2 * Stored(a),
                2 * ExactTolerance + n + 1)
    BY ONLY <2>6, ExactShares
  <2>8. /\ cents \in [1 .. n -> Int]
        /\ Near(2 * SumFunctionOnSet(cents, 1 .. n), 2 * Stored(a), Slack(c))
    BY <2>1, <2>5, <2>7
  <2> QED
    BY <1>5, <2>2, <2>8 DEF SharesOf, n, who, cents, a
<1>6. CASE c.type = "percentage"
  <2>1. c.inputs # <<>> /\ PercentAccepted(c.inputs) /\ cents = PercentCents(a, g)
    BY <1>6 DEF Accepted, Cents
  <2>2. n = m /\ n \in Nat /\ n > 0 /\ who \in [1 .. n -> Users]
    BY <1>1, <1>4, <1>6, <2>1
  <2>3. Near(SumFunctionOnSet(g, 1 .. n), Hundred, PercentTolerance)
    BY <1>2, <2>1, <2>2 DEF PercentAccepted
  <2>4. Cardinality(Negatives(n, g)) = NegativeGiven(c.inputs)
    <3>1. Negatives(n, g) = {k \in DOMAIN c.inputs : c.inputs[k].given < 0}
      BY <1>1, <1>2, <2>2 DEF Negatives
    <3> QED
      BY <3>1 DEF NegativeGiven
  <2>5. g[1] = c.inputs[1].given
    BY <1>2, <2>2
  <2>6. g \in [1 .. n -> Int]
    BY <1>2, <2>2
  <2>7. n = Len(c.inputs) /\ RestSlack(a) = Slack(c)
    BY <1>6, <2>2 DEF RestSlack, Slack
  <2> HIDE DEF n, who, cents, g, a, m
  <2>8. a \in Nat /\ n \in Nat /\ n > 0 /\ g \in [1 .. n -> Int]
        /\ Near(SumFunctionOnSet(g, 1 .. n), Hundred, PercentTolerance)
    BY <1>1, <2>2, <2>3, <2>6
  <2>9. /\ PercentCents(a, g) \in [1 .. n -> Int]
        /\ Near(2 * SumFunctionOnSet(PercentCents(a, g), 1 .. n), 2 * Stored(a),
                RestSlack(a))
        /\ PercentCents(a, g)[1] - RoundedDown(g[1] * a, Hundred * Fine)
             \in -Worth(a) - Cardinality(Negatives(n, g)) - Odd(a)
                 .. Worth(a) + n - Cardinality(Negatives(n, g)) + Odd(a)
    BY ONLY <2>8, PercentFair
  <2>10. /\ cents \in [1 .. n -> Int]
         /\ Near(2 * SumFunctionOnSet(cents, 1 .. n), 2 * Stored(a), Slack(c))
         /\ cents[1] - RoundedDown(c.inputs[1].given * a, Hundred * Fine)
              \in -Worth(a) - NegativeGiven(c.inputs) - Odd(a)
                  .. Worth(a) + n - NegativeGiven(c.inputs) + Odd(a)
    BY <2>1, <2>4, <2>5, <2>7, <2>9
  <2> QED
    BY <2>2, <2>7, <2>10 DEF SharesOf, n, who, cents, a
<1> QED
  BY <1>1, <1>3, <1>5, <1>6

-----------------------------------------------------------------------------
(* The rows of an expense *)

LEMMA RowsMade ==
  ASSUME NEW c \in Charges, NEW payer \in Users, NEW ids \in MemberLists,
         Accepted(c.type, c.amount, ids, c.inputs)
  PROVE  LET who == Participants(c.type, ids, c.inputs)
             cents == Cents(c.type, c.amount, ids, c.inputs)
             rows == Splits(c.type, c.amount, payer, ids, c.inputs)
         IN /\ rows \in Seq(Row)
            /\ DOMAIN rows = 1 .. Len(who)
            /\ \A i \in 1 .. Len(who) : rows[i].share = cents[i]
<1> DEFINE who == Participants(c.type, ids, c.inputs)
           cents == Cents(c.type, c.amount, ids, c.inputs)
           rows == Splits(c.type, c.amount, payer, ids, c.inputs)
           n == Len(who)
<1>1. SharesOf(c, who, cents, n)
  BY ChargeShares
<1>2. rows = [i \in DOMAIN who |->
                [user |-> who[i], share |-> cents[i],
                 owed |-> IF who[i] = payer THEN 0 ELSE cents[i],
                 settled |-> FALSE]]
  BY DEF Splits
<1> HIDE DEF who, cents, rows, n
<1>3. n \in Nat /\ DOMAIN who = 1 .. n
      /\ \A i \in 1 .. n : who[i] \in Users /\ cents[i] \in Int
  BY <1>1 DEF SharesOf
<1>4. \A i \in 1 .. n : rows[i] \in Row /\ rows[i].share = cents[i]
  BY <1>2, <1>3 DEF Row
<1>5. DOMAIN rows = 1 .. n /\ rows \in [1 .. n -> Row]
  BY <1>2, <1>3, <1>4
<1>6. rows \in Seq(Row)
  BY <1>3, <1>5, SeqDef
<1> QED
  BY <1>4, <1>5, <1>6 DEF who, cents, rows, n

LEMMA BookedShares ==
  ASSUME NEW e \in Booked
  PROVE  \E who, cents, n :
           /\ SharesOf(e.charge, who, cents, n)
           /\ DOMAIN e.rows = 1 .. n
           /\ \A i \in 1 .. n : e.rows[i].share = cents[i]
<1>1. PICK ids \in MemberLists :
        /\ Accepted(e.charge.type, e.charge.amount, ids, e.charge.inputs)
        /\ LET made == Splits(e.charge.type, e.charge.amount, e.paidBy, ids,
                              e.charge.inputs)
           IN /\ DOMAIN e.rows = DOMAIN made
              /\ \A k \in DOMAIN made : e.rows[k].share = made[k].share
  BY DEF Booked
<1>2. e.charge \in Charges /\ e.paidBy \in Users
  BY DEF Booked
<1> DEFINE who == Participants(e.charge.type, ids, e.charge.inputs)
           cents == Cents(e.charge.type, e.charge.amount, ids, e.charge.inputs)
<1>3. SharesOf(e.charge, who, cents, Len(who))
  BY <1>1, <1>2, ChargeShares
<1>4. /\ DOMAIN e.rows = 1 .. Len(who)
      /\ \A i \in 1 .. Len(who) : e.rows[i].share = cents[i]
  <2> DEFINE made == Splits(e.charge.type, e.charge.amount, e.paidBy, ids,
                            e.charge.inputs)
  <2>1. /\ DOMAIN made = 1 .. Len(who)
        /\ \A i \in 1 .. Len(who) : made[i].share = cents[i]
    BY <1>1, <1>2, RowsMade
  <2>2. /\ DOMAIN e.rows = DOMAIN made
        /\ \A k \in DOMAIN made : e.rows[k].share = made[k].share
    BY <1>1
  <2> HIDE DEF made, who, cents
  <2> QED
    BY <2>1, <2>2
<1> HIDE DEF who, cents
<1> QED
  BY <1>3, <1>4

\* What the properties say of one expense.
LEMMA BookedFair ==
  ASSUME NEW e \in Booked
  PROVE  /\ Near(2 * SumFunction([k \in DOMAIN e.rows |-> e.rows[k].share]),
                 2 * e.amount, Slack(e.charge))
         /\ e.charge.type = "percentage" =>
              e.rows[1].share
                - RoundedDown(e.charge.inputs[1].given * e.charge.amount,
                              Hundred * Fine)
                \in -Worth(e.charge.amount) - NegativeGiven(e.charge.inputs)
                      - Odd(e.charge.amount)
                    .. Worth(e.charge.amount) + Len(e.charge.inputs)
                         - NegativeGiven(e.charge.inputs) + Odd(e.charge.amount)
<1>1. PICK who, cents, n :
        /\ SharesOf(e.charge, who, cents, n)
        /\ DOMAIN e.rows = 1 .. n
        /\ \A i \in 1 .. n : e.rows[i].share = cents[i]
  BY BookedShares
<1> DEFINE S == 1 .. n
           f == [k \in DOMAIN e.rows |-> e.rows[k].share]
<1>2. n \in Nat /\ n > 0 /\ \A i \in S : cents[i] \in Int
  BY <1>1 DEF SharesOf
<1>3. IsFiniteSet(S) /\ 1 \in S
  BY <1>2, FS_Interval
<1>4. /\ DOMAIN f = S
      /\ \A i \in S : cents[i] \in Int /\ cents[i] = f[i]
  BY <1>1, <1>2
<1>5. SumFunction(f) = SumFunctionOnSet(f, S)
  BY <1>4 DEF SumFunction
<1> HIDE DEF f, S
<1>6. SumFunctionOnSet(cents, S) = SumFunctionOnSet(f, S)
  BY <1>3, <1>4, SumSame
<1>a. e.amount = Stored(e.charge.amount)
  BY DEF Booked
<1>7. Near(2 * SumFunction(f), 2 * e.amount, Slack(e.charge))
  BY <1>1, <1>5, <1>6, <1>a DEF SharesOf, S
<1>8. e.rows[1].share = cents[1]
  BY <1>1, <1>3 DEF S
<1> QED
  BY <1>1, <1>7, <1>8 DEF SharesOf, f

-----------------------------------------------------------------------------
(* Balances *)

LEMMA MovedOK ==
  ASSUME NEW u, NEW from, NEW to, NEW amount \in Int
  PROVE  Moved(u, from, to, amount) \in Int
  BY DEF Moved

LEMMA FromExpenseOK ==
  ASSUME NEW e \in Booked, NEW u
  PROVE  /\ IsFiniteSet(DOMAIN e.rows)
         /\ \A k \in DOMAIN e.rows : FromRow(u, e.paidBy, e.rows[k]) \in Int
         /\ FromExpense(u, e) \in Int
<1> DEFINE S == DOMAIN e.rows
           f == [k \in DOMAIN e.rows |-> FromRow(u, e.paidBy, e.rows[k])]
<1>1. e.rows \in Seq(Row)
  BY DEF Booked
<1>2. Len(e.rows) \in Nat /\ S = 1 .. Len(e.rows)
      /\ \A k \in S : e.rows[k] \in Row
  BY <1>1
<1>3. IsFiniteSet(S)
  BY <1>2, FS_Interval
<1>4. ASSUME NEW k \in S PROVE FromRow(u, e.paidBy, e.rows[k]) \in Int
  <2>1. e.rows[k].owed \in Int
    BY <1>2 DEF Row
  <2> QED
    BY <2>1, MovedOK DEF FromRow
<1>5. DOMAIN f = S /\ \A k \in S : f[k] \in Int
  BY <1>4
<1>6. FromExpense(u, e) = SumFunctionOnSet(f, S)
  BY DEF FromExpense, SumFunction
<1> HIDE DEF f
<1>7. SumFunctionOnSet(f, S) \in Int
  BY <1>3, <1>5, SumInt
<1> QED
  BY <1>3, <1>4, <1>6, <1>7

LEMMA FromSettlementOK ==
  ASSUME NEW s \in Transaction, NEW u
  PROVE  FromSettlement(u, s) \in Int
  BY MovedOK DEF FromSettlement, Transaction

\* The two sums of a balance.
Lent(u, exps) == [i \in DOMAIN exps |-> FromExpense(u, exps[i])]
Paid(u, setts) == [i \in DOMAIN setts |-> FromSettlement(u, setts[i])]

LEMMA LentOK ==
  ASSUME NEW exps \in Seq(Booked), NEW u
  PROVE  /\ DOMAIN exps = 1 .. Len(exps) /\ Len(exps) \in Nat
         /\ IsFiniteSet(1 .. Len(exps))
         /\ \A i \in 1 .. Len(exps) :
              /\ exps[i] \in Booked /\ Lent(u, exps)[i] \in Int
              /\ Lent(u, exps)[i] = FromExpense(u, exps[i])
         /\ SumFunction(Lent(u, exps))
              = SumFunctionOnSet(Lent(u, exps), 1 .. Len(exps))
         /\ SumFunction(Lent(u, exps)) \in Int
<1> DEFINE S == 1 .. Len(exps)
           f == Lent(u, exps)
<1>1. /\ DOMAIN exps = S /\ Len(exps) \in Nat /\ IsFiniteSet(S)
      /\ \A i \in S : exps[i] \in Booked
  BY FS_Interval
<1>2. /\ DOMAIN f = S
      /\ \A i \in S : f[i] \in Int /\ f[i] = FromExpense(u, exps[i])
  BY <1>1, FromExpenseOK DEF Lent
<1>3. SumFunction(f) = SumFunctionOnSet(f, S)
  BY <1>2 DEF SumFunction
<1> HIDE DEF S, f
<1>4. SumFunctionOnSet(f, S) \in Int
  BY <1>1, <1>2, SumInt
<1> QED
  BY <1>1, <1>2, <1>3, <1>4 DEF S, f

LEMMA PaidOK ==
  ASSUME NEW setts \in Seq(Transaction), NEW u
  PROVE  /\ DOMAIN setts = 1 .. Len(setts) /\ Len(setts) \in Nat
         /\ IsFiniteSet(1 .. Len(setts))
         /\ \A i \in 1 .. Len(setts) :
              /\ setts[i] \in Transaction /\ Paid(u, setts)[i] \in Int
              /\ Paid(u, setts)[i] = FromSettlement(u, setts[i])
         /\ SumFunction(Paid(u, setts))
              = SumFunctionOnSet(Paid(u, setts), 1 .. Len(setts))
         /\ SumFunction(Paid(u, setts)) \in Int
<1> DEFINE S == 1 .. Len(setts)
           f == Paid(u, setts)
<1>1. /\ DOMAIN setts = S /\ Len(setts) \in Nat /\ IsFiniteSet(S)
      /\ \A i \in S : setts[i] \in Transaction
  BY FS_Interval
<1>2. /\ DOMAIN f = S
      /\ \A i \in S : f[i] \in Int /\ f[i] = FromSettlement(u, setts[i])
  BY <1>1, FromSettlementOK DEF Paid
<1>3. SumFunction(f) = SumFunctionOnSet(f, S)
  BY <1>2 DEF SumFunction
<1> HIDE DEF S, f
<1>4. SumFunctionOnSet(f, S) \in Int
  BY <1>1, <1>2, SumInt
<1> QED
  BY <1>1, <1>2, <1>3, <1>4 DEF S, f

LEMMA BalancesAre ==
  ASSUME NEW exps \in Seq(Booked), NEW setts \in Seq(Transaction)
  PROVE  /\ BalancesOf(exps, setts) \in [Users -> Int]
         /\ \A u \in Users :
              BalancesOf(exps, setts)[u]
                = SumFunction(Lent(u, exps)) + SumFunction(Paid(u, setts))
<1>1. BalancesOf(exps, setts)
        = [u \in Users |-> SumFunction(Lent(u, exps)) + SumFunction(Paid(u, setts))]
  BY DEF BalancesOf, Lent, Paid
<1>2. \A u \in Users : /\ SumFunction(Lent(u, exps)) \in Int
                       /\ SumFunction(Paid(u, setts)) \in Int
  BY LentOK, PaidOK
<1> QED
  BY <1>1, <1>2

-----------------------------------------------------------------------------

\* What moves from one user to another leaves the total as it is.
LEMMA MovedNothing ==
  ASSUME NEW from \in Users, NEW to \in Users, NEW amount \in Int,
         NEW f, \A u \in Users : f[u] = Moved(u, from, to, amount)
  PROVE  SumFunctionOnSet(f, Users) = 0
<1> DEFINE minus == -amount
           p == [u \in Users |-> IF u = to THEN amount ELSE 0]
           q == [u \in Users |-> IF u = from THEN minus ELSE 0]
<1>1. IsFiniteSet(Users)
  BY DebtAssumption
<1>2. /\ \A u \in {to} : p[u] \in Int /\ p[u] = p[u]
      /\ \A u \in Users \ {to} : p[u] = 0
      /\ \A u \in {from} : q[u] \in Int /\ q[u] = q[u]
      /\ \A u \in Users \ {from} : q[u] = 0
      /\ p[to] = amount /\ q[from] = minus
      /\ {to} \subseteq Users /\ {from} \subseteq Users
  OBVIOUS
<1>3. \A u \in Users : p[u] \in Int /\ q[u] \in Int /\ f[u] = p[u] + q[u]
  BY DEF Moved
<1>4. minus \in Int /\ amount + minus = 0
  OBVIOUS
<1> HIDE DEF minus, p, q
<1>5. /\ SumFunctionOnSet(p, Users) = SumFunctionOnSet(p, {to})
      /\ SumFunctionOnSet(q, Users) = SumFunctionOnSet(q, {from})
  BY <1>1, <1>2, SumPart
<1>6. /\ SumFunctionOnSet(p, {to}) = amount
      /\ SumFunctionOnSet(q, {from}) = minus
  BY <1>2, <1>4, SumSingle
<1>7. SumFunctionOnSet(f, Users)
        = SumFunctionOnSet(p, Users) + SumFunctionOnSet(q, Users)
  BY <1>1, <1>3, SumPlus
<1> QED
  BY <1>4, <1>5, <1>6, <1>7

\* An expense changes who is owed and who owes, not the total.
LEMMA ExpenseNothing ==
  ASSUME NEW e \in Booked, NEW c, \A u \in Users : c[u] = FromExpense(u, e)
  PROVE  SumFunctionOnSet(c, Users) = 0
<1> DEFINE T == DOMAIN e.rows
           f == [u \in Users |->
                   [k \in DOMAIN e.rows |-> FromRow(u, e.paidBy, e.rows[k])]]
           col == [k \in T |-> [u \in Users |-> f[u][k]]]
<1>1. IsFiniteSet(Users) /\ e.paidBy \in Users /\ e.rows \in Seq(Row)
  BY DebtAssumption DEF Booked
<1>2. /\ \A u \in Users, k \in T : f[u][k] = FromRow(u, e.paidBy, e.rows[k])
      /\ \A u \in Users : DOMAIN f[u] = T /\ FromExpense(u, e) = SumFunction(f[u])
  BY DEF FromExpense
<1>3. IsFiniteSet(T) /\ \A u \in Users, k \in T : f[u][k] \in Int
  BY <1>2, FromExpenseOK
<1>4. \A u \in Users : c[u] = SumFunctionOnSet(f[u], T)
  BY <1>2 DEF SumFunction
<1>5. ASSUME NEW k \in T PROVE SumFunctionOnSet(col[k], Users) = 0
  <2> DEFINE row == e.rows[k]
             g == col[k]
  <2>1. row.user \in Users /\ row.owed \in Int
    <3>1. row \in Row
      BY <1>1
    <3> QED
      BY <3>1 DEF Row
  <2>2. \A u \in Users : g[u] = FromRow(u, e.paidBy, row)
    BY <1>2
  <2> HIDE DEF row, g
  <2>3. SumFunctionOnSet(g, Users) = 0
    <3>1. CASE row.user = e.paidBy
      <4>1. \A u \in Users : g[u] = 0
        BY <2>2, <3>1 DEF FromRow
      <4> QED
        BY <1>1, <4>1, SumZero
    <3>2. CASE row.user # e.paidBy
      <4>1. \A u \in Users : g[u] = Moved(u, row.user, e.paidBy, row.owed)
        BY <2>2, <3>2 DEF FromRow
      <4> QED
        BY <1>1, <2>1, <4>1, MovedNothing
    <3> QED
      BY <3>1, <3>2
  <2> QED
    BY <2>3 DEF g
<1>a. \A u \in Users, k \in T : f[u][k] \in Int /\ col[k][u] = f[u][k]
  BY <1>3
<1>e. \A u \in Users : c[u] \in Int
  BY FromExpenseOK
<1> HIDE DEF f, col, T
<1> DEFINE r == SumsOf(f, Users, T)
           k == SumsOf(col, T, Users)
<1>b. /\ \A u \in Users : r[u] = SumFunctionOnSet(f[u], T)
      /\ \A x \in T : k[x] = SumFunctionOnSet(col[x], Users)
  BY DEF SumsOf
<1> HIDE DEF r, k
<1>c. /\ \A u \in Users : r[u] \in Int /\ r[u] = c[u]
      /\ \A x \in T : k[x] = 0
  BY <1>4, <1>5, <1>b, <1>e
<1>7. SumFunctionOnSet(r, Users) = SumFunctionOnSet(k, T)
  BY <1>1, <1>3, <1>a, SumSwap DEF r, k
<1>8. SumFunctionOnSet(r, Users) = SumFunctionOnSet(c, Users)
  BY <1>1, <1>c, SumSame
<1>9. SumFunctionOnSet(k, T) = 0
  BY <1>3, <1>c, SumZero
<1> QED
  BY <1>7, <1>8, <1>9

LEMMA SettlementNothing ==
  ASSUME NEW s \in Transaction, NEW c, \A u \in Users : c[u] = FromSettlement(u, s)
  PROVE  SumFunctionOnSet(c, Users) = 0
<1>1. s.from \in Users /\ s.to \in Users /\ s.amount \in Int
  BY DEF Transaction
<1>2. \A u \in Users : c[u] = Moved(u, s.to, s.from, s.amount)
  BY DEF FromSettlement
<1> QED
  BY <1>1, <1>2, MovedNothing

\* The balances of a group add up to zero.
LEMMA BalancesZero ==
  ASSUME NEW exps \in Seq(Booked), NEW setts \in Seq(Transaction)
  PROVE  SumFunctionOnSet(BalancesOf(exps, setts), Users) = 0
<1> DEFINE S == 1 .. Len(exps)
           T == 1 .. Len(setts)
           f == [u \in Users |-> Lent(u, exps)]
           h == [u \in Users |-> Paid(u, setts)]
           p == [u \in Users |-> SumFunction(Lent(u, exps))]
           q == [u \in Users |-> SumFunction(Paid(u, setts))]
           b == BalancesOf(exps, setts)
           fs == [i \in S |-> [u \in Users |-> f[u][i]]]
           ht == [i \in T |-> [u \in Users |-> h[u][i]]]
<1>1. IsFiniteSet(Users)
  BY DebtAssumption
<1>2. /\ IsFiniteSet(S) /\ IsFiniteSet(T)
      /\ \A i \in S : exps[i] \in Booked
      /\ \A i \in T : setts[i] \in Transaction
  <2>1. \A i \in S : exps[i] \in Booked
    OBVIOUS
  <2>2. \A i \in T : setts[i] \in Transaction
    OBVIOUS
  <2> QED
    BY <2>1, <2>2, FS_Interval
<1>3. ASSUME NEW u \in Users
      PROVE  /\ p[u] = SumFunctionOnSet(f[u], S) /\ p[u] \in Int
             /\ q[u] = SumFunctionOnSet(h[u], T) /\ q[u] \in Int
             /\ b[u] = p[u] + q[u]
             /\ \A i \in S : f[u][i] \in Int /\ f[u][i] = FromExpense(u, exps[i])
             /\ \A i \in T : h[u][i] \in Int /\ h[u][i] = FromSettlement(u, setts[i])
  <2>1. f[u] = Lent(u, exps) /\ h[u] = Paid(u, setts)
    OBVIOUS
  <2>2. p[u] = SumFunction(Lent(u, exps)) /\ q[u] = SumFunction(Paid(u, setts))
    OBVIOUS
  <2> HIDE DEF f, h, p, q
  <2>3. b[u] = p[u] + q[u]
    BY <2>2, BalancesAre
  <2> QED
    BY <2>1, <2>2, <2>3, LentOK, PaidOK
<1>4. ASSUME NEW i \in S
      PROVE  SumFunctionOnSet(fs[i], Users) = 0
  <2> DEFINE c == fs[i]
  <2>1. \A u \in Users : c[u] = FromExpense(u, exps[i])
    BY <1>3
  <2> HIDE DEF c
  <2>2. SumFunctionOnSet(c, Users) = 0
    BY <1>2, <2>1, ExpenseNothing
  <2> QED
    BY <2>2 DEF c
<1>5. ASSUME NEW i \in T
      PROVE  SumFunctionOnSet(ht[i], Users) = 0
  <2> DEFINE c == ht[i]
  <2>1. \A u \in Users : c[u] = FromSettlement(u, setts[i])
    BY <1>3
  <2> HIDE DEF c
  <2>2. SumFunctionOnSet(c, Users) = 0
    BY <1>2, <2>1, SettlementNothing
  <2> QED
    BY <2>2 DEF c
<1>d. /\ \A u \in Users, i \in S : fs[i][u] = f[u][i]
      /\ \A u \in Users, i \in T : ht[i][u] = h[u][i]
  OBVIOUS
<1> HIDE DEF S, T, f, h, p, q, b, fs, ht
<1>a. \A u \in Users, i \in S : f[u][i] \in Int /\ fs[i][u] = f[u][i]
  BY <1>3, <1>d
<1>b. \A u \in Users, i \in T : h[u][i] \in Int /\ ht[i][u] = h[u][i]
  BY <1>3, <1>d
<1>c. /\ \A u \in Users : p[u] = SumFunctionOnSet(f[u], S)
      /\ \A u \in Users : q[u] = SumFunctionOnSet(h[u], T)
      /\ \A u \in Users : p[u] \in Int /\ q[u] \in Int /\ b[u] = p[u] + q[u]
  BY <1>3
<1> DEFINE pr == SumsOf(f, Users, S)
           pc == SumsOf(fs, S, Users)
           qr == SumsOf(h, Users, T)
           qc == SumsOf(ht, T, Users)
<1>6. /\ \A u \in Users : p[u] \in Int /\ p[u] = pr[u]
      /\ \A u \in Users : q[u] \in Int /\ q[u] = qr[u]
  BY <1>c DEF SumsOf
<1>7. /\ \A i \in S : pc[i] = 0
      /\ \A i \in T : qc[i] = 0
  BY <1>4, <1>5 DEF SumsOf
<1> HIDE DEF pr, pc, qr, qc
<1>8. SumFunctionOnSet(p, Users) = 0
  <2>1. SumFunctionOnSet(p, Users) = SumFunctionOnSet(pr, Users)
    BY <1>1, <1>6, SumSame
  <2>2. SumFunctionOnSet(pr, Users) = SumFunctionOnSet(pc, S)
    BY <1>1, <1>2, <1>a, SumSwap DEF pr, pc
  <2>3. SumFunctionOnSet(pc, S) = 0
    BY <1>2, <1>7, SumZero
  <2> QED
    BY <2>1, <2>2, <2>3
<1>9. SumFunctionOnSet(q, Users) = 0
  <2>1. SumFunctionOnSet(q, Users) = SumFunctionOnSet(qr, Users)
    BY <1>1, <1>6, SumSame
  <2>2. SumFunctionOnSet(qr, Users) = SumFunctionOnSet(qc, T)
    BY <1>1, <1>2, <1>b, SumSwap DEF qr, qc
  <2>3. SumFunctionOnSet(qc, T) = 0
    BY <1>2, <1>7, SumZero
  <2> QED
    BY <2>1, <2>2, <2>3
<1>10. SumFunctionOnSet(b, Users)
         = SumFunctionOnSet(p, Users) + SumFunctionOnSet(q, Users)
  BY <1>1, <1>c, SumPlus
<1> QED
  BY <1>8, <1>9, <1>10 DEF b

\* One more settlement.
LEMMA PaidAppend ==
  ASSUME NEW setts \in Seq(Transaction), NEW s \in Transaction, NEW u \in Users
  PROVE  SumFunction(Paid(u, Append(setts, s)))
           = SumFunction(Paid(u, setts)) + FromSettlement(u, s)
<1> DEFINE more == Append(setts, s)
           n == Len(setts)
           S == 1 .. n
           y == n + 1
           f == Paid(u, setts)
           g == Paid(u, more)
<1>1. /\ more \in Seq(Transaction) /\ Len(more) = n + 1 /\ n \in Nat
      /\ \A i \in S : more[i] = setts[i]
      /\ more[y] = s
  BY AppendProperties
<1>2. 1 .. Len(more) = S \cup {y} /\ y \notin S /\ y \in 1 .. Len(more)
  BY <1>1
<1>3. /\ IsFiniteSet(S)
      /\ \A i \in S : f[i] \in Int /\ f[i] = FromSettlement(u, setts[i])
      /\ SumFunction(f) = SumFunctionOnSet(f, S)
      /\ SumFunction(f) \in Int
  BY PaidOK
<1>4. /\ \A i \in 1 .. Len(more) : g[i] \in Int /\ g[i] = FromSettlement(u, more[i])
      /\ SumFunction(g) = SumFunctionOnSet(g, 1 .. Len(more))
  BY <1>1, PaidOK
<1>5. /\ \A i \in S : f[i] \in Int /\ f[i] = g[i]
      /\ \A i \in S : g[i] \in Int
      /\ g[y] \in Int /\ g[y] = FromSettlement(u, s)
  BY <1>1, <1>2, <1>3, <1>4
<1> HIDE DEF S, y, f, g, more
<1>6. SumFunctionOnSet(g, S \cup {y}) = g[y] + SumFunctionOnSet(g, S)
  BY <1>2, <1>3, <1>5, SumAdd
<1>7. SumFunctionOnSet(f, S) = SumFunctionOnSet(g, S)
  BY <1>3, <1>5, SumSame
<1>8. SumFunction(g) = SumFunctionOnSet(g, S \cup {y})
  BY <1>2, <1>4
<1>9. SumFunction(g) = SumFunction(f) + FromSettlement(u, s)
  BY <1>3, <1>5, <1>6, <1>7, <1>8
<1> QED
  BY <1>9 DEF f, g, more

\* Before any transfer nothing is paid, and what transfers alone move comes to
\* nothing over all users.
LEMMA PaidNothing ==
  /\ \A u \in Users : SumFunction(Paid(u, <<>>)) = 0
  /\ \A setts \in Seq(Transaction) :
       SumFunctionOnSet([u \in Users |-> SumFunction(Paid(u, setts))], Users) = 0
<1>1. /\ <<>> \in Seq(Booked) /\ <<>> \in Seq(Transaction)
      /\ DOMAIN <<>> = {} /\ SumFunctionOnSet(<<>>, {}) = 0
  BY EmptySeq, SumEmpty
<1>2. \A u \in Users : SumFunction(Paid(u, <<>>)) = 0 /\ SumFunction(Lent(u, <<>>)) = 0
  <2> TAKE u \in Users
  <2>1. /\ Paid(u, <<>>) = [i \in {} |-> FromSettlement(u, <<>>[i])]
        /\ Lent(u, <<>>) = [i \in {} |-> FromExpense(u, <<>>[i])]
    BY <1>1 DEF Paid, Lent
  <2> DEFINE p == Paid(u, <<>>)
             l == Lent(u, <<>>)
  <2>2. DOMAIN p = {} /\ DOMAIN l = {}
    BY <2>1
  <2> HIDE DEF p, l
  <2>3. /\ SumFunction(p) = SumFunctionOnSet(p, {})
        /\ SumFunction(l) = SumFunctionOnSet(l, {})
    BY <2>2 DEF SumFunction
  <2>4. SumFunction(p) = 0 /\ SumFunction(l) = 0
    BY <2>3, SumEmpty
  <2> QED
    BY <2>4 DEF p, l
<1>3. ASSUME NEW setts \in Seq(Transaction)
      PROVE  SumFunctionOnSet([u \in Users |-> SumFunction(Paid(u, setts))], Users) = 0
  <2> DEFINE b == BalancesOf(<<>>, setts)
             q == [u \in Users |-> SumFunction(Paid(u, setts))]
  <2>1. SumFunctionOnSet(b, Users) = 0
    BY <1>1, BalancesZero
  <2>2. \A u \in Users : b[u] = SumFunction(Lent(u, <<>>)) + SumFunction(Paid(u, setts))
    BY <1>1, BalancesAre
  <2>3. \A u \in Users : SumFunction(Paid(u, setts)) \in Int
    BY PaidOK
  <2>4. \A u \in Users : b[u] \in Int /\ b[u] = q[u]
    BY <1>2, <2>2, <2>3
  <2>5. IsFiniteSet(Users)
    BY DebtAssumption
  <2> HIDE DEF b, q
  <2>6. SumFunctionOnSet(b, Users) = SumFunctionOnSet(q, Users)
    BY <2>4, <2>5, SumSame
  <2>7. SumFunctionOnSet(q, Users) = 0
    BY <2>1, <2>6
  <2> QED
    BY <2>7 DEF q
<1> QED
  BY <1>2, <1>3

-----------------------------------------------------------------------------
(* The endpoint *)

\* The rows of every expense come from _calculate_splits.
GroupTypeOK ==
    /\ expenses \in Seq(Booked)
    /\ settlements \in Seq(Transaction)

\* The balances asked for add up to zero.  What is left for a user is that
\* balance and the transfers so far; a user who is on no list has nothing left,
\* or the ignored cent.
Listed ==
    phase # "idle" =>
      /\ SumFunctionOnSet(balances, Users) = 0
      /\ \A u \in Users :
           /\ Rest[u] = balances[u] + SumFunction(Paid(u, transactions))
           /\ u \in creditors \cup debtors => u \notin Ignored
           /\ u \notin creditors \cup debtors =>
                Rest[u] = IF u \in Ignored THEN balances[u] ELSE 0

GroupIInv == IInv /\ GroupTypeOK /\ Listed

LEMMA GroupInitInv == GroupInit => GroupIInv
<1> SUFFICES ASSUME GroupInit PROVE GroupIInv
  OBVIOUS
<1>1. IInv
  BY InitInv DEF GroupInit
<1>2. GroupTypeOK
  BY EmptySeq DEF GroupInit, GroupTypeOK
<1>3. Listed
  BY DEF GroupInit, Init, Listed
<1> QED
  BY <1>1, <1>2, <1>3 DEF GroupIInv

\* A step of the group is one of simplify_debts or leaves its variables alone.
LEMMA GroupSteps ==
  ASSUME GroupIInv, [GroupNext]_groupVars
  PROVE  [Next]_debtVars
<1>1. CASE CreateExpense
  BY <1>1 DEF CreateExpense
<1>2. CASE CreateSettlement
  BY <1>2 DEF CreateSettlement
<1>3. CASE SimplifiedDebts
  <2>1. BalancesOf(expenses, settlements) \in [Users -> Int]
    BY BalancesAre DEF GroupIInv, GroupTypeOK
  <2> QED
    BY <1>3, <2>1 DEF SimplifiedDebts, Next
<1>4. CASE Match \/ Return
  BY <1>4 DEF Next
<1>5. CASE UNCHANGED groupVars
  BY <1>5 DEF groupVars
<1> QED
  BY <1>1, <1>2, <1>3, <1>4, <1>5 DEF GroupNext

LEMMA CreateExpenseInv ==
  ASSUME GroupIInv, CreateExpense
  PROVE  GroupTypeOK'
<1>1. PICK charge \in Charges, payer \in Users, ids \in MemberLists :
        /\ Accepted(charge.type, charge.amount, ids, charge.inputs)
        /\ expenses' = Append(expenses,
             [paidBy |-> payer, amount |-> Stored(charge.amount),
              charge |-> charge,
              rows |-> Splits(charge.type, charge.amount, payer, ids,
                              charge.inputs)])
        /\ settlements' = settlements
  BY DEF CreateExpense
<1> DEFINE rows == Splits(charge.type, charge.amount, payer, ids, charge.inputs)
           p == Stored(charge.amount)
           e == [paidBy |-> payer, amount |-> p, charge |-> charge, rows |-> rows]
<1>2. rows \in Seq(Row) /\ p \in Int
  <2>1. charge.amount \in Int
    BY ChargeTypes
  <2>2. p \in Int
    BY <2>1, MoneyKept
  <2> QED
    BY <1>1, <2>2, RowsMade
<1>3. e \in Booked
  <2> HIDE DEF p
  <2>1. e \in [paidBy : Users, amount : Int, charge : Charges, rows : Seq(Row)]
    BY <1>2
  <2>2. e.charge = charge /\ e.paidBy = payer /\ e.rows = rows /\ e.amount = p
    OBVIOUS
  <2> HIDE DEF e
  <2> QED
    BY <1>1, <2>1, <2>2 DEF Booked, p
<1> HIDE DEF e
<1>4. Append(expenses, e) \in Seq(Booked)
  BY <1>3, AppendProperties DEF GroupIInv, GroupTypeOK
<1> QED
  BY <1>1, <1>4 DEF GroupIInv, GroupTypeOK, e, p

\* The rows a settlement walks are finitely many.
LEMMA OpenFinite ==
  ASSUME GroupIInv, NEW debtor, NEW creditor
  PROVE  Cardinality(Open(debtor, creditor)) \in Nat
<1> DEFINE I == {j \in DOMAIN expenses : expenses[j].paidBy = creditor}
           K(i) == {j \in DOMAIN expenses[i].rows :
                      LET row == expenses[i].rows[j]
                      IN /\ row.user = debtor
                         /\ row.owed > 0
                         /\ ~row.settled}
           places == [i \in I |-> {<<i, k>> : k \in K(i)}]
<1>1. /\ DOMAIN expenses = 1 .. Len(expenses)
      /\ \A i \in DOMAIN expenses : expenses[i] \in Booked
      /\ IsFiniteSet(1 .. Len(expenses))
  BY FS_Interval DEF GroupIInv, GroupTypeOK
<1>2. IsFiniteSet(I)
  BY <1>1, FS_Subset
<1>3. ASSUME NEW i \in I PROVE IsFiniteSet({<<i, k>> : k \in K(i)})
  <2> DEFINE f == [k \in K(i) |-> <<i, k>>]
  <2>1. IsFiniteSet(K(i))
    <3>1. IsFiniteSet(DOMAIN expenses[i].rows)
      BY <1>1, FromExpenseOK
    <3> QED
      BY <3>1, FS_Subset
  <2>2. DOMAIN f = K(i) /\ f = [k \in K(i) |-> f[k]]
    OBVIOUS
  <2>3. {<<i, k>> : k \in K(i)} = {f[k] : k \in K(i)}
    OBVIOUS
  <2> HIDE DEF f, K
  <2> QED
    BY <2>1, <2>2, <2>3, FiniteRange
<1>4. DOMAIN places = I /\ places = [i \in I |-> places[i]]
      /\ \A i \in I : places[i] = {<<i, k>> : k \in K(i)}
  OBVIOUS
<1>5. Open(debtor, creditor) = UNION {places[i] : i \in I}
  <2>1. Open(debtor, creditor) = UNION { {<<i, k>> : k \in K(i)} : i \in I }
    BY DEF Open
  <2> HIDE DEF I, K, places
  <2>2. { {<<i, k>> : k \in K(i)} : i \in I } = {places[i] : i \in I}
    BY <1>4
  <2> QED
    BY <2>1, <2>2
<1> HIDE DEF I, K, places
<1>6. IsFiniteSet({places[i] : i \in I})
  BY <1>2, <1>4, FiniteRange
<1>7. \A T \in {places[i] : i \in I} : IsFiniteSet(T)
  BY <1>3, <1>4
<1>8. IsFiniteSet(Open(debtor, creditor))
  BY <1>5, <1>6, <1>7, FS_UNION
<1> QED
  BY <1>8, FS_CardinalityType

\* The loop keeps what a row is charged and whose it is.
LEMMA WalkedRow ==
  ASSUME NEW row \in Row, NEW left \in Int
  PROVE  Walked(row, left) \in Row /\ Walked(row, left).share = row.share
<1> DEFINE paid == PaidDown(row.owed, left)
<1>1. paid \in Int
  <2>1. Fine \in Nat /\ row.owed \in Int
    BY MoneyKept DEF Row
  <2> DEFINE x == Fine * row.owed - left
  <2>2. x \in Int
    BY <2>1
  <2>3. paid = Stored(x)
    BY DEF PaidDown
  <2> HIDE DEF x, paid
  <2> QED
    BY <2>2, <2>3, MoneyKept
<1> HIDE DEF paid
<1>2. CASE SettlesInFull(row.owed, left)
  BY <1>2 DEF Walked, Row
<1>3. CASE ~SettlesInFull(row.owed, left)
  <2>1. Walked(row, left) = [row EXCEPT !.owed = paid]
    BY <1>3 DEF Walked, paid
  <2> QED
    BY <1>1, <2>1 DEF Row
<1> QED
  BY <1>2, <1>3

\* An expense stays booked while its rows keep their users and shares.
LEMMA StaysBooked ==
  ASSUME NEW e \in Booked, NEW rows \in [DOMAIN e.rows -> Row],
         \A k \in DOMAIN e.rows : rows[k].share = e.rows[k].share
  PROVE  [e EXCEPT !.rows = rows] \in Booked
<1> DEFINE f == [e EXCEPT !.rows = rows]
           B == [paidBy : Users, amount : Int, charge : Charges, rows : Seq(Row)]
<1>1. e \in B
  BY DEF Booked
<1>2. DOMAIN e.rows = 1 .. Len(e.rows) /\ Len(e.rows) \in Nat
  BY <1>1
<1>3. rows \in Seq(Row) /\ DOMAIN rows = DOMAIN e.rows
  BY <1>2, SeqDef
<1>4. /\ f \in B /\ f.rows = rows /\ f.paidBy = e.paidBy /\ f.charge = e.charge
      /\ f.amount = e.amount
  BY <1>1, <1>3
<1>5. PICK ids \in MemberLists :
        /\ Accepted(e.charge.type, e.charge.amount, ids, e.charge.inputs)
        /\ LET made == Splits(e.charge.type, e.charge.amount, e.paidBy, ids,
                              e.charge.inputs)
           IN /\ DOMAIN e.rows = DOMAIN made
              /\ \A k \in DOMAIN made : e.rows[k].share = made[k].share
  BY DEF Booked
<1>6. e.amount = Stored(e.charge.amount)
  BY DEF Booked
<1> HIDE DEF f, B
<1> DEFINE made == Splits(e.charge.type, e.charge.amount, e.paidBy, ids,
                          e.charge.inputs)
<1>7. DOMAIN f.rows = DOMAIN made /\ \A k \in DOMAIN made : f.rows[k].share = made[k].share
  BY <1>3, <1>4, <1>5
<1>8. f \in Booked
  BY <1>4, <1>5, <1>6, <1>7 DEF Booked, B
<1> QED
  BY <1>8 DEF f

\* What remains of a payment is a number.
LEMMA LeftInt ==
  ASSUME NEW amount \in Int, NEW n \in Nat, NEW owes,
         NEW left \in Walks(owes, n, amount), NEW j \in 1 .. n
  PROVE  left[j - 1] \in Int
<1>1. Fine \in Nat
  BY MoneyKept
<1>2. \A k \in 0 .. amount \div Fine : amount - Fine * k \in Int
  BY <1>1
<1>3. Leftovers(amount) \subseteq Int
  BY <1>2 DEF Leftovers
<1>4. left \in [0 .. n -> Leftovers(amount)]
  BY DEF Walks
<1>5. j - 1 \in 0 .. n
  OBVIOUS
<1> QED
  BY <1>3, <1>4, <1>5

LEMMA CreateSettlementInv ==
  ASSUME GroupIInv, CreateSettlement
  PROVE  GroupTypeOK'
<1>1. PICK p \in Payments :
        /\ settlements' = Append(settlements, [p EXCEPT !.amount = Stored(@)])
        /\ LET S == Open(p.from, p.to)
               n == Cardinality(S)
               OwedAt(place) == expenses[place[1]].rows[place[2]].owed
           IN \E q \in Listings(S) :
              \E left \in Walks([i \in 1 .. n |-> OwedAt(q[i])], n, p.amount) :
                expenses' =
                  [i \in DOMAIN expenses |->
                     [expenses[i] EXCEPT !.rows =
                        [k \in DOMAIN @ |->
                           AfterWalk(<<i, k>>, @[k], q, left, Reached(n, left))]]]
  BY DEF CreateSettlement
<1>2. p.from \in Users /\ p.to \in Users /\ p.amount \in Nat
      /\ p \in [from : Users, to : Users, amount : Nat]
  BY GroupAssumption
<1> DEFINE n == Cardinality(Open(p.from, p.to))
<1>3. n \in Nat
  BY OpenFinite
<1> HIDE DEF n
<1> DEFINE OwedAt(place) == expenses[place[1]].rows[place[2]].owed
           Owes(q) == [i \in 1 .. n |-> OwedAt(q[i])]
           Result(q, left) ==
             [i \in DOMAIN expenses |->
                [expenses[i] EXCEPT !.rows =
                   [k \in DOMAIN @ |->
                      AfterWalk(<<i, k>>, @[k], q, left, Reached(n, left))]]]
<1>a. \E q \in Listings(Open(p.from, p.to)) :
        \E left \in Walks(Owes(q), n, p.amount) : expenses' = Result(q, left)
  BY <1>1, Zenon DEF n
<1> HIDE DEF OwedAt, Owes, Result
<1>4. PICK q, left : left \in Walks(Owes(q), n, p.amount) /\ expenses' = Result(q, left)
  BY <1>a
<1> DEFINE owes == Owes(q)
<1>5. /\ left \in Walks(owes, n, p.amount)
      /\ expenses' =
           [i \in DOMAIN expenses |->
              [expenses[i] EXCEPT !.rows =
                 [k \in DOMAIN expenses[i].rows |->
                    AfterWalk(<<i, k>>, expenses[i].rows[k], q, left,
                              Reached(n, left))]]]
  BY <1>4 DEF Result
<1> HIDE DEF owes
<1>6. settlements' \in Seq(Transaction)
  <2> DEFINE x == Stored(p.amount)
             s == [p EXCEPT !.amount = x]
  <2>1. x \in Nat
    BY <1>2, MoneyKept
  <2> HIDE DEF x
  <2>2. s \in Transaction
    BY <1>2, <2>1 DEF Transaction
  <2>3. settlements' = Append(settlements, s)
    BY <1>1 DEF x
  <2> HIDE DEF s
  <2> QED
    BY <2>2, <2>3, AppendProperties DEF GroupIInv, GroupTypeOK
<1>7. ASSUME NEW place, NEW row \in Row
      PROVE  /\ AfterWalk(place, row, q, left, Reached(n, left)) \in Row
             /\ AfterWalk(place, row, q, left, Reached(n, left)).share = row.share
  <2> DEFINE R == Reached(n, left)
             j == CHOOSE j \in R : q[j] = place
  <2>1. CASE \E x \in R : q[x] = place
    <3>1. j \in 1 .. n
      BY <2>1 DEF Reached
    <3>2. AfterWalk(place, row, q, left, R) = Walked(row, left[j - 1])
      BY <2>1 DEF AfterWalk
    <3> HIDE DEF j, R
    <3>3. left[j - 1] \in Int
      BY <1>2, <1>3, <1>5, <3>1, LeftInt
    <3> QED
      BY <3>2, <3>3, WalkedRow DEF R
  <2>2. CASE ~\E x \in R : q[x] = place
    BY <2>2 DEF AfterWalk
  <2> QED
    BY <2>1, <2>2
<1>8. expenses \in Seq(Booked)
  BY DEF GroupIInv, GroupTypeOK
<1> DEFINE rows(i) == [k \in DOMAIN expenses[i].rows |->
                         AfterWalk(<<i, k>>, expenses[i].rows[k], q, left,
                                   Reached(n, left))]
<1>9. ASSUME NEW i \in DOMAIN expenses
      PROVE  [expenses[i] EXCEPT !.rows = rows(i)] \in Booked
  <2> DEFINE e == expenses[i]
             w == rows(i)
  <2>1. e \in Booked
    BY <1>8
  <2>2. \A k \in DOMAIN e.rows : e.rows[k] \in Row
    <3>1. e.rows \in Seq(Row)
      BY <2>1 DEF Booked
    <3> HIDE DEF e
    <3> QED
      BY <3>1
  <2>3. /\ w = [k \in DOMAIN e.rows |-> w[k]]
        /\ \A k \in DOMAIN e.rows : w[k] \in Row /\ w[k].share = e.rows[k].share
    BY <1>7, <2>2
  <2> HIDE DEF e, w
  <2>4. w \in [DOMAIN e.rows -> Row]
    BY <2>3
  <2>5. [e EXCEPT !.rows = w] \in Booked
    BY <2>1, <2>3, <2>4, StaysBooked
  <2> QED
    BY <2>5 DEF e, w
<1>10. expenses' = [i \in DOMAIN expenses |-> [expenses[i] EXCEPT !.rows = rows(i)]]
  BY <1>5
<1> HIDE DEF rows
<1>11. expenses' \in Seq(Booked)
  <2>1. DOMAIN expenses = 1 .. Len(expenses) /\ Len(expenses) \in Nat
    BY <1>8
  <2>2. expenses' \in [1 .. Len(expenses) -> Booked]
    BY <1>9, <1>10, <2>1
  <2> QED
    BY <2>1, <2>2, SeqDef
<1> QED
  BY <1>6, <1>11 DEF GroupTypeOK

\* The request: nothing is transferred yet, and the lists leave out exactly
\* those with at most a cent.
LEMMA AskListed ==
  ASSUME GroupIInv, SimplifiedDebts
  PROVE  Listed'
<1> DEFINE b == BalancesOf(expenses, settlements)
<1>1. b \in [Users -> Int] /\ settlements \in Seq(Transaction)
  BY BalancesAre DEF GroupIInv, GroupTypeOK
<1>2. /\ expenses' = expenses /\ settlements' = settlements
      /\ balances' = b /\ credit' = b /\ debt' = [u \in Users |-> -b[u]]
      /\ creditors' = {u \in Users : b[u] > 1}
      /\ debtors' = {u \in Users : b[u] < -1}
      /\ transactions' = <<>>
  BY DEF SimplifiedDebts, Ask, CreditorsOf, DebtorsOf, Epsilon
<1>3. SumFunctionOnSet(b, Users) = 0
  BY BalancesZero DEF GroupIInv, GroupTypeOK
<1> HIDE DEF b
<1>4. ASSUME NEW u \in Users
      PROVE  /\ Rest'[u] = b[u]
             /\ u \in creditors' \cup debtors' => u \notin Ignored'
             /\ u \notin creditors' \cup debtors' =>
                  b[u] = IF u \in Ignored' THEN balances'[u] ELSE 0
  <2>1. b[u] \in Int
    BY <1>1
  <2>2. Rest'[u] = b[u]
    BY <1>2, <2>1 DEF Rest
  <2>3. u \in Ignored' <=> (b[u] = 1 \/ b[u] = -1)
    BY <1>2, <2>1 DEF Ignored, Magnitude, Epsilon
  <2> QED
    BY <1>2, <2>1, <2>2, <2>3
<1>5. ASSUME NEW u \in Users
      PROVE  Rest'[u] = balances'[u] + SumFunction(Paid(u, transactions'))
  <2>1. SumFunction(Paid(u, transactions')) = 0
    BY <1>2, PaidNothing
  <2>2. b[u] \in Int /\ balances'[u] = b[u] /\ Rest'[u] = b[u]
    BY <1>1, <1>2, <1>4
  <2> QED
    BY <2>1, <2>2
<1>6. SumFunctionOnSet(balances', Users) = 0
  BY <1>2, <1>3
<1>7. \A u \in Users :
        /\ u \in creditors' \cup debtors' => u \notin Ignored'
        /\ u \notin creditors' \cup debtors' =>
             Rest'[u] = IF u \in Ignored' THEN balances'[u] ELSE 0
  BY <1>4
<1> QED
  BY <1>5, <1>6, <1>7 DEF Listed

\* A transfer counts like a settlement between its two users, and an entry that
\* is passed is spent to the cent.
LEMMA MatchListed ==
  ASSUME GroupIInv, Match, UNCHANGED <<expenses, settlements>>
  PROVE  Listed'
<1>1. PICK c \in creditors, d \in debtors :
        LET amount == Settle(credit[c], debt[d])
        IN /\ transactions' = Append(transactions, Payment(d, c, amount))
           /\ credit' = [credit EXCEPT ![c] = @ - amount]
           /\ debt' = [debt EXCEPT ![d] = @ - amount]
           /\ creditors' = Remaining(creditors, c, credit[c] - amount)
           /\ debtors' = Remaining(debtors, d, debt[d] - amount)
  BY DEF Match
<1> DEFINE amount == Settle(credit[c], debt[d])
           s == Payment(d, c, amount)
<1>2. /\ c \in Users /\ d \in Users /\ c # d
      /\ balances[c] > 0 /\ credit[c] \in Int /\ credit[c] > 0
      /\ balances[d] < 0 /\ debt[d] \in Int /\ debt[d] > 0
      /\ balances \in [Users -> Int]
      /\ credit \in [Users -> Int] /\ debt \in [Users -> Int]
      /\ transactions \in Seq(Transaction)
  BY DEF GroupIInv, IInv, DebtTypeOK, EntriesOpen
<1>3. /\ amount \in Int /\ amount > 0
      /\ amount <= credit[c] /\ amount <= debt[d]
  BY <1>2, SettleOK
<1>4. balances' = balances /\ phase = "matching" /\ phase' = "matching"
  BY DEF Match
<1>5. s \in Transaction /\ s.from = d /\ s.to = c /\ s.amount = amount
  BY <1>2, <1>3 DEF Payment, Transaction
<1>6. transactions' = Append(transactions, s)
  BY <1>1
<1>8. /\ credit' = [credit EXCEPT ![c] = @ - amount]
      /\ debt' = [debt EXCEPT ![d] = @ - amount]
      /\ creditors' = Remaining(creditors, c, credit[c] - amount)
      /\ debtors' = Remaining(debtors, d, debt[d] - amount)
  BY <1>1
<1> HIDE DEF amount, s
<1>9. ASSUME NEW u \in Users
      PROVE  /\ Rest[u] = balances[u] + SumFunction(Paid(u, transactions))
             /\ u \in creditors \cup debtors => u \notin Ignored
             /\ u \notin creditors \cup debtors =>
                  Rest[u] = IF u \in Ignored THEN balances[u] ELSE 0
  BY <1>4 DEF GroupIInv, Listed
<1>10. ASSUME NEW u \in Users
       PROVE  Rest'[u] = balances'[u] + SumFunction(Paid(u, transactions'))
  <2>1. /\ SumFunction(Paid(u, transactions)) \in Int
        /\ FromSettlement(u, s) \in Int /\ balances[u] \in Int
        /\ SumFunction(Paid(u, transactions'))
             = SumFunction(Paid(u, transactions)) + FromSettlement(u, s)
    BY <1>2, <1>5, <1>6, PaidAppend, PaidOK, FromSettlementOK
  <2>2. FromSettlement(u, s) = IF u = d THEN amount
                               ELSE IF u = c THEN -amount ELSE 0
    BY <1>2, <1>3, <1>5 DEF FromSettlement, Moved
  <2>3. /\ Rest[u] = IF balances[u] > 0 THEN credit[u] ELSE -debt[u]
        /\ Rest'[u] = IF balances[u] > 0 THEN credit'[u] ELSE -debt'[u]
    BY <1>4 DEF Rest
  <2>4. Rest'[u] = Rest[u] + FromSettlement(u, s)
    <3>1. CASE u = c
      BY <1>2, <1>3, <1>8, <2>2, <2>3, <3>1
    <3>2. CASE u = d
      BY <1>2, <1>3, <1>8, <2>2, <2>3, <3>2
    <3>3. CASE u # c /\ u # d
      BY <1>2, <1>3, <1>8, <2>2, <2>3, <3>3
    <3> QED
      BY <3>1, <3>2, <3>3
  <2>5. Rest[u] = balances[u] + SumFunction(Paid(u, transactions))
    BY <1>9
  <2> QED
    BY <1>4, <2>1, <2>4, <2>5
<1>11. Ignored' = Ignored /\ creditors' \subseteq creditors /\ debtors' \subseteq debtors
  BY <1>4, <1>8 DEF Ignored, Remaining
<1>12. ASSUME NEW u \in Users, u \notin creditors' \cup debtors'
       PROVE  Rest'[u] = IF u \in Ignored' THEN balances'[u] ELSE 0
  <2>1. Rest'[u] = IF balances[u] > 0 THEN credit'[u] ELSE -debt'[u]
    BY <1>4 DEF Rest
  <2>2. Rest[u] = IF balances[u] > 0 THEN credit[u] ELSE -debt[u]
    BY DEF Rest
  <2>3. CASE u = c
    <3>1. u \notin Ignored /\ credit[c] - amount < 1
      BY <1>8, <1>9, <1>12, <2>3 DEF Remaining, Passed, Epsilon
    <3>2. credit'[c] = 0
      BY <1>2, <1>3, <1>8, <3>1
    <3> QED
      BY <1>2, <1>11, <2>1, <2>3, <3>1, <3>2
  <2>4. CASE u = d
    <3>1. u \notin Ignored /\ debt[d] - amount < 1
      BY <1>8, <1>9, <1>12, <2>4 DEF Remaining, Passed, Epsilon
    <3>2. debt'[d] = debt[d] - amount /\ debt[d] - amount = 0
      BY <1>2, <1>3, <1>8, <3>1
    <3>3. -debt'[d] = 0
      BY <1>2, <1>3, <3>2
    <3> QED
      BY <1>2, <1>11, <2>1, <2>4, <3>1, <3>3
  <2>5. CASE u # c /\ u # d
    <3>1. u \notin creditors \cup debtors
      BY <1>8, <1>12, <2>5 DEF Remaining
    <3>2. credit'[u] = credit[u] /\ debt'[u] = debt[u]
      BY <1>2, <1>8, <2>5
    <3> QED
      BY <1>4, <1>9, <1>11, <2>1, <2>2, <3>1, <3>2
  <2> QED
    BY <2>3, <2>4, <2>5
<1>13. \A u \in Users : u \in creditors' \cup debtors' => u \notin Ignored'
  BY <1>9, <1>11
<1>14. SumFunctionOnSet(balances', Users) = 0
  BY <1>4 DEF GroupIInv, Listed
<1> QED
  BY <1>10, <1>12, <1>13, <1>14 DEF Listed

LEMMA GroupNextInv == GroupIInv /\ [GroupNext]_groupVars => GroupIInv'
<1> SUFFICES ASSUME GroupIInv, [GroupNext]_groupVars PROVE GroupIInv'
  OBVIOUS
<1>1. IInv'
  BY GroupSteps, NextInv DEF GroupIInv
<1>2. GroupTypeOK'
  <2>1. CASE CreateExpense
    BY <2>1, CreateExpenseInv
  <2>2. CASE CreateSettlement
    BY <2>2, CreateSettlementInv
  <2>3. CASE UNCHANGED <<expenses, settlements>>
    BY <2>3 DEF GroupIInv, GroupTypeOK
  <2> QED
    BY <2>1, <2>2, <2>3 DEF GroupNext, SimplifiedDebts, groupVars
<1>3. Listed'
  <2>1. CASE CreateExpense \/ CreateSettlement
    <3>1. phase' = "idle"
      BY <2>1 DEF CreateExpense, CreateSettlement, Room, debtVars
    <3> QED
      BY <3>1 DEF Listed
  <2>2. CASE SimplifiedDebts
    BY <2>2, AskListed
  <2>3. CASE Match /\ UNCHANGED <<expenses, settlements>>
    BY <2>3, MatchListed
  <2>4. CASE /\ phase # "idle" \/ phase' = phase
             /\ UNCHANGED <<balances, credit, debt, creditors, debtors,
                            transactions, expenses, settlements>>
    BY <2>4 DEF GroupIInv, Listed, Rest, Ignored
  <2>5. CASE Return /\ UNCHANGED <<expenses, settlements>>
    BY <2>4, <2>5 DEF Return
  <2>6. CASE UNCHANGED groupVars
    BY <2>4, <2>6 DEF groupVars, debtVars
  <2> QED
    BY <2>1, <2>2, <2>3, <2>5, <2>6 DEF GroupNext
<1> QED
  BY <1>1, <1>2, <1>3 DEF GroupIInv

\* The invariant holds for any expenses and settlements of the group.
THEOREM GroupInvariant == GroupSpec => []GroupIInv
  BY GroupInitInv, GroupNextInv, PTL DEF GroupSpec

\* Whatever is bought and settled, the endpoint calls simplify_debts with
\* balances it is made for: the group's behaviours are behaviours of it.
THEOREM GroupRunsSimplify == GroupSpec => Spec
<1>1. GroupInit => Init
  BY DEF GroupInit
<1>2. GroupIInv /\ [GroupNext]_groupVars => [Next]_debtVars
  BY GroupSteps
<1> QED
  BY <1>1, <1>2, GroupInvariant, PTL DEF GroupSpec, Spec

\* The shares of every expense add up to its amount, for any amount, number of
\* participants and listing that is accepted.
THEOREM GroupSharesCoverCharge == GroupSpec => []SharesCoverCharge
<1>1. GroupIInv => SharesCoverCharge
  <2> SUFFICES ASSUME GroupIInv, NEW i \in DOMAIN expenses
               PROVE  LET e == expenses[i] IN
                      Near(2 * SumFunction([k \in DOMAIN e.rows |-> e.rows[k].share]),
                           2 * e.amount, Slack(e.charge))
    BY DEF SharesCoverCharge
  <2> DEFINE e == expenses[i]
  <2>1. e \in Booked
    BY DEF GroupIInv, GroupTypeOK
  <2> HIDE DEF e
  <2>2. Near(2 * SumFunction([k \in DOMAIN e.rows |-> e.rows[k].share]),
             2 * e.amount, Slack(e.charge))
    BY <2>1, BookedFair
  <2> QED
    BY <2>2 DEF e
<1> QED
  BY <1>1, GroupInvariant, PTL

\* The first share of a percentage split is off by what the tolerance is worth
\* and a cent for every other entry at most, for any accepted percentages.
THEOREM GroupFirstShareFair == GroupSpec => []FirstShareFair
<1>1. GroupIInv => FirstShareFair
  <2> SUFFICES ASSUME GroupIInv, NEW i \in DOMAIN expenses,
                      expenses[i].charge.type = "percentage"
               PROVE  LET e == expenses[i]
                          inputs == e.charge.inputs
                          worth == (PercentTolerance * e.charge.amount)
                                     \div (Hundred * Fine)
                          negative == {k \in DOMAIN inputs : inputs[k].given < 0}
                          odd == IF Whole(e.charge.amount) THEN 0 ELSE 1
                      IN e.rows[1].share
                           - RoundedDown(inputs[1].given * e.charge.amount,
                                         Hundred * Fine)
                           \in -worth - Cardinality(negative) - odd
                               .. worth + Len(inputs) - Cardinality(negative) + odd
    BY DEF FirstShareFair
  <2> DEFINE e == expenses[i]
  <2>1. e \in Booked /\ e.charge.type = "percentage"
    BY DEF GroupIInv, GroupTypeOK
  <2> HIDE DEF e
  <2>2. e.rows[1].share
          - RoundedDown(e.charge.inputs[1].given * e.charge.amount,
                        Hundred * Fine)
          \in -Worth(e.charge.amount) - NegativeGiven(e.charge.inputs)
                - Odd(e.charge.amount)
              .. Worth(e.charge.amount) + Len(e.charge.inputs)
                   - NegativeGiven(e.charge.inputs) + Odd(e.charge.amount)
    BY <2>1, BookedFair
  <2> QED
    BY <2>2 DEF Worth, NegativeGiven, Odd, e
<1> QED
  BY <1>1, GroupInvariant, PTL

\* When the answer is complete, one of the lists is used up.  What the others
\* still have is then all on one side, and as the rest adds up to zero nobody
\* has more of it than the cents that were ignored.
LEMMA AnsweredSettles ==
  ASSUME GroupIInv, Finished, phase # "idle", NEW u \in Users
  PROVE  Magnitude(balances[u] + SumFunction(Paid(u, transactions)))
           <= Cardinality(Ignored)
<1> DEFINE paid == [v \in Users |-> SumFunction(Paid(v, transactions))]
           r == [v \in Users |-> balances[v] + paid[v]]
           minus == -1
           m == [v \in Users |-> minus * r[v]]
           N == Ignored
<1>1. /\ transactions \in Seq(Transaction)
      /\ \A v \in Users : balances[v] \in Int
      /\ SumFunctionOnSet(balances, Users) = 0
  BY DEF GroupIInv, Listed, IInv, DebtTypeOK
<1>2. r \in [Users -> Int] /\ SumFunctionOnSet(r, Users) = 0
  <2>1. \A v \in Users : paid[v] \in Int
    BY <1>1, PaidOK
  <2>2. SumFunctionOnSet(paid, Users) = 0
    BY <1>1, PaidNothing
  <2>3. IsFiniteSet(Users)
    BY DebtAssumption
  <2> HIDE DEF paid
  <2>4. /\ r \in [Users -> Int]
        /\ \A v \in Users : balances[v] \in Int /\ paid[v] \in Int
                            /\ r[v] = balances[v] + paid[v]
    BY <1>1, <2>1
  <2> HIDE DEF r
  <2>5. SumFunctionOnSet(r, Users)
          = SumFunctionOnSet(balances, Users) + SumFunctionOnSet(paid, Users)
    BY <2>3, <2>4, SumPlus
  <2> QED
    BY <1>1, <2>2, <2>4, <2>5
<1>3. IsFiniteSet(Users) /\ N \subseteq Users
  BY DebtAssumption DEF Ignored
<1>4. \A v \in N : balances[v] = 1 \/ balances[v] = -1
  BY DEF Ignored, Magnitude, Epsilon, GroupIInv, IInv, DebtTypeOK
<1>5. ASSUME NEW v \in Users
      PROVE  /\ r[v] = Rest[v]
             /\ v \in creditors => r[v] > 0
             /\ v \in debtors => r[v] < 0
             /\ v \in creditors \cup debtors => v \notin N
             /\ v \notin creditors \cup debtors =>
                  r[v] = IF v \in N THEN balances[v] ELSE 0
  <2>1. Rest[v] = IF balances[v] > 0 THEN credit[v] ELSE -debt[v]
    BY DEF Rest
  <2>2. /\ r[v] = Rest[v]
        /\ v \in creditors \cup debtors => v \notin N
        /\ v \notin creditors \cup debtors =>
                  r[v] = IF v \in N THEN balances[v] ELSE 0
    BY DEF GroupIInv, Listed
  <2>3. /\ v \in creditors => balances[v] > 0 /\ credit[v] > 0
        /\ v \in debtors => balances[v] < 0 /\ debt[v] > 0
        /\ balances[v] \in Int /\ credit[v] \in Int /\ debt[v] \in Int
    BY DEF GroupIInv, IInv, EntriesOpen, DebtTypeOK
  <2> HIDE DEF r, N
  <2> QED
    BY <2>1, <2>2, <2>3
<1>6. creditors = {} \/ debtors = {}
  BY DEF Finished
<1>7. /\ minus \in Int
      /\ \A v \in Users : r[v] \in Int /\ m[v] = minus * r[v]
      /\ \A v \in Users : r[v] \in Int /\ m[v] \in Int /\ m[v] = -r[v]
      /\ \A v \in Users : r[v] \in Int
      /\ \A v \in Users : m[v] \in Int
  BY <1>2
<1> HIDE DEF r, m, N, minus
<1>8. SumFunctionOnSet(m, Users) = 0
  <2>1. SumFunctionOnSet(m, Users) = minus * SumFunctionOnSet(r, Users)
    BY <1>3, <1>7, SumScale
  <2> QED
    BY <1>2, <1>7, <2>1
<1>9. Cardinality(N) \in Nat /\ r[u] <= Cardinality(N) /\ -Cardinality(N) <= r[u]
  <2>1. CASE debtors = {}
    <3>1. /\ \A v \in N : -1 <= r[v]
          /\ \A v \in Users \ N : 0 <= r[v]
      BY <1>3, <1>4, <1>5, <1>7, <2>1
    <3>2. \A v \in Users : Cardinality(N) \in Nat /\ r[v] <= Cardinality(N)
      BY <1>2, <1>3, <1>7, <3>1, SumBalanced
    <3>3. u \in N => Cardinality(N) # 0
      BY <1>3, FS_Subset, FS_EmptySet
    <3> QED
      BY <1>7, <3>1, <3>2, <3>3
  <2>2. CASE creditors = {}
    <3>1. /\ \A v \in N : -1 <= m[v]
          /\ \A v \in Users \ N : 0 <= m[v]
      BY <1>3, <1>4, <1>5, <1>7, <2>2
    <3>2. \A v \in Users : Cardinality(N) \in Nat /\ m[v] <= Cardinality(N)
      BY <1>3, <1>7, <1>8, <3>1, SumBalanced
    <3>3. u \in N => Cardinality(N) # 0
      BY <1>3, FS_Subset, FS_EmptySet
    <3> QED
      BY <1>7, <3>1, <3>2, <3>3
  <2> QED
    BY <1>6, <2>1, <2>2
<1>10. Magnitude(r[u]) <= Cardinality(N)
  BY <1>7, <1>9 DEF Magnitude
<1> QED
  BY <1>10 DEF r, N

\* Once answered, one of the lists is used up.
AnsweredDone == phase = "answered" => Finished

\* Whatever was bought and settled before, the list brings the balances it was
\* asked for down to the ignored cents of the whole group.
THEOREM GroupListSettles == GroupSpec => []ListSettles
<1>1. GroupInit => AnsweredDone
  BY DEF GroupInit, Init, AnsweredDone
<1>2. AnsweredDone /\ [GroupNext]_groupVars => AnsweredDone'
  BY DEF AnsweredDone, GroupNext, CreateExpense, CreateSettlement,
         SimplifiedDebts, Room, Ask, Match, Return, Finished, debtVars, groupVars
<1>3. GroupIInv /\ AnsweredDone => ListSettles
  <2> SUFFICES ASSUME GroupIInv, AnsweredDone, phase = "answered", NEW u \in Users
               PROVE  Magnitude(balances[u]
                        + SumFunction([i \in DOMAIN transactions |->
                                         FromSettlement(u, transactions[i])]))
                        <= Cardinality(Ignored)
    BY DEF ListSettles
  <2>1. Finished /\ phase # "idle"
    BY DEF AnsweredDone
  <2>2. Paid(u, transactions)
          = [i \in DOMAIN transactions |-> FromSettlement(u, transactions[i])]
    BY DEF Paid
  <2> QED
    BY <2>1, <2>2, AnsweredSettles
<1> QED
  BY <1>1, <1>2, <1>3, GroupInvariant, PTL DEF GroupSpec

\* What simplify_debts promises holds of the endpoint: its list has fewer
\* transfers than there are users to settle.
THEOREM GroupFewTransfers == GroupSpec => []FewTransfers
  BY GroupRunsSimplify, DebtFewTransfers

\* Every transfer of the endpoint's list is one that Settling allows, whatever the
\* expenses and settlements the balances come from.
THEOREM GroupImplementsSettling == GroupSpec => ImplementsSettling
  BY GroupRunsSimplify, SimplifyImplementsSettling
=============================================================================
