---------------------------- MODULE LedgerProofs ----------------------------
(* Safety of the group ledger for every number of users, handlers, requests  *)
(* and every set of amounts.                                                 *)
EXTENDS WeeklyDigest, SumsProofs, FiniteSetTheorems, TLAPS

\* What a split calculation hands over: one share per key and user.
SharesOK(S) ==
    /\ S \subseteq Share
    /\ IsFiniteSet(S)
    /\ \A a, b \in S : a.key = b.key /\ a.user = b.user => a = b

\* What a settlement is about to write: at most one write per row, on rows of
\* the debtor that were calculated earlier, and a debt no larger than the row
\* began with, which is zero only when the payment has a fraction of a cent.
WritesOK(W, from, amount) ==
    /\ W \subseteq Write
    /\ \A v, w \in W : v.row = w.row => v = w
    /\ \A w \in W :
         /\ w.row[1] < nextId /\ w.row[3] = from
         /\ ~w.settled => /\ w.owed = 0 => ~Whole(amount)
                          /\ \A s \in splits : PK(s) = w.row => w.owed <= s.due

\* No row of the invited user is older than the look at the members.
AddOK(t) ==
    /\ t.checked <= nextId
    /\ \A m \in members : m.user = t.user => t.checked <= m.id

TxOK(t) ==
    /\ t \in Tx
    /\ t.op \in {"create", "update"} => SharesOK(t.shares)
    /\ t.op = "settle" => WritesOK(t.writes, t.from, t.amount)
    /\ t.op = "add" => AddOK(t)
    /\ t.op = "remove" => t.row.role # "owner"

\* Primary keys are primary keys, and none is taken before it is handed out.
MembersOK ==
    /\ IsFiniteSet(members)
    /\ \A m \in members : m.id < nextId
    /\ \A m, n \in members : m.id = n.id /\ m.user = n.user => m = n

SplitsOK ==
    /\ IsFiniteSet(splits)
    /\ \A s \in splits : s.calc < nextId
    /\ \A r, s \in splits : PK(r) = PK(s) => r = s

IInv ==
    /\ TypeOK
    /\ MembersOK
    /\ SplitsOK
    /\ \A h \in Handlers : TxOK(tx[h])
    /\ NoOrphanSplits
    /\ OwnerStays
    /\ InvitedOnce
    /\ DebtStaysVisible

-----------------------------------------------------------------------------
(* Amounts *)

\* What the columns and quantize keep of an amount.
LEMMA MoneyKept ==
  /\ \A x \in Int : Stored(x) = NearestUp(x, Fine)
  /\ \A x \in Int : Quantized(x) = NearestEven(x, Fine)
  /\ Fine \in Nat /\ Fine > 0
  /\ \A x \in Int : Stored(x) \in Int /\ Quantized(x) \in Int
  /\ \A x \in Nat : Stored(x) \in Nat
<1>1. Fine \in Nat /\ Fine > 0
  BY FineAssumption
<1>2. /\ \A x \in Int : Stored(x) = NearestUp(x, Fine)
      /\ \A x \in Int : Quantized(x) = NearestEven(x, Fine)
  BY DEF Stored, NearestUp, Quantized, NearestEven, Tie
<1>3. \A x \in Int : NearestUp(x, Fine) \in Int /\ NearestEven(x, Fine) \in Int
  BY <1>1, NearestUpBounds, NearestEvenBounds
<1>4. ASSUME NEW x \in Nat PROVE Stored(x) \in Nat
  <2>1. NearestUp(Fine * 0, Fine) = 0
    BY <1>1, NearestUpWhole
  <2>2. Fine * 0 = 0
    BY <1>1
  <2>3. NearestUp(0, Fine) = 0 /\ 0 \in Int /\ x \in Int /\ 0 <= x
    BY <2>1, <2>2
  <2>4. NearestUp(0, Fine) <= NearestUp(x, Fine)
    BY <1>1, <2>3, NearestUpLeq
  <2> QED
    BY <1>2, <1>3, <2>3, <2>4
<1> QED
  BY <1>1, <1>2, <1>3, <1>4

-----------------------------------------------------------------------------
(* Split calculation *)

\* _calculate_splits charges every member row, or every entry of an exact list,
\* once.
LEMMA EqualSharesOK ==
  ASSUME members \subseteq Member, MembersOK,
         NEW amount \in Nat, NEW payer \in Users,
         NEW shares \in EqualShares(amount, payer)
  PROVE  SharesOK(shares)
<1> DEFINE n == Cardinality(members)
<1>1. PICK first \in members :
        shares = { [key |-> m.id, user |-> m.user,
                    share |-> EqualShare(amount, n, m = first),
                    due |-> OwedBy(m.user, payer, EqualShare(amount, n, m = first))]
                   : m \in members }
  BY DEF EqualShares
<1> DEFINE f == [m \in members |->
                   [key |-> m.id, user |-> m.user,
                    share |-> EqualShare(amount, n, m = first),
                    due |-> OwedBy(m.user, payer, EqualShare(amount, n, m = first))]]
<1>2. n \in Nat /\ n > 0
  BY <1>1, FS_CardinalityType, FS_EmptySet DEF MembersOK
<1>3. ASSUME NEW m \in members
      PROVE  EqualShare(amount, n, m = first) \in Int
  <2> HIDE DEF n
  <2> DEFINE base == amount \div (n * Fine)
             rest == amount - Fine * base * (n - 1)
  <2>1. n * Fine \in Nat /\ n * Fine > 0
    BY <1>2, MoneyKept
  <2>2. base \in Int
    BY <2>1, Divided
  <2>3. rest \in Int
    <3> HIDE DEF base
    <3>1. Fine * base \in Int
      BY <2>2, MoneyKept
    <3>2. Fine * base * (n - 1) \in Int
      BY <1>2, <3>1
    <3> QED
      BY <3>2
  <2>4. EqualShare(amount, n, m = first)
          = IF m = first THEN Quantized(rest) ELSE base
    BY DEF EqualShare
  <2> HIDE DEF base, rest
  <2> QED
    BY <2>2, <2>3, <2>4, MoneyKept
<1>4. \A m \in members : f[m] \in Share
  <2> SUFFICES ASSUME NEW m \in members PROVE f[m] \in Share
    OBVIOUS
  <2>1. OwedBy(m.user, payer, EqualShare(amount, n, m = first)) \in Int
    BY <1>3 DEF OwedBy
  <2>2. m.id \in Nat /\ m.user \in Users
    BY DEF Member
  <2> QED
    BY <1>3, <2>1, <2>2 DEF Share
<1>5. shares = {f[m] : m \in members}
  BY <1>1
<1>6. \A l, m \in members : f[l].key = f[m].key /\ f[l].user = f[m].user
                               => f[l] = f[m]
  BY DEF MembersOK
<1>7. DOMAIN f = members /\ f = [m \in members |-> f[m]]
  OBVIOUS
<1> HIDE DEF f
<1>8. IsFiniteSet(shares)
  BY <1>5, <1>7, FiniteRange DEF MembersOK
<1> QED
  BY <1>4, <1>5, <1>6, <1>8 DEF SharesOK

\* An accepted exact list charges each of its entries once.
LEMMA ExactSharesOK ==
  ASSUME NEW amount \in Nat, NEW payer \in Users,
         NEW input \in Seq([user : Users, amount : Int]),
         NEW shares \in ExactShares(amount, payer, input)
  PROVE  SharesOK(shares)
<1>0. \A i \in DOMAIN input :
        i \in Nat /\ input[i].user \in Users /\ input[i].amount \in Int
  <2> DEFINE Entry == [user : Users, amount : Int]
  <2>1. input \in Seq(Entry) /\ \A e \in Entry : e.user \in Users /\ e.amount \in Int
    OBVIOUS
  <2> HIDE DEF Entry
  <2>2. \A i \in DOMAIN input : i \in Nat /\ input[i] \in Entry
    BY <2>1
  <2> QED
    BY <2>1, <2>2
<1> DEFINE D == DOMAIN input
           f == [i \in D |->
                   [key |-> i, user |-> input[i].user,
                    share |-> Quantized(input[i].amount),
                    due |-> OwedBy(input[i].user, payer,
                                   Quantized(input[i].amount))]]
<1>1. shares = {f[i] : i \in D}
  BY DEF ExactShares
<1>2. D = 1 .. Len(input) /\ Len(input) \in Nat
  OBVIOUS
<1>3. IsFiniteSet(D)
  BY <1>2, FS_Interval
<1>4. \A i \in D : f[i] \in Share /\ f[i].key = i
  <2> SUFFICES ASSUME NEW i \in D PROVE f[i] \in Share /\ f[i].key = i
    OBVIOUS
  <2>1. i \in Nat /\ input[i].user \in Users /\ input[i].amount \in Int
    BY <1>0
  <2> DEFINE share == Quantized(input[i].amount)
  <2>2. share \in Int
    BY <2>1, MoneyKept
  <2>4. OwedBy(input[i].user, payer, share) \in Int
    <3> HIDE DEF share
    <3> QED
      BY <2>2 DEF OwedBy
  <2>3. f[i] = [key |-> i, user |-> input[i].user, share |-> share,
                due |-> OwedBy(input[i].user, payer, share)]
    OBVIOUS
  <2> HIDE DEF f, share
  <2> QED
    BY <2>1, <2>2, <2>3, <2>4 DEF Share
<1>5. DOMAIN f = D /\ f = [i \in D |-> f[i]]
  OBVIOUS
<1> HIDE DEF f, D
<1>6. IsFiniteSet(shares)
  BY <1>1, <1>3, <1>5, FiniteRange
<1> QED
  BY <1>1, <1>4, <1>6 DEF SharesOK

\* Whatever the split type, _calculate_splits returns well-formed shares.
LEMMA CalculationsOK ==
  ASSUME members \subseteq Member, MembersOK,
         NEW amount \in Nat, NEW payer \in Users, NEW mode,
         NEW input \in Seq([user : Users, amount : Int]),
         NEW shares \in Calculations(amount, payer, mode, input)
  PROVE  SharesOK(shares)
BY EqualSharesOK, ExactSharesOK DEF Calculations

\* The rows a calculation inserts: its primary keys differ among themselves, and
\* nothing has been paid on them yet.
LEMMA SplitRowsOK ==
  ASSUME NEW exp \in Nat, NEW calc \in Nat, NEW shares, SharesOK(shares)
  PROVE  LET R == SplitRows(exp, calc, shares) IN
         /\ R \subseteq Split
         /\ IsFiniteSet(R)
         /\ \A r \in R : /\ r.exp = exp /\ r.calc = calc /\ r.owed = r.due
                         /\ ~r.settled
         /\ \A r, s \in R : PK(r) = PK(s) => r = s
<1> DEFINE f == [s \in shares |->
                   [exp |-> exp, calc |-> calc, key |-> s.key, user |-> s.user,
                    share |-> s.share, due |-> s.due, owed |-> s.due,
                    settled |-> FALSE]]
           R == SplitRows(exp, calc, shares)
<1>1. R = {f[s] : s \in shares} /\ DOMAIN f = shares /\ f = [s \in shares |-> f[s]]
  BY DEF SplitRows
<1>2. \A s \in shares :
        /\ s.key \in Nat /\ s.user \in Users /\ s.share \in Int /\ s.due \in Int
  BY DEF SharesOK, Share
<1>3. \A s \in shares : /\ f[s] \in Split
                        /\ f[s].exp = exp /\ f[s].calc = calc
                        /\ f[s].owed = f[s].due /\ ~f[s].settled
                        /\ PK(f[s]) = <<calc, s.key, s.user>>
  BY <1>2 DEF Split, PK
<1> HIDE DEF f, R
<1>4. IsFiniteSet(R)
  BY <1>1, FiniteRange DEF SharesOK
<1>5. \A r, s \in R : PK(r) = PK(s) => r = s
  BY <1>1, <1>3 DEF SharesOK
<1> QED
  BY <1>1, <1>3, <1>4, <1>5 DEF R

-----------------------------------------------------------------------------
(* The walk of create_settlement *)

\* What can remain of a payment is a number, with the payment's fraction of a
\* cent.
LEMMA LeftoverOK ==
  ASSUME NEW amount \in Nat, NEW x \in Leftovers(amount)
  PROVE  /\ x \in Nat /\ x <= amount
         /\ x = 0 \/ \E k \in Nat : amount = Fine * k + x
         /\ Whole(amount) => \E k \in Nat : x = Fine * k
<1> DEFINE q == amount \div Fine
<1>1. /\ q \in Int /\ amount % Fine \in Nat /\ Fine * q \in Int
      /\ amount = Fine * q + (amount % Fine)
  BY MoneyKept, Divided
<1>2. CASE x = 0
  <2>1. x = Fine * 0
    BY <1>2, MoneyKept
  <2> QED
    BY <1>2, <2>1
<1>3. ASSUME NEW k \in 0 .. q, x = amount - Fine * k
      PROVE  /\ x \in Nat /\ x <= amount
             /\ \E j \in Nat : amount = Fine * j + x
             /\ Whole(amount) => \E j \in Nat : x = Fine * j
  <2>1. k \in Nat /\ q - k \in Nat
    BY <1>1, <1>3
  <2> HIDE DEF q
  <2> DEFINE d == q - k
             fk == Fine * k
             fd == Fine * d
             fq == Fine * q
  <2>2. fq = fk + fd
    <3>1. q = k + d
      BY <1>1, <2>1
    <3>2. d \in Nat
      BY <2>1
    <3> HIDE DEF d
    <3>3. Fine * (k + d) = Fine * k + Fine * d
      BY <2>1, <3>2, MoneyKept
    <3> QED
      BY <3>1, <3>3
  <2>3. fk \in Nat /\ fd \in Nat /\ d \in Nat
    BY <2>1, MoneyKept
  <2>4. amount = fq + (amount % Fine) /\ x = amount - fk
    BY <1>1, <1>3
  <2> HIDE DEF fk, fd, fq, d
  <2>5. x = fd + (amount % Fine) /\ amount = fk + x
    BY <1>1, <2>2, <2>3, <2>4
  <2>6. x \in Nat /\ x <= amount
    BY <1>1, <2>3, <2>5
  <2>7. Whole(amount) => x = fd
    BY <2>3, <2>5 DEF Whole
  <2> QED
    BY <2>1, <2>3, <2>5, <2>6, <2>7 DEF fk, fd
<1>4. x = 0 \/ \E k \in 0 .. q : x = amount - Fine * k
  BY DEF Leftovers
<1> QED
  BY <1>2, <1>3, <1>4

\* What a partial payment leaves of a debt.
LEMMA PaidDownOK ==
  ASSUME NEW owed \in Nat, NEW amount \in Nat, NEW x \in Leftovers(amount),
         ~SettlesInFull(owed, x)
  PROVE  /\ PaidDown(owed, x) \in Nat /\ PaidDown(owed, x) <= owed
         /\ PaidDown(owed, x) = 0 => ~Whole(amount)
<1> DEFINE fo == Fine * owed
           y == fo - x
<1>1. x \in Nat /\ fo \in Nat /\ y \in Nat /\ y > 0 /\ y <= fo
  <2>1. x \in Nat /\ Fine * owed \in Nat /\ x < Fine * owed
    BY LeftoverOK, MoneyKept DEF SettlesInFull
  <2> QED
    BY <2>1
<1>2. PaidDown(owed, x) = NearestUp(y, Fine) /\ PaidDown(owed, x) \in Nat
  BY <1>1, MoneyKept DEF PaidDown
<1>3. NearestUp(fo, Fine) = owed
  BY MoneyKept, NearestUpWhole
<1>4. NearestUp(y, Fine) <= NearestUp(fo, Fine)
  BY <1>1, MoneyKept, NearestUpLeq
<1>5. ASSUME Whole(amount) PROVE PaidDown(owed, x) > 0
  <2>1. PICK k \in Nat : x = Fine * k
    BY <1>5, LeftoverOK
  <2>2. owed - k \in Int /\ y = Fine * (owed - k)
    BY <2>1, MoneyKept
  <2>3. NearestUp(y, Fine) = owed - k
    BY <2>2, MoneyKept, NearestUpWhole
  <2>4. owed - k > 0
    <3> SUFFICES ASSUME owed <= k PROVE FALSE
      BY <2>2
    <3>1. k - owed \in Nat
      OBVIOUS
    <3>2. Fine * (k - owed) \in Nat /\ Fine * (k - owed) = x - fo
      BY <2>1, <3>1, MoneyKept
    <3> HIDE DEF fo
    <3> QED
      BY <1>1, <3>2
  <2> QED
    BY <1>2, <2>3, <2>4
<1> HIDE DEF fo, y
<1> QED
  BY <1>2, <1>3, <1>4, <1>5

\* The columns the walk reads.
OwedOf(q, n) == [i \in 1 .. n |-> q[i].owed]

\* Each row is written at most once, a partial payment leaves no larger debt
\* than it found, and only rows of the debtor that exist are written.
LEMMA WalkOK ==
  ASSUME TypeOK, SplitsOK, DebtStaysVisible,
         NEW from \in Users, NEW to \in Users, NEW amount \in Nat,
         NEW q \in Listings(Open(from, to)),
         NEW left \in Walks(OwedOf(q, Cardinality(Open(from, to))),
                            Cardinality(Open(from, to)), amount)
  PROVE  WritesOK(WritesOf(q, Cardinality(Open(from, to)), left), from, amount)
<1> DEFINE S == Open(from, to)
           n == Cardinality(S)
           I == Reached(n, left)
<1>1. S \subseteq splits /\ \A s \in S : s.owed > 0 /\ s.user = from
  BY DEF Open
<1>2. n \in Nat
  BY <1>1, FS_Subset, FS_CardinalityType DEF SplitsOK
<1>3. /\ q \in [1 .. n -> S]
      /\ \A i, j \in 1 .. n : i < j => q[i] # q[j]
  BY DEF Listings
<1>4. left \in [0 .. n -> Leftovers(amount)]
  BY DEF Walks
<1> HIDE DEF S, n
<1>5. \A i \in I : /\ i \in 1 .. n
                   /\ left[i - 1] \in Leftovers(amount)
                   /\ q[i] \in S
  <2>1. \A i \in I : i \in 1 .. n /\ i - 1 \in 0 .. n
    BY <1>2 DEF Reached
  <2> HIDE DEF I
  <2> QED
    BY <1>2, <1>3, <1>4, <2>1
<1> HIDE DEF I
<1>6. \A i, j \in I : q[i] = q[j] => i = j
  <2> SUFFICES ASSUME NEW i \in I, NEW j \in I, i # j PROVE q[i] # q[j]
    OBVIOUS
  <2>1. i \in 1 .. n /\ j \in 1 .. n
    BY <1>5
  <2>2. i < j \/ j < i
    BY <1>2, <2>1
  <2> QED
    BY <1>3, <2>1, <2>2
<1> DEFINE W == {RowWrite(q[i], left[i - 1]) : i \in I}
<1>7. WritesOf(q, n, left) = W
  BY DEF WritesOf, I
<1>8. ASSUME NEW s \in S, NEW k \in Leftovers(amount)
      PROVE  LET w == RowWrite(s, k) IN
             /\ w \in Write /\ w.row = PK(s) /\ w.row[1] = s.calc
             /\ w.row[3] = from
             /\ ~w.settled => w.owed <= s.due /\ (w.owed = 0 => ~Whole(amount))
  <2>1. /\ s.calc \in Nat /\ s.key \in Nat /\ s.user \in Users
        /\ s.owed \in Nat /\ s.due \in Int /\ s.owed <= s.due
        /\ s.user = from
    BY <1>1 DEF TypeOK, Split, DebtStaysVisible
  <2>2. PK(s) \in PKs /\ PK(s)[1] = s.calc /\ PK(s)[3] = from
    BY <2>1 DEF PK, PKs
  <2>3. CASE SettlesInFull(s.owed, k)
    BY <2>1, <2>2, <2>3 DEF RowWrite, Write
  <2>4. CASE ~SettlesInFull(s.owed, k)
    <3> DEFINE d == PaidDown(s.owed, k)
    <3>1. d \in Nat /\ d <= s.owed /\ (d = 0 => ~Whole(amount))
      BY <2>1, <2>4, PaidDownOK
    <3>0. SettlesInFull(s.owed, k) = FALSE
      BY <2>4 DEF SettlesInFull
    <3>2. RowWrite(s, k) = [row |-> PK(s), settled |-> FALSE, owed |-> d]
      BY <3>0 DEF RowWrite
    <3> HIDE DEF d
    <3>3. d <= s.due
      BY <2>1, <3>1
    <3> QED
      BY <2>2, <3>1, <3>2, <3>3 DEF Write
  <2> QED
    BY <2>3, <2>4
<1>9. W \subseteq Write
  BY <1>5, <1>8
<1>10. \A v, w \in W : v.row = w.row => v = w
  <2> SUFFICES ASSUME NEW i \in I, NEW j \in I,
                      RowWrite(q[i], left[i - 1]).row = RowWrite(q[j], left[j - 1]).row
               PROVE  i = j
    OBVIOUS
  <2>1. PK(q[i]) = PK(q[j]) /\ q[i] \in splits /\ q[j] \in splits
    BY <1>1, <1>5, <1>8
  <2> QED
    BY <1>6, <2>1 DEF SplitsOK
<1>11. ASSUME NEW w \in W
       PROVE  /\ w.row[1] < nextId /\ w.row[3] = from
              /\ ~w.settled => /\ w.owed = 0 => ~Whole(amount)
                               /\ \A s \in splits : PK(s) = w.row => w.owed <= s.due
  <2>1. PICK i \in I : w = RowWrite(q[i], left[i - 1])
    OBVIOUS
  <2>2. q[i] \in S /\ q[i] \in splits
    BY <1>1, <1>5
  <2> QED
    BY <1>5, <1>8, <2>1, <2>2 DEF SplitsOK
<1> HIDE DEF W
<1> QED
  BY <1>7, <1>9, <1>10, <1>11 DEF WritesOK, S, n

-----------------------------------------------------------------------------
(* Requests: everything up to the commit *)

\* A request that ends its reads with a well-formed transaction changes no table.
LEMMA AcceptStep ==
  ASSUME IInv, NEW h \in Handlers, Free(h), NEW t, TxOK(t), Accept(h, t)
  PROVE  IInv'
<1>1. UNCHANGED <<members, expenses, splits, settlements, nextId>>
  BY DEF Accept
<1>2. tx' \in [Handlers -> Tx] /\ budget' \in Nat
  BY DEF IInv, TypeOK, Free, Accept, TxOK
<1>3. TypeOK'
  BY <1>1, <1>2 DEF IInv, TypeOK
<1>4. ASSUME NEW g \in Handlers PROVE TxOK(tx[g])'
  <2>1. tx'[g] = t \/ tx'[g] = tx[g]
    BY DEF IInv, TypeOK, Accept
  <2>2. TxOK(tx'[g])
    BY <2>1 DEF IInv
  <2> QED
    BY <1>1, <2>2 DEF TxOK, WritesOK, AddOK
<1>5. /\ (MembersOK /\ SplitsOK /\ NoOrphanSplits /\ OwnerStays)'
      /\ (InvitedOnce /\ DebtStaysVisible)'
  BY <1>1 DEF IInv, MembersOK, SplitsOK, NoOrphanSplits, OwnerStays,
              InvitedOnce, DebtStaysVisible
<1> QED
  BY <1>3, <1>4, <1>5 DEF IInv

\* The "splits" list an update is computed from: the payload's, or an empty one.
LEMMA ListedOK ==
  ASSUME NEW input \in ExactInputs \cup {None}
  PROVE  Merged(input, <<>>) \in Seq([user : Users, amount : Int])
<1> DEFINE Entry == [user : Users, amount : Int]
<1>1. ExactInputs \subseteq Seq(Entry)
  BY LedgerAssumption
<1> HIDE DEF Entry
<1>2. Merged(input, <<>>) \in Seq(Entry)
  BY <1>1 DEF Merged
<1> QED
  BY <1>2 DEF Entry

\* One lemma per request: the invariant survives its reads.
LEMMA BeginCreateStep ==
  ASSUME IInv, NEW h \in Handlers, BeginCreate(h)
  PROVE  IInv'
<1>1. PICK u \in Users, amount \in Amounts, payer \in Users, mode \in Modes,
           input \in ExactInputs :
        \E shares \in Calculations(amount, payer, mode, input) :
           Accept(h, [op |-> "create", amount |-> amount, payer |-> payer,
                      by |-> u, mode |-> mode, shares |-> shares])
  BY DEF BeginCreate
<1>2. PICK shares \in Calculations(amount, payer, mode, input) :
           Accept(h, [op |-> "create", amount |-> amount, payer |-> payer,
                      by |-> u, mode |-> mode, shares |-> shares])
  BY <1>1
<1> DEFINE t == [op |-> "create", amount |-> amount, payer |-> payer,
                 by |-> u, mode |-> mode, shares |-> shares]
<1>3. amount \in Nat /\ input \in Seq([user : Users, amount : Int])
  BY LedgerAssumption
<1>4. SharesOK(shares)
  BY <1>3, CalculationsOK DEF IInv, TypeOK
<1>5. t \in Tx
  BY <1>4 DEF Tx, SharesOK
<1>6. TxOK(t)
  BY <1>4, <1>5 DEF TxOK
<1>7. Free(h)
  BY DEF BeginCreate
<1> QED
  BY <1>2, <1>6, <1>7, AcceptStep

\* What an accepted update carries, whichever shares it computed.
UpdateTx(e, set, old, shares) ==
    [op |-> "update", exp |-> e.id, set |-> set, old |-> old, shares |-> shares]

\* Such a transaction is well formed.
LEMMA UpdateTxOK ==
  ASSUME IInv, NEW e \in expenses, NEW set \in Columns, NEW old \in SUBSET PKs,
         NEW shares, SharesOK(shares)
  PROVE  TxOK(UpdateTx(e, set, old, shares))
<1>1. e.id \in Nat
  BY DEF IInv, TypeOK, Expense
<1>2. UpdateTx(e, set, old, shares) \in Tx
  BY <1>1 DEF Tx, SharesOK, UpdateTx
<1> QED
  BY <1>2 DEF TxOK, UpdateTx

\* What an update leaves in the columns it may write.
UpdateSet(e, amount, payer, mode, recalculate) ==
    [amount |-> DirtyAmount(amount, e.amount),
     payer |-> Dirty(payer, e.payer),
     mode |-> Dirty(mode, e.mode),
     basis |-> IF recalculate THEN Merged(amount, Fine * e.amount) ELSE None]

\* The primary keys of the rows an update reads.
RowKeys(e) == {PK(s) : s \in {r \in splits : r.exp = e.id}}

\* What update_expense hands to its commit, with and without a recalculation.
LEMMA UpdateAccepted ==
  ASSUME NEW h \in Handlers, BeginUpdate(h)
  PROVE  \E e \in expenses, amount \in Amounts \cup {None},
            payer \in Users \cup {None}, mode \in Modes \cup {None},
            input \in ExactInputs \cup {None} :
           \/ Accept(h, UpdateTx(e, UpdateSet(e, amount, payer, mode, FALSE),
                                 {}, {}))
              /\ amount = None /\ mode = None
           \/ \E shares \in Calculations(Merged(amount, Fine * e.amount),
                                         Merged(payer, e.payer),
                                         Merged(mode, e.mode),
                                         Merged(input, <<>>)) :
                Accept(h, UpdateTx(e, UpdateSet(e, amount, payer, mode, TRUE),
                                   RowKeys(e), shares))
<1> DEFINE Set(e, amount, payer, mode, rec) ==
             [amount |-> DirtyAmount(amount, e.amount),
              payer |-> Dirty(payer, e.payer),
              mode |-> Dirty(mode, e.mode),
              basis |-> IF rec THEN Merged(amount, Fine * e.amount) ELSE None]
<1>0. PICK u \in Users, e \in expenses, amount \in Amounts \cup {None},
           payer \in Users \cup {None}, mode \in Modes \cup {None},
           input \in ExactInputs \cup {None} :
        LET recalculate == amount # None \/ mode # None \/ input # None
            set == Set(e, amount, payer, mode, recalculate)
        IN
        /\ IsMember(u)
        /\ \/ /\ ~recalculate
              /\ Accept(h, [op |-> "update", exp |-> e.id, set |-> set,
                            old |-> {}, shares |-> {}])
           \/ /\ recalculate
              /\ \E shares \in Calculations(Merged(amount, Fine * e.amount),
                                            Merged(payer, e.payer),
                                            Merged(mode, e.mode),
                                            Merged(input, <<>>)) :
                   Accept(h, [op |-> "update", exp |-> e.id, set |-> set,
                              old |-> RowKeys(e), shares |-> shares])
  BY Zenon DEF BeginUpdate, RowKeys
<1> DEFINE rec == amount # None \/ mode # None \/ input # None
<1>1. ~rec => rec = FALSE
  OBVIOUS
<1>2. rec => rec = TRUE
  OBVIOUS
<1>3. \A b : Set(e, amount, payer, mode, b) = UpdateSet(e, amount, payer, mode, b)
  BY DEF UpdateSet
<1> HIDE DEF Set
<1>4. CASE ~rec
  <2>1. Accept(h, [op |-> "update", exp |-> e.id,
                   set |-> Set(e, amount, payer, mode, rec),
                   old |-> {}, shares |-> {}])
    BY <1>0, <1>4, Zenon
  <2>2. Set(e, amount, payer, mode, rec) = UpdateSet(e, amount, payer, mode, FALSE)
    BY <1>1, <1>3, <1>4
  <2>3. amount = None /\ mode = None
    BY <1>4
  <2> QED
    BY <2>1, <2>2, <2>3, Zenon DEF UpdateTx
<1>5. CASE rec
  <2>1. PICK shares \in Calculations(Merged(amount, Fine * e.amount),
                                     Merged(payer, e.payer),
                                     Merged(mode, e.mode),
                                     Merged(input, <<>>)) :
          Accept(h, [op |-> "update", exp |-> e.id,
                     set |-> Set(e, amount, payer, mode, rec),
                     old |-> RowKeys(e), shares |-> shares])
    BY <1>0, <1>5, Zenon
  <2>2. Set(e, amount, payer, mode, rec) = UpdateSet(e, amount, payer, mode, TRUE)
    BY <1>2, <1>3, <1>5
  <2> QED
    BY <2>1, <2>2, Zenon DEF UpdateTx
<1> QED
  BY <1>4, <1>5

\* The columns are well formed.
LEMMA UpdateSetOK ==
  ASSUME TypeOK, NEW e \in expenses, NEW amount \in Amounts \cup {None},
         NEW payer \in Users \cup {None}, NEW mode \in Modes \cup {None},
         NEW recalculate \in BOOLEAN
  PROVE  /\ UpdateSet(e, amount, payer, mode, recalculate) \in Columns
         /\ Merged(amount, Fine * e.amount) \in Nat
         /\ Merged(payer, e.payer) \in Users /\ Merged(mode, e.mode) \in Modes
<1>1. /\ e.amount \in Nat /\ e.payer \in Users /\ e.mode \in Modes
      /\ amount # None => amount \in Nat
  BY LedgerAssumption DEF TypeOK, Expense
<1>2. Fine * e.amount \in Nat
  BY <1>1, MoneyKept
<1> DEFINE b == Fine * e.amount
           da == DirtyAmount(amount, e.amount)
           ba == IF recalculate THEN Merged(amount, b) ELSE None
           dp == Dirty(payer, e.payer)
           dm == Dirty(mode, e.mode)
<1>3. /\ Merged(amount, b) \in Nat
      /\ Merged(payer, e.payer) \in Users /\ Merged(mode, e.mode) \in Modes
  BY <1>1, <1>2 DEF Merged
<1>4. da \in Nat \cup {None} /\ ba \in Nat \cup {None}
  BY <1>1, <1>3, MoneyKept DEF DirtyAmount
<1>5. dp \in Users \cup {None} /\ dm \in Modes \cup {None}
  BY DEF Dirty
<1>6. UpdateSet(e, amount, payer, mode, recalculate)
        = [amount |-> da, payer |-> dp, mode |-> dm, basis |-> ba]
  BY DEF UpdateSet
<1> HIDE DEF da, ba, dp, dm
<1>7. UpdateSet(e, amount, payer, mode, recalculate) \in Columns
  BY <1>4, <1>5, <1>6 DEF Columns
<1> QED
  BY <1>3, <1>7

LEMMA BeginUpdateStep ==
  ASSUME IInv, NEW h \in Handlers, BeginUpdate(h)
  PROVE  IInv'
<1>0. PICK e \in expenses, amount \in Amounts \cup {None},
           payer \in Users \cup {None}, mode \in Modes \cup {None},
           input \in ExactInputs \cup {None} :
           \/ Accept(h, UpdateTx(e, UpdateSet(e, amount, payer, mode, FALSE),
                                 {}, {}))
              /\ amount = None /\ mode = None
           \/ \E shares \in Calculations(Merged(amount, Fine * e.amount),
                                         Merged(payer, e.payer),
                                         Merged(mode, e.mode),
                                         Merged(input, <<>>)) :
                Accept(h, UpdateTx(e, UpdateSet(e, amount, payer, mode, TRUE),
                                   RowKeys(e), shares))
  BY UpdateAccepted
<1>1. TypeOK
  BY DEF IInv
<1>2. /\ \A b \in BOOLEAN : UpdateSet(e, amount, payer, mode, b) \in Columns
      /\ Merged(amount, Fine * e.amount) \in Nat
      /\ Merged(payer, e.payer) \in Users /\ Merged(mode, e.mode) \in Modes
  BY <1>1, UpdateSetOK
<1>3. Free(h)
  BY DEF BeginUpdate
<1>4. CASE Accept(h, UpdateTx(e, UpdateSet(e, amount, payer, mode, FALSE), {}, {}))
  <2>1. SharesOK({})
    BY FS_EmptySet DEF SharesOK
  <2>2. TxOK(UpdateTx(e, UpdateSet(e, amount, payer, mode, FALSE), {}, {}))
    BY <1>2, <2>1, UpdateTxOK
  <2> QED
    BY <1>3, <1>4, <2>2, AcceptStep
<1>5. ASSUME NEW shares \in Calculations(Merged(amount, Fine * e.amount),
                                        Merged(payer, e.payer),
                                        Merged(mode, e.mode),
                                        Merged(input, <<>>)),
             Accept(h, UpdateTx(e, UpdateSet(e, amount, payer, mode, TRUE),
                                RowKeys(e), shares))
      PROVE  IInv'
  <2>1. RowKeys(e) \subseteq PKs
    BY DEF IInv, TypeOK, Split, PK, PKs, RowKeys
  <2>4. SharesOK(shares)
    BY <1>2, ListedOK, CalculationsOK DEF IInv, TypeOK
  <2>5. TxOK(UpdateTx(e, UpdateSet(e, amount, payer, mode, TRUE), RowKeys(e), shares))
    BY <1>2, <2>1, <2>4, UpdateTxOK
  <2> QED
    BY <1>3, <1>5, <2>5, AcceptStep
<1> QED
  BY <1>0, <1>4, <1>5

\* delete_expense.
LEMMA BeginDeleteStep ==
  ASSUME IInv, NEW h \in Handlers, BeginDelete(h)
  PROVE  IInv'
<1>1. PICK e \in expenses : Accept(h, [op |-> "delete", exp |-> e.id])
  BY DEF BeginDelete
<1>2. e.id \in Nat
  BY DEF IInv, TypeOK, Expense
<1>3. TxOK([op |-> "delete", exp |-> e.id])
  BY <1>2 DEF TxOK, Tx
<1> QED
  BY <1>1, <1>3, AcceptStep DEF BeginDelete

\* What create_settlement hands to its commit.
SettleTx(from, to, amount, q, left) ==
    [op |-> "settle", from |-> from, to |-> to, amount |-> amount,
     read |-> Open(from, to),
     writes |-> WritesOf(q, Cardinality(Open(from, to)), left)]

LEMMA SettleAccepted ==
  ASSUME NEW h \in Handlers, BeginSettle(h)
  PROVE  \E from \in Users, to \in Users, amount \in Payments :
         \E q \in Listings(Open(from, to)) :
         \E left \in Walks(OwedOf(q, Cardinality(Open(from, to))),
                           Cardinality(Open(from, to)), amount) :
           Accept(h, SettleTx(from, to, amount, q, left))
<1>1. PICK u \in Users, from \in Users, to \in Users, amount \in Payments :
         LET S == Open(from, to)
             n == Cardinality(S)
         IN \E q \in Listings(S) :
            \E left \in Walks([i \in 1 .. n |-> q[i].owed], n, amount) :
              Accept(h, [op |-> "settle", from |-> from, to |-> to,
                         amount |-> amount, read |-> S,
                         writes |-> WritesOf(q, n, left)])
  BY DEF BeginSettle
<1> DEFINE n == Cardinality(Open(from, to))
<1>2. PICK q \in Listings(Open(from, to)) :
        \E left \in Walks([i \in 1 .. n |-> q[i].owed], n, amount) :
           Accept(h, [op |-> "settle", from |-> from, to |-> to, amount |-> amount,
                      read |-> Open(from, to), writes |-> WritesOf(q, n, left)])
  BY <1>1
<1>3. PICK left \in Walks([i \in 1 .. n |-> q[i].owed], n, amount) :
        Accept(h, [op |-> "settle", from |-> from, to |-> to, amount |-> amount,
                   read |-> Open(from, to), writes |-> WritesOf(q, n, left)])
  BY <1>2
<1>4. left \in Walks(OwedOf(q, n), n, amount)
  BY DEF OwedOf
<1>5. Accept(h, SettleTx(from, to, amount, q, left))
  BY <1>3 DEF SettleTx
<1> QED
  BY <1>4, <1>5

\* create_settlement: the walk only yields writes as WalkOK describes them.
LEMMA BeginSettleStep ==
  ASSUME IInv, NEW h \in Handlers, BeginSettle(h)
  PROVE  IInv'
<1>1. PICK from \in Users, to \in Users, amount \in Payments :
        \E q \in Listings(Open(from, to)) :
        \E left \in Walks(OwedOf(q, Cardinality(Open(from, to))),
                          Cardinality(Open(from, to)), amount) :
           Accept(h, SettleTx(from, to, amount, q, left))
  BY SettleAccepted
<1> DEFINE n == Cardinality(Open(from, to))
<1>2. PICK q \in Listings(Open(from, to)) :
        \E left \in Walks(OwedOf(q, n), n, amount) :
           Accept(h, SettleTx(from, to, amount, q, left))
  BY <1>1
<1>0. PICK left \in Walks(OwedOf(q, n), n, amount) :
        Accept(h, SettleTx(from, to, amount, q, left))
  BY <1>2
<1>3. amount \in Nat
  BY LedgerAssumption
<1>4. WritesOK(WritesOf(q, n, left), from, amount)
  BY <1>3, WalkOK DEF IInv
<1>5. Open(from, to) \subseteq Split
  BY DEF IInv, TypeOK, Open
<1> DEFINE t == SettleTx(from, to, amount, q, left)
<1>6. t \in Tx
  BY <1>4, <1>5 DEF Tx, WritesOK, SettleTx
<1>7. TxOK(t)
  BY <1>4, <1>6 DEF TxOK, SettleTx
<1> HIDE DEF t
<1> QED
  BY <1>0, <1>7, AcceptStep DEF BeginSettle, t

\* add_member_by_email.
LEMMA BeginAddStep ==
  ASSUME IInv, NEW h \in Handlers, BeginAdd(h)
  PROVE  IInv'
<1> DEFINE t(user) == [op |-> "add", user |-> user, checked |-> nextId]
<1>1. PICK user \in Users : Absent(user) /\ Accept(h, t(user))
  BY DEF BeginAdd
<1>2. nextId \in Nat
  BY DEF IInv, TypeOK
<1>3. AddOK(t(user))
  BY <1>1, <1>2 DEF AddOK, Absent, Rows
<1>4. TxOK(t(user))
  BY <1>2, <1>3 DEF TxOK, Tx
<1> HIDE DEF t
<1> QED
  BY <1>1, <1>4, AcceptStep DEF BeginAdd

\* remove_member never picks a row with role owner.
LEMMA BeginRemoveStep ==
  ASSUME IInv, NEW h \in Handlers, BeginRemove(h)
  PROVE  IInv'
<1>1. PICK m \in members : Removable(m) /\ Accept(h, [op |-> "remove", row |-> m])
  BY DEF BeginRemove
<1>2. TxOK([op |-> "remove", row |-> m])
  BY <1>1 DEF IInv, TypeOK, TxOK, Tx, Removable
<1> QED
  BY <1>1, <1>2, AcceptStep DEF BeginRemove

-----------------------------------------------------------------------------
(* Commits and rollbacks *)

\* The fields of what a handler holds, by operation.
LEMMA TxFields ==
  ASSUME NEW t \in Tx
  PROVE  /\ t.op = "create" => /\ t.amount \in Amounts /\ t.payer \in Users
                              /\ t.by \in Users /\ t.mode \in Modes
         /\ t.op = "update" => t.exp \in Nat /\ t.set \in Columns
         /\ t.op = "settle" => /\ t.from \in Users /\ t.to \in Users
                              /\ t.amount \in Payments
         /\ t.op = "add" => t.user \in Users /\ t.checked \in Nat
         /\ t.op = "remove" => t.row \in Member
BY DEF Tx, Idle

\* A table change that keeps the history of the rows it keeps, and numbers new
\* rows with the fresh key, leaves what the other handlers hold valid.
RowsKept ==
    /\ nextId' = nextId + 1
    /\ \A r \in splits' : \/ r.calc = nextId
                           \/ \E s \in splits : PK(s) = PK(r) /\ s.due = r.due
    /\ \A m \in members' : m \in members \/ m.id = nextId

\* The writes a settlement holds stay valid while other handlers commit.
LEMMA WritesStay ==
  ASSUME nextId \in Nat, RowsKept, NEW W, NEW from, NEW amount,
         WritesOK(W, from, amount)
  PROVE  WritesOK(W, from, amount)'
<1>1. ASSUME NEW w \in W
      PROVE  w.row[1] \in Nat /\ w.row[1] < nextId /\ w.row[1] < nextId'
  BY DEF WritesOK, Write, PKs, RowsKept
<1>2. ASSUME NEW w \in W, ~w.settled, NEW r \in splits', PK(r) = w.row
      PROVE  w.owed <= r.due
  <2>1. w.row[1] = r.calc
    BY <1>2 DEF PK
  <2>2. r.calc # nextId
    BY <1>1, <2>1
  <2>3. PICK s \in splits : PK(s) = PK(r) /\ s.due = r.due
    BY <2>2 DEF RowsKept
  <2> QED
    BY <1>2, <2>3 DEF WritesOK
<1>3. \A r \in splits' : PK(r)' = PK(r)
  BY DEF PK
<1> QED
  BY <1>1, <1>2, <1>3 DEF WritesOK

\* So does everything a handler holds.
LEMMA TxStays ==
  ASSUME nextId \in Nat, RowsKept, NEW t, TxOK(t)
  PROVE  TxOK(t)'
<1>1. t.op = "settle" => WritesOK(t.writes, t.from, t.amount)'
  BY WritesStay DEF TxOK
<1>2. t.op = "add" => AddOK(t)'
  <2> SUFFICES ASSUME t.op = "add" PROVE AddOK(t)'
    OBVIOUS
  <2>1. t.checked \in Nat /\ t.checked <= nextId /\ nextId' = nextId + 1
    BY TxFields DEF TxOK, AddOK, RowsKept
  <2>2. \A m \in members' : m.user = t.user => t.checked <= m.id
    BY <2>1 DEF TxOK, AddOK, RowsKept
  <2> QED
    BY <2>1, <2>2 DEF AddOK
<1> QED
  BY <1>1, <1>2 DEF TxOK, SharesOK

\* After a commit the handler is idle and the others are untouched.
LEMMA CommitFrame ==
  ASSUME IInv, NEW h \in Handlers, Done(h), RowsKept
  PROVE  /\ tx' \in [Handlers -> Tx] /\ nextId' \in Nat /\ budget' \in Nat
         /\ nextId' = nextId + 1
         /\ \A g \in Handlers : TxOK(tx[g])'
<1>1. nextId \in Nat /\ nextId' = nextId + 1 /\ budget' \in Nat
  BY DEF IInv, TypeOK, Done
<1>2. Idle \in Tx /\ Idle.op = "idle"
  BY DEF Tx, Idle
<1>3. tx' \in [Handlers -> Tx]
  BY <1>2 DEF IInv, TypeOK, Done
<1>4. ASSUME NEW g \in Handlers PROVE TxOK(tx[g])'
  <2>1. tx'[g] = Idle \/ tx'[g] = tx[g]
    BY DEF IInv, TypeOK, Done
  <2>2. TxOK(tx'[g])
    BY <1>2, <2>1 DEF IInv, TxOK
  <2> QED
    BY <1>1, <2>2, TxStays
<1> QED
  BY <1>1, <1>3, <1>4

\* One lemma per commit: a new expense comes with rows that have fresh keys.
LEMMA CommitCreateStep ==
  ASSUME IInv, NEW h \in Handlers, CommitCreate(h)
  PROVE  IInv'
<1> DEFINE t == tx[h]
           R == SplitRows(nextId, nextId, t.shares)
           e == [id |-> nextId, amount |-> Stored(t.amount), payer |-> t.payer,
                 by |-> t.by, mode |-> t.mode, basis |-> t.amount]
<1>1. /\ t.op = "create" /\ Done(h)
      /\ expenses' = expenses \cup {e}
      /\ splits' = splits \cup R
      /\ members' = members /\ settlements' = settlements
  BY DEF CommitCreate
<1>2. TxOK(t) /\ nextId \in Nat
  BY DEF IInv, TypeOK
<1>3. e \in Expense /\ e.id = nextId
  <2>1. /\ t.amount \in Nat /\ t.payer \in Users /\ t.by \in Users
        /\ t.mode \in Modes
    BY <1>1, <1>2, TxFields, LedgerAssumption DEF TxOK
  <2>2. Stored(t.amount) \in Nat
    BY <2>1, MoneyKept
  <2> QED
    BY <1>2, <2>1, <2>2 DEF Expense
<1>4. SharesOK(t.shares)
  BY <1>1, <1>2 DEF TxOK
<1> HIDE DEF e, t
<1>5. /\ R \subseteq Split /\ IsFiniteSet(R)
      /\ \A r \in R : /\ r.exp = nextId /\ r.calc = nextId /\ r.owed = r.due
                      /\ ~r.settled
      /\ \A r, s \in R : PK(r) = PK(s) => r = s
  BY <1>2, <1>4, SplitRowsOK
<1> HIDE DEF R
<1>6. /\ tx' \in [Handlers -> Tx] /\ nextId' \in Nat /\ budget' \in Nat
      /\ nextId' = nextId + 1
      /\ \A g \in Handlers : TxOK(tx[g])'
  BY <1>1, <1>5, CommitFrame DEF RowsKept, Done
<1>7. TypeOK'
  BY <1>1, <1>3, <1>5, <1>6 DEF IInv, TypeOK
<1>8. MembersOK'
  BY <1>1, <1>6 DEF IInv, TypeOK, MembersOK, Member
<1>9. SplitsOK'
  <2>1. IsFiniteSet(splits')
    BY <1>1, <1>5, FS_Union DEF IInv, SplitsOK
  <2>2. \A s \in splits : s.calc \in Nat /\ s.calc < nextId
    BY DEF IInv, SplitsOK, TypeOK, Split
  <2>3. \A s \in splits' : s.calc < nextId'
    BY <1>1, <1>2, <1>5, <1>6, <2>2
  <2>4. \A r \in splits, s \in R : PK(r) # PK(s)
    BY <1>2, <1>5, <2>2 DEF PK
  <2>5. \A r, s \in splits' : PK(r) = PK(s) => r = s
    BY <1>1, <1>5, <2>4 DEF IInv, SplitsOK
  <2> QED
    BY <2>1, <2>3, <2>5 DEF SplitsOK, PK
<1>10. NoOrphanSplits'
  BY <1>1, <1>3, <1>5 DEF IInv, NoOrphanSplits
<1>11. OwnerStays' /\ InvitedOnce'
  BY <1>1 DEF IInv, OwnerStays, InvitedOnce
<1>12. DebtStaysVisible'
  <2>1. \A r \in R : r.owed \in Int /\ r.owed = r.due
    BY <1>5 DEF Split
  <2> QED
    BY <1>1, <2>1 DEF IInv, DebtStaysVisible
<1> QED
  BY <1>6, <1>7, <1>8, <1>9, <1>10, <1>11, <1>12 DEF IInv

\* Rows that were read are replaced by rows of a fresh calculation.
LEMMA CommitUpdateStep ==
  ASSUME IInv, NEW h \in Handlers, CommitUpdate(h)
  PROVE  IInv'
<1> DEFINE t == tx[h]
           R == SplitRows(t.exp, nextId, t.shares)
           K == {s \in splits : PK(s) \notin t.old}
<1>1. PICK e \in expenses :
        /\ t.op = "update" /\ Done(h)
        /\ e.id = t.exp
        /\ expenses' = (expenses \ {e}) \cup {Overwrite(e, t.set)}
        /\ splits' = K \cup R
        /\ members' = members /\ settlements' = settlements
  BY DEF CommitUpdate
<1>2. TxOK(t) /\ nextId \in Nat /\ e \in Expense
  BY DEF IInv, TypeOK
<1>3. t.set \in Columns /\ t.exp \in Nat
  BY <1>1, <1>2, TxFields DEF TxOK
<1>4. Overwrite(e, t.set) \in Expense /\ Overwrite(e, t.set).id = t.exp
  <2>1. /\ e.id \in Nat /\ e.amount \in Nat /\ e.payer \in Users
        /\ e.by \in Users /\ e.mode \in Modes /\ e.basis \in Nat
    BY <1>2 DEF Expense
  <2>2. /\ t.set.amount \in Nat \cup {None} /\ t.set.payer \in Users \cup {None}
        /\ t.set.mode \in Modes \cup {None} /\ t.set.basis \in Nat \cup {None}
    BY <1>3 DEF Columns
  <2>3. /\ Merged(t.set.amount, e.amount) \in Nat
        /\ Merged(t.set.payer, e.payer) \in Users
        /\ Merged(t.set.mode, e.mode) \in Modes
        /\ Merged(t.set.basis, e.basis) \in Nat
    BY <2>1, <2>2 DEF Merged
  <2> HIDE DEF t
  <2> QED
    BY <1>1, <1>2, <2>3 DEF Overwrite, Expense
<1>5. SharesOK(t.shares)
  BY <1>1, <1>2 DEF TxOK
<1> HIDE DEF t
<1>6. /\ R \subseteq Split /\ IsFiniteSet(R)
      /\ \A r \in R : /\ r.exp = t.exp /\ r.calc = nextId /\ r.owed = r.due
                      /\ ~r.settled
      /\ \A r, s \in R : PK(r) = PK(s) => r = s
  BY <1>2, <1>3, <1>5, SplitRowsOK
<1>7. K \subseteq splits
  OBVIOUS
<1> HIDE DEF R, K
<1>8. /\ tx' \in [Handlers -> Tx] /\ nextId' \in Nat /\ budget' \in Nat
      /\ nextId' = nextId + 1
      /\ \A g \in Handlers : TxOK(tx[g])'
  BY <1>1, <1>6, <1>7, CommitFrame DEF RowsKept, Done
<1>9. TypeOK'
  BY <1>1, <1>4, <1>6, <1>7, <1>8 DEF IInv, TypeOK
<1>10. MembersOK'
  BY <1>1, <1>8 DEF IInv, TypeOK, MembersOK, Member
<1>11. SplitsOK'
  <2>1. IsFiniteSet(splits')
    BY <1>1, <1>6, <1>7, FS_Union, FS_Subset DEF IInv, SplitsOK
  <2>2. \A s \in splits : s.calc \in Nat /\ s.calc < nextId
    BY DEF IInv, SplitsOK, TypeOK, Split
  <2>3. \A s \in splits' : s.calc < nextId'
    BY <1>1, <1>2, <1>6, <1>7, <1>8, <2>2
  <2>4. \A r \in splits, s \in R : PK(r) # PK(s)
    BY <1>2, <1>6, <2>2 DEF PK
  <2>5. \A r, s \in splits' : PK(r) = PK(s) => r = s
    BY <1>1, <1>6, <1>7, <2>4 DEF IInv, SplitsOK
  <2> QED
    BY <2>1, <2>3, <2>5 DEF SplitsOK, PK
<1>12. NoOrphanSplits'
  <2>1. \A f \in expenses : \E g \in expenses' : g.id = f.id
    BY <1>1, <1>4
  <2> QED
    BY <1>1, <1>4, <1>6, <1>7, <2>1 DEF IInv, NoOrphanSplits
<1>13. OwnerStays' /\ InvitedOnce'
  BY <1>1 DEF IInv, OwnerStays, InvitedOnce
<1>14. DebtStaysVisible'
  <2>1. \A r \in R : r.owed \in Int /\ r.owed = r.due
    BY <1>6 DEF Split
  <2> QED
    BY <1>1, <1>7, <2>1 DEF IInv, DebtStaysVisible
<1> QED
  BY <1>8, <1>9, <1>10, <1>11, <1>12, <1>13, <1>14 DEF IInv

\* Expense and rows go together.
LEMMA CommitDeleteStep ==
  ASSUME IInv, NEW h \in Handlers, CommitDelete(h)
  PROVE  IInv'
<1> DEFINE t == tx[h]
<1>1. /\ Done(h)
      /\ expenses' = {e \in expenses : e.id # t.exp}
      /\ splits' = {s \in splits : s.exp # t.exp}
      /\ members' = members /\ settlements' = settlements
  BY DEF CommitDelete, SplitsWithout
<1> HIDE DEF t
<1>2. expenses' \subseteq expenses /\ splits' \subseteq splits
  BY <1>1
<1>3. /\ tx' \in [Handlers -> Tx] /\ nextId' \in Nat /\ budget' \in Nat
      /\ nextId' = nextId + 1
      /\ \A g \in Handlers : TxOK(tx[g])'
  BY <1>1, <1>2, CommitFrame DEF RowsKept, Done
<1>4. TypeOK'
  BY <1>1, <1>2, <1>3 DEF IInv, TypeOK
<1>5. MembersOK'
  BY <1>1, <1>3 DEF IInv, TypeOK, MembersOK, Member
<1>6. SplitsOK'
  <2>1. IsFiniteSet(splits')
    BY <1>2, FS_Subset DEF IInv, SplitsOK
  <2>2. \A s \in splits : s.calc \in Nat /\ s.calc < nextId'
    BY <1>3 DEF IInv, SplitsOK, TypeOK, Split
  <2> QED
    BY <1>2, <2>1, <2>2 DEF IInv, SplitsOK, PK
<1>7. NoOrphanSplits'
  BY <1>1 DEF IInv, NoOrphanSplits
<1>8. OwnerStays' /\ InvitedOnce' /\ DebtStaysVisible'
  BY <1>1, <1>2 DEF IInv, OwnerStays, InvitedOnce, DebtStaysVisible
<1> QED
  BY <1>3, <1>4, <1>5, <1>6, <1>7, <1>8 DEF IInv

\* Why a row is at zero: what was paid before or is being paid.
ZeroExplained(r, from, amount) ==
    r.due > 0 /\ r.owed = 0 =>
        \/ \E p \in settlements : p.from = r.user /\ ~Whole(p.exact)
        \/ r.user = from /\ ~Whole(amount)

\* The rows a committed settlement leaves are the rows there were, each with at
\* most one write applied to it.
LEMMA ApplyOK ==
  ASSUME IInv, NEW W, NEW from, NEW amount, WritesOK(W, from, amount)
  PROVE  /\ \A r \in Apply(W) : \E s \in splits :
              \/ r = s /\ \A w \in W : w.row # PK(s)
              \/ \E w \in W : w.row = PK(s) /\ r = ApplyWrite(s, w)
         /\ \A r \in Apply(W) : r \in Split
         /\ \A r \in Apply(W) : \E s \in splits :
              PK(s) = PK(r) /\ s.due = r.due /\ s.exp = r.exp /\ s.calc = r.calc
         /\ \A q, r \in Apply(W) : PK(q) = PK(r) => q = r
         /\ IsFiniteSet(Apply(W))
         /\ \A r \in Apply(W) : r.owed <= r.due /\ ZeroExplained(r, from, amount)
<1>1. \A r \in Apply(W) : \E s \in splits :
        \/ r = s /\ \A w \in W : w.row # PK(s)
        \/ \E w \in W : w.row = PK(s) /\ r = ApplyWrite(s, w)
  BY DEF Apply
<1>2. ASSUME NEW s \in splits, NEW w \in W, w.row = PK(s)
      PROVE  LET r == ApplyWrite(s, w) IN
             /\ r \in Split
             /\ PK(r) = PK(s) /\ s.due = r.due /\ s.exp = r.exp /\ s.calc = r.calc
             /\ r.owed <= r.due /\ ZeroExplained(r, from, amount)
  <2>1. s \in Split /\ s.owed <= s.due /\ ZeroExplained(s, from, amount)
    BY DEF IInv, TypeOK, DebtStaysVisible, ZeroExplained
  <2>2. /\ w \in Write /\ s.user = from
        /\ ~w.settled => w.owed <= s.due /\ (w.owed = 0 => ~Whole(amount))
    BY <1>2 DEF WritesOK, PK
  <2>3. CASE w.settled
    <3>1. ApplyWrite(s, w) = [s EXCEPT !.settled = TRUE]
      BY <2>3 DEF ApplyWrite
    <3> QED
      BY <2>1, <3>1 DEF Split, PK, ZeroExplained
  <2>4. CASE ~w.settled
    <3>1. ApplyWrite(s, w) = [s EXCEPT !.owed = w.owed]
      BY <2>4 DEF ApplyWrite
    <3>2. w.owed \in Nat
      BY <2>2 DEF Write
    <3> QED
      BY <2>1, <2>2, <2>4, <3>1, <3>2 DEF Split, PK, ZeroExplained
  <2> QED
    BY <2>3, <2>4
<1>3. \A r \in Apply(W) : \E s \in splits :
        /\ PK(s) = PK(r) /\ s.due = r.due /\ s.exp = r.exp /\ s.calc = r.calc
        /\ r \in Split /\ r.owed <= r.due /\ ZeroExplained(r, from, amount)
  <2>1. \A s \in splits : /\ s \in Split /\ s.owed <= s.due
                         /\ ZeroExplained(s, from, amount)
    BY DEF IInv, TypeOK, DebtStaysVisible, ZeroExplained
  <2> QED
    BY <1>1, <1>2, <2>1
<1>4. ASSUME NEW q \in Apply(W), NEW r \in Apply(W), PK(q) = PK(r)
      PROVE  q = r
  <2>1. PICK s \in splits :
          \/ q = s /\ \A w \in W : w.row # PK(s)
          \/ \E w \in W : w.row = PK(s) /\ q = ApplyWrite(s, w)
    BY <1>1
  <2>2. PICK p \in splits :
          \/ r = p /\ \A w \in W : w.row # PK(p)
          \/ \E w \in W : w.row = PK(p) /\ r = ApplyWrite(p, w)
    BY <1>1
  <2>3. PK(q) = PK(s) /\ PK(r) = PK(p)
    BY <1>2, <2>1, <2>2
  <2>4. s = p
    BY <1>4, <2>3 DEF IInv, SplitsOK
  <2> QED
    BY <2>1, <2>2, <2>4 DEF WritesOK
<1>5. IsFiniteSet(Apply(W))
  <2> DEFINE A == Apply(W)
             f == [r \in A |-> CHOOSE s \in splits : PK(s) = PK(r)]
  <2> HIDE DEF A
  <2>1. \A r \in A : f[r] \in splits /\ PK(f[r]) = PK(r)
    BY <1>3 DEF A
  <2>2. f \in [A -> splits]
    BY <2>1
  <2>3. \A q, r \in A : f[q] = f[r] => q = r
    BY <1>4, <2>1 DEF A
  <2> HIDE DEF f
  <2>4. f \in Injection(A, splits)
    BY <2>2, <2>3 DEF Injection, IsInjective
  <2> QED
    BY <2>4, FS_Injection DEF IInv, SplitsOK, A
<1> QED
  BY <1>1, <1>3, <1>4, <1>5

\* The payment is recorded together with the writes of its walk.
LEMMA CommitSettleStep ==
  ASSUME IInv, NEW h \in Handlers, CommitSettle(h)
  PROVE  IInv'
<1> DEFINE t == tx[h]
           p == [id |-> nextId, from |-> t.from, to |-> t.to,
                 amount |-> Stored(t.amount), exact |-> t.amount]
           from == t.from
           amount == t.amount
<1>1. /\ t.op = "settle" /\ Done(h)
      /\ splits' = Apply(t.writes)
      /\ settlements' = settlements \cup {p}
      /\ members' = members /\ expenses' = expenses
  BY DEF CommitSettle
<1>2. TxOK(t) /\ nextId \in Nat
  BY DEF IInv, TypeOK
<1>3. p \in Settlement /\ p.from = from /\ p.exact = amount
  <2>1. t.from \in Users /\ t.to \in Users /\ t.amount \in Nat
    BY <1>1, <1>2, TxFields, LedgerAssumption DEF TxOK
  <2>2. Stored(t.amount) \in Nat
    BY <2>1, MoneyKept
  <2> QED
    BY <1>2, <2>1, <2>2 DEF Settlement
<1>4. WritesOK(t.writes, from, amount)
  BY <1>1, <1>2 DEF TxOK
<1> HIDE DEF t, p, from, amount
<1>5. /\ \A r \in splits' : r \in Split
      /\ \A r \in splits' : \E s \in splits :
           PK(s) = PK(r) /\ s.due = r.due /\ s.exp = r.exp /\ s.calc = r.calc
      /\ \A q, r \in splits' : PK(q) = PK(r) => q = r
      /\ IsFiniteSet(splits')
      /\ \A r \in splits' : r.owed <= r.due /\ ZeroExplained(r, from, amount)
  BY <1>1, <1>4, ApplyOK
<1>6. /\ tx' \in [Handlers -> Tx] /\ nextId' \in Nat /\ budget' \in Nat
      /\ nextId' = nextId + 1
      /\ \A g \in Handlers : TxOK(tx[g])'
  BY <1>1, <1>5, CommitFrame DEF RowsKept, Done
<1>7. TypeOK'
  BY <1>1, <1>3, <1>5, <1>6 DEF IInv, TypeOK
<1>8. MembersOK'
  BY <1>1, <1>6 DEF IInv, TypeOK, MembersOK, Member
<1>9. SplitsOK'
  <2>1. \A s \in splits : s.calc \in Nat /\ s.calc < nextId'
    BY <1>6 DEF IInv, SplitsOK, TypeOK, Split
  <2> QED
    BY <1>5, <2>1 DEF SplitsOK, PK
<1>10. NoOrphanSplits'
  BY <1>1, <1>5 DEF IInv, NoOrphanSplits
<1>11. OwnerStays' /\ InvitedOnce'
  BY <1>1 DEF IInv, OwnerStays, InvitedOnce
<1>12. DebtStaysVisible'
  BY <1>1, <1>3, <1>5 DEF DebtStaysVisible, ZeroExplained
<1> QED
  BY <1>6, <1>7, <1>8, <1>9, <1>10, <1>11, <1>12 DEF IInv

\* The steps that leave the split rows alone.
LEMMA MemberStep ==
  ASSUME IInv, NEW h \in Handlers, Done(h),
         UNCHANGED <<expenses, splits, settlements>>,
         members' \subseteq Member, MembersOK', OwnerStays', InvitedOnce',
         \A m \in members' : m \in members \/ m.id = nextId
  PROVE  IInv'
<1>1. /\ tx' \in [Handlers -> Tx] /\ nextId' \in Nat /\ budget' \in Nat
      /\ nextId' = nextId + 1
      /\ \A g \in Handlers : TxOK(tx[g])'
  BY CommitFrame DEF RowsKept, Done
<1>2. TypeOK'
  BY <1>1 DEF IInv, TypeOK
<1>3. SplitsOK'
  <2>1. \A s \in splits : s.calc \in Nat /\ s.calc < nextId'
    BY <1>1 DEF IInv, SplitsOK, TypeOK, Split
  <2> QED
    BY <2>1 DEF IInv, SplitsOK, PK
<1> QED
  BY <1>1, <1>2, <1>3 DEF IInv, NoOrphanSplits, DebtStaysVisible

\* A new member row has a fresh key.
LEMMA CommitAddStep ==
  ASSUME IInv, NEW h \in Handlers, CommitAdd(h)
  PROVE  IInv'
<1> DEFINE t == tx[h]
           m == [id |-> nextId, user |-> t.user, role |-> "member",
                 checked |-> t.checked]
<1>1. t.op = "add" /\ Done(h) /\ members' = members \cup {m}
  BY DEF CommitAdd
<1>2. /\ nextId \in Nat /\ nextId' = nextId + 1 /\ t.user \in Users
      /\ t.checked \in Nat /\ AddOK(t)
  BY <1>1, TxFields DEF IInv, TypeOK, TxOK, Done
<1>3. /\ m \in Member /\ m.id = nextId /\ m.user = t.user
      /\ m.checked = t.checked
  BY <1>2 DEF Member, Roles
<1> HIDE DEF m, t
<1>4. \A k \in members : k.id \in Nat /\ k.id < nextId
  BY DEF IInv, TypeOK, MembersOK, Member
<1>5. MembersOK'
  <2>1. IsFiniteSet(members')
    BY <1>1, FS_AddElement DEF IInv, MembersOK
  <2>2. \A k \in members' : k.id < nextId'
    BY <1>1, <1>2, <1>3, <1>4
  <2>3. \A k, l \in members' : k.id = l.id /\ k.user = l.user => k = l
    BY <1>1, <1>2, <1>3, <1>4 DEF IInv, MembersOK
  <2> QED
    BY <2>1, <2>2, <2>3 DEF MembersOK
<1>6. /\ members' \subseteq Member /\ OwnerStays'
      /\ \A k \in members' : k \in members \/ k.id = nextId
  BY <1>1, <1>3 DEF IInv, TypeOK, OwnerStays
<1>7. InvitedOnce'
  <2> SUFFICES ASSUME NEW k \in members', NEW n \in members',
                      k.user = n.user, k.id < n.id
               PROVE  n.checked <= k.id
    BY DEF InvitedOnce
  <2>1. k \in members
    BY <1>1, <1>2, <1>3, <1>4
  <2>2. CASE n \in members
    BY <2>1, <2>2 DEF IInv, InvitedOnce
  <2>3. CASE n = m
    BY <1>2, <1>3, <2>1, <2>3 DEF AddOK
  <2> QED
    BY <1>1, <2>2, <2>3
<1> QED
  BY <1>1, <1>5, <1>6, <1>7, MemberStep DEF CommitAdd

\* The row that goes is no owner's.
LEMMA CommitRemoveStep ==
  ASSUME IInv, NEW h \in Handlers, CommitRemove(h)
  PROVE  IInv'
<1>1. /\ tx[h].op = "remove" /\ Done(h)
      /\ members' = members \ {tx[h].row}
  BY DEF CommitRemove
<1>2. nextId \in Nat /\ nextId' = nextId + 1 /\ tx[h].row.role # "owner"
  BY <1>1 DEF IInv, TypeOK, TxOK, Done
<1>3. MembersOK'
  <2>1. \A k \in members : k.id \in Nat /\ k.id < nextId'
    BY <1>2 DEF IInv, TypeOK, MembersOK, Member
  <2>2. IsFiniteSet(members')
    BY <1>1, FS_RemoveElement DEF IInv, MembersOK
  <2> QED
    BY <1>1, <2>1, <2>2 DEF IInv, MembersOK
<1>4. members' \subseteq Member /\ OwnerStays' /\ InvitedOnce'
  BY <1>1, <1>2 DEF IInv, TypeOK, OwnerStays, InvitedOnce
<1> QED
  BY <1>1, <1>3, <1>4, MemberStep DEF CommitRemove

\* A session that ends without a commit changes no table.
LEMMA RollbackStep ==
  ASSUME IInv, NEW h \in Handlers, Rollback(h)
  PROVE  IInv'
<1>1. /\ tx' = [tx EXCEPT ![h] = Idle]
      /\ UNCHANGED <<members, expenses, splits, settlements, nextId, budget>>
  BY DEF Rollback
<1>2. Idle \in Tx /\ Idle.op = "idle"
  BY DEF Tx, Idle
<1>3. TypeOK'
  BY <1>1, <1>2 DEF IInv, TypeOK
<1>4. ASSUME NEW g \in Handlers PROVE TxOK(tx[g])'
  <2>1. tx'[g] = Idle \/ tx'[g] = tx[g]
    BY <1>1 DEF IInv, TypeOK
  <2>2. TxOK(tx'[g])
    BY <1>2, <2>1 DEF IInv, TxOK
  <2> QED
    BY <1>1, <2>2 DEF TxOK, WritesOK, AddOK
<1> QED
  BY <1>1, <1>3, <1>4 DEF IInv, MembersOK, SplitsOK, NoOrphanSplits, OwnerStays,
                          InvitedOnce, DebtStaysVisible

-----------------------------------------------------------------------------
(* The invariant *)

\* The invariant holds when the group has just been created,
LEMMA InitIInv == Init => IInv
<1> SUFFICES ASSUME Init PROVE IInv
  OBVIOUS
<1> DEFINE f == [g \in Guests |->
                   [id |-> 0, user |-> g, role |-> "member", checked |-> 0]]
           G == {f[g] : g \in Guests}
           o == [id |-> 0, user |-> Owner, role |-> "owner", checked |-> 0]
<1>1. members = {o} \cup G
  BY DEF Init
<1>2. /\ expenses = {} /\ splits = {} /\ settlements = {} /\ nextId = 1
      /\ tx = [h \in Handlers |-> Idle] /\ budget = Budget
  BY DEF Init
<1>3. Idle \in Tx /\ Idle.op = "idle"
  BY DEF Tx, Idle
<1>4. members \subseteq Member
  BY <1>1, LedgerAssumption DEF Member, Roles
<1>5. TypeOK
  BY <1>2, <1>3, <1>4, LedgerAssumption DEF TypeOK
<1>6. MembersOK
  <2>1. IsFiniteSet(Guests)
    BY LedgerAssumption, FS_Subset
  <2>2. DOMAIN f = Guests /\ f = [g \in Guests |-> f[g]]
    OBVIOUS
  <2>3. IsFiniteSet(G)
    <3> HIDE DEF f
    <3> QED
      BY <2>1, <2>2, FiniteRange
  <2>4. IsFiniteSet(members)
    <3> HIDE DEF G
    <3>1. members = G \cup {o}
      BY <1>1
    <3> QED
      BY <2>3, <3>1, FS_AddElement
  <2>5. \A m \in members : m.id = 0
    BY <1>1
  <2>6. \A m, n \in members : m.user = n.user => m = n
    BY <1>1, LedgerAssumption
  <2> QED
    BY <1>2, <2>4, <2>5, <2>6 DEF MembersOK
<1>7. SplitsOK
  BY <1>2, FS_EmptySet DEF SplitsOK
<1>8. \A h \in Handlers : TxOK(tx[h])
  BY <1>2, <1>3 DEF TxOK
<1>9. NoOrphanSplits /\ DebtStaysVisible
  BY <1>2 DEF NoOrphanSplits, DebtStaysVisible
<1>10. OwnerStays
  <2>1. o \in members /\ o.user = Owner /\ o.role = "owner"
    BY <1>1
  <2> HIDE DEF o
  <2> QED
    BY <2>1 DEF OwnerStays
<1>11. InvitedOnce
  <2>1. \A m \in members : m.id = 0
    BY <1>1
  <2> QED
    BY <2>1 DEF InvitedOnce
<1> QED
  BY <1>5, <1>6, <1>7, <1>8, <1>9, <1>10, <1>11 DEF IInv

\* it survives every step,
LEMMA NextIInv == IInv /\ [Next]_vars => IInv'
<1> SUFFICES ASSUME IInv, [Next]_vars PROVE IInv'
  OBVIOUS
<1>1. CASE UNCHANGED vars
  BY <1>1 DEF vars, IInv, TypeOK, MembersOK, SplitsOK, PK, TxOK, WritesOK, AddOK,
              SharesOK, NoOrphanSplits, OwnerStays, InvitedOnce, DebtStaysVisible
<1>2. ASSUME NEW h \in Handlers, Step(h) PROVE IInv'
  BY <1>2, BeginCreateStep, CommitCreateStep, BeginUpdateStep, CommitUpdateStep,
     BeginDeleteStep, CommitDeleteStep, BeginSettleStep, CommitSettleStep,
     BeginAddStep, CommitAddStep, BeginRemoveStep, CommitRemoveStep, RollbackStep
  DEF Step
<1> QED
  BY <1>1, <1>2 DEF Next

\* and so it always holds.
LEMMA Invariance == Spec => []IInv
  BY InitIInv, NextIInv, PTL DEF Spec

-----------------------------------------------------------------------------
(* The results *)

\* Type correctness of the ledger.
THEOREM LedgerTypeCorrect == Spec => []TypeOK
<1>1. IInv => TypeOK
  BY DEF IInv
<1> QED
  BY Invariance, <1>1, PTL

\* Deleting an expense leaves no split row behind, even when an update or a
\* settlement of the same expense is in flight.
THEOREM LedgerNoOrphanSplits == Spec => []NoOrphanSplits
<1>1. IInv => NoOrphanSplits
  BY DEF IInv
<1> QED
  BY Invariance, <1>1, PTL

\* The creator's owner row is never removed.
THEOREM LedgerOwnerStays == Spec => []OwnerStays
<1>1. IInv => OwnerStays
  BY DEF IInv
<1> QED
  BY Invariance, <1>1, PTL

\* However settlements race, none raises a debt, and one that has gone to zero
\* without being settled is explained by a payment with a fraction of a cent.
THEOREM LedgerDebtStaysVisible == Spec => []DebtStaysVisible
<1>1. IInv => DebtStaysVisible
  BY DEF IInv
<1> QED
  BY Invariance, <1>1, PTL

\* A second row for one user was looked for before the first was committed.
THEOREM LedgerInvitedOnce == Spec => []InvitedOnce
<1>1. IInv => InvitedOnce
  BY DEF IInv
<1> QED
  BY Invariance, <1>1, PTL

\* No step reopens a settled row.
LEMMA SettledStep ==
  ASSUME IInv, [Next]_vars,
         NEW s \in splits, s.settled, NEW r \in splits', PK(r) = PK(s)
  PROVE  r.settled
<1>1. \A p \in splits : PK(p) = PK(s) => p = s
  BY DEF IInv, SplitsOK
<1>2. CASE r \in splits
  BY <1>1, <1>2
<1>3. CASE r \notin splits
  <2>1. /\ nextId \in Nat /\ s.calc \in Nat /\ s.calc < nextId
        /\ r.calc = s.calc
    BY DEF IInv, TypeOK, SplitsOK, Split, PK
  <2>2. ASSUME NEW e, NEW S, r \in SplitRows(e, nextId, S) PROVE FALSE
    <3>1. r.calc = nextId
      BY <2>2 DEF SplitRows
    <3> QED
      BY <2>1, <3>1
  <2>3. PICK h \in Handlers : CommitSettle(h)
    <3>1. PICK h \in Handlers : Step(h)
      BY <1>3 DEF Next, vars
    <3>2. ~(CommitCreate(h) \/ CommitUpdate(h))
      BY <1>3, <2>2 DEF CommitCreate, CommitUpdate
    <3>3. ~CommitDelete(h)
      BY <1>3 DEF CommitDelete, SplitsWithout
    <3>4. ~(BeginCreate(h) \/ BeginUpdate(h) \/ BeginDelete(h))
      <4>1. \A t : ~Accept(h, t)
        BY <1>3 DEF Accept
      <4> QED
        BY <4>1, UpdateAccepted DEF BeginCreate, BeginDelete
    <3>5. ~(BeginSettle(h) \/ BeginAdd(h) \/ BeginRemove(h))
      <4>1. \A t : ~Accept(h, t)
        BY <1>3 DEF Accept
      <4> QED
        BY <4>1, SettleAccepted DEF BeginAdd, BeginRemove
    <3> QED
      BY <1>3, <3>1, <3>2, <3>3, <3>4, <3>5
      DEF Step, CommitAdd, CommitRemove, Rollback
  <2> DEFINE W == tx[h].writes
             from == tx[h].from
             amount == tx[h].amount
  <2>4. WritesOK(W, from, amount) /\ r \in Apply(W)
    BY <2>3 DEF IInv, TxOK, CommitSettle
  <2> HIDE DEF W, from, amount
  <2>5. PICK p \in splits :
          \/ r = p /\ \A w \in W : w.row # PK(p)
          \/ \E w \in W : w.row = PK(p) /\ r = ApplyWrite(p, w)
    BY <2>4, ApplyOK
  <2>6. p \in Split
    BY DEF IInv, TypeOK
  <2>7. PICK w \in W : r = ApplyWrite(p, w)
    BY <1>3, <2>5
  <2>8. PK(r) = PK(p) /\ (p.settled => r.settled)
    BY <2>6, <2>7 DEF ApplyWrite, Split, PK
  <2> QED
    BY <1>1, <2>8
<1> QED
  BY <1>2, <1>3

\* A split that was marked settled stays settled until it is recalculated or
\* its expense is deleted.
THEOREM LedgerSettledIsFinal == Spec => SettledIsFinal
<1>1. IInv /\ [Next]_vars =>
        [\A s \in splits :
           s.settled => \A r \in splits' : PK(r) = PK(s) => r.settled]_vars
  <2> SUFFICES ASSUME IInv, [Next]_vars,
                      NEW s \in splits, s.settled, NEW r \in splits', PK(r) = PK(s)
               PROVE  r.settled
    OBVIOUS
  <2> QED
    BY SettledStep
<1> QED
  BY Invariance, <1>1, PTL DEF Spec, SettledIsFinal

-----------------------------------------------------------------------------
(* What settlements clear is paid for *)

\* What has been taken off a row, and what will have been after a write.
Value(s) == IF s.settled THEN s.due ELSE s.due - s.owed
ValueAfter(s, w) == IF w.settled THEN s.due ELSE s.due - w.owed

\* The primary keys of a user's rows.
Keys(S, u) == {PK(s) : s \in {r \in S : r.user = u}}

\* credit[k] is the money that was spent on the row with key k.
PaidBy(P, u) == SumFunction([p \in {q \in P : q.from = u} |-> p.amount])
Explains(credit, S, P) ==
    /\ \A s \in S : Value(s) <= credit[PK(s)]
    /\ \A u \in Users : SumFunctionOnSet(credit, Keys(S, u)) <= PaidBy(P, u)

\* take[w] is the part of a payment that is meant for the write w.  What it
\* does is still covered when others have been credited for the row meanwhile.
Covers(take, credit, S, W, from, amount) ==
    /\ take \in [W -> Nat]
    /\ SumFunctionOnSet(take, W) <= amount
    /\ \A w \in W : w.row[3] = from
    /\ \A w \in W, s \in S :
         PK(s) = w.row => ValueAfter(s, w) <= credit[w.row] + take[w]

InFlightCovered(credit, S, T) ==
    \A h \in Handlers : T[h].op = "settle" =>
        /\ IsFiniteSet(T[h].writes)
        /\ \E take : Covers(take, credit, S, T[h].writes, T[h].from,
                           Stored(T[h].amount))

PayInv ==
    /\ IsFiniteSet(settlements)
    /\ \A p \in settlements : p.id < nextId
    /\ \E credit \in [PKs -> Nat] :
         /\ Explains(credit, splits, settlements)
         /\ InFlightCovered(credit, splits, tx)

\* The keys of a user's rows.
LEMMA KeysOK ==
  ASSUME NEW S, S \subseteq Split, IsFiniteSet(S), NEW u
  PROVE  /\ IsFiniteSet(Keys(S, u))
         /\ Keys(S, u) \subseteq PKs
         /\ \A k \in Keys(S, u) : k[3] = u
<1> DEFINE T == {r \in S : r.user = u}
           f == [s \in T |-> PK(s)]
<1>1. IsFiniteSet(T)
  BY FS_Subset
<1>2. \A s \in T : PK(s) \in PKs /\ PK(s)[3] = u
  BY DEF Split, PK, PKs
<1>3. DOMAIN f = T /\ f = [s \in T |-> f[s]] /\ Keys(S, u) = {f[s] : s \in T}
  BY DEF Keys
<1>4. Keys(S, u) \subseteq PKs /\ \A k \in Keys(S, u) : k[3] = u
  BY <1>2, <1>3
<1> HIDE DEF f, T
<1>5. IsFiniteSet({f[s] : s \in T})
  BY <1>1, <1>3, FiniteRange
<1> QED
  BY <1>3, <1>4, <1>5

\* What has been paid is a number, and a further payment adds to it.
LEMMA PaidByOK ==
  ASSUME NEW P, P \subseteq Settlement, IsFiniteSet(P), NEW u
  PROVE  /\ PaidBy(P, u) \in Nat
         /\ \A p \in Settlement \ P :
              PaidBy(P \cup {p}, u) =
                PaidBy(P, u) + (IF p.from = u THEN p.amount ELSE 0)
<1> DEFINE Q(R) == {q \in R : q.from = u}
           f == [p \in Settlement |-> p.amount]
<1>1. \A p \in Settlement : p.amount \in Nat /\ f[p] = p.amount
  BY DEF Settlement
<1>2. ASSUME NEW R, R \subseteq Settlement, IsFiniteSet(R)
      PROVE  /\ IsFiniteSet(Q(R))
             /\ Q(R) \subseteq Settlement
             /\ PaidBy(R, u) = SumFunctionOnSet(f, Q(R))
  <2> DEFINE g == [p \in Q(R) |-> p.amount]
  <2>1. IsFiniteSet(Q(R))
    BY <1>2, FS_Subset
  <2>2. \A p \in Q(R) : g[p] \in Int /\ g[p] = f[p]
    BY <1>1, <1>2
  <2>3. PaidBy(R, u) = SumFunctionOnSet(g, Q(R))
    BY DEF PaidBy, SumFunction
  <2> HIDE DEF g, f
  <2> QED
    BY <1>2, <2>1, <2>2, <2>3, SumSame
<1>3. PaidBy(P, u) = SumFunctionOnSet(f, Q(P)) /\ IsFiniteSet(Q(P))
      /\ \A p \in Q(P) : f[p] \in Nat
  BY <1>1, <1>2
<1>4. SumFunctionOnSet(f, Q(P)) \in Nat
  <2> HIDE DEF f
  <2> QED
    BY <1>3, SumNat
<1>5. ASSUME NEW p \in Settlement \ P
      PROVE  PaidBy(P \cup {p}, u) =
               PaidBy(P, u) + (IF p.from = u THEN p.amount ELSE 0)
  <2>1. IsFiniteSet(P \cup {p}) /\ P \cup {p} \subseteq Settlement
    BY FS_AddElement
  <2>2. PaidBy(P \cup {p}, u) = SumFunctionOnSet(f, Q(P \cup {p}))
    BY <1>2, <2>1
  <2>3. CASE p.from = u
    <3>1. Q(P \cup {p}) = Q(P) \cup {p} /\ p \notin Q(P)
      BY <2>3
    <3>2. SumFunctionOnSet(f, Q(P) \cup {p}) = f[p] + SumFunctionOnSet(f, Q(P))
      <4>1. f[p] \in Int /\ \A q \in Q(P) : f[q] \in Int
        BY <1>1, <1>3
      <4> HIDE DEF f
      <4> QED
        BY <1>3, <3>1, <4>1, SumAdd
    <3>3. f[p] = p.amount /\ p.amount \in Nat
      BY <1>1
    <3>4. PaidBy(P \cup {p}, u) = SumFunctionOnSet(f, Q(P) \cup {p})
      BY <2>2, <3>1
    <3> HIDE DEF f, Q
    <3> QED
      BY <1>3, <1>4, <2>3, <3>2, <3>3, <3>4
  <2>4. CASE p.from # u
    <3>1. Q(P \cup {p}) = Q(P)
      BY <2>4
    <3> HIDE DEF f, Q
    <3> QED
      BY <1>3, <1>4, <2>2, <2>4, <3>1
  <2> QED
    BY <2>3, <2>4
<1> QED
  BY <1>3, <1>4, <1>5

\* What a row takes of a payment, in the cents that the columns hold: a row
\* settled in full what was owed on it, and the last row what remained, or a
\* cent less when that was half way between two cents.
LEMMA StepTakes ==
  ASSUME NEW owed \in Nat, NEW k \in Nat
  PROVE  LET after == LeftAfter(owed, k)
             took == Stored(k) - Stored(after)
             down == PaidDown(owed, k)
         IN /\ after \in Nat /\ took \in Nat
            /\ SettlesInFull(owed, k) => took = owed
            /\ ~SettlesInFull(owed, k) =>
                 /\ down \in Int /\ took = Stored(k) /\ owed - down <= took
                 /\ \/ owed - down = took
                    \/ Tie(k) /\ owed - down = took - 1
<1> DEFINE fo == Fine * owed
           x == k - fo
<1>1. fo \in Nat /\ x \in Int /\ Stored(k) \in Nat
  BY MoneyKept
<1>2. CASE SettlesInFull(owed, k)
  <2>1. x \in Nat /\ LeftAfter(owed, k) = x
    BY <1>1, <1>2 DEF SettlesInFull, LeftAfter
  <2>2. NearestUp(x + fo, Fine) = NearestUp(x, Fine) + owed
    <3> HIDE DEF x
    <3> QED
      BY <1>1, MoneyKept, NearestUpShift
  <2>3. x + fo = k
    BY <1>1
  <2>4. Stored(k) = Stored(x) + owed /\ Stored(x) \in Int
    BY <2>1, <2>2, <2>3, MoneyKept
  <2> HIDE DEF x
  <2> QED
    BY <1>2, <2>1, <2>4
<1>3. CASE ~SettlesInFull(owed, k)
  <2>1. LeftAfter(owed, k) = 0
    BY <1>3 DEF LeftAfter
  <2>2. Stored(0) = 0
    <3>1. Fine * 0 = 0
      BY MoneyKept
    <3>2. NearestUp(Fine * 0, Fine) = 0
      BY MoneyKept, NearestUpWhole
    <3> QED
      BY <3>1, <3>2, MoneyKept
  <2>3. PaidDown(owed, k) = NearestUp(fo - k, Fine)
    BY <1>1, MoneyKept DEF PaidDown
  <2>4. /\ Stored(k) = NearestUp(k, Fine)
        /\ NearestUp(fo - k, Fine) \in Int
    <3>1. fo - k \in Int /\ k \in Int
      BY <1>1
    <3> HIDE DEF fo
    <3> QED
      BY <3>1, MoneyKept
  <2>5. \/ owed - NearestUp(fo - k, Fine) = NearestUp(k, Fine)
        \/ /\ 2 * (k % Fine) = Fine
           /\ owed - NearestUp(fo - k, Fine) = NearestUp(k, Fine) - 1
    BY MoneyKept, NearestUpRest
  <2> HIDE DEF fo
  <2> QED
    BY <1>1, <1>3, <2>1, <2>2, <2>3, <2>4, <2>5 DEF Tie
<1> QED
  BY <1>2, <1>3

\* The walk spends on each row it writes what it takes off that row, and in all
\* no more than the settlement's amount.
LEMMA WalkCovered ==
  ASSUME TypeOK, SplitsOK, DebtStaysVisible,
         NEW from \in Users, NEW to \in Users, NEW amount \in Nat,
         NEW q \in Listings(Open(from, to)),
         NEW left \in Walks(OwedOf(q, Cardinality(Open(from, to))),
                            Cardinality(Open(from, to)), amount),
         NEW credit \in [PKs -> Nat], \A s \in splits : Value(s) <= credit[PK(s)]
  PROVE  LET W == WritesOf(q, Cardinality(Open(from, to)), left) IN
         /\ IsFiniteSet(W)
         /\ \E take : Covers(take, credit, splits, W, from, Stored(amount))
<1> DEFINE S == Open(from, to)
           n == Cardinality(S)
           I == Reached(n, left)
           worth == [i \in 0 .. n |-> Stored(left[i])]
           d == [i \in 1 .. n |-> worth[i - 1] - worth[i]]
           b == [i \in I |-> RowWrite(q[i], left[i - 1])]
           W == {b[i] : i \in I}
           take == [w \in W |-> d[CHOOSE i \in I : b[i] = w]]
<1>1. \A s \in S : s \in splits /\ s.user = from /\ s.owed > 0 /\ ~s.settled
  BY DEF Open
<1>2. n \in Nat
  <2>1. S \subseteq splits
    BY <1>1
  <2> QED
    BY <2>1, FS_Subset, FS_CardinalityType DEF SplitsOK
<1>3. /\ q \in [1 .. n -> S]
      /\ \A i, j \in 1 .. n : i < j => q[i] # q[j]
  BY DEF Listings
<1>4. /\ left \in [0 .. n -> Leftovers(amount)]
      /\ left[0] = amount
      /\ \A i \in 1 .. n : left[i] = LeftAfter(q[i].owed, left[i - 1])
  BY DEF Walks, OwedOf
<1> HIDE DEF S, n
<1>5. WritesOf(q, n, left) = W
  <2>1. W = {RowWrite(q[i], left[i - 1]) : i \in I}
    OBVIOUS
  <2> QED
    BY <2>1 DEF WritesOf
<1>6. \A s \in S : /\ s.owed \in Int /\ s.due \in Int /\ s.owed > 0
                   /\ PK(s) \in PKs /\ PK(s)[3] = from
  BY <1>1 DEF TypeOK, Split, PK, PKs
<1>7. \A i \in 1 .. n : /\ q[i] \in S
                        /\ left[i - 1] \in Nat /\ left[i] \in Nat
                        /\ left[i] = LeftAfter(q[i].owed, left[i - 1])
                        /\ d[i] = Stored(left[i - 1]) - Stored(left[i])
  <2> SUFFICES ASSUME NEW i \in 1 .. n
               PROVE  /\ left[i - 1] \in Nat /\ left[i] \in Nat
                      /\ d[i] = Stored(left[i - 1]) - Stored(left[i])
    BY <1>3, <1>4
  <2>1. i - 1 \in 0 .. n /\ i \in 0 .. n
    BY <1>2
  <2>2. worth[i - 1] = Stored(left[i - 1]) /\ worth[i] = Stored(left[i])
    BY <2>1
  <2>3. d[i] = worth[i - 1] - worth[i]
    OBVIOUS
  <2>4. left[i - 1] \in Leftovers(amount) /\ left[i] \in Leftovers(amount)
    BY <1>4, <2>1
  <2> QED
    BY <2>2, <2>3, <2>4, LeftoverOK
<1>8. ASSUME NEW i \in 1 .. n, NEW w, w = RowWrite(q[i], left[i - 1])
      PROVE  /\ d[i] \in Nat
             /\ w.row = PK(q[i])
             /\ ValueAfter(q[i], w) <= credit[PK(q[i])] + d[i]
  <2> DEFINE s == q[i]
             k == left[i - 1]
             p == PaidDown(s.owed, k)
  <2>0. s \in S /\ s \in splits /\ ~s.settled /\ k \in Nat
    BY <1>1, <1>7
  <2>1. /\ s.owed \in Nat /\ s.due \in Int /\ k \in Nat
        /\ s.due - s.owed <= credit[PK(s)] /\ credit[PK(s)] \in Nat
    <3> HIDE DEF s, k
    <3>1. s.owed \in Nat /\ s.due \in Int /\ PK(s) \in PKs
      BY <1>6, <2>0
    <3>2. Value(s) = s.due - s.owed /\ Value(s) <= credit[PK(s)]
      BY <2>0 DEF Value
    <3>3. credit[PK(s)] \in Nat
      BY <3>1
    <3> QED
      BY <2>0, <3>1, <3>2, <3>3
  <2>2. d[i] = Stored(k) - Stored(LeftAfter(s.owed, k))
    BY <1>7
  <2>3. w.row = PK(s)
    BY <1>8 DEF RowWrite
  <2>4. d[i] \in Nat
    BY <2>1, <2>2, StepTakes
  <2>5. CASE SettlesInFull(s.owed, k)
    <3>1. d[i] = s.owed
      BY <2>1, <2>2, <2>5, StepTakes
    <3>2. w.settled = TRUE
      <4>1. SettlesInFull(s.owed, k) = TRUE
        BY <2>5 DEF SettlesInFull
      <4> QED
        BY <1>8, <4>1 DEF RowWrite
    <3> HIDE DEF d, s, k
    <3> QED
      BY <2>1, <2>3, <2>4, <3>1, <3>2 DEF ValueAfter, s
  <2>6. CASE ~SettlesInFull(s.owed, k)
    <3>1. p \in Int /\ s.owed - p <= d[i]
      BY <2>1, <2>2, <2>6, StepTakes
    <3>2. ~w.settled /\ w.owed = p
      <4> HIDE DEF d, s, k
      <4> QED
        BY <1>8, <2>6 DEF RowWrite, s, k
    <3> HIDE DEF d, s, k, p
    <3> QED
      BY <2>1, <2>3, <2>4, <3>1, <3>2 DEF ValueAfter, s
  <2> QED
    BY <2>5, <2>6
<1>9. \A i \in I : i \in 1 .. n
  BY DEF Reached
<1>10. IsFiniteSet(1 .. n) /\ IsFiniteSet(I)
  <2>1. IsFiniteSet(1 .. n)
    BY <1>2, FS_Interval
  <2> QED
    BY <1>9, <2>1, FS_Subset
<1>11. DOMAIN b = I /\ b = [i \in I |-> b[i]]
       /\ \A i \in I : b[i] = RowWrite(q[i], left[i - 1])
  OBVIOUS
<1>12. \A i, j \in I : b[i] = b[j] => i = j
  <2> SUFFICES ASSUME NEW i \in I, NEW j \in I, b[i] = b[j] PROVE i = j
    OBVIOUS
  <2>1. PK(q[i]) = PK(q[j])
    <3> HIDE DEF b, d
    <3> QED
      BY <1>8, <1>9, <1>11
  <2>2. q[i] \in splits /\ q[j] \in splits
    BY <1>1, <1>7, <1>9
  <2>3. q[i] = q[j]
    BY <2>1, <2>2 DEF SplitsOK
  <2> QED
    BY <1>2, <1>3, <1>9, <2>3
<1>13. \A i \in I : b[i] \in W /\ take[b[i]] = d[i]
  <2> SUFFICES ASSUME NEW i \in I PROVE take[b[i]] = d[i]
    OBVIOUS
  <2> HIDE DEF b, d, I
  <2> QED
    BY <1>12
<1>14. SumFunctionOnSet(d, 1 .. n) = worth[0] - worth[n]
  <2>1. \A i \in 0 .. n : worth[i] \in Int
    <3>1. \A i \in 0 .. n : left[i] \in Leftovers(amount)
      BY <1>4
    <3>2. \A i \in 0 .. n : left[i] \in Int
      BY <3>1, LeftoverOK
    <3>3. \A i \in 0 .. n : worth[i] = Stored(left[i])
      OBVIOUS
    <3> HIDE DEF worth
    <3> QED
      BY <3>2, <3>3, MoneyKept
  <2>2. \A i \in 1 .. n : d[i] = worth[i - 1] - worth[i]
    OBVIOUS
  <2> HIDE DEF d, worth
  <2> QED
    BY <1>2, <2>1, <2>2, SumTelescope
<1>15. worth[0] - worth[n] <= Stored(amount)
  <2>1. n \in 0 .. n /\ 0 \in 0 .. n
    BY <1>2
  <2>2. left[n] \in Leftovers(amount)
    BY <1>4, <2>1
  <2>3. left[n] \in Nat
    BY <2>2, LeftoverOK
  <2>4. worth[0] = Stored(amount) /\ worth[n] = Stored(left[n])
    BY <1>4, <2>1
  <2> HIDE DEF worth
  <2>5. Stored(amount) \in Nat /\ Stored(left[n]) \in Nat
    BY <2>3, MoneyKept
  <2> QED
    BY <2>4, <2>5
<1>16. SumFunctionOnSet(d, I) <= SumFunctionOnSet(d, 1 .. n)
  <2>1. I \cup (1 .. n) = 1 .. n /\ I \ (1 .. n) = {}
    BY <1>9
  <2>2. \A i \in 1 .. n : d[i] \in Nat
    BY <1>8
  <2> HIDE DEF I, d
  <2> QED
    BY <1>10, <2>1, <2>2, SumWithin
<1>17. SumFunctionOnSet(take, W) = SumFunctionOnSet(d, I)
  <2>1. \A i \in I : d[i] \in Int
    BY <1>8, <1>9
  <2> HIDE DEF I, d, b, take
  <2> QED
    BY <1>10, <1>12, <1>13, <2>1, SumRenamed
<1>18. take \in [W -> Nat]
  <2>1. take = [w \in W |-> take[w]]
    OBVIOUS
  <2>2. \A w \in W : take[w] \in Nat
    <3> SUFFICES ASSUME NEW i \in I PROVE take[b[i]] \in Nat
      OBVIOUS
    <3>1. d[i] \in Nat
      BY <1>8, <1>9
    <3> QED
      BY <1>13, <3>1
  <2> HIDE DEF take, W
  <2> QED
    BY <2>1, <2>2
<1>19. IsFiniteSet(W)
  <2> HIDE DEF b, I
  <2> QED
    BY <1>10, <1>11, FiniteRange
<1>20. ASSUME NEW w \in W
       PROVE  /\ w.row[3] = from
              /\ \A s \in splits : PK(s) = w.row =>
                   ValueAfter(s, w) <= credit[w.row] + take[w]
  <2>1. PICK i \in I : w = b[i]
    OBVIOUS
  <2>2. /\ i \in 1 .. n /\ w = RowWrite(q[i], left[i - 1])
        /\ take[w] = d[i] /\ q[i] \in S /\ q[i] \in splits
    <3>1. i \in 1 .. n
      BY <1>9
    <3>2. w = RowWrite(q[i], left[i - 1])
      BY <2>1
    <3>3. take[w] = d[i]
      BY <1>13, <2>1
    <3>4. q[i] \in S /\ q[i] \in splits
      <4> HIDE DEF take, d, b, I, W, worth
      <4> QED
        BY <1>1, <1>7, <3>1
    <3> QED
      BY <3>1, <3>2, <3>3, <3>4
  <2> HIDE DEF take, d, b, I, W
  <2>3. w.row = PK(q[i]) /\ ValueAfter(q[i], w) <= credit[PK(q[i])] + d[i]
    BY <1>8, <2>2
  <2>4. \A s \in splits : PK(s) = w.row => s = q[i]
    BY <2>2, <2>3 DEF SplitsOK
  <2> QED
    BY <1>6, <2>2, <2>3, <2>4
<1> HIDE DEF take, d, b, I, W, worth
<1>21. SumFunctionOnSet(take, W) <= Stored(amount)
  <2>1. SumFunctionOnSet(d, 1 .. n) <= Stored(amount)
    BY <1>14, <1>15
  <2>2. SumFunctionOnSet(take, W) \in Int
    <3>1. \A w \in W : take[w] \in Int
      BY <1>18
    <3> QED
      BY <1>19, <3>1, SumInt
  <2>3. SumFunctionOnSet(d, 1 .. n) \in Int
    <3>1. \A i \in 1 .. n : d[i] \in Int
      BY <1>8
    <3> QED
      BY <1>10, <3>1, SumInt
  <2>4. Stored(amount) \in Int
    BY MoneyKept
  <2> QED
    BY <1>16, <1>17, <2>1, <2>2, <2>3, <2>4
<1>22. Covers(take, credit, splits, W, from, Stored(amount))
  BY <1>18, <1>20, <1>21 DEF Covers
<1> QED
  BY <1>5, <1>19, <1>22 DEF S, n

\* A settlement that has read the rows is covered; nothing else has changed.
LEMMA PayBegin ==
  ASSUME IInv, PayInv, NEW h \in Handlers, BeginSettle(h)
  PROVE  PayInv'
<1>1. PICK from \in Users, to \in Users, amount \in Payments :
        \E q \in Listings(Open(from, to)) :
        \E left \in Walks(OwedOf(q, Cardinality(Open(from, to))),
                          Cardinality(Open(from, to)), amount) :
           Accept(h, SettleTx(from, to, amount, q, left))
  BY SettleAccepted
<1> DEFINE n == Cardinality(Open(from, to))
<1>2. PICK q \in Listings(Open(from, to)) :
        \E left \in Walks(OwedOf(q, n), n, amount) :
           Accept(h, SettleTx(from, to, amount, q, left))
  BY <1>1
<1>3. PICK left \in Walks(OwedOf(q, n), n, amount) :
        Accept(h, SettleTx(from, to, amount, q, left))
  BY <1>2
<1> DEFINE W == WritesOf(q, n, left)
           t == SettleTx(from, to, amount, q, left)
<1>4. PICK credit \in [PKs -> Nat] : /\ Explains(credit, splits, settlements)
                                    /\ InFlightCovered(credit, splits, tx)
  BY DEF PayInv
<1>5. amount \in Nat
  BY LedgerAssumption
<1>6. /\ IsFiniteSet(W)
      /\ \E take : Covers(take, credit, splits, W, from, Stored(amount))
  BY <1>4, <1>5, WalkCovered DEF IInv, Explains
<1>a. /\ t.op = "settle" /\ t.from = from /\ t.amount = amount /\ t.writes = W
  BY DEF SettleTx
<1> HIDE DEF W, t
<1>7. /\ UNCHANGED <<splits, settlements, nextId>>
      /\ tx' = [tx EXCEPT ![h] = t]
      /\ tx \in [Handlers -> Tx]
  BY <1>3 DEF Accept, t, IInv, TypeOK
<1>8. Explains(credit, splits', settlements')
  BY <1>4, <1>7
<1>9. InFlightCovered(credit, splits', tx')
  <2> SUFFICES ASSUME NEW g \in Handlers, tx'[g].op = "settle"
               PROVE  /\ IsFiniteSet(tx'[g].writes)
                      /\ \E take : Covers(take, credit, splits', tx'[g].writes,
                                         tx'[g].from, Stored(tx'[g].amount))
    BY DEF InFlightCovered
  <2>1. CASE g = h
    <3>1. tx'[g] = t
      BY <1>7, <2>1
    <3> QED
      BY <1>6, <1>7, <1>a, <3>1
  <2>2. CASE g # h
    <3>1. tx'[g] = tx[g]
      BY <1>7, <2>2
    <3> QED
      BY <1>4, <1>7, <3>1 DEF InFlightCovered
  <2> QED
    BY <2>1, <2>2
<1> QED
  BY <1>4, <1>7, <1>8, <1>9 DEF PayInv

\* The steps that only add and remove whole rows.
LEMMA PayKeep ==
  ASSUME IInv, IInv', PayInv,
         settlements' = settlements, nextId' \in {nextId, nextId + 1},
         \A r \in splits' : \/ r \in splits
                            \/ r.calc = nextId /\ r.owed = r.due /\ ~r.settled,
         \A h \in Handlers : tx'[h] = tx[h] \/ tx'[h].op # "settle"
  PROVE  PayInv'
<1>1. PICK credit \in [PKs -> Nat] : /\ Explains(credit, splits, settlements)
                                    /\ InFlightCovered(credit, splits, tx)
  BY DEF PayInv
<1> DEFINE new == [k \in PKs |-> IF k[1] < nextId THEN credit[k] ELSE 0]
<1>2. /\ new \in [PKs -> Nat]
      /\ \A k \in PKs : k[1] < nextId => new[k] = credit[k]
      /\ \A k \in PKs : ~(k[1] < nextId) => new[k] = 0
  OBVIOUS
<1>3. nextId \in Nat
  BY DEF IInv, TypeOK
<1>4. /\ splits \subseteq Split /\ IsFiniteSet(splits)
      /\ \A s \in splits : s.calc < nextId
  BY DEF IInv, TypeOK, SplitsOK
<1>5. splits' \subseteq Split /\ IsFiniteSet(splits')
  BY DEF IInv, TypeOK, SplitsOK
<1>6. \A s \in Split : PK(s) \in PKs /\ PK(s)[1] = s.calc /\ PK(s)[3] = s.user
  BY DEF Split, PK, PKs
<1> HIDE DEF new
<1>7. ASSUME NEW r \in splits' PROVE Value(r) <= new[PK(r)]
  <2>1. CASE r \in splits
    <3>1. new[PK(r)] = credit[PK(r)]
      BY <1>2, <1>4, <1>6, <2>1
    <3> QED
      BY <1>1, <2>1, <3>1 DEF Explains
  <2>2. CASE r.owed = r.due /\ ~r.settled
    <3>1. r.due \in Int /\ new[PK(r)] \in Nat
      BY <1>2, <1>5, <1>6 DEF Split
    <3> QED
      BY <2>2, <3>1 DEF Value
  <2> QED
    BY <2>1, <2>2
<1>8. ASSUME NEW u \in Users
      PROVE  SumFunctionOnSet(new, Keys(splits', u)) <= PaidBy(settlements', u)
  <2> DEFINE K == Keys(splits, u)
             L == Keys(splits', u)
  <2>1. /\ IsFiniteSet(K) /\ K \subseteq PKs
        /\ IsFiniteSet(L) /\ L \subseteq PKs
    BY <1>4, <1>5, KeysOK
  <2>2. \A k \in K : k[1] < nextId
    BY <1>4, <1>6 DEF Keys
  <2>3. ASSUME NEW k \in L \ K PROVE new[k] = 0
    <3>1. PICK r \in splits' : k = PK(r) /\ r.user = u
      BY DEF Keys
    <3>2. r \notin splits
      BY <2>3, <3>1 DEF Keys
    <3>3. k[1] = nextId /\ k \in PKs
      BY <1>5, <1>6, <3>1, <3>2
    <3> QED
      BY <1>2, <1>3, <3>3
  <2> HIDE DEF K, L
  <2>4. /\ \A k \in K : new[k] \in Int /\ new[k] = credit[k]
        /\ \A k \in L \cup K : new[k] \in Nat
    BY <1>2, <2>1, <2>2
  <2>5. SumFunctionOnSet(new, L) <= SumFunctionOnSet(new, K)
    BY <2>1, <2>3, <2>4, SumWithin
  <2>6. SumFunctionOnSet(new, K) = SumFunctionOnSet(credit, K)
    BY <2>1, <2>4, SumSame
  <2>7. SumFunctionOnSet(credit, K) <= PaidBy(settlements, u)
    BY <1>1 DEF Explains, K
  <2>8. /\ SumFunctionOnSet(new, L) \in Nat
        /\ SumFunctionOnSet(new, K) \in Nat
    BY <2>1, <2>4, SumNat
  <2>9. PaidBy(settlements, u) \in Int
    BY PaidByOK DEF PayInv, IInv, TypeOK
  <2> QED
    BY <2>5, <2>6, <2>7, <2>8, <2>9 DEF L
<1>9. Explains(new, splits', settlements')
  BY <1>7, <1>8 DEF Explains
<1>10. ASSUME NEW h \in Handlers, tx'[h].op = "settle"
       PROVE  /\ IsFiniteSet(tx'[h].writes)
              /\ \E take : Covers(take, new, splits', tx'[h].writes,
                                 tx'[h].from, Stored(tx'[h].amount))
  <2> DEFINE W == tx[h].writes
  <2>1. tx'[h] = tx[h]
    BY <1>10
  <2>2. PICK take : Covers(take, credit, splits, W, tx[h].from,
                           Stored(tx[h].amount))
    BY <1>1, <1>10, <2>1 DEF InFlightCovered
  <2>3. WritesOK(W, tx[h].from, tx[h].amount) /\ IsFiniteSet(W)
    BY <1>1, <1>10, <2>1 DEF IInv, TxOK, InFlightCovered
  <2> HIDE DEF W
  <2>4. \A w \in W : w.row \in PKs /\ w.row[1] < nextId
    BY <2>3 DEF WritesOK, Write
  <2>5. ASSUME NEW w \in W, NEW r \in splits', PK(r) = w.row
        PROVE  ValueAfter(r, w) <= new[w.row] + take[w]
    <3>1. r.calc < nextId /\ r.calc \in Nat
      <4>1. r \in Split
        BY <1>5
      <4>2. PK(r)[1] = r.calc
        BY <1>6, <4>1
      <4> QED
        BY <2>4, <2>5, <4>1, <4>2 DEF Split
    <3>2. r \in splits
      BY <1>3, <3>1
    <3>3. new[w.row] = credit[w.row]
      BY <1>2, <2>4
    <3> QED
      BY <2>2, <2>5, <3>2, <3>3 DEF Covers
  <2>6. Covers(take, new, splits', W, tx[h].from, Stored(tx[h].amount))
    BY <2>2, <2>5 DEF Covers
  <2> QED
    BY <2>1, <2>3, <2>6 DEF W
<1>11. InFlightCovered(new, splits', tx')
  BY <1>10 DEF InFlightCovered
<1>12. /\ IsFiniteSet(settlements')
       /\ \A p \in settlements' : p.id < nextId'
  <2>1. \A p \in settlements : p.id \in Nat /\ p.id < nextId
    BY DEF PayInv, IInv, TypeOK, Settlement
  <2> QED
    BY <1>3, <2>1 DEF PayInv
<1> QED
  BY <1>2, <1>9, <1>11, <1>12 DEF PayInv

\* A committed settlement credits its writes with what it meant for them.
LEMMA PayCommit ==
  ASSUME IInv, IInv', PayInv, NEW h \in Handlers, CommitSettle(h)
  PROVE  PayInv'
<1> DEFINE t == tx[h]
           W == t.writes
           paid == Stored(t.amount)
           p == [id |-> nextId, from |-> t.from, to |-> t.to, amount |-> paid,
                 exact |-> t.amount]
<1>1. /\ t.op = "settle"
      /\ splits' = Apply(W)
      /\ settlements' = settlements \cup {p}
      /\ nextId' = nextId + 1
      /\ tx' = [tx EXCEPT ![h] = Idle]
  BY DEF CommitSettle, Done
<1>2. PICK credit \in [PKs -> Nat] : /\ Explains(credit, splits, settlements)
                                    /\ InFlightCovered(credit, splits, tx)
  BY DEF PayInv
<1>3. PICK take : Covers(take, credit, splits, W, t.from, paid)
  BY <1>1, <1>2 DEF InFlightCovered
<1>4. /\ IsFiniteSet(W) /\ WritesOK(W, t.from, t.amount)
      /\ t.from \in Users /\ t.to \in Users
      /\ t.amount \in Nat /\ nextId \in Nat
  BY <1>1, <1>2, TxFields, LedgerAssumption DEF InFlightCovered, IInv, TxOK, TypeOK
<1>a. paid \in Nat
  BY <1>4, MoneyKept
<1>5. \A w \in W : w.row \in PKs
  BY <1>4 DEF WritesOK, Write
<1>6. /\ splits \subseteq Split /\ IsFiniteSet(splits)
      /\ splits' \subseteq Split /\ IsFiniteSet(splits')
      /\ settlements \subseteq Settlement /\ IsFiniteSet(settlements)
      /\ tx \in [Handlers -> Tx]
  BY DEF IInv, TypeOK, SplitsOK, PayInv
<1>7. \A s \in Split : PK(s) \in PKs /\ PK(s)[3] = s.user
  BY DEF Split, PK, PKs
<1>8. \A r \in splits' : \E s \in splits :
        \/ r = s /\ \A w \in W : w.row # PK(s)
        \/ \E w \in W : w.row = PK(s) /\ r = ApplyWrite(s, w)
  BY <1>1, <1>4, ApplyOK
<1>9. \A r \in splits' : \E s \in splits : PK(s) = PK(r) /\ s.due = r.due
  BY <1>1, <1>4, ApplyOK
<1>10. \A r, s \in splits : PK(r) = PK(s) => r = s
  BY DEF IInv, SplitsOK
<1>11. take \in [W -> Nat] /\ SumFunctionOnSet(take, W) <= paid
       /\ (\A w \in W : w.row[3] = t.from)
       /\ \A w \in W, s \in splits :
            PK(s) = w.row => ValueAfter(s, w) <= credit[w.row] + take[w]
  BY <1>3 DEF Covers
<1>12. p \in Settlement \ settlements
  <2>1. p \in Settlement
    BY <1>4, <1>a DEF Settlement
  <2> QED
    BY <1>4, <2>1 DEF PayInv
<1> DEFINE R == {w.row : w \in W}
           extra == [k \in PKs |-> IF k \in R THEN take[CHOOSE w \in W : w.row = k]
                                              ELSE 0]
           new == [k \in PKs |-> credit[k] + extra[k]]
<1>13. \A w \in W : extra[w.row] = take[w]
  BY <1>4, <1>5 DEF WritesOK
<1>14. /\ \A k \in PKs : extra[k] \in Nat
       /\ \A k \in PKs \ R : extra[k] = 0
  <2> SUFFICES ASSUME NEW k \in PKs PROVE extra[k] \in Nat
    OBVIOUS
  <2>1. CASE k \in R
    <3>1. PICK w \in W : w.row = k
      BY <2>1
    <3> QED
      BY <1>11, <1>13, <3>1
  <2>2. CASE k \notin R
    BY <2>2
  <2> QED
    BY <2>1, <2>2
<1>15. /\ new \in [PKs -> Nat]
       /\ \A k \in PKs : /\ new[k] = credit[k] + extra[k]
                         /\ credit[k] \in Nat /\ extra[k] \in Nat
  BY <1>2, <1>14
<1>16. SumFunctionOnSet(extra, R) = SumFunctionOnSet(take, W) /\ IsFiniteSet(R)
  <2> DEFINE b == [w \in W |-> w.row]
  <2>1. R = {b[w] : w \in W} /\ DOMAIN b = W /\ b = [w \in W |-> b[w]]
    OBVIOUS
  <2>2. \A v, w \in W : b[v] = b[w] => v = w
    BY <1>4 DEF WritesOK
  <2>3. \A w \in W : b[w] = w.row
    OBVIOUS
  <2> HIDE DEF b, R, W, extra
  <2>4. \A w \in W : take[w] \in Int /\ extra[b[w]] = take[w]
    BY <1>11, <1>13, <2>3
  <2>5. IsFiniteSet(R)
    BY <1>4, <2>1, FiniteRange
  <2> QED
    BY <1>4, <2>1, <2>2, <2>4, <2>5, SumRenamed
<1>17. \A k \in R : k \in PKs /\ k[3] = t.from
  BY <1>5, <1>11
<1> HIDE DEF t, W, p, R, extra, new, paid
<1>18. ASSUME NEW r \in splits' PROVE Value(r) <= new[PK(r)]
  <2>1. PICK s \in splits :
          \/ r = s /\ \A w \in W : w.row # PK(s)
          \/ \E w \in W : w.row = PK(s) /\ r = ApplyWrite(s, w)
    BY <1>8
  <2>2. /\ s \in Split /\ s.due \in Int /\ s.owed \in Int /\ PK(s) \in PKs
        /\ Value(s) <= credit[PK(s)] /\ Value(s) \in Int
        /\ new[PK(s)] = credit[PK(s)] + extra[PK(s)]
        /\ credit[PK(s)] \in Nat /\ extra[PK(s)] \in Nat
    BY <1>2, <1>6, <1>7, <1>15 DEF Explains, Split, Value
  <2>3. Value(s) <= new[PK(s)]
    BY <2>2
  <2>4. ASSUME NEW w \in W, w.row = PK(s), r = ApplyWrite(s, w)
        PROVE  Value(r) <= new[PK(r)]
    <3>1. w.owed \in Nat /\ extra[PK(s)] = take[w]
      BY <1>4, <1>13, <2>4 DEF WritesOK, Write
    <3>2. ValueAfter(s, w) <= credit[PK(s)] + take[w]
      BY <1>11, <2>4
    <3>3. CASE w.settled
      <4>1. r = [s EXCEPT !.settled = TRUE]
        BY <2>4, <3>3 DEF ApplyWrite
      <4>2. PK(r) = PK(s) /\ Value(r) = s.due
        BY <2>2, <4>1 DEF Split, PK, Value
      <4> QED
        BY <2>2, <3>1, <3>2, <3>3, <4>2 DEF ValueAfter
    <3>4. CASE ~w.settled
      <4>1. r = [s EXCEPT !.owed = w.owed]
        BY <2>4, <3>4 DEF ApplyWrite
      <4>2. PK(r) = PK(s) /\ r.settled = s.settled /\ r.due = s.due /\ r.owed = w.owed
        BY <2>2, <4>1 DEF Split, PK
      <4>3. CASE s.settled
        BY <2>3, <4>2, <4>3 DEF Value
      <4>4. CASE ~s.settled
        <5>1. Value(r) = ValueAfter(s, w)
          BY <3>4, <4>2, <4>4 DEF Value, ValueAfter
        <5> QED
          BY <2>2, <3>1, <3>2, <4>2, <5>1
      <4> QED
        BY <4>3, <4>4
    <3> QED
      BY <3>3, <3>4
  <2> QED
    BY <2>1, <2>3, <2>4
<1>19. ASSUME NEW u \in Users
       PROVE  SumFunctionOnSet(new, Keys(splits', u)) <= PaidBy(settlements', u)
  <2> DEFINE K == Keys(splits, u)
             L == Keys(splits', u)
  <2>1. /\ IsFiniteSet(K) /\ K \subseteq PKs
        /\ IsFiniteSet(L) /\ L \subseteq PKs /\ \A k \in L : k[3] = u
    BY <1>6, KeysOK
  <2>2. L \subseteq K
    <3> SUFFICES ASSUME NEW r \in splits', r.user = u
                 PROVE  PK(r) \in K
      BY DEF Keys
    <3>1. PICK s \in splits : PK(s) = PK(r)
      BY <1>9
    <3>2. s.user = r.user
      BY <1>6, <1>7, <3>1
    <3> QED
      BY <3>1, <3>2 DEF Keys
  <2>3. SumFunctionOnSet(credit, K) <= PaidBy(settlements, u)
    BY <1>2 DEF Explains, K
  <2> HIDE DEF K
  <2>4. L = Keys(splits', u)
    OBVIOUS
  <2> HIDE DEF L
  <2>5. /\ SumFunctionOnSet(new, L)
             = SumFunctionOnSet(credit, L) + SumFunctionOnSet(extra, L)
        /\ SumFunctionOnSet(credit, L) \in Nat
        /\ SumFunctionOnSet(extra, L) \in Nat
        /\ SumFunctionOnSet(credit, K) \in Nat
        /\ SumFunctionOnSet(extra, R) \in Nat
    <3>1. /\ \A k \in L : new[k] = credit[k] + extra[k]
          /\ \A k \in L \cup K \cup R : credit[k] \in Nat /\ extra[k] \in Nat
      BY <1>15, <1>17, <2>1
    <3>2. \A k \in L : credit[k] \in Int /\ extra[k] \in Int
      BY <3>1
    <3>3. SumFunctionOnSet(new, L)
            = SumFunctionOnSet(credit, L) + SumFunctionOnSet(extra, L)
      BY <2>1, <3>1, <3>2, SumPlus
    <3> QED
      BY <1>16, <2>1, <3>1, <3>3, SumNat
  <2>6. SumFunctionOnSet(credit, L) <= SumFunctionOnSet(credit, K)
    <3>1. (\A k \in L \cup K : credit[k] \in Nat) /\ L \ K = {}
      BY <1>15, <2>1, <2>2
    <3> QED
      BY <2>1, <3>1, SumWithin
  <2>7. /\ PaidBy(settlements, u) \in Nat
        /\ PaidBy(settlements', u) = PaidBy(settlements, u)
                                     + (IF t.from = u THEN paid ELSE 0)
    <3>1. p.from = t.from /\ p.amount = paid
      BY DEF p
    <3> QED
      BY <1>1, <1>6, <1>12, <3>1, PaidByOK
  <2>8. CASE u = t.from
    <3>1. SumFunctionOnSet(extra, L) <= SumFunctionOnSet(extra, R)
      <4>1. /\ \A k \in L \cup R : extra[k] \in Nat
            /\ \A k \in L \ R : extra[k] = 0
        BY <1>14, <1>17, <2>1
      <4> QED
        BY <1>16, <2>1, <4>1, SumWithin
    <3>2. SumFunctionOnSet(extra, R) <= paid
      BY <1>11, <1>16
    <3> QED
      BY <1>a, <2>3, <2>4, <2>5, <2>6, <2>7, <2>8, <3>1, <3>2
  <2>9. CASE u # t.from
    <3>1. \A k \in L : extra[k] = 0
      BY <1>14, <1>17, <2>1, <2>9
    <3>2. SumFunctionOnSet(extra, L) = 0
      BY <2>1, <3>1, SumZero
    <3> QED
      BY <2>3, <2>4, <2>5, <2>6, <2>7, <2>9, <3>2
  <2> QED
    BY <2>8, <2>9
<1>20. Explains(new, splits', settlements')
  BY <1>18, <1>19 DEF Explains
<1>21. ASSUME NEW g \in Handlers, tx'[g].op = "settle"
       PROVE  /\ IsFiniteSet(tx'[g].writes)
              /\ \E more : Covers(more, new, splits', tx'[g].writes,
                                 tx'[g].from, Stored(tx'[g].amount))
  <2>1. tx'[g] = tx[g]
    BY <1>1, <1>6, <1>21 DEF Idle
  <2>2. /\ IsFiniteSet(tx[g].writes)
        /\ WritesOK(tx[g].writes, tx[g].from, tx[g].amount)
    BY <1>2, <1>21, <2>1 DEF InFlightCovered, IInv, TxOK
  <2>3. PICK more : Covers(more, credit, splits, tx[g].writes, tx[g].from,
                           Stored(tx[g].amount))
    BY <1>2, <1>21, <2>1 DEF InFlightCovered
  <2>4. ASSUME NEW w \in tx[g].writes, NEW r \in splits', PK(r) = w.row
        PROVE  ValueAfter(r, w) <= new[w.row] + more[w]
    <3>1. PICK s \in splits : PK(s) = PK(r) /\ s.due = r.due
      BY <1>9
    <3>2. ValueAfter(r, w) = ValueAfter(s, w)
      BY <3>1 DEF ValueAfter
    <3>3. ValueAfter(s, w) <= credit[w.row] + more[w] /\ more[w] \in Nat
      BY <2>3, <2>4, <3>1 DEF Covers
    <3>4. w.row \in PKs /\ w.owed \in Nat /\ s.due \in Int
      BY <1>6, <2>2 DEF WritesOK, Write, Split
    <3>5. ValueAfter(s, w) \in Int
      BY <3>4 DEF ValueAfter
    <3> QED
      BY <1>15, <3>2, <3>3, <3>4, <3>5
  <2>5. Covers(more, new, splits', tx[g].writes, tx[g].from, Stored(tx[g].amount))
    BY <2>3, <2>4 DEF Covers
  <2> QED
    BY <2>1, <2>2, <2>5
<1>22. InFlightCovered(new, splits', tx')
  BY <1>21 DEF InFlightCovered
<1>23. /\ IsFiniteSet(settlements')
       /\ \A q \in settlements' : q.id < nextId'
  <2>1. \A q \in settlements : q.id \in Nat /\ q.id < nextId
    BY <1>6 DEF PayInv, Settlement
  <2>2. p.id = nextId
    BY DEF p
  <2>3. IsFiniteSet(settlements \cup {p})
    BY <1>6, FS_AddElement
  <2> QED
    BY <1>1, <1>4, <2>1, <2>2, <2>3
<1> QED
  BY <1>15, <1>20, <1>22, <1>23 DEF PayInv

LEMMA PayInit == Init => PayInv
<1> SUFFICES ASSUME Init PROVE PayInv
  OBVIOUS
<1> DEFINE credit == [k \in PKs |-> 0]
<1>1. credit \in [PKs -> Nat]
  OBVIOUS
<1>2. splits = {} /\ settlements = {} /\ \A h \in Handlers : tx[h].op = "idle"
  BY DEF Init, Idle
<1> HIDE DEF credit
<1>3. ASSUME NEW u \in Users
      PROVE  SumFunctionOnSet(credit, Keys(splits, u)) <= PaidBy(settlements, u)
  <2>1. Keys(splits, u) = {}
    BY <1>2 DEF Keys
  <2>2. SumFunctionOnSet(credit, {}) = 0
    BY SumEmpty
  <2>3. PaidBy({}, u) \in Nat
    BY PaidByOK, FS_EmptySet
  <2> QED
    BY <1>2, <2>1, <2>2, <2>3
<1>4. Explains(credit, splits, settlements)
  BY <1>2, <1>3 DEF Explains
<1>5. InFlightCovered(credit, splits, tx)
  BY <1>2 DEF InFlightCovered
<1> QED
  BY <1>1, <1>2, <1>4, <1>5, FS_EmptySet DEF PayInv

LEMMA PayNext == IInv /\ IInv' /\ PayInv /\ [Next]_vars => PayInv'
<1> SUFFICES ASSUME IInv, IInv', PayInv, [Next]_vars PROVE PayInv'
  OBVIOUS
<1>0. nextId \in Nat /\ tx \in [Handlers -> Tx]
  BY DEF IInv, TypeOK
<1>1. CASE UNCHANGED vars
  BY <1>1, PayKeep DEF vars
<1>2. ASSUME NEW h \in Handlers, Step(h) PROVE PayInv'
  <2>1. CASE BeginSettle(h)
    BY <2>1, PayBegin
  <2>2. CASE CommitSettle(h)
    BY <2>2, PayCommit
  <2>3. ASSUME NEW t, t.op # "settle", Accept(h, t) PROVE PayInv'
    <3>1. /\ UNCHANGED <<splits, settlements, nextId>>
          /\ tx' = [tx EXCEPT ![h] = t]
      BY <2>3 DEF Accept
    <3>2. \A g \in Handlers : tx'[g] = tx[g] \/ tx'[g].op # "settle"
      BY <1>0, <2>3, <3>1
    <3> QED
      BY <3>1, <3>2, PayKeep
  <2>4. CASE \/ BeginCreate(h) \/ BeginUpdate(h) \/ BeginDelete(h)
             \/ BeginAdd(h) \/ BeginRemove(h)
    <3>1. \E t : t.op # "settle" /\ Accept(h, t)
      <4>1. CASE BeginCreate(h)
        BY <4>1 DEF BeginCreate
      <4>2. CASE BeginUpdate(h)
        <5>2. PICK e, set, old, shares :
                Accept(h, UpdateTx(e, set, old, shares))
          BY <4>2, UpdateAccepted
        <5>3. UpdateTx(e, set, old, shares).op # "settle"
          BY DEF UpdateTx
        <5> QED
          BY <5>2, <5>3
      <4>3. CASE BeginDelete(h)
        BY <4>3 DEF BeginDelete
      <4>4. CASE BeginAdd(h)
        BY <4>4 DEF BeginAdd
      <4>5. CASE BeginRemove(h)
        BY <4>5 DEF BeginRemove
      <4> QED
        BY <2>4, <4>1, <4>2, <4>3, <4>4, <4>5
    <3> QED
      BY <2>3, <3>1
  <2>5. ASSUME NEW rows,
               splits' \subseteq splits \cup rows,
               \A r \in rows : r.calc = nextId /\ r.owed = r.due /\ ~r.settled,
               settlements' = settlements, nextId' \in {nextId, nextId + 1},
               tx' = [tx EXCEPT ![h] = Idle]
        PROVE  PayInv'
    <3>1. \A g \in Handlers : tx'[g] = tx[g] \/ tx'[g].op # "settle"
      BY <1>0, <2>5 DEF Idle
    <3>2. \A r \in splits' : \/ r \in splits
                             \/ r.calc = nextId /\ r.owed = r.due /\ ~r.settled
      BY <2>5
    <3> QED
      BY <2>5, <3>1, <3>2, PayKeep
  <2>6. \A exp, shares : \A r \in SplitRows(exp, nextId, shares) :
          r.calc = nextId /\ r.owed = r.due /\ ~r.settled
    BY DEF SplitRows
  <2>7. CASE CommitCreate(h)
    <3>1. splits' = splits \cup SplitRows(nextId, nextId, tx[h].shares)
          /\ settlements' = settlements /\ Done(h)
      BY <2>7 DEF CommitCreate
    <3> QED
      BY <2>5, <2>6, <3>1 DEF Done
  <2>8. CASE CommitUpdate(h)
    <3>1. splits' \subseteq splits \cup SplitRows(tx[h].exp, nextId, tx[h].shares)
          /\ settlements' = settlements /\ Done(h)
      BY <2>8 DEF CommitUpdate
    <3> QED
      BY <2>5, <2>6, <3>1 DEF Done
  <2>9. CASE CommitDelete(h) \/ CommitAdd(h) \/ CommitRemove(h) \/ Rollback(h)
    <3>1. /\ splits' \subseteq splits
          /\ settlements' = settlements /\ nextId' \in {nextId, nextId + 1}
          /\ tx' = [tx EXCEPT ![h] = Idle]
      BY <2>9 DEF CommitDelete, CommitAdd, CommitRemove, Rollback, Done, SplitsWithout
    <3>2. \A g \in Handlers : tx'[g] = tx[g] \/ tx'[g].op # "settle"
      BY <1>0, <3>1 DEF Idle
    <3> QED
      BY <3>1, <3>2, PayKeep
  <2> QED
    BY <1>2, <2>1, <2>2, <2>4, <2>7, <2>8, <2>9 DEF Step
<1> QED
  BY <1>1, <1>2 DEF Next

\* What settlements took off a user's rows is at most what the user has paid.
LEMMA ClearedIsPaid == IInv /\ PayInv => ClearedUpToPaid
<1> SUFFICES ASSUME IInv, PayInv, NEW u \in Users PROVE Cleared(u) <= Paid(u)
  BY DEF ClearedUpToPaid
<1>1. PICK credit \in [PKs -> Nat] : Explains(credit, splits, settlements)
  BY DEF PayInv
<1> DEFINE T == {r \in splits : r.user = u}
           value == [s \in T |-> IF s.settled THEN s.due ELSE s.due - s.owed]
           b == [s \in T |-> PK(s)]
           f == [s \in T |-> credit[PK(s)]]
<1>2. splits \subseteq Split /\ IsFiniteSet(T)
  <2>1. splits \subseteq Split /\ IsFiniteSet(splits)
    BY DEF IInv, TypeOK, SplitsOK
  <2> QED
    BY <2>1, FS_Subset
<1>3. \A s \in T : /\ value[s] \in Int /\ value[s] <= f[s]
                   /\ f[s] \in Nat /\ credit[b[s]] = f[s] /\ b[s] = PK(s)
  <2> SUFFICES ASSUME NEW s \in T
               PROVE  /\ value[s] \in Int /\ value[s] <= f[s]
                      /\ f[s] \in Nat
    OBVIOUS
  <2>1. s.due \in Int /\ s.owed \in Int /\ PK(s) \in PKs
    BY <1>2 DEF Split, PK, PKs
  <2>2. Value(s) <= credit[PK(s)]
    BY <1>1 DEF Explains
  <2> QED
    BY <2>1, <2>2 DEF Value
<1>4. \A r, s \in T : b[r] = b[s] => r = s
  BY <1>3 DEF IInv, SplitsOK
<1>5. Cleared(u) = SumFunctionOnSet(value, T)
  BY DEF Cleared, SumFunction
<1>6. Keys(splits, u) = {b[s] : s \in T}
  BY DEF Keys
<1> HIDE DEF value, b, f, T
<1>7. SumFunctionOnSet(value, T) <= SumFunctionOnSet(f, T)
  BY <1>2, <1>3, SumLeq
<1>8. SumFunctionOnSet(credit, {b[s] : s \in T}) = SumFunctionOnSet(f, T)
  BY <1>2, <1>3, <1>4, SumRenamed
<1>9. SumFunctionOnSet(credit, Keys(splits, u)) <= PaidBy(settlements, u)
  BY <1>1 DEF Explains
<1>10. PaidBy(settlements, u) = Paid(u) /\ PaidBy(settlements, u) \in Nat
  <2>1. PaidBy(settlements, u) \in Nat
    BY PaidByOK DEF IInv, TypeOK, PayInv
  <2> QED
    BY <2>1 DEF PaidBy, Paid
<1>11. SumFunctionOnSet(value, T) \in Int /\ SumFunctionOnSet(f, T) \in Int
  BY <1>2, <1>3, SumInt
<1> QED
  BY <1>5, <1>6, <1>7, <1>8, <1>9, <1>10, <1>11

LEMMA PayInvariance == Spec => [](IInv /\ PayInv)
<1>1. Init => IInv /\ PayInv
  BY InitIInv, PayInit
<1>2. IInv /\ PayInv /\ [Next]_vars => (IInv /\ PayInv)'
  BY NextIInv, PayNext
<1> QED
  BY <1>1, <1>2, PTL DEF Spec

\* However settlements race with each other and with changes of the rows, no
\* user's splits are cleared by more than that user has paid: create_settlement
\* clears rows "up to the settlement amount".
THEOREM LedgerClearedUpToPaid == Spec => []ClearedUpToPaid
<1>1. IInv /\ PayInv => ClearedUpToPaid
  BY ClearedIsPaid
<1> QED
  BY <1>1, PayInvariance, PTL

-----------------------------------------------------------------------------
(* Balances *)

\* What settlements move into and out of a balance, one side at a time.
LEMMA SettlementSums ==
  ASSUME settlements \subseteq Settlement, IsFiniteSet(settlements), NEW u
  PROVE  SumFunction([p \in settlements |-> FromSettlement(u, p)])
           = Paid(u) - Received(u)
<1> DEFINE P == settlements
           out == [p \in P |-> IF u = p.from THEN p.amount ELSE 0]
           in == [p \in P |-> IF u = p.to THEN p.amount ELSE 0]
           neg == [p \in P |-> IF u = p.to THEN -p.amount ELSE 0]
           both == [p \in P |-> FromSettlement(u, p)]
           A == {q \in P : q.from = u}
           B == {q \in P : q.to = u}
           paid == [p \in A |-> p.amount]
           received == [p \in B |-> p.amount]
<1>1. \A p \in P : p.amount \in Int
  BY DEF Settlement
<1>2. /\ \A p \in P : /\ out[p] \in Int /\ in[p] \in Int /\ both[p] \in Int
                      /\ out[p] = both[p] + in[p]
      /\ \A p \in A : out[p] = paid[p] /\ p \in P
      /\ \A p \in B : in[p] = received[p] /\ p \in P
      /\ \A p \in P \ A : out[p] = 0
      /\ \A p \in P \ B : in[p] = 0
  BY <1>1 DEF FromSettlement
<1>3. A \subseteq P /\ B \subseteq P
  OBVIOUS
<1>4. /\ SumFunction([p \in P |-> FromSettlement(u, p)]) = SumFunctionOnSet(both, P)
      /\ Paid(u) = SumFunctionOnSet(paid, A)
      /\ Received(u) = SumFunctionOnSet(received, B)
  BY DEF SumFunction, Paid, Received
<1> HIDE DEF P, out, in, neg, both, A, B, paid, received
<1>5. IsFiniteSet(P)
  BY DEF P
<1>6. SumFunctionOnSet(out, P) = SumFunctionOnSet(both, P) + SumFunctionOnSet(in, P)
  BY <1>2, <1>5, SumPlus
<1>7. SumFunctionOnSet(out, P) = SumFunctionOnSet(paid, A)
  BY <1>2, <1>3, <1>5, SumPart
<1>8. SumFunctionOnSet(in, P) = SumFunctionOnSet(received, B)
  BY <1>2, <1>3, <1>5, SumPart
<1>9. SumFunctionOnSet(both, P) \in Int /\ SumFunctionOnSet(in, P) \in Int
  BY <1>2, <1>5, SumInt
<1> QED
  BY <1>4, <1>6, <1>7, <1>8, <1>9 DEF P

\* What a user paid and received are numbers.
LEMMA PaidReceivedInt ==
  ASSUME settlements \subseteq Settlement, IsFiniteSet(settlements), NEW u
  PROVE  Paid(u) \in Int /\ Received(u) \in Int
<1>1. Paid(u) \in Int
  <2> DEFINE B == {q \in settlements : q.from = u}
             h == [p \in B |-> p.amount]
  <2>1. IsFiniteSet(B) /\ \A p \in B : h[p] \in Int
    BY FS_Subset DEF Settlement
  <2>2. Paid(u) = SumFunctionOnSet(h, B)
    BY DEF Paid, SumFunction
  <2> HIDE DEF B, h
  <2> QED
    BY <2>1, <2>2, SumInt
<1>2. Received(u) \in Int
  <2> DEFINE B == {q \in settlements : q.to = u}
             h == [p \in B |-> p.amount]
  <2>1. IsFiniteSet(B) /\ \A p \in B : h[p] \in Int
    BY FS_Subset DEF Settlement
  <2>2. Received(u) = SumFunctionOnSet(h, B)
    BY DEF Received, SumFunction
  <2> HIDE DEF B, h
  <2> QED
    BY <2>1, <2>2, SumInt
<1> QED
  BY <1>1, <1>2

\* A balance is what one paid for others minus what others paid, where no row is
\* partly paid and no payer was replaced.
LEMMA BalanceIsFair ==
  ASSUME IInv, PayInv
  PROVE  BalancesFair
<1> SUFFICES ASSUME \A s \in splits : s.owed = OwedBy(s.user, PayerOf(s), s.share),
                    NEW u \in Users
             PROVE  Balance(u) = Fair(u)
  BY DEF BalancesFair
<1> DEFINE f == [s \in splits |-> FromSplit(u, s)]
           g == [s \in splits |-> (IF u = PayerOf(s) THEN s.share ELSE 0)
                                  - (IF u = s.user THEN s.share ELSE 0)]
<1>1. \A s \in splits : f[s] \in Int /\ f[s] = g[s]
  <2> SUFFICES ASSUME NEW s \in splits PROVE f[s] \in Int /\ f[s] = g[s]
    OBVIOUS
  <2>1. s.share \in Int /\ s.owed = (IF s.user = PayerOf(s) THEN 0 ELSE s.share)
    BY DEF IInv, TypeOK, Split, OwedBy
  <2> QED
    BY <2>1 DEF FromSplit
<1>2. SumFunction([s \in splits |-> FromSplit(u, s)]) = SumFunctionOnSet(f, splits)
  BY DEF SumFunction
<1>3. Fair(u) = SumFunctionOnSet(g, splits) + Paid(u) - Received(u)
  BY DEF Fair, SumFunction
<1> HIDE DEF f, g
<1>4. SumFunctionOnSet(f, splits) = SumFunctionOnSet(g, splits)
      /\ SumFunctionOnSet(f, splits) \in Int
  BY <1>1, SumSame, SumInt DEF IInv, SplitsOK
<1>5. SumFunction([p \in settlements |-> FromSettlement(u, p)])
        = Paid(u) - Received(u)
  BY SettlementSums DEF IInv, TypeOK, PayInv
<1>6. Paid(u) \in Int /\ Received(u) \in Int
  BY PaidReceivedInt DEF IInv, TypeOK, PayInv
<1> QED
  BY <1>2, <1>3, <1>4, <1>5, <1>6 DEF Balance

\* Where no row is partly paid and no payer was replaced after the calculation,
\* what calculate_group_balances returns is what each user paid for others minus
\* what others paid for that user, with the settlements on top.
THEOREM LedgerBalancesFair == Spec => []BalancesFair
<1>1. IInv /\ PayInv => BalancesFair
  BY BalanceIsFair
<1> QED
  BY <1>1, PayInvariance, PTL

-----------------------------------------------------------------------------

-----------------------------------------------------------------------------
(* What the rows of an expense add up to *)

\* The rows, or the shares they are made of, miss the amount by the slack.
Fits(S, e) ==
    2 * (SumFunctionOnSet([s \in S |-> s.share], S) - e.amount)
        \in -Slack(e, S) .. Slack(e, S)

\* Whole cents for everybody and the rest for the first: what is added up
\* and what is stored are both the nearest cent.
LEMMA EqualMisses ==
  ASSUME NEW amount \in Nat, NEW w \in Int
  PROVE  LET off == Quantized(amount - Fine * w) + w - Stored(amount) IN
         /\ off \in -1 .. 1
         /\ Whole(amount) => off = 0
<1> DEFINE x == amount - Fine * w
           off == NearestEven(x, Fine) + w - NearestUp(amount, Fine)
<1>1. Fine \in Nat /\ Fine > 0 /\ x \in Int
  BY MoneyKept
<1>2. off \in -1 .. 1 /\ (amount % Fine = 0 => off = 0)
  BY <1>1, NearestEvenRest
<1>3. Quantized(x) = NearestEven(x, Fine) /\ Stored(amount) = NearestUp(amount, Fine)
  <2> HIDE DEF x
  <2> QED
    BY <1>1, MoneyKept
<1>4. Quantized(x) + w - Stored(amount) = off
  BY <1>3
<1> HIDE DEF off
<1> QED
  BY <1>2, <1>4 DEF Whole

\* Rounding each of n listed amounts, and the amount, on top of the tolerance.
LEMMA ListMisses ==
  ASSUME NEW amount \in Nat, NEW listed \in Int, NEW sum \in Int, NEW n \in Nat,
         listed - amount \in -(Fine * Tolerance) .. Fine * Tolerance,
         2 * (Fine * sum) <= 2 * listed + Fine * n,
         2 * listed <= 2 * (Fine * sum) + Fine * n
  PROVE  LET slack == 2 * Tolerance + n + 1 IN
         2 * (sum - Stored(amount)) \in -slack .. slack
<1>1. Fine \in Nat /\ Fine > 0 /\ Tolerance \in Nat
      /\ Stored(amount) = NearestUp(amount, Fine)
  BY MoneyKept DEF Tolerance
<1> QED
  BY <1>1, ListedMisses

\* What is renamed one to one is as many and adds up to the same.
LEMMA Renamed ==
  ASSUME NEW S, IsFiniteSet(S), NEW b, NEW T, T = {b[x] : x \in S},
         \A x, y \in S : b[x] = b[y] => x = y,
         \A x \in S : b[x].share = x.share /\ x.share \in Int
  PROVE  /\ IsFiniteSet(T) /\ Cardinality(T) = Cardinality(S)
         /\ SumFunctionOnSet([t \in T |-> t.share], T)
              = SumFunctionOnSet([s \in S |-> s.share], S)
<1> DEFINE f == [s \in S |-> s.share]
           g == [t \in T |-> t.share]
           c == [s \in S |-> b[s]]
<1>0. c \in [S -> T] /\ \A x \in S : c[x] = b[x]
  OBVIOUS
<1> HIDE DEF c
<1>1. c \in Bijection(S, T)
  <2>1. \A x, y \in S : c[x] = c[y] => x = y
    BY <1>0
  <2>2. \A t \in T : \E x \in S : c[x] = t
    BY <1>0
  <2> QED
    BY <1>0, <2>1, <2>2 DEF Bijection, Injection, Surjection, IsInjective
<1>2. IsFiniteSet(T) /\ Cardinality(T) = Cardinality(S)
  BY <1>1, FS_Bijection DEF ExistsBijection
<1>3. \A x \in S : f[x] \in Int /\ g[b[x]] = f[x]
  OBVIOUS
<1> HIDE DEF f, g
<1>4. SumFunctionOnSet(g, {b[x] : x \in S}) = SumFunctionOnSet(f, S)
  <2>1. \A x, y \in S : b[x] = b[y] => x = y
    OBVIOUS
  <2>2. IsFiniteSet(S)
    OBVIOUS
  <2> QED
    BY ONLY <1>3, <2>1, <2>2, SumRenamed
<1> QED
  BY <1>2, <1>4 DEF f, g

\* An equal split adds up to the amount, to within what the cents lose.
LEMMA EqualSharesFit ==
  ASSUME members \subseteq Member, MembersOK,
         NEW amount \in Nat, NEW payer,
         NEW shares \in EqualShares(amount, payer)
  PROVE  /\ shares # {}
         /\ Fits(shares, [amount |-> Stored(amount), mode |-> "equal",
                          basis |-> amount])
<1> DEFINE n == Cardinality(members)
<1>1. PICK first \in members :
        shares = { [key |-> m.id, user |-> m.user,
                    share |-> EqualShare(amount, n, m = first),
                    due |-> OwedBy(m.user, payer, EqualShare(amount, n, m = first))]
                   : m \in members }
  BY DEF EqualShares
<1> DEFINE b == [m \in members |->
                   [key |-> m.id, user |-> m.user,
                    share |-> EqualShare(amount, n, m = first),
                    due |-> OwedBy(m.user, payer, EqualShare(amount, n, m = first))]]
           base == amount \div (n * Fine)
           rest == Quantized(amount - Fine * base * (n - 1))
           low == [m \in members |-> base]
           f == [m \in members |-> EqualShare(amount, n, m = first)]
           g == [s \in shares |-> s.share]
<1>2. n \in Nat /\ n > 0
  BY <1>1, FS_CardinalityType, FS_EmptySet DEF MembersOK
<1>3. shares = {b[m] : m \in members}
  BY <1>1
<1>4. \A l, m \in members : b[l] = b[m] => l = m
  <2> SUFFICES ASSUME NEW l \in members, NEW m \in members, b[l] = b[m]
               PROVE  l = m
    OBVIOUS
  <2>1. b[l].key = l.id /\ b[l].user = l.user /\ b[m].key = m.id /\ b[m].user = m.user
    OBVIOUS
  <2> HIDE DEF b
  <2> QED
    BY <2>1 DEF MembersOK
<1> HIDE DEF n
<1>5. Fine \in Nat /\ Fine > 0
  BY MoneyKept
<1>6. base \in Int
  <2>1. n * Fine \in Nat /\ n * Fine > 0
    BY <1>2, <1>5
  <2> QED
    BY <2>1, Divided
<1>7. \A m \in members :
        /\ f[m] = (IF m = first THEN rest ELSE base)
        /\ low[m] = base
        /\ b[m] \in shares /\ b[m].share = f[m]
  BY <1>3 DEF EqualShare
<1>8. \A m \in members : g[b[m]] = f[m]
  BY <1>7
<1> DEFINE w == base * (n - 1)
<1>9. /\ w \in Int /\ Fine * w = Fine * base * (n - 1) /\ w + base = base * n
      /\ base * n \in Int
  <2> HIDE DEF base
  <2> QED
    BY <1>2, <1>5, <1>6
<1>10. rest = Quantized(amount - Fine * w) /\ rest \in Int
  <2>1. rest = Quantized(amount - Fine * w)
    BY <1>9
  <2>2. amount - Fine * w \in Int
    <3> HIDE DEF w
    <3> QED
      BY <1>5, <1>9
  <2> QED
    BY <2>1, <2>2, MoneyKept
<1> HIDE DEF b, f, g, low, base, rest
<1>11. \A m \in members : f[m] \in Int /\ low[m] \in Int
  <2> SUFFICES ASSUME NEW m \in members PROVE f[m] \in Int /\ low[m] \in Int
    OBVIOUS
  <2> QED
    BY <1>6, <1>7, <1>10
<1>12. SumFunctionOnSet(g, {b[m] : m \in members}) = SumFunctionOnSet(f, members)
  BY <1>4, <1>8, <1>11, SumRenamed DEF MembersOK
<1>13. SumFunctionOnSet(f, members)
         = SumFunctionOnSet(low, members) + f[first] - low[first]
  <2>1. \A m \in members \ {first} : low[m] = f[m]
    BY <1>7
  <2> QED
    BY <1>11, <2>1, SumChange DEF MembersOK
<1>14. SumFunctionOnSet(low, members) = base * n
  BY <1>6, <1>7, SumConst DEF MembersOK, n
<1>15. f[first] = rest /\ low[first] = base
  BY <1>7
<1>16. SumFunctionOnSet(g, shares) = rest + w
  <2>1. SumFunctionOnSet(g, shares) = base * n + rest - base
    BY <1>3, <1>12, <1>13, <1>14, <1>15
  <2> HIDE DEF w
  <2> QED
    BY <1>6, <1>9, <1>10, <2>1
<1> HIDE DEF w
<1>17. LET off == rest + w - Stored(amount) IN
       off \in -1 .. 1 /\ (Whole(amount) => off = 0)
  BY <1>9, <1>10, EqualMisses
<1>18. shares # {}
  BY <1>3
<1>19. 2 * (SumFunctionOnSet(g, shares) - Stored(amount))
         \in -(IF Whole(amount) THEN 0 ELSE 2) .. (IF Whole(amount) THEN 0 ELSE 2)
  <2> DEFINE off == rest + w - Stored(amount)
  <2>1. off \in -1 .. 1 /\ (Whole(amount) => off = 0)
    BY <1>17
  <2>2. SumFunctionOnSet(g, shares) - Stored(amount) = off
    <3>1. rest \in Int /\ w \in Int /\ Stored(amount) \in Int
      BY <1>9, <1>10, MoneyKept
    <3> QED
      BY ONLY <1>16, <3>1
  <2> HIDE DEF off
  <2>3. off \in Int /\ -1 <= off /\ off <= 1
    BY <2>1
  <2>4. CASE Whole(amount)
    BY <2>1, <2>2, <2>4
  <2>5. CASE ~Whole(amount)
    BY <2>2, <2>3, <2>5
  <2> QED
    BY <2>4, <2>5
<1> QED
  BY <1>18, <1>19 DEF Fits, Slack, g

\* An accepted exact list adds up to the amount to within the tolerance and what
\* the cents lose.
LEMMA ExactSharesFit ==
  ASSUME NEW amount \in Nat, NEW payer,
         NEW input \in Seq([user : Users, amount : Int]),
         NEW shares \in ExactShares(amount, payer, input)
  PROVE  /\ shares # {}
         /\ Fits(shares, [amount |-> Stored(amount), mode |-> "exact",
                          basis |-> amount])
<1> DEFINE D == DOMAIN input
           b == [i \in D |->
                   [key |-> i, user |-> input[i].user,
                    share |-> Quantized(input[i].amount),
                    due |-> OwedBy(input[i].user, payer,
                                   Quantized(input[i].amount))]]
           listed == [i \in D |-> input[i].amount]
           f == [i \in D |-> Quantized(input[i].amount)]
           g == [s \in shares |-> s.share]
<1>1. /\ input # <<>>
      /\ shares = {b[i] : i \in D}
      /\ Listed(input) - amount \in -(Fine * Tolerance) .. Fine * Tolerance
  BY DEF ExactShares
<1>2. D = 1 .. Len(input) /\ Len(input) \in Nat /\ Len(input) > 0
  BY <1>1
<1>3. IsFiniteSet(D) /\ D # {}
  <2>1. 1 \in 1 .. Len(input) /\ IsFiniteSet(1 .. Len(input))
    BY <1>2, FS_Interval
  <2> QED
    BY <1>2, <2>1
<1>4. \A i \in D : listed[i] \in Int /\ f[i] = Quantized(listed[i])
  <2> DEFINE Entry == [user : Users, amount : Int]
  <2>1. input \in Seq(Entry) /\ \A e \in Entry : e.amount \in Int
    OBVIOUS
  <2> HIDE DEF Entry
  <2>2. \A i \in D : input[i] \in Entry
    BY <2>1
  <2> QED
    BY <2>1, <2>2
<1>5. \A i \in D : b[i].key = i /\ b[i].share = f[i] /\ b[i] \in shares
  BY <1>1
<1>6. \A i, j \in D : b[i] = b[j] => i = j
  <2> HIDE DEF b, D
  <2> QED
    BY <1>5
<1>7. \A i \in D : g[b[i]] = f[i]
  BY <1>5
<1>8. Listed(input) = SumFunctionOnSet(listed, D)
  BY DEF Listed, SumFunction
<1>9. g = [s \in shares |-> s.share] /\ b = [i \in D |-> b[i]]
  OBVIOUS
<1>10. Cardinality(shares) = Cardinality(D)
  <2>1. b \in Bijection(D, shares)
    <3> HIDE DEF b, D
    <3>1. b \in [D -> shares] /\ \A t \in shares : \E i \in D : b[i] = t
      BY <1>1, <1>5, <1>9
    <3> QED
      BY <1>6, <3>1 DEF Bijection, Injection, Surjection, IsInjective
  <2> HIDE DEF b, D
  <2> QED
    BY <1>3, <2>1, FS_Bijection DEF ExistsBijection
<1> HIDE DEF b, f, g, D, listed
<1>11. \A i \in D : f[i] \in Int /\ f[i] = NearestEven(listed[i], Fine)
  BY <1>4, MoneyKept
<1>12. SumFunctionOnSet(g, {b[i] : i \in D}) = SumFunctionOnSet(f, D)
  BY <1>3, <1>6, <1>7, <1>11, SumRenamed
<1> DEFINE L == SumFunctionOnSet(listed, D)
           G == SumFunctionOnSet(f, D)
           n == Cardinality(D)
<1>13. L \in Int /\ G \in Int /\ n \in Nat
  BY <1>3, <1>4, <1>11, SumInt, FS_CardinalityType
<1>14. 2 * (Fine * G) <= 2 * L + Fine * n /\ 2 * L <= 2 * (Fine * G) + Fine * n
  <2>1. \A i \in D : /\ listed[i] \in Int /\ f[i] \in Int
                     /\ 2 * (Fine * f[i]) <= 2 * listed[i] + Fine
                     /\ 2 * listed[i] <= 2 * (Fine * f[i]) + Fine
    <3> SUFFICES ASSUME NEW i \in D
                 PROVE  /\ 2 * (Fine * f[i]) <= 2 * listed[i] + Fine
                        /\ 2 * listed[i] <= 2 * (Fine * f[i]) + Fine
      BY <1>4, <1>11
    <3> DEFINE l == listed[i]
    <3>1. l \in Int /\ f[i] = NearestEven(l, Fine)
      BY <1>4, <1>11
    <3> HIDE DEF l
    <3>2. /\ 2 * (Fine * NearestEven(l, Fine)) <= 2 * l + Fine
          /\ 2 * l <= 2 * (Fine * NearestEven(l, Fine)) + Fine
      BY <3>1, MoneyKept, NearestEvenBounds
    <3> QED
      BY <3>1, <3>2 DEF l
  <2>2. Fine \in Nat /\ Fine > 0
    BY MoneyKept
  <2> QED
    BY ONLY <1>3, <2>1, <2>2, SumNear DEF L, G, n
<1> HIDE DEF L, G, n
<1>15. L - amount \in -(Fine * Tolerance) .. Fine * Tolerance
  BY <1>1, <1>8 DEF L
<1>16. 2 * (G - Stored(amount)) \in -(2 * Tolerance + n + 1) .. 2 * Tolerance + n + 1
  BY <1>13, <1>14, <1>15, ListMisses
<1>17. SumFunctionOnSet(g, shares) = G /\ Cardinality(shares) = n
  BY <1>1, <1>10, <1>12 DEF G, n
<1>18. shares # {}
  BY <1>1, <1>3
<1> QED
  BY <1>16, <1>17, <1>18 DEF Fits, Slack, g

\* So what _calculate_splits returns fits the amount it was called with.
LEMMA CalculationsFit ==
  ASSUME members \subseteq Member, MembersOK,
         NEW amount \in Nat, NEW payer, NEW mode \in Modes,
         NEW input \in Seq([user : Users, amount : Int]),
         NEW shares \in Calculations(amount, payer, mode, input)
  PROVE  /\ shares # {}
         /\ Fits(shares, [amount |-> Stored(amount), mode |-> mode,
                          basis |-> amount])
<1>1. CASE mode = "equal"
  BY <1>1, EqualSharesFit DEF Calculations
<1>2. CASE mode = "exact"
  BY <1>2, ExactSharesFit DEF Calculations
<1> QED
  BY <1>1, <1>2 DEF Modes

\* The rows made of shares fit what the shares fit.
LEMMA SplitRowsFit ==
  ASSUME NEW exp, NEW calc, NEW shares, SharesOK(shares), shares # {},
         NEW e, Fits(shares, e)
  PROVE  SplitRows(exp, calc, shares) # {} /\ Fits(SplitRows(exp, calc, shares), e)
<1> DEFINE b == [s \in shares |->
                   [exp |-> exp, calc |-> calc, key |-> s.key, user |-> s.user,
                    share |-> s.share, due |-> s.due, owed |-> s.due,
                    settled |-> FALSE]]
           R == SplitRows(exp, calc, shares)
<1>1. R = {b[s] : s \in shares}
  BY DEF SplitRows
<1>2. \A s \in shares : /\ b[s].key = s.key /\ b[s].user = s.user
                        /\ b[s].share = s.share /\ s.share \in Int
  BY DEF SharesOK, Share
<1> HIDE DEF b, R
<1>3. \A r, s \in shares : b[r] = b[s] => r = s
  BY <1>2 DEF SharesOK
<1>4. IsFiniteSet(shares)
  BY DEF SharesOK
<1>5. /\ Cardinality(R) = Cardinality(shares)
      /\ SumFunctionOnSet([r \in R |-> r.share], R)
           = SumFunctionOnSet([s \in shares |-> s.share], shares)
  <2>1. \A s \in shares : b[s].share = s.share /\ s.share \in Int
    BY <1>2
  <2> QED
    BY ONLY <1>1, <1>3, <1>4, <2>1, Renamed
<1> QED
  BY <1>1, <1>5 DEF Fits, Slack, R

-----------------------------------------------------------------------------
(* What a request holds and what the tables say *)

RowsOf(S, id) == {r \in S : r.exp = id}
KeysOf(S, id) == {PK(s) : s \in RowsOf(S, id)}
OneCalc(S) == \A r, s \in S : r.calc = s.calc

\* What was computed from what a request read.  An update's shares fit its
\* expense as long as the expense has no row that the update has not read:
\* every recalculation in between leaves one.
Computed(t) ==
    /\ t.op = "create" =>
         /\ t.shares # {}
         /\ Fits(t.shares, [amount |-> Stored(t.amount), mode |-> t.mode,
                            basis |-> t.amount])
    /\ t.op = "update" =>
         /\ t.exp < nextId
         /\ \/ /\ t.old = {} /\ t.shares = {}
               /\ t.set.amount = None /\ t.set.mode = None /\ t.set.basis = None
            \/ /\ t.shares # {}
               /\ \A k \in t.old : k[1] < nextId
               /\ \A s \in splits : PK(s) \in t.old => s.exp = t.exp
               /\ \A e \in expenses :
                    e.id = t.exp /\ KeysOf(splits, e.id) \subseteq t.old
                      => Fits(t.shares, Overwrite(e, t.set))
    /\ t.op = "settle" =>
         \E q \in Listings(t.read) :
         \E left \in Walks(OwedOf(q, Cardinality(t.read)), Cardinality(t.read),
                           t.amount) :
            t.writes = WritesOf(q, Cardinality(t.read), left)

CoverInv ==
    /\ \A e \in expenses : e.id < nextId
    /\ \A d, e \in expenses : d.id = e.id => d = e
    /\ \A e \in expenses :
         OneCalc(RowsOf(splits, e.id)) => Fits(RowsOf(splits, e.id), e)
    /\ \A h \in Handlers : Computed(tx[h])

\* What an update writes over the columns that count.
LEMMA OverwriteFields ==
  ASSUME NEW e \in Expense, NEW set
  PROVE  LET n == Overwrite(e, set) IN
         /\ n.id = e.id
         /\ n.amount = Merged(set.amount, e.amount)
         /\ n.mode = Merged(set.mode, e.mode)
         /\ n.basis = Merged(set.basis, e.basis)
BY DEF Overwrite, Expense

\* Rows fit whatever has the same amount, split type and basis.
LEMMA FitsSame ==
  ASSUME NEW S, NEW d, NEW e,
         d.amount = e.amount, d.mode = e.mode, d.basis = e.basis, Fits(S, d)
  PROVE  Fits(S, e)
BY DEF Fits, Slack

\* A row that is not new belongs to the expense it belonged to.
ExpensesKept ==
    \A r \in splits' : \/ r.calc = nextId
                        \/ \E s \in splits : PK(s) = PK(r) /\ s.exp = r.exp

\* An expense that an update could still recalculate from what it has read was
\* there before, with the same amount, split type and basis.
RowsRemain(t) ==
    \A f \in expenses' :
        f.id = t.exp /\ KeysOf(splits', f.id) \subseteq t.old =>
          \E e \in expenses :
             /\ e.id = f.id /\ e.amount = f.amount /\ e.mode = f.mode
             /\ e.basis = f.basis
             /\ KeysOf(splits, e.id) \subseteq t.old

LEMMA ComputedStays ==
  ASSUME expenses \subseteq Expense, (expenses \subseteq Expense)',
         nextId \in Nat, nextId' \in Nat, nextId <= nextId', ExpensesKept,
         NEW t \in Tx, Computed(t), t.op = "update" => RowsRemain(t)
  PROVE  Computed(t)'
<1>1. ASSUME t.op = "update",
             t.shares # {},
             \A k \in t.old : k[1] < nextId,
             \A s \in splits : PK(s) \in t.old => s.exp = t.exp,
             \A e \in expenses :
               e.id = t.exp /\ KeysOf(splits, e.id) \subseteq t.old
                 => Fits(t.shares, Overwrite(e, t.set))
      PROVE  /\ \A k \in t.old : k[1] < nextId'
             /\ \A r \in splits' : PK(r) \in t.old => r.exp = t.exp
             /\ \A f \in expenses' :
                  f.id = t.exp /\ KeysOf(splits', f.id) \subseteq t.old
                    => Fits(t.shares, Overwrite(f, t.set))
  <2>1. \A k \in t.old : k[1] \in Nat
    BY <1>1 DEF Tx, Idle, PKs
  <2>2. ASSUME NEW f \in expenses', f.id = t.exp,
               KeysOf(splits', f.id) \subseteq t.old
        PROVE  Fits(t.shares, Overwrite(f, t.set))
    <3>1. PICK e \in expenses :
            /\ e.id = f.id /\ e.amount = f.amount /\ e.mode = f.mode
            /\ e.basis = f.basis
            /\ KeysOf(splits, e.id) \subseteq t.old
      BY <1>1, <2>2 DEF RowsRemain
    <3>2. Fits(t.shares, Overwrite(e, t.set))
      BY <1>1, <2>2, <3>1
    <3>3. e \in Expense /\ f \in Expense
      OBVIOUS
    <3> DEFINE d == Overwrite(e, t.set)
               n == Overwrite(f, t.set)
    <3>4. d.amount = n.amount /\ d.mode = n.mode /\ d.basis = n.basis
      BY <3>1, <3>3, OverwriteFields
    <3> HIDE DEF d, n
    <3>5. Fits(t.shares, d)
      BY <3>2 DEF d
    <3>6. Fits(t.shares, n)
      BY <3>4, <3>5, FitsSame
    <3> QED
      BY <3>6 DEF n
  <2>3. ASSUME NEW r \in splits', PK(r) \in t.old PROVE r.exp = t.exp
    <3>1. PK(r)[1] = r.calc /\ r.calc # nextId
      BY <1>1, <2>1, <2>3 DEF PK
    <3>2. PICK s \in splits : PK(s) = PK(r) /\ s.exp = r.exp
      BY <3>1 DEF ExpensesKept
    <3> QED
      BY <1>1, <2>3, <3>2
  <2> QED
    BY <1>1, <2>1, <2>2, <2>3
<1>2. t.op = "update" => t.exp < nextId'
  <2> SUFFICES ASSUME t.op = "update" PROVE t.exp < nextId'
    OBVIOUS
  <2>1. t.exp \in Nat /\ t.exp < nextId
    BY DEF Tx, Idle, Computed
  <2> QED
    BY <2>1
<1>3. t.op = "update" => t.op # "settle" /\ t.op # "create"
  OBVIOUS
<1>4. CASE t.op = "update"
  BY <1>1, <1>2, <1>3, <1>4 DEF Computed, KeysOf, RowsOf, PK
<1>5. CASE t.op # "update"
  BY <1>5 DEF Computed
<1> QED
  BY <1>4, <1>5

\* Once a handler is done it holds nothing, and the others hold what they held.
LEMMA ComputedFrame ==
  ASSUME IInv, IInv', CoverInv, NEW h \in Handlers,
         tx' = [tx EXCEPT ![h] = Idle], nextId <= nextId', ExpensesKept,
         \A g \in Handlers : tx[g].op = "update" => RowsRemain(tx[g])
  PROVE  \A g \in Handlers : Computed(tx[g])'
<1> SUFFICES ASSUME NEW g \in Handlers PROVE Computed(tx[g])'
  OBVIOUS
<1>1. /\ expenses \subseteq Expense /\ (expenses \subseteq Expense)'
      /\ nextId \in Nat /\ nextId' \in Nat
      /\ tx \in [Handlers -> Tx]
  BY DEF IInv, TypeOK
<1>2. CASE g = h
  <2>1. tx'[g].op = "idle"
    BY <1>1, <1>2 DEF Idle
  <2> QED
    BY <2>1 DEF Computed
<1>3. CASE g # h
  <2> DEFINE t == tx[g]
  <2>1. t \in Tx /\ Computed(t) /\ (t.op = "update" => RowsRemain(t))
    BY <1>1 DEF CoverInv
  <2>2. tx'[g] = t
    BY <1>1, <1>3
  <2> HIDE DEF t
  <2>3. \A u \in Tx : Computed(u) /\ (u.op = "update" => RowsRemain(u))
                        => Computed(u)'
    BY <1>1, ComputedStays
  <2> QED
    BY <2>1, <2>2, <2>3 DEF Computed
<1> QED
  BY <1>2, <1>3

\* Requests only add to what is in flight.
LEMMA CoverAccept ==
  ASSUME IInv, CoverInv, NEW h \in Handlers, NEW t, Computed(t), Accept(h, t)
  PROVE  CoverInv'
<1>1. /\ UNCHANGED <<expenses, splits, nextId>>
      /\ tx' = [tx EXCEPT ![h] = t]
      /\ tx \in [Handlers -> Tx]
  BY DEF Accept, IInv, TypeOK
<1>2. ASSUME NEW g \in Handlers PROVE Computed(tx[g])'
  <2>1. Computed(tx'[g])
    BY <1>1 DEF CoverInv
  <2> QED
    BY <1>1, <2>1 DEF Computed, KeysOf, RowsOf, PK
<1> QED
  BY <1>1, <1>2 DEF CoverInv, OneCalc, RowsOf

\* A recalculating update leaves its merged columns on the row it has loaded.
LEMMA UpdateLeaves ==
  ASSUME TypeOK, NEW e \in expenses, NEW amount \in Amounts \cup {None},
         NEW payer \in Users \cup {None}, NEW mode \in Modes \cup {None}
  PROVE  LET n == Overwrite(e, UpdateSet(e, amount, payer, mode, TRUE)) IN
         /\ n.amount = Stored(Merged(amount, Fine * e.amount))
         /\ n.mode = Merged(mode, e.mode)
         /\ n.basis = Merged(amount, Fine * e.amount)
<1> DEFINE set == UpdateSet(e, amount, payer, mode, TRUE)
           b == Fine * e.amount
           m == Merged(amount, b)
<1>1. /\ e \in Expense /\ e.amount \in Nat /\ e.mode \in Modes
      /\ amount # None => amount \in Nat
      /\ None \notin Nat /\ None \notin Modes
  BY LedgerAssumption DEF TypeOK, Expense, Modes
<1>2. b \in Nat /\ m \in Nat
  BY <1>1, MoneyKept DEF Merged
<1>3. Stored(b) = e.amount
  <2> DEFINE a == e.amount
  <2>1. a \in Nat /\ Fine * a \in Int
    BY <1>1, <1>2
  <2> HIDE DEF a
  <2>2. NearestUp(Fine * a, Fine) = a /\ Stored(Fine * a) = NearestUp(Fine * a, Fine)
    BY <2>1, MoneyKept, NearestUpWhole
  <2> QED
    BY <2>2 DEF a
<1>4. /\ set.amount = DirtyAmount(amount, e.amount)
      /\ set.mode = Dirty(mode, e.mode)
      /\ set.basis = m
  BY DEF UpdateSet
<1> DEFINE n == Overwrite(e, set)
<1>5. /\ n.amount = Merged(set.amount, e.amount)
      /\ n.mode = Merged(set.mode, e.mode)
      /\ n.basis = Merged(set.basis, e.basis)
  BY <1>1, OverwriteFields
<1> HIDE DEF set, n
<1>6. Merged(DirtyAmount(amount, e.amount), e.amount) = Stored(m)
  <2>1. CASE amount = None \/ amount = b
    <3>1. DirtyAmount(amount, e.amount) = None /\ m = b
      BY <2>1 DEF DirtyAmount, Merged
    <3> HIDE DEF m, b
    <3> QED
      BY <1>3, <3>1 DEF Merged
  <2>2. CASE amount # None /\ amount # b
    <3>1. DirtyAmount(amount, e.amount) = Stored(amount) /\ m = amount
      BY <2>2 DEF DirtyAmount, Merged
    <3>2. Stored(amount) \in Nat
      BY <1>1, <2>2, MoneyKept
    <3>3. Stored(amount) # None
      BY <1>1, <3>2
    <3> HIDE DEF m, b
    <3> QED
      BY <3>1, <3>3 DEF Merged
  <2> QED
    BY <2>1, <2>2
<1>7. Merged(Dirty(mode, e.mode), e.mode) = Merged(mode, e.mode)
  BY <1>1 DEF Merged, Dirty
<1>8. Merged(m, e.basis) = m
  <2> HIDE DEF m
  <2> QED
    BY <1>1, <1>2 DEF Merged
<1>9. n.amount = Stored(m) /\ n.mode = Merged(mode, e.mode) /\ n.basis = m
  BY <1>4, <1>5, <1>6, <1>7, <1>8
<1> QED
  BY <1>9 DEF n, set

\* What an update computes fits the row it leaves.
LEMMA CoverBeginUpdate ==
  ASSUME IInv, CoverInv, NEW h \in Handlers, BeginUpdate(h)
  PROVE  CoverInv'
<1>1. PICK e \in expenses, amount \in Amounts \cup {None},
           payer \in Users \cup {None}, mode \in Modes \cup {None},
           input \in ExactInputs \cup {None} :
           \/ Accept(h, UpdateTx(e, UpdateSet(e, amount, payer, mode, FALSE),
                                 {}, {}))
              /\ amount = None /\ mode = None
           \/ \E shares \in Calculations(Merged(amount, Fine * e.amount),
                                         Merged(payer, e.payer),
                                         Merged(mode, e.mode),
                                         Merged(input, <<>>)) :
                Accept(h, UpdateTx(e, UpdateSet(e, amount, payer, mode, TRUE),
                                   RowKeys(e), shares))
  BY UpdateAccepted
<1>2. TypeOK /\ e.id < nextId
  BY DEF IInv, CoverInv
<1>3. CASE /\ Accept(h, UpdateTx(e, UpdateSet(e, amount, payer, mode, FALSE), {}, {}))
           /\ amount = None /\ mode = None
  <2> DEFINE t == UpdateTx(e, UpdateSet(e, amount, payer, mode, FALSE), {}, {})
  <2>1. /\ t.op = "update" /\ t.exp = e.id /\ t.old = {} /\ t.shares = {}
        /\ t.set.amount = None /\ t.set.mode = None /\ t.set.basis = None
    BY <1>3 DEF UpdateTx, UpdateSet, Dirty, DirtyAmount
  <2> HIDE DEF t
  <2>2. Computed(t)
    BY <1>2, <2>1 DEF Computed
  <2> QED
    BY <1>3, <2>2, CoverAccept DEF t
<1>4. ASSUME NEW shares \in Calculations(Merged(amount, Fine * e.amount),
                                        Merged(payer, e.payer),
                                        Merged(mode, e.mode),
                                        Merged(input, <<>>)),
             Accept(h, UpdateTx(e, UpdateSet(e, amount, payer, mode, TRUE),
                                RowKeys(e), shares))
      PROVE  CoverInv'
  <2> DEFINE set == UpdateSet(e, amount, payer, mode, TRUE)
             t == UpdateTx(e, set, RowKeys(e), shares)
             m == Merged(amount, Fine * e.amount)
             n == Overwrite(e, set)
  <2>1. m \in Nat /\ Merged(mode, e.mode) \in Modes
    BY <1>2, UpdateSetOK
  <2>2. /\ shares # {}
        /\ Fits(shares, [amount |-> Stored(m), mode |-> Merged(mode, e.mode),
                         basis |-> m])
    BY <2>1, ListedOK, CalculationsFit DEF IInv, TypeOK
  <2>3. /\ n.amount = Stored(m) /\ n.mode = Merged(mode, e.mode) /\ n.basis = m
    BY <1>2, UpdateLeaves
  <2>4. /\ t.op = "update" /\ t.exp = e.id /\ t.old = RowKeys(e)
        /\ t.shares = shares /\ t.set = set
    BY DEF UpdateTx
  <2> HIDE DEF t, set, m, n
  <2>5. Fits(shares, n)
    <3> DEFINE d == [amount |-> Stored(m), mode |-> Merged(mode, e.mode),
                     basis |-> m]
    <3>1. d.amount = n.amount /\ d.mode = n.mode /\ d.basis = n.basis
          /\ Fits(shares, d)
      BY <2>2, <2>3
    <3> HIDE DEF d
    <3> QED
      BY <3>1, FitsSame
  <2>6. \A d \in expenses : d.id = e.id => Overwrite(d, set) = n
    BY DEF CoverInv, n
  <2>7. \A k \in RowKeys(e) : k[1] < nextId
    BY DEF RowKeys, PK, IInv, SplitsOK
  <2>9. \A s \in splits : PK(s) \in RowKeys(e) => s.exp = e.id
    BY DEF RowKeys, IInv, SplitsOK
  <2>8. Computed(t)
    BY <1>2, <2>2, <2>4, <2>5, <2>6, <2>7, <2>9 DEF Computed
  <2> QED
    BY <1>4, <2>8, CoverAccept DEF t, set
<1> QED
  BY <1>1, <1>3, <1>4

\* What every other request computes, too.
LEMMA CoverBegin ==
  ASSUME IInv, CoverInv, NEW h \in Handlers,
         \/ BeginCreate(h) \/ BeginDelete(h) \/ BeginSettle(h)
         \/ BeginAdd(h) \/ BeginRemove(h)
  PROVE  CoverInv'
<1>1. CASE BeginCreate(h)
  <2>1. PICK u \in Users, amount \in Amounts, payer \in Users, mode \in Modes,
             input \in ExactInputs :
          \E shares \in Calculations(amount, payer, mode, input) :
            Accept(h, [op |-> "create", amount |-> amount, payer |-> payer,
                       by |-> u, mode |-> mode, shares |-> shares])
    BY <1>1 DEF BeginCreate
  <2>2. PICK shares \in Calculations(amount, payer, mode, input) :
          Accept(h, [op |-> "create", amount |-> amount, payer |-> payer,
                     by |-> u, mode |-> mode, shares |-> shares])
    BY <2>1
  <2>3. /\ shares # {}
        /\ Fits(shares, [amount |-> Stored(amount), mode |-> mode,
                         basis |-> amount])
    <3>1. amount \in Nat /\ input \in Seq([user : Users, amount : Int])
      BY LedgerAssumption
    <3> QED
      BY <3>1, CalculationsFit DEF IInv, TypeOK
  <2>4. Computed([op |-> "create", amount |-> amount, payer |-> payer,
                  by |-> u, mode |-> mode, shares |-> shares])
    BY <2>3 DEF Computed
  <2> QED
    BY <2>2, <2>4, CoverAccept
<1>2. CASE BeginDelete(h)
  <2>1. PICK e \in expenses : Accept(h, [op |-> "delete", exp |-> e.id])
    BY <1>2 DEF BeginDelete
  <2>2. Computed([op |-> "delete", exp |-> e.id])
    BY DEF Computed
  <2> QED
    BY <2>1, <2>2, CoverAccept
<1>3. CASE BeginSettle(h)
  <2>1. PICK from \in Users, to \in Users, amount \in Payments :
          \E q \in Listings(Open(from, to)) :
          \E left \in Walks(OwedOf(q, Cardinality(Open(from, to))),
                            Cardinality(Open(from, to)), amount) :
             Accept(h, SettleTx(from, to, amount, q, left))
    BY <1>3, SettleAccepted
  <2>2. PICK q \in Listings(Open(from, to)) :
          \E left \in Walks(OwedOf(q, Cardinality(Open(from, to))),
                            Cardinality(Open(from, to)), amount) :
             Accept(h, SettleTx(from, to, amount, q, left))
    BY <2>1
  <2>3. PICK left \in Walks(OwedOf(q, Cardinality(Open(from, to))),
                            Cardinality(Open(from, to)), amount) :
             Accept(h, SettleTx(from, to, amount, q, left))
    BY <2>2
  <2> DEFINE t == SettleTx(from, to, amount, q, left)
  <2>4. /\ t.op = "settle" /\ t.read = Open(from, to) /\ t.amount = amount
        /\ t.writes = WritesOf(q, Cardinality(Open(from, to)), left)
    BY DEF SettleTx
  <2> HIDE DEF t
  <2>5. Computed(t)
    BY <2>4 DEF Computed
  <2> QED
    BY <2>3, <2>5, CoverAccept DEF t
<1>4. CASE BeginAdd(h)
  <2>1. PICK user \in Users :
          Accept(h, [op |-> "add", user |-> user, checked |-> nextId])
    BY <1>4 DEF BeginAdd
  <2>2. Computed([op |-> "add", user |-> user, checked |-> nextId])
    BY DEF Computed
  <2> QED
    BY <2>1, <2>2, CoverAccept
<1>5. CASE BeginRemove(h)
  <2>1. PICK m \in members : Accept(h, [op |-> "remove", row |-> m])
    BY <1>5 DEF BeginRemove
  <2>2. Computed([op |-> "remove", row |-> m])
    BY DEF Computed
  <2> QED
    BY <2>1, <2>2, CoverAccept
<1> QED
  BY <1>1, <1>2, <1>3, <1>4, <1>5

-----------------------------------------------------------------------------
(* Commits and what was computed *)

\* The row a settlement leaves in the place of s.
After(W, s) == IF \E w \in W : w.row = PK(s)
               THEN ApplyWrite(s, CHOOSE w \in W : w.row = PK(s)) ELSE s

\* A settlement rewrites rows in place, and nothing but what is still owed and
\* whether it is settled.
LEMMA AfterOK ==
  ASSUME IInv, NEW W, NEW from, NEW amount, WritesOK(W, from, amount)
  PROVE  /\ Apply(W) = {After(W, s) : s \in splits}
         /\ \A s \in splits : LET r == After(W, s) IN
              /\ PK(r) = PK(s) /\ r.exp = s.exp /\ r.user = s.user
              /\ r.share = s.share /\ r.due = s.due /\ r.calc = s.calc
         /\ \A s \in splits, w \in W : w.row = PK(s) => After(W, s) = ApplyWrite(s, w)
         /\ \A s \in splits : (\A w \in W : w.row # PK(s)) => After(W, s) = s
<1>1. \A v, w \in W : v.row = w.row => v = w
  BY DEF WritesOK
<1>2. \A s \in splits, w \in W : w.row = PK(s) => After(W, s) = ApplyWrite(s, w)
  BY <1>1 DEF After
<1>3. \A s \in splits : (\A w \in W : w.row # PK(s)) => After(W, s) = s
  BY DEF After
<1>4. ASSUME NEW s \in splits
      PROVE  LET r == After(W, s) IN
             /\ PK(r) = PK(s) /\ r.exp = s.exp /\ r.user = s.user
             /\ r.share = s.share /\ r.due = s.due /\ r.calc = s.calc
  <2>1. s \in Split
    BY DEF IInv, TypeOK
  <2>2. CASE \E w \in W : w.row = PK(s)
    <3>1. PICK w \in W : After(W, s) = ApplyWrite(s, w)
      BY <1>2, <2>2
    <3>2. \/ After(W, s) = [s EXCEPT !.settled = TRUE]
          \/ After(W, s) = [s EXCEPT !.owed = w.owed]
      BY <3>1 DEF ApplyWrite
    <3> QED
      BY <2>1, <3>2 DEF Split, PK
  <2>3. CASE \A w \in W : w.row # PK(s)
    BY <1>3, <2>3
  <2> QED
    BY <2>2, <2>3
<1>5. Apply(W) \subseteq {After(W, s) : s \in splits}
  <2> SUFFICES ASSUME NEW r \in Apply(W)
               PROVE  \E s \in splits : r = After(W, s)
    OBVIOUS
  <2>1. PICK s \in splits :
          \/ r = s /\ \A w \in W : w.row # PK(s)
          \/ \E w \in W : w.row = PK(s) /\ r = ApplyWrite(s, w)
    BY ApplyOK
  <2> QED
    BY <1>2, <1>3, <2>1
<1>6. {After(W, s) : s \in splits} \subseteq Apply(W)
  <2> SUFFICES ASSUME NEW s \in splits PROVE After(W, s) \in Apply(W)
    OBVIOUS
  <2>1. CASE \E w \in W : w.row = PK(s)
    <3>1. PICK w \in W : w.row = PK(s) /\ After(W, s) = ApplyWrite(s, w)
      BY <1>2, <2>1
    <3> QED
      BY <3>1 DEF Apply
  <2>2. CASE \A w \in W : w.row # PK(s)
    BY <1>3, <2>2 DEF Apply
  <2> QED
    BY <2>1, <2>2
<1> QED
  BY <1>2, <1>3, <1>4, <1>5, <1>6

\* So the rows of an expense keep their primary keys, and fit what they fitted.
LEMMA AfterFits ==
  ASSUME IInv, NEW W, NEW from, NEW amount, WritesOK(W, from, amount), NEW id
  PROVE  /\ KeysOf(Apply(W), id) = KeysOf(splits, id)
         /\ OneCalc(RowsOf(Apply(W), id)) => OneCalc(RowsOf(splits, id))
         /\ \A e : Fits(RowsOf(splits, id), e) => Fits(RowsOf(Apply(W), id), e)
<1> DEFINE S == RowsOf(splits, id)
           T == RowsOf(Apply(W), id)
           b == [s \in S |-> After(W, s)]
<1>1. /\ Apply(W) = {After(W, s) : s \in splits}
      /\ \A s \in splits : /\ PK(After(W, s)) = PK(s)
                           /\ After(W, s).exp = s.exp
                           /\ After(W, s).share = s.share
                           /\ After(W, s).calc = s.calc
  BY AfterOK
<1>2. T = {b[s] : s \in S} /\ S \subseteq splits
  BY <1>1 DEF RowsOf
<1>3. \A s \in S : /\ b[s] \in T /\ PK(b[s]) = PK(s) /\ b[s].share = s.share
                   /\ b[s].calc = s.calc
  BY <1>1, <1>2
<1>4. \A s \in S : b[s].share = s.share /\ s.share \in Int
  BY <1>2, <1>3 DEF IInv, TypeOK, Split
<1>5. IsFiniteSet(S)
  BY <1>2, FS_Subset DEF IInv, SplitsOK
<1> HIDE DEF S, T, b
<1>6. \A r, s \in S : b[r] = b[s] => r = s
  BY <1>2, <1>3 DEF IInv, SplitsOK
<1>7. /\ Cardinality(T) = Cardinality(S)
      /\ SumFunctionOnSet([t \in T |-> t.share], T)
           = SumFunctionOnSet([s \in S |-> s.share], S)
  BY <1>2, <1>4, <1>5, <1>6, Renamed
<1>8. \A e : Fits(S, e) => Fits(T, e)
  BY <1>7 DEF Fits, Slack
<1>9. OneCalc(T) => OneCalc(S)
  BY <1>2, <1>3 DEF OneCalc
<1>10. {PK(t) : t \in T} = {PK(s) : s \in S}
  BY <1>2, <1>3
<1> QED
  BY <1>8, <1>9, <1>10 DEF KeysOf, S, T

LEMMA CoverCommitCreate ==
  ASSUME IInv, IInv', CoverInv, NEW h \in Handlers, CommitCreate(h)
  PROVE  CoverInv'
<1> DEFINE t == tx[h]
           R == SplitRows(nextId, nextId, t.shares)
           e == [id |-> nextId, amount |-> Stored(t.amount), payer |-> t.payer,
                 by |-> t.by, mode |-> t.mode, basis |-> t.amount]
           d == [amount |-> Stored(t.amount), mode |-> t.mode, basis |-> t.amount]
<1>1. /\ t.op = "create" /\ Done(h)
      /\ expenses' = expenses \cup {e}
      /\ splits' = splits \cup R
  BY DEF CommitCreate
<1>2. nextId \in Nat /\ SharesOK(t.shares) /\ t.shares # {} /\ Fits(t.shares, d)
  BY <1>1 DEF IInv, TypeOK, TxOK, CoverInv, Computed
<1>3. e.amount = d.amount /\ e.mode = d.mode /\ e.basis = d.basis /\ e.id = nextId
  OBVIOUS
<1>4. nextId' = nextId + 1 /\ tx' = [tx EXCEPT ![h] = Idle]
  BY <1>1 DEF Done
<1> HIDE DEF t, R, e, d
<1>5. Fits(t.shares, e)
  BY <1>2, <1>3, FitsSame
<1>6. Fits(R, e) /\ \A r \in R : r.exp = nextId
  BY <1>2, <1>5, SplitRowsFit, SplitRowsOK DEF R
<1>7. \A f \in expenses : f.id \in Nat /\ f.id < nextId
  BY DEF IInv, TypeOK, Expense, CoverInv
<1>8. \A s \in splits : s.exp # nextId
  BY <1>2, <1>7 DEF IInv, NoOrphanSplits
<1>9. RowsOf(splits', nextId) = R
  BY <1>1, <1>6, <1>8 DEF RowsOf
<1>10. ASSUME NEW id, id # nextId
       PROVE  RowsOf(splits', id) = RowsOf(splits, id)
  BY <1>1, <1>6, <1>10 DEF RowsOf
<1>11. \A f \in expenses' :
         OneCalc(RowsOf(splits', f.id)) => Fits(RowsOf(splits', f.id), f)
  <2>1. ASSUME NEW f \in expenses, OneCalc(RowsOf(splits', f.id))
        PROVE  Fits(RowsOf(splits', f.id), f)
    <3>1. f.id # nextId
      BY <1>2, <1>7
    <3> QED
      BY <1>10, <2>1, <3>1 DEF CoverInv
  <2>2. Fits(RowsOf(splits', e.id), e)
    BY <1>3, <1>6, <1>9
  <2> QED
    BY <1>1, <2>1, <2>2
<1>12. /\ \A f \in expenses' : f.id < nextId'
       /\ \A c, f \in expenses' : c.id = f.id => c = f
  BY <1>1, <1>2, <1>3, <1>4, <1>7 DEF CoverInv
<1>13. ASSUME NEW g \in Handlers, tx[g].op = "update" PROVE RowsRemain(tx[g])
  <2>1. tx[g].exp \in Nat /\ tx[g].exp < nextId
    <3>1. tx[g] \in Tx /\ Computed(tx[g])
      BY DEF IInv, TypeOK, CoverInv
    <3> QED
      BY <1>13, <3>1 DEF Tx, Idle, Computed
  <2>2. \A f \in expenses' : f.id = tx[g].exp =>
          f \in expenses /\ KeysOf(splits', f.id) = KeysOf(splits, f.id)
    <3> SUFFICES ASSUME NEW f \in expenses', f.id = tx[g].exp
                 PROVE  f \in expenses /\ KeysOf(splits', f.id) = KeysOf(splits, f.id)
      OBVIOUS
    <3>1. f.id # nextId
      BY <1>2, <2>1
    <3>2. f \in expenses
      BY <1>1, <1>3, <3>1
    <3> QED
      BY <1>10, <3>1, <3>2 DEF KeysOf
  <2> QED
    BY <2>2 DEF RowsRemain
<1>14. nextId <= nextId'
  BY <1>2, <1>4
<1>15. \A g \in Handlers : Computed(tx[g])'
  <2>1. \A r \in R : r.calc = nextId
    BY DEF R, SplitRows
  <2>2. ExpensesKept
    BY <1>1, <2>1 DEF ExpensesKept
  <2> QED
    BY <1>4, <1>13, <1>14, <2>2, ComputedFrame
<1> QED
  BY <1>11, <1>12, <1>15 DEF CoverInv

LEMMA CoverCommitUpdate ==
  ASSUME IInv, IInv', CoverInv, NEW h \in Handlers, CommitUpdate(h)
  PROVE  CoverInv'
<1> DEFINE t == tx[h]
           R == SplitRows(t.exp, nextId, t.shares)
           K == {s \in splits : PK(s) \notin t.old}
<1>1. PICK e \in expenses :
        /\ t.op = "update" /\ Done(h)
        /\ e.id = t.exp
        /\ expenses' = (expenses \ {e}) \cup {Overwrite(e, t.set)}
        /\ splits' = K \cup R
  BY DEF CommitUpdate
<1> DEFINE n == Overwrite(e, t.set)
           E == RowsOf(splits, e.id)
<1>2. /\ e \in Expense /\ nextId \in Nat /\ SharesOK(t.shares) /\ e.id \in Nat
      /\ nextId' = nextId + 1 /\ tx' = [tx EXCEPT ![h] = Idle]
  BY <1>1 DEF IInv, TypeOK, TxOK, Done, Expense
<1>3. \/ /\ t.old = {} /\ t.shares = {}
         /\ t.set.amount = None /\ t.set.mode = None /\ t.set.basis = None
      \/ /\ t.shares # {}
         /\ \A k \in t.old : k[1] < nextId
         /\ \A s \in splits : PK(s) \in t.old => s.exp = e.id
         /\ KeysOf(splits, e.id) \subseteq t.old => Fits(t.shares, n)
  BY <1>1 DEF CoverInv, Computed
<1>4. /\ n.id = e.id /\ n.amount = Merged(t.set.amount, e.amount)
      /\ n.mode = Merged(t.set.mode, e.mode)
      /\ n.basis = Merged(t.set.basis, e.basis)
  BY <1>2, OverwriteFields
<1>5. \A r \in R : r.exp = e.id /\ r.calc = nextId
  BY <1>1 DEF SplitRows
<1>6. \A c, f \in expenses : c.id = f.id => c = f
  BY DEF CoverInv
<1>7. \A s \in splits : s.calc \in Nat /\ s.calc < nextId
  BY DEF IInv, TypeOK, Split, SplitsOK
<1> DEFINE keeps == /\ t.old = {} /\ t.shares = {}
                    /\ t.set.amount = None /\ t.set.mode = None
                    /\ t.set.basis = None
<1>8. CASE keeps
  <2>1. K = splits /\ R = {}
    BY <1>8 DEF SplitRows
  <2>2. n.amount = e.amount /\ n.mode = e.mode /\ n.basis = e.basis
    BY <1>4, <1>8 DEF Merged
  <2>3. splits' = splits
    BY <1>1, <2>1
  <2> HIDE DEF n, R, K, t, keeps, E
  <2>4. Fits(E, e) => Fits(E, n)
    BY <2>2, FitsSame
  <2>5. \A f \in expenses' : f \in expenses \/ f = n
    BY <1>1 DEF n
  <2>6. \A f \in expenses' :
          OneCalc(RowsOf(splits', f.id)) => Fits(RowsOf(splits', f.id), f)
    BY <1>4, <2>3, <2>4, <2>5 DEF CoverInv, E
  <2>7. \A f \in expenses' : \E d \in expenses :
          /\ d.id = f.id /\ d.amount = f.amount /\ d.mode = f.mode
          /\ d.basis = f.basis
    BY <1>4, <2>2, <2>5
  <2>8. \A g \in Handlers : RowsRemain(tx[g])
    BY <2>3, <2>7 DEF RowsRemain
  <2>9. \A g \in Handlers : Computed(tx[g])'
    <3>1. ExpensesKept
      BY <2>3 DEF ExpensesKept
    <3>2. nextId <= nextId'
      BY <1>2
    <3> QED
      BY <1>2, <2>8, <3>1, <3>2, ComputedFrame
  <2>10. /\ \A f \in expenses' : f.id < nextId'
         /\ \A c, f \in expenses' : c.id = f.id => c = f
    <3>1. \A f \in expenses : f.id \in Nat /\ f.id < nextId
      BY DEF IInv, TypeOK, Expense, CoverInv
    <3>2. \A f \in expenses' : (f \in expenses /\ f # e) \/ f = n
      BY <1>1 DEF n
    <3> QED
      BY <1>2, <1>4, <1>6, <3>1, <3>2
  <2> QED
    BY <2>6, <2>9, <2>10 DEF CoverInv
<1>9. CASE /\ t.shares # {}
           /\ \A k \in t.old : k[1] < nextId
           /\ \A s \in splits : PK(s) \in t.old => s.exp = e.id
           /\ KeysOf(splits, e.id) \subseteq t.old => Fits(t.shares, n)
  <2>1. R # {}
    BY <1>9 DEF SplitRows
  <2>2. \A r \in R : r.calc = nextId
    BY <1>5
  <2>3. OneCalc(RowsOf(splits', e.id)) =>
          /\ RowsOf(splits', e.id) = R
          /\ KeysOf(splits, e.id) \subseteq t.old
    <3> SUFFICES ASSUME OneCalc(RowsOf(splits', e.id))
                 PROVE  \A s \in E : PK(s) \in t.old
      BY <1>1, <1>5 DEF RowsOf, KeysOf
    <3> SUFFICES ASSUME NEW s \in E, PK(s) \notin t.old PROVE FALSE
      OBVIOUS
    <3>1. PICK r \in R : TRUE
      BY <2>1
    <3>2. s \in RowsOf(splits', e.id) /\ r \in RowsOf(splits', e.id)
      BY <1>1, <1>5 DEF RowsOf
    <3>3. s.calc = nextId
      BY <2>2, <3>2 DEF OneCalc
    <3>4. s.calc < nextId
      BY <1>7 DEF RowsOf
    <3> QED
      BY <1>2, <3>3, <3>4
  <2>4. Fits(t.shares, n) => Fits(R, n)
    <3> HIDE DEF n
    <3> QED
      BY <1>2, <1>9, SplitRowsFit
  <2>5. OneCalc(RowsOf(splits', n.id)) => Fits(RowsOf(splits', n.id), n)
    <3> HIDE DEF n, R
    <3> QED
      BY <1>4, <1>9, <2>3, <2>4
  <2>6. /\ \A s \in splits : s \notin K => s.exp = e.id
        /\ \A s \in K : s \in splits
    BY <1>9
  <2> HIDE DEF n, R, K, keeps, E
  <2>7. ASSUME NEW id, id # e.id PROVE RowsOf(splits', id) = RowsOf(splits, id)
    BY <1>1, <1>5, <2>6, <2>7 DEF RowsOf
  <2>8. \A f \in expenses' : (f \in expenses /\ f.id # e.id) \/ f = n
    BY <1>1, <1>6 DEF n
  <2>9. \A f \in expenses' :
          OneCalc(RowsOf(splits', f.id)) => Fits(RowsOf(splits', f.id), f)
    BY <2>5, <2>7, <2>8 DEF CoverInv
  <2>10. /\ \A f \in expenses' : f.id < nextId'
         /\ \A c, f \in expenses' : c.id = f.id => c = f
    <3>1. \A f \in expenses : f.id \in Nat /\ f.id < nextId
      BY DEF IInv, TypeOK, Expense, CoverInv
    <3> QED
      BY <1>2, <1>4, <1>6, <2>8, <3>1
  <2>11. ASSUME NEW g \in Handlers, tx[g].op = "update" PROVE RowsRemain(tx[g])
    <3> DEFINE o == tx[g].old
    <3>1. \/ o = {} /\ tx[g].shares = {}
          \/ \A k \in o : k[1] < nextId
      BY <2>11 DEF CoverInv, Computed
    <3>2. \A k \in o : k[1] < nextId
      BY <3>1
    <3>3. \A r \in R : PK(r) \notin o
      BY <1>2, <2>2, <3>2 DEF PK
    <3>4. PICK r \in R : TRUE
      BY <2>1
    <3>5. PK(r) \in KeysOf(splits', n.id)
      BY <1>1, <1>4, <1>5 DEF KeysOf, RowsOf
    <3>6. \A f \in expenses' : KeysOf(splits', f.id) \subseteq o =>
            f \in expenses /\ f.id # e.id
      BY <2>8, <3>3, <3>5
    <3>7. \A f \in expenses' : KeysOf(splits', f.id) \subseteq o =>
            f \in expenses /\ KeysOf(splits, f.id) \subseteq o
      BY <2>7, <3>6 DEF KeysOf
    <3> QED
      BY <3>7 DEF RowsRemain
  <2>12. ExpensesKept
    BY <1>1, <2>2, <2>6 DEF ExpensesKept
  <2>13. nextId <= nextId'
    BY <1>2
  <2>14. \A g \in Handlers : Computed(tx[g])'
    BY <1>2, <2>11, <2>12, <2>13, ComputedFrame
  <2> QED
    BY <2>9, <2>10, <2>14 DEF CoverInv
<1> QED
  BY <1>3, <1>8, <1>9

LEMMA CoverCommitSettle ==
  ASSUME IInv, IInv', CoverInv, NEW h \in Handlers, CommitSettle(h)
  PROVE  CoverInv'
<1> DEFINE W == tx[h].writes
           from == tx[h].from
           amount == tx[h].amount
<1>1. /\ tx[h].op = "settle"
      /\ splits' = Apply(W)
      /\ nextId' = nextId + 1 /\ tx' = [tx EXCEPT ![h] = Idle]
      /\ expenses' = expenses
  BY DEF CommitSettle, Done
<1>2. WritesOK(W, from, amount) /\ nextId \in Nat
  BY <1>1 DEF IInv, TxOK, TypeOK
<1> HIDE DEF W, from, amount
<1>3. \A id : /\ KeysOf(splits', id) = KeysOf(splits, id)
              /\ OneCalc(RowsOf(splits', id)) => OneCalc(RowsOf(splits, id))
              /\ \A e : Fits(RowsOf(splits, id), e) => Fits(RowsOf(splits', id), e)
  BY <1>1, <1>2, AfterFits
<1>4. \A e \in expenses : e.id < nextId'
  BY <1>1, <1>2 DEF CoverInv, IInv, TypeOK, Expense
<1>5. \A g \in Handlers : RowsRemain(tx[g])
  BY <1>1, <1>3 DEF RowsRemain
<1>6. ExpensesKept
  <2>1. \A r \in splits' : \E s \in splits : PK(s) = PK(r) /\ s.exp = r.exp
    BY <1>1, <1>2, ApplyOK
  <2> QED
    BY <2>1 DEF ExpensesKept
<1>7. nextId <= nextId'
  BY <1>1, <1>2
<1>8. \A g \in Handlers : Computed(tx[g])'
  BY <1>1, <1>5, <1>6, <1>7, ComputedFrame
<1> QED
  BY <1>1, <1>3, <1>4, <1>8 DEF CoverInv

LEMMA CoverCommitOther ==
  ASSUME IInv, IInv', CoverInv, NEW h \in Handlers,
         CommitDelete(h) \/ CommitAdd(h) \/ CommitRemove(h) \/ Rollback(h)
  PROVE  CoverInv'
<1>1. nextId \in Nat /\ \A e \in expenses : e.id \in Nat /\ e.id < nextId
  BY DEF CoverInv, IInv, TypeOK, Expense
<1>2. /\ tx' = [tx EXCEPT ![h] = Idle]
      /\ nextId' \in {nextId, nextId + 1}
      /\ expenses' \subseteq expenses
      /\ \A e \in expenses' : RowsOf(splits', e.id) = RowsOf(splits, e.id)
      /\ splits' \subseteq splits
  BY DEF CommitDelete, CommitAdd, CommitRemove, Rollback, Done, SplitsWithout, RowsOf
<1>3. nextId <= nextId' /\ ExpensesKept /\ \A g \in Handlers : RowsRemain(tx[g])
  BY <1>1, <1>2 DEF ExpensesKept, RowsRemain, KeysOf
<1>4. \A g \in Handlers : Computed(tx[g])'
  BY <1>2, <1>3, ComputedFrame
<1>5. \A e \in expenses' : e.id < nextId'
  BY <1>1, <1>2
<1> QED
  BY <1>2, <1>4, <1>5 DEF CoverInv

LEMMA CoverInit == Init => CoverInv
<1> SUFFICES ASSUME Init PROVE CoverInv
  OBVIOUS
<1>1. \A h \in Handlers : Computed(tx[h])
  <2> SUFFICES ASSUME NEW h \in Handlers PROVE Computed(tx[h])
    OBVIOUS
  <2>1. tx[h].op = "idle"
    BY DEF Init, Idle
  <2> QED
    BY <2>1 DEF Computed
<1> QED
  BY <1>1 DEF Init, CoverInv

LEMMA CoverNext == IInv /\ IInv' /\ CoverInv /\ [Next]_vars => CoverInv'
<1> SUFFICES ASSUME IInv, IInv', CoverInv, [Next]_vars PROVE CoverInv'
  OBVIOUS
<1>1. CASE UNCHANGED vars
  <2>1. UNCHANGED <<expenses, splits, nextId>> /\ tx' = tx
    BY <1>1 DEF vars
  <2>2. \A g \in Handlers : Computed(tx[g])'
    BY <2>1 DEF CoverInv, Computed, KeysOf, RowsOf, PK
  <2> QED
    BY <2>1, <2>2 DEF CoverInv, OneCalc, RowsOf
<1>2. ASSUME NEW h \in Handlers, Step(h) PROVE CoverInv'
  BY <1>2, CoverBegin, CoverBeginUpdate, CoverCommitCreate,
     CoverCommitUpdate, CoverCommitSettle, CoverCommitOther DEF Step
<1> QED
  BY <1>1, <1>2 DEF Next

LEMMA CoverInvariance == Spec => [](IInv /\ CoverInv)
<1>1. Init => IInv /\ CoverInv
  BY InitIInv, CoverInit
<1>2. IInv /\ CoverInv /\ [Next]_vars => (IInv /\ CoverInv)'
  BY NextIInv, CoverNext
<1> QED
  BY <1>1, <1>2, PTL DEF Spec

\* However the edits of an expense overlap, the rows of a single calculation fit
\* its amount: to the cent when whole cents were split equally, otherwise to
\* within the tolerance and what the two roundings lose.
THEOREM LedgerSplitsCoverAmount == Spec => []SplitsCoverAmount
<1>1. CoverInv => SplitsCoverAmount
  BY DEF CoverInv, SplitsCoverAmount, Fits, OneCalc, RowsOf, SumFunction
<1> QED
  BY <1>1, CoverInvariance, PTL

-----------------------------------------------------------------------------
(* What a settlement clears *)

\* Once nothing remains of the payment, nothing comes back.
LEMMA WalkEnds ==
  ASSUME NEW n \in Nat, NEW owed, NEW left,
         \A i \in 1 .. n : owed[i] \in Nat /\ owed[i] > 0,
         \A i \in 1 .. n : left[i] = LeftAfter(owed[i], left[i - 1]),
         NEW k \in 0 .. n, left[k] = 0
  PROVE  left[n] = 0
<1> DEFINE Good == {j \in Nat : k + j <= n => left[k + j] = 0}
<1>1. 0 \in Good
  OBVIOUS
<1>2. ASSUME NEW j \in Nat, j \in Good PROVE j + 1 \in Good
  <2> SUFFICES ASSUME k + (j + 1) <= n PROVE left[k + (j + 1)] = 0
    OBVIOUS
  <2> DEFINE i == k + (j + 1)
  <2>1. i \in 1 .. n /\ i - 1 = k + j
    OBVIOUS
  <2>2. left[i - 1] = 0
    BY <1>2, <2>1
  <2>3. left[i] = LeftAfter(owed[i], 0) /\ owed[i] \in Nat /\ owed[i] > 0
    BY <2>1, <2>2
  <2> DEFINE o == owed[i]
  <2>4. Fine * o > 0
    <3> HIDE DEF o
    <3>1. o \in Nat /\ o > 0 /\ Fine \in Nat /\ Fine > 0
      BY <2>3, MoneyKept DEF o
    <3> QED
      BY <3>1
  <2>5. ~(Fine * o <= 0)
    <3> HIDE DEF o
    <3>1. o \in Nat /\ Fine \in Nat
      BY <2>3, MoneyKept DEF o
    <3>2. Fine * o \in Nat
      BY <3>1
    <3> QED
      BY <2>4, <3>2
  <2>6. left[i] = 0
    BY <2>3, <2>5 DEF LeftAfter, SettlesInFull
  <2> QED
    BY <2>6
<1> HIDE DEF Good
<1>3. n - k \in Good
  <2>1. n - k \in Nat
    OBVIOUS
  <2> QED
    BY <1>1, <1>2, <2>1, NumberInduction
<1>4. k + (n - k) = n
  OBVIOUS
<1> QED
  BY <1>3, <1>4 DEF Good

\* A payment that half a cent remains of has half a cent.
LEMMA TieKept ==
  ASSUME NEW amount \in Nat, NEW x \in Leftovers(amount), Tie(x)
  PROVE  Tie(amount) /\ x # 0
<1>1. x \in Nat /\ Fine \in Nat /\ Fine > 0
  BY LeftoverOK, MoneyKept
<1>2. x # 0
  <2> SUFFICES ASSUME x = 0 PROVE FALSE
    OBVIOUS
  <2>1. 0 % Fine = 0
    BY <1>1
  <2> QED
    BY <1>1, <2>1 DEF Tie
<1>3. PICK k \in Nat : amount = Fine * k + x
  BY <1>2, LeftoverOK
<1> DEFINE r == x % Fine
           q == x \div Fine
           s == amount % Fine
           p == amount \div Fine
<1>4. /\ q \in Int /\ r \in 0 .. Fine - 1 /\ x = Fine * q + r /\ Fine * q \in Int
      /\ p \in Int /\ s \in 0 .. Fine - 1 /\ amount = Fine * p + s
      /\ Fine * p \in Int
  BY <1>1, Divided
<1> HIDE DEF r, q, s, p
<1> DEFINE j == k + q
<1>5. Fine * j = Fine * k + Fine * q /\ Fine * k \in Int /\ j \in Int
      /\ Fine * j \in Int
  BY <1>1, <1>4
<1> HIDE DEF j
<1>6. Fine * j + r = Fine * p + s
  BY <1>3, <1>4, <1>5
<1>7. Fine * j < Fine * p + Fine /\ Fine * p < Fine * j + Fine
  BY <1>1, <1>4, <1>5, <1>6
<1>8. j <= p /\ p <= j
  BY <1>1, <1>4, <1>5, <1>7, Cancelled
<1>9. r = s
  <2>1. j = p
    BY <1>4, <1>5, <1>8
  <2> QED
    BY <1>4, <1>5, <1>6, <2>1
<1> QED
  BY <1>2, <1>9 DEF Tie, r, s

\* A payment takes what it is recorded with off the rows, or all they hold if
\* that is less; a cent less where half a cent was rounded.
LEMMA WalkTakes ==
  ASSUME NEW n \in Nat, NEW owed, NEW left, NEW t, NEW amount \in Nat,
         \A i \in 1 .. n : owed[i] \in Nat /\ owed[i] > 0,
         left \in [0 .. n -> Leftovers(amount)], left[0] = amount,
         \A i \in 1 .. n : left[i] = LeftAfter(owed[i], left[i - 1]),
         \A i \in 1 .. n :
            LET d == Stored(left[i - 1]) - Stored(left[i]) IN
            \/ t[i] = d
            \/ /\ ~SettlesInFull(owed[i], left[i - 1]) /\ Tie(left[i - 1])
               /\ t[i] = d - 1
  PROVE  LET took == SumFunctionOnSet(t, 1 .. n)
             all == SumFunctionOnSet(owed, 1 .. n)
         IN \/ took = Min({Stored(amount), all})
            \/ Tie(amount) /\ took = Stored(amount) - 1
<1> DEFINE worth == [i \in 0 .. n |-> Stored(left[i])]
           d == [i \in 1 .. n |-> worth[i - 1] - worth[i]]
           all == SumFunctionOnSet(owed, 1 .. n)
           took == SumFunctionOnSet(t, 1 .. n)
           recorded == Stored(amount)
           rest == Stored(left[n])
<1>1. IsFiniteSet(1 .. n) /\ n \in 0 .. n /\ 0 \in 0 .. n
  BY FS_Interval
<1>2. \A i \in 0 .. n : left[i] \in Nat /\ left[i] \in Leftovers(amount)
  <2> SUFFICES ASSUME NEW i \in 0 .. n PROVE left[i] \in Nat
    OBVIOUS
  <2>1. left[i] \in Leftovers(amount)
    OBVIOUS
  <2> QED
    BY <2>1, LeftoverOK
<1>3. \A i \in 1 .. n : i - 1 \in 0 .. n /\ i \in 0 .. n
  OBVIOUS
<1>4. \A i \in 0 .. n : worth[i] = Stored(left[i]) /\ worth[i] \in Nat
  BY <1>2, MoneyKept
<1>5. SumFunctionOnSet(d, 1 .. n) = recorded - rest
  <2>1. \A i \in 0 .. n : worth[i] \in Int
    BY <1>4
  <2>2. \A i \in 1 .. n : d[i] = worth[i - 1] - worth[i]
    OBVIOUS
  <2>3. worth[0] = recorded /\ worth[n] = rest
    BY <1>1, <1>4
  <2> HIDE DEF d, worth, recorded, rest
  <2>4. SumFunctionOnSet(d, 1 .. n) = worth[0] - worth[n]
    BY <2>1, <2>2, SumTelescope
  <2> QED
    BY <2>3, <2>4
<1>6. \A i \in 1 .. n : /\ d[i] \in Int /\ d[i] <= owed[i]
                        /\ left[i] > 0 => d[i] = owed[i]
                        /\ ~SettlesInFull(owed[i], left[i - 1]) => left[i] = 0
                        /\ d[i] = Stored(left[i - 1]) - Stored(left[i])
  <2> SUFFICES ASSUME NEW i \in 1 .. n
               PROVE  /\ d[i] \in Int /\ d[i] <= owed[i]
                      /\ left[i] > 0 => d[i] = owed[i]
                      /\ ~SettlesInFull(owed[i], left[i - 1]) => left[i] = 0
                      /\ d[i] = Stored(left[i - 1]) - Stored(left[i])
    OBVIOUS
  <2> DEFINE o == owed[i]
             k == left[i - 1]
             a == left[i]
  <2>1. o \in Nat /\ k \in Nat /\ a \in Nat /\ a = LeftAfter(o, k)
    BY <1>2, <1>3
  <2>2. d[i] = Stored(k) - Stored(a)
    BY <1>3, <1>4
  <2> HIDE DEF o, k, a, d
  <2>3. CASE SettlesInFull(o, k)
    <3>1. Stored(k) - Stored(LeftAfter(o, k)) = o
      BY <2>1, <2>3, StepTakes
    <3>2. d[i] = o
      BY <2>1, <2>2, <3>1
    <3> QED
      BY <2>1, <2>2, <2>3, <3>2 DEF o, k, a
  <2>4. CASE ~SettlesInFull(o, k)
    <3>1. a = 0
      BY <2>1, <2>4 DEF LeftAfter
    <3>2. Stored(k) - Stored(LeftAfter(o, k)) = Stored(k)
      BY <2>1, <2>4, StepTakes
    <3>3. d[i] = Stored(k)
      BY <2>1, <2>2, <3>2
    <3>4. Stored(k) <= o /\ Stored(k) \in Int
      <4>1. /\ k <= Fine * o /\ Fine * o \in Int /\ k \in Int
            /\ Fine \in Nat /\ Fine > 0
        BY <2>1, <2>4, MoneyKept DEF SettlesInFull
      <4> DEFINE fo == Fine * o
      <4>2. NearestUp(fo, Fine) = o
        BY <2>1, <4>1, NearestUpWhole
      <4>3. NearestUp(k, Fine) <= NearestUp(fo, Fine)
        <5> HIDE DEF fo
        <5>1. k <= fo /\ fo \in Int
          BY <4>1 DEF fo
        <5> QED
          BY <4>1, <5>1, NearestUpLeq
      <4> HIDE DEF fo
      <4> QED
        BY <4>1, <4>2, <4>3, MoneyKept
    <3> QED
      BY <2>2, <3>1, <3>3, <3>4 DEF o, k, a
  <2> QED
    BY <2>3, <2>4
<1>7. all \in Nat
  BY <1>1, SumNat
<1>8. recorded \in Nat /\ rest \in Nat
  BY <1>1, <1>2, MoneyKept
<1> HIDE DEF d, worth
<1>9. recorded - rest <= all
  <2>1. \A i \in 1 .. n : d[i] \in Int /\ owed[i] \in Int /\ d[i] <= owed[i]
    BY <1>6
  <2>2. SumFunctionOnSet(d, 1 .. n) <= SumFunctionOnSet(owed, 1 .. n)
    BY <1>1, <2>1, SumLeq
  <2> QED
    BY <1>5, <2>2
<1>10. left[n] > 0 => recorded - rest = all
  <2> SUFFICES ASSUME left[n] > 0 PROVE recorded - rest = all
    OBVIOUS
  <2>1. \A i \in 1 .. n : left[i] > 0
    <3> SUFFICES ASSUME NEW i \in 1 .. n, left[i] = 0 PROVE FALSE
      BY <1>2, <1>3
    <3>1. /\ n \in Nat /\ i \in 0 .. n /\ left[i] = 0
          /\ \A x \in 1 .. n : owed[x] \in Nat /\ owed[x] > 0
          /\ \A x \in 1 .. n : left[x] = LeftAfter(owed[x], left[x - 1])
      BY <1>3
    <3>2. left[n] = 0
      BY ONLY <3>1, WalkEnds
    <3> QED
      BY <3>2
  <2>2. \A i \in 1 .. n : d[i] \in Int /\ d[i] = owed[i]
    BY <1>6, <2>1
  <2> QED
    BY <1>1, <1>5, <2>2, SumSame
<1>11. left[n] = 0 => rest = 0
  <2>1. Fine * 0 = 0
    BY MoneyKept
  <2>2. NearestUp(Fine * 0, Fine) = 0
    BY MoneyKept, NearestUpWhole
  <2> QED
    BY <2>1, <2>2, MoneyKept
<1> DEFINE tied(i) == /\ ~SettlesInFull(owed[i], left[i - 1])
                      /\ Tie(left[i - 1])
                      /\ t[i] = d[i] - 1
<1>12. \A i \in 1 .. n : t[i] = d[i] \/ tied(i)
  BY <1>6
<1>13. \A i \in 1 .. n : t[i] \in Int
  BY <1>6, <1>12
<1>14. ASSUME NEW i \in 1 .. n, NEW j \in 1 .. n, tied(i), tied(j) PROVE i = j
  <2>1. ASSUME NEW k \in 1 .. n, NEW m \in 1 .. n, k < m, tied(k), tied(m)
        PROVE  FALSE
    <3> DEFINE p == m - 1
    <3>1. p \in Nat /\ k \in 0 .. p /\ p \in 0 .. n /\ 1 .. p \subseteq 1 .. n
      BY <2>1
    <3>2. left[k] = 0
      BY <1>6, <2>1
    <3> HIDE DEF p
    <3>5. /\ p \in Nat /\ k \in 0 .. p /\ left[k] = 0
          /\ \A x \in 1 .. p : owed[x] \in Nat /\ owed[x] > 0
          /\ \A x \in 1 .. p : left[x] = LeftAfter(owed[x], left[x - 1])
      BY <3>1, <3>2
    <3>3. left[p] = 0
      BY ONLY <3>5, WalkEnds
    <3>4. left[p] # 0
      BY <1>2, <2>1, <3>1, TieKept DEF p
    <3> QED
      BY <3>3, <3>4
  <2> SUFFICES ASSUME i # j PROVE FALSE
    OBVIOUS
  <2>2. i < j \/ j < i
    OBVIOUS
  <2> QED
    BY <1>14, <2>1, <2>2
<1> HIDE DEF all, took, recorded, rest
<1>15. CASE \E j \in 1 .. n : tied(j)
  <2>1. PICK j \in 1 .. n : tied(j)
    BY <1>15
  <2>2. \A i \in 1 .. n \ {j} : d[i] = t[i]
    BY <1>12, <1>14, <2>1
  <2>3. took = (recorded - rest) + t[j] - d[j]
    <3> DEFINE D == 1 .. n
    <3>1. /\ IsFiniteSet(D) /\ j \in D
          /\ \A x \in D : d[x] \in Int /\ t[x] \in Int
          /\ \A x \in D \ {j} : d[x] = t[x]
      BY <1>1, <1>6, <1>13, <2>2
    <3> HIDE DEF D
    <3> DEFINE R == D \ {j}
    <3>2. /\ SumFunctionOnSet(t, D) = t[j] + SumFunctionOnSet(t, R)
          /\ SumFunctionOnSet(d, D) = d[j] + SumFunctionOnSet(d, R)
      BY ONLY <3>1, SumRemove
    <3>3. IsFiniteSet(R) /\ \A x \in R : d[x] \in Int /\ d[x] = t[x]
      BY <3>1, FS_Subset
    <3> HIDE DEF R
    <3>4. /\ SumFunctionOnSet(d, R) = SumFunctionOnSet(t, R)
          /\ SumFunctionOnSet(d, R) \in Int
      BY <3>3, SumSame, SumInt
    <3>5. SumFunctionOnSet(d, D) = recorded - rest /\ took = SumFunctionOnSet(t, D)
      BY <1>5 DEF took, D
    <3>6. t[j] \in Int /\ d[j] \in Int
      BY <3>1
    <3> QED
      BY <1>8, <3>2, <3>4, <3>5, <3>6
  <2>4. t[j] = d[j] - 1 /\ d[j] \in Int
    BY <1>6, <2>1
  <2>5. left[n] = 0
    <3>1. left[j] = 0
      BY <1>6, <2>1
    <3>2. /\ n \in Nat /\ j \in 0 .. n /\ left[j] = 0
          /\ \A x \in 1 .. n : owed[x] \in Nat /\ owed[x] > 0
          /\ \A x \in 1 .. n : left[x] = LeftAfter(owed[x], left[x - 1])
      BY <1>3, <3>1
    <3> QED
      BY ONLY <3>2, WalkEnds
  <2>6. took = recorded - 1
    BY <1>8, <1>11, <2>3, <2>4, <2>5
  <2>7. Tie(amount)
    BY <1>2, <1>3, <2>1, TieKept
  <2> QED
    BY <2>6, <2>7 DEF took, recorded
<1>16. CASE ~\E j \in 1 .. n : tied(j)
  <2>1. \A i \in 1 .. n : d[i] \in Int /\ d[i] = t[i]
    BY <1>6, <1>12, <1>16
  <2>2. took = recorded - rest
    <3>1. SumFunctionOnSet(d, 1 .. n) = SumFunctionOnSet(t, 1 .. n)
      BY <1>1, <2>1, SumSame
    <3> QED
      BY <1>5, <3>1 DEF took
  <2>3. \A x \in Int : /\ x \in {recorded, all}
                       /\ x <= recorded /\ x <= all
                       => Min({recorded, all}) = x
    BY <1>7, <1>8 DEF Min
  <2>4. left[n] > 0 \/ left[n] = 0
    BY <1>1, <1>2
  <2>5. /\ took \in {recorded, all} /\ took <= recorded /\ took <= all
        /\ took \in Int
    BY <1>7, <1>8, <1>9, <1>10, <1>11, <2>2, <2>4
  <2> QED
    BY <2>3, <2>5 DEF took, recorded, all
<1> QED
  BY <1>15, <1>16

-----------------------------------------------------------------------------
(* Settlements that nothing came before *)

\* All that is open on a set of rows.
OwedOn(S) == SumFunction([s \in S |-> s.owed])

\* Row by row, the writes of a walk take off what the walk has spent on the
\* row, but for the cent that the column rounds half a cent up to.
LEMMA WalkWrites ==
  ASSUME IInv, NEW from \in Users, NEW to \in Users, NEW amount \in Nat,
         NEW q \in Listings(Open(from, to)),
         NEW left \in Walks(OwedOf(q, Cardinality(Open(from, to))),
                            Cardinality(Open(from, to)), amount),
         NEW W, W = WritesOf(q, Cardinality(Open(from, to)), left),
         WritesOK(W, from, amount)
  PROVE  \E delta \in [splits -> Int] :
           /\ \A s \in splits : Value(After(W, s)) = Value(s) + delta[s]
           /\ \A s \in splits \ Open(from, to) : delta[s] = 0
           /\ LET took == SumFunctionOnSet(delta, Open(from, to)) IN
              \/ took = Min({Stored(amount), OwedOn(Open(from, to))})
              \/ Tie(amount) /\ took = Stored(amount) - 1
<1> DEFINE S == Open(from, to)
           n == Cardinality(S)
           I == Reached(n, left)
           o == OwedOf(q, n)
           owed == [s \in S |-> s.owed]
           delta == [s \in splits |-> Value(After(W, s)) - Value(s)]
           t == [i \in 1 .. n |-> delta[q[i]]]
<1>1. \A s \in S : s \in splits /\ s.owed > 0 /\ ~s.settled
  BY DEF Open
<1>2. splits \subseteq Split /\ IsFiniteSet(splits)
      /\ \A r, s \in splits : PK(r) = PK(s) => r = s
  BY DEF IInv, TypeOK, SplitsOK
<1>3. IsFiniteSet(S) /\ S \subseteq splits
  BY <1>1, <1>2, FS_Subset
<1>4. n \in Nat
  BY <1>3, FS_CardinalityType
<1>5. /\ q \in [1 .. n -> S]
      /\ \A i, j \in 1 .. n : i < j => q[i] # q[j]
  BY DEF Listings
<1>6. /\ left \in [0 .. n -> Leftovers(amount)]
      /\ left[0] = amount
      /\ \A i \in 1 .. n : left[i] = LeftAfter(o[i], left[i - 1])
  BY DEF Walks
<1>7. W = {RowWrite(q[i], left[i - 1]) : i \in I}
  BY DEF WritesOf
<1>8. OwedOn(S) = SumFunctionOnSet(owed, S)
  BY DEF OwedOn, SumFunction
<1>9. \A i \in 1 .. n : o[i] = q[i].owed
  BY DEF OwedOf
<1> HIDE DEF S, n, o
<1>10. \A i, j \in 1 .. n : q[i] = q[j] => i = j
  BY <1>4, <1>5
<1>11. \A s \in S : \E i \in 1 .. n : q[i] = s
  <2>1. q \in Injection(1 .. n, S)
    BY <1>5, <1>10 DEF Injection, IsInjective
  <2>2. Cardinality(1 .. n) = n /\ Cardinality(S) = n
    BY <1>4, FS_Interval DEF n
  <2>3. q \in Surjection(1 .. n, S)
    BY <1>3, <2>1, <2>2, FS_Injection
  <2> QED
    BY <2>3 DEF Surjection
<1>12. \A i \in 1 .. n : /\ q[i] \in S /\ q[i] \in Split /\ q[i] \in splits
                         /\ left[i - 1] \in Nat /\ left[i] \in Nat
                         /\ o[i] \in Nat /\ o[i] > 0 /\ q[i].due \in Int
                         /\ ~q[i].settled
  <2> SUFFICES ASSUME NEW i \in 1 .. n
               PROVE  /\ q[i] \in Split /\ left[i - 1] \in Nat /\ left[i] \in Nat
                      /\ o[i] \in Nat /\ o[i] > 0 /\ q[i].due \in Int
    BY <1>1, <1>5
  <2>1. i - 1 \in 0 .. n /\ i \in 0 .. n
    BY <1>4
  <2>2. q[i] \in Split /\ q[i].owed > 0
    BY <1>1, <1>2, <1>5
  <2>3. left[i - 1] \in Leftovers(amount) /\ left[i] \in Leftovers(amount)
    BY <1>6, <2>1
  <2>4. left[i - 1] \in Nat /\ left[i] \in Nat
    BY <2>3, LeftoverOK
  <2> QED
    BY <1>9, <2>2, <2>4 DEF Split
<1>13. \A i \in I : i \in 1 .. n /\ left[i - 1] > 0
  BY DEF Reached
<1>14. \A i \in 1 .. n : left[i - 1] > 0 => i \in I
  BY DEF Reached
<1> HIDE DEF I
<1>15. ASSUME NEW s \in splits
       PROVE  /\ Value(After(W, s)) \in Int /\ Value(s) \in Int
              /\ delta[s] = Value(After(W, s)) - Value(s)
              /\ (\A w \in W : w.row # PK(s)) => delta[s] = 0
  <2>1. s \in Split
    BY <1>2
  <2>2. Value(s) \in Int
    BY <2>1 DEF Value, Split
  <2>3. (\A w \in W : w.row # PK(s)) => After(W, s) = s
    BY AfterOK
  <2>4. ASSUME NEW w \in W, w.row = PK(s) PROVE Value(After(W, s)) \in Int
    <3>1. After(W, s) = ApplyWrite(s, w)
      BY <2>4, AfterOK
    <3>2. w.owed \in Int
      BY DEF WritesOK, Write
    <3>3. \/ After(W, s) = [s EXCEPT !.settled = TRUE]
          \/ After(W, s) = [s EXCEPT !.owed = w.owed]
      BY <3>1 DEF ApplyWrite
    <3> QED
      BY <2>1, <3>2, <3>3 DEF Value, Split
  <2> QED
    BY <2>2, <2>3, <2>4
<1>16. delta \in [splits -> Int] /\ \A i \in 1 .. n : t[i] = delta[q[i]]
  <2>1. delta = [s \in splits |-> delta[s]] /\ \A i \in 1 .. n : t[i] = delta[q[i]]
    OBVIOUS
  <2> HIDE DEF delta, t
  <2>2. \A s \in splits : delta[s] \in Int
    BY <1>15
  <2> QED
    BY <2>1, <2>2
<1>17. \A i \in 1 .. n : owed[q[i]] = o[i]
  BY <1>9, <1>12
<1> HIDE DEF delta, t, owed
<1>18. \A w \in W : \E i \in I : w = RowWrite(q[i], left[i - 1]) /\ w.row = PK(q[i])
  BY <1>7 DEF RowWrite
<1>19. \A s \in splits \ S : delta[s] = 0
  <2> SUFFICES ASSUME NEW s \in splits \ S, NEW w \in W, w.row = PK(s)
               PROVE  FALSE
    BY <1>15
  <2>1. PICK i \in I : w.row = PK(q[i])
    BY <1>18
  <2>2. q[i] \in S /\ q[i] \in splits
    BY <1>12, <1>13
  <2> QED
    BY <1>2, <2>1, <2>2
<1>20. ASSUME NEW i \in 1 .. n
       PROVE  LET d == Stored(left[i - 1]) - Stored(left[i]) IN
              \/ t[i] = d
              \/ /\ ~SettlesInFull(o[i], left[i - 1]) /\ Tie(left[i - 1])
                 /\ t[i] = d - 1
  <2> DEFINE s == q[i]
             k == left[i - 1]
             d == Stored(left[i - 1]) - Stored(left[i])
             w == RowWrite(s, k)
  <2>1. /\ s \in Split /\ s \in splits /\ ~s.settled /\ s.owed = o[i]
        /\ o[i] \in Nat /\ o[i] > 0 /\ k \in Nat /\ left[i] \in Nat
        /\ left[i] = LeftAfter(o[i], k) /\ s.due \in Int
    BY <1>6, <1>9, <1>12
  <2>2. t[i] = delta[s]
    BY <1>16
  <2>3. Value(s) = s.due - s.owed
    BY <2>1 DEF Value
  <2>4. CASE k > 0
    <3>1. w \in W /\ w.row = PK(s)
      BY <1>7, <1>14, <2>4 DEF RowWrite
    <3>2. After(W, s) = ApplyWrite(s, w)
      BY <2>1, <3>1, AfterOK
    <3>3. d = Stored(k) - Stored(LeftAfter(o[i], k))
      BY <2>1
    <3>4. CASE SettlesInFull(o[i], k)
      <4>1. w.settled = TRUE
        <5>1. SettlesInFull(s.owed, k) = TRUE
          BY <2>1, <3>4 DEF SettlesInFull
        <5> QED
          BY <5>1 DEF RowWrite
      <4>2. d = o[i]
        BY <2>1, <3>3, <3>4, StepTakes
      <4> HIDE DEF s, k, d, w
      <4>3. After(W, s) = [s EXCEPT !.settled = TRUE]
        BY <3>2, <4>1 DEF ApplyWrite
      <4>4. Value(After(W, s)) = s.due
        BY <2>1, <4>3 DEF Value, Split
      <4>5. t[i] = o[i]
        BY <1>15, <2>1, <2>2, <2>3, <4>4
      <4> QED
        BY <4>2, <4>5 DEF d
    <3>5. CASE ~SettlesInFull(o[i], k)
      <4> DEFINE p == PaidDown(o[i], k)
      <4>1. ~w.settled /\ w.owed = p
        BY <2>1, <3>5 DEF RowWrite
      <4>2. /\ p \in Int /\ d \in Int
            /\ \/ o[i] - p = d
               \/ Tie(k) /\ o[i] - p = d - 1
        <5>1. d = Stored(k) - Stored(LeftAfter(o[i], k))
          BY <3>3
        <5>2. Stored(k) - Stored(LeftAfter(o[i], k)) \in Nat
          BY <2>1, StepTakes
        <5>3. /\ p \in Int
              /\ Stored(k) - Stored(LeftAfter(o[i], k)) = Stored(k)
              /\ \/ o[i] - p = Stored(k)
                 \/ Tie(k) /\ o[i] - p = Stored(k) - 1
          <6> HIDE DEF k, s, d, w
          <6>1. o[i] \in Nat /\ k \in Nat /\ ~SettlesInFull(o[i], k)
            BY <2>1, <3>5
          <6> DEFINE ow == o[i]
                     after == LeftAfter(ow, k)
                     took == Stored(k) - Stored(after)
          <6>2. /\ took \in Nat /\ p \in Int /\ took = Stored(k)
                /\ \/ ow - p = took
                   \/ Tie(k) /\ ow - p = took - 1
            <7>1. /\ ow \in Nat /\ k \in Nat /\ ~SettlesInFull(ow, k)
                  /\ p = PaidDown(ow, k)
              BY <6>1
            <7> HIDE DEF ow, p
            <7> QED
              BY <7>1, StepTakes
          <6> QED
            BY <6>2
        <5> QED
          BY <5>1, <5>2, <5>3
      <4> HIDE DEF s, k, d, w, p
      <4>3. After(W, s) = [s EXCEPT !.owed = w.owed]
        BY <3>2, <4>1 DEF ApplyWrite
      <4>4. Value(After(W, s)) = s.due - p
        BY <2>1, <4>1, <4>3 DEF Value, Split
      <4>5. t[i] = o[i] - p
        BY <1>15, <2>1, <2>2, <2>3, <4>2, <4>4
      <4> QED
        BY <3>5, <4>2, <4>5 DEF d, k
    <3> QED
      BY <3>4, <3>5
  <2>5. CASE k = 0
    <3>1. \A x \in W : x.row # PK(s)
      <4> SUFFICES ASSUME NEW x \in W, x.row = PK(s) PROVE FALSE
        OBVIOUS
      <4>1. PICK j \in I : x.row = PK(q[j])
        BY <1>18
      <4>2. j \in 1 .. n /\ left[j - 1] > 0 /\ q[j] \in splits
        BY <1>12, <1>13
      <4>3. q[j] = s
        BY <1>2, <2>1, <4>1, <4>2
      <4>4. j = i
        BY <1>10, <4>2, <4>3
      <4> QED
        BY <2>5, <4>2, <4>4
    <3>2. t[i] = 0
      BY <1>15, <2>1, <2>2, <3>1
    <3>3. left[i] = 0
      <4>1. /\ n \in Nat /\ i - 1 \in Nat /\ i \in Nat /\ i - 1 \in 0 .. i
            /\ left[i - 1] = 0
            /\ \A x \in 1 .. i : o[x] \in Nat /\ o[x] > 0
            /\ \A x \in 1 .. i : left[x] = LeftAfter(o[x], left[x - 1])
        BY <1>4, <1>6, <1>12, <2>5
      <4> QED
        BY ONLY <4>1, WalkEnds
    <3>4. d = Stored(0) - Stored(0) /\ Stored(0) \in Int
      BY <2>5, <3>3, MoneyKept
    <3>5. d = 0
      BY <3>4
    <3> QED
      BY <3>2, <3>5
  <2> HIDE DEF s, k, d, w
  <2>6. k > 0 \/ k = 0
    BY <2>1
  <2> QED
    BY <2>4, <2>5, <2>6 DEF d
<1>21. \A i \in 1 .. n : t[i] \in Int
  BY <1>12, <1>16
<1> DEFINE D == 1 .. n
<1>22. /\ \A i, j \in D : q[i] = q[j] => i = j
       /\ IsFiniteSet(D)
       /\ \A i \in D : t[i] \in Int /\ delta[q[i]] = t[i]
       /\ \A i \in D : o[i] \in Int /\ owed[q[i]] = o[i]
       /\ S = {q[i] : i \in D}
  <2>1. IsFiniteSet(1 .. n)
    BY <1>4, FS_Interval
  <2>2. S = {q[i] : i \in 1 .. n}
    BY <1>11, <1>12
  <2> QED
    BY <1>10, <1>12, <1>16, <1>17, <1>21, <2>1, <2>2
<1> HIDE DEF D
<1>23. SumFunctionOnSet(delta, {q[i] : i \in D}) = SumFunctionOnSet(t, D)
  BY <1>22, SumRenamed
<1>24. SumFunctionOnSet(owed, {q[i] : i \in D}) = SumFunctionOnSet(o, D)
  BY <1>22, SumRenamed
<1>25. LET took == SumFunctionOnSet(t, 1 .. n)
           all == SumFunctionOnSet(o, 1 .. n)
       IN \/ took = Min({Stored(amount), all})
          \/ Tie(amount) /\ took = Stored(amount) - 1
  <2>1. /\ n \in Nat /\ amount \in Nat
        /\ \A i \in 1 .. n : o[i] \in Nat /\ o[i] > 0
        /\ left \in [0 .. n -> Leftovers(amount)] /\ left[0] = amount
        /\ \A i \in 1 .. n : left[i] = LeftAfter(o[i], left[i - 1])
    BY <1>4, <1>6, <1>12
  <2>2. \A i \in 1 .. n :
            LET d == Stored(left[i - 1]) - Stored(left[i]) IN
            \/ t[i] = d
            \/ /\ ~SettlesInFull(o[i], left[i - 1]) /\ Tie(left[i - 1])
               /\ t[i] = d - 1
    BY <1>20
  <2> QED
    BY ONLY <2>1, <2>2, WalkTakes
<1>26. LET took == SumFunctionOnSet(delta, S) IN
       \/ took = Min({Stored(amount), OwedOn(S)})
       \/ Tie(amount) /\ took = Stored(amount) - 1
  BY <1>8, <1>22, <1>23, <1>24, <1>25 DEF D
<1> QED
  BY <1>15, <1>16, <1>19, <1>26 DEF S

\* What a settlement clears, when the rows it read are open as they were.
LEMMA SettleClears ==
  ASSUME IInv, CoverInv, NEW h \in Handlers, CommitSettle(h),
         NEW u, u = tx[h].from, tx[h].read = Open(u, tx[h].to)
  PROVE  LET took == Cleared(u)' - Cleared(u)
             recorded == Stored(tx[h].amount)
         IN \/ took = Min({recorded, SumFunction([s \in tx[h].read |-> s.owed])})
            \/ Tie(tx[h].amount) /\ took = recorded - 1
<1> DEFINE t == tx[h]
           W == t.writes
           S == Open(u, t.to)
           n == Cardinality(S)
           T == {r \in splits : r.user = u}
           N == {r \in splits' : r.user = u}
           v == [s \in T |-> Value(s)]
           w == [r \in N |-> Value(r)]
           b == [s \in T |-> After(W, s)]
           recorded == Stored(t.amount)
           OK(x) == \/ x = Min({recorded, OwedOn(S)})
                    \/ Tie(t.amount) /\ x = recorded - 1
<1>1. t.op = "settle" /\ splits' = Apply(W)
  BY DEF CommitSettle
<1>2. /\ WritesOK(W, u, t.amount) /\ u \in Users /\ t.to \in Users
      /\ t.amount \in Nat
  BY <1>1, TxFields, LedgerAssumption DEF IInv, TxOK
<1>3. Computed(t)
  BY DEF CoverInv
<1>4. PICK q \in Listings(S) : \E left \in Walks(OwedOf(q, n), n, t.amount) :
        W = WritesOf(q, n, left)
  BY <1>1, <1>3 DEF Computed
<1>5. PICK left \in Walks(OwedOf(q, n), n, t.amount) : W = WritesOf(q, n, left)
  BY <1>4
<1> HIDE DEF t, W
<1> DEFINE a == t.amount
           to == t.to
<1>6. PICK delta \in [splits -> Int] :
        /\ \A s \in splits : Value(After(W, s)) = Value(s) + delta[s]
        /\ \A s \in splits \ S : delta[s] = 0
        /\ OK(SumFunctionOnSet(delta, S))
  <2>1. /\ q \in Listings(Open(u, to))
        /\ left \in Walks(OwedOf(q, Cardinality(Open(u, to))),
                           Cardinality(Open(u, to)), a)
        /\ W = WritesOf(q, Cardinality(Open(u, to)), left)
        /\ WritesOK(W, u, a) /\ u \in Users /\ to \in Users /\ a \in Nat
    BY <1>2, <1>4, <1>5
  <2> HIDE DEF a, to
  <2>2. \E delta \in [splits -> Int] :
           /\ \A s \in splits : Value(After(W, s)) = Value(s) + delta[s]
           /\ \A s \in splits \ Open(u, to) : delta[s] = 0
           /\ LET took == SumFunctionOnSet(delta, Open(u, to)) IN
              \/ took = Min({Stored(a), OwedOn(Open(u, to))})
              \/ Tie(a) /\ took = Stored(a) - 1
    BY <2>1, WalkWrites
  <2> QED
    BY <2>2 DEF a, to
<1>7. /\ splits' = {After(W, s) : s \in splits}
      /\ \A s \in splits : PK(After(W, s)) = PK(s) /\ After(W, s).user = s.user
  BY <1>1, <1>2, AfterOK
<1>8. splits \subseteq Split /\ IsFiniteSet(T) /\ T \subseteq splits
  <2>1. splits \subseteq Split /\ IsFiniteSet(splits)
    BY DEF IInv, TypeOK, SplitsOK
  <2> QED
    BY <2>1, FS_Subset
<1>9. S \subseteq T
  BY DEF Open
<1>10. N = {b[s] : s \in T}
  BY <1>7
<1>11. \A s \in T : /\ b[s] = After(W, s) /\ b[s] \in N
                    /\ w[b[s]] = Value(b[s]) /\ v[s] = Value(s)
  BY <1>10
<1>12. /\ Cleared(u) = SumFunctionOnSet(v, T)
       /\ Cleared(u)' = SumFunctionOnSet(w, N)
  BY DEF Cleared, SumFunction, Value
<1> DEFINE f == [s \in T |-> v[s] + delta[s]]
<1>13. \A s \in T : f[s] = v[s] + delta[s]
  OBVIOUS
<1> HIDE DEF S, T, N, v, w, b, f, OK
<1>14. \A s \in T : v[s] \in Int /\ delta[s] \in Int /\ w[b[s]] = f[s]
  <2> SUFFICES ASSUME NEW s \in T
               PROVE  v[s] \in Int /\ delta[s] \in Int /\ w[b[s]] = f[s]
    OBVIOUS
  <2>1. s \in splits /\ s.due \in Int /\ s.owed \in Int
    BY <1>8 DEF Split
  <2>2. v[s] \in Int
    BY <1>11, <2>1 DEF Value
  <2> QED
    BY <1>6, <1>11, <1>13, <2>1, <2>2
<1>15. \A r, s \in T : b[r] = b[s] => r = s
  BY <1>7, <1>8, <1>11 DEF IInv, SplitsOK
<1>16. SumFunctionOnSet(w, N) = SumFunctionOnSet(f, T)
  <2>1. \A s \in T : f[s] \in Int /\ w[b[s]] = f[s]
    BY <1>13, <1>14
  <2>2. SumFunctionOnSet(w, {b[s] : s \in T}) = SumFunctionOnSet(f, T)
    BY <1>8, <1>15, <2>1, SumRenamed
  <2> QED
    BY <1>10, <2>2
<1>17. SumFunctionOnSet(f, T) = SumFunctionOnSet(v, T) + SumFunctionOnSet(delta, T)
  <2>1. \A s \in T : v[s] \in Int /\ delta[s] \in Int /\ f[s] = v[s] + delta[s]
    BY <1>13, <1>14
  <2> QED
    BY <1>8, <2>1, SumPlus
<1>18. SumFunctionOnSet(delta, T) = SumFunctionOnSet(delta, S)
  <2>1. /\ \A s \in S : delta[s] \in Int
        /\ \A s \in T \ S : delta[s] = 0
    BY <1>6, <1>8, <1>9, <1>14
  <2> QED
    BY <1>8, <1>9, <2>1, SumPart
<1>19. SumFunctionOnSet(v, T) \in Int /\ SumFunctionOnSet(delta, T) \in Int
  BY <1>8, <1>14, SumInt
<1>20. Cleared(u)' - Cleared(u) = SumFunctionOnSet(delta, S)
  BY <1>12, <1>16, <1>17, <1>18, <1>19
<1>21. OK(Cleared(u)' - Cleared(u))
  BY <1>6, <1>20
<1> QED
  BY <1>21 DEF OK, S, t, OwedOn

\* A settlement takes off the rows what it is recorded with, or all they hold,
\* when create_settlement's rows are open still as it read them: it loses
\* nothing of the payment and clears nothing that is not paid for, but for the
\* cent that the column may round up.
THEOREM LedgerSettlementClearsItsAmount == Spec => SettlementClearsItsAmount
<1> DEFINE A == \A h \in Handlers, u \in Users :
                  CommitSettle(h) /\ tx[h].from = u
                    /\ tx[h].read = Open(u, tx[h].to) =>
                    LET took == Cleared(u)' - Cleared(u)
                        recorded == Stored(tx[h].amount)
                        open == SumFunction([s \in tx[h].read |-> s.owed])
                    IN \/ took = Min({recorded, open})
                       \/ Tie(tx[h].amount) /\ took = recorded - 1
<1>1. IInv /\ CoverInv => A
  BY SettleClears
<1>2. IInv /\ CoverInv => [A]_vars
  BY <1>1
<1>3. Spec => [](IInv /\ CoverInv)
  BY CoverInvariance
<1>4. Spec => [][A]_vars
  BY <1>2, <1>3, PTL
<1> QED
  BY <1>4 DEF SettlementClearsItsAmount

-----------------------------------------------------------------------------
(* What the weekly jobs report *)

\* Rows whose owed_amount is not negative are settled, outstanding or empty.
LEMMA OpenAndSettled ==
  ASSUME NEW T, IsFiniteSet(T), \A s \in T : s.owed \in Nat
  PROVE  OwedOn(T) = OwedOn({s \in T : ~s.settled /\ s.owed > 0})
                     + OwedOn({s \in T : s.settled})
<1> DEFINE f == [s \in T |-> s.owed]
           A == {s \in T : ~s.settled /\ s.owed > 0}
           B == {s \in T : s.settled}
           a == [s \in A |-> s.owed]
           b == [s \in B |-> s.owed]
<1>1. /\ \A s \in T : f[s] \in Int
      /\ \A s \in A : f[s] \in Int /\ f[s] = a[s]
      /\ \A s \in B : f[s] \in Int /\ f[s] = b[s]
      /\ \A s \in A \cup B : f[s] \in Int
      /\ A \subseteq T /\ B \subseteq T /\ A \cap B = {} /\ A \cup B \subseteq T
  OBVIOUS
<1>2. \A s \in T \ (A \cup B) : f[s] = 0
  <2> SUFFICES ASSUME NEW s \in T \ (A \cup B) PROVE s.owed = 0
    OBVIOUS
  <2>1. s.owed \in Nat /\ ~(s.owed > 0)
    OBVIOUS
  <2> QED
    BY <2>1
<1>3. /\ OwedOn(T) = SumFunctionOnSet(f, T)
      /\ OwedOn(A) = SumFunctionOnSet(a, A)
      /\ OwedOn(B) = SumFunctionOnSet(b, B)
  BY DEF OwedOn, SumFunction
<1> HIDE DEF f, A, B, a, b
<1>4. IsFiniteSet(A) /\ IsFiniteSet(B)
  BY <1>1, FS_Subset
<1>5. \A s \in A \cup B : f[s] \in Int /\ f[s] = f[s]
  BY <1>1
<1>6. SumFunctionOnSet(f, T) = SumFunctionOnSet(f, A \cup B)
  BY <1>1, <1>2, <1>5, SumPart
<1>7. SumFunctionOnSet(f, A \cup B)
        = SumFunctionOnSet(f, A) + SumFunctionOnSet(f, B)
  BY <1>1, <1>4, SumUnion
<1>8. /\ SumFunctionOnSet(f, A) = SumFunctionOnSet(a, A)
      /\ SumFunctionOnSet(f, B) = SumFunctionOnSet(b, B)
  BY <1>1, <1>4, SumSame
<1> QED
  BY <1>3, <1>6, <1>7, <1>8 DEF A, B

\* What a set of rows owes, by the user that k names.
LEMMA OwedByParty ==
  ASSUME NEW T, IsFiniteSet(T), IsFiniteSet(Users), NEW k,
         \A s \in T : s.owed \in Int /\ k[s] \in Users
  PROVE  OwedOn(T)
           = SumFunctionOnSet([v \in Users |-> OwedOn({s \in T : k[s] = v})], Users)
<1> DEFINE f == [s \in T |-> s.owed]
           p == PartSums(f, k, T, Users)
           q == [v \in Users |-> OwedOn({s \in T : k[s] = v})]
<1>1. \A s \in T : f[s] \in Int /\ k[s] \in Users
  OBVIOUS
<1>2. OwedOn(T) = SumFunctionOnSet(f, T)
  BY DEF OwedOn, SumFunction
<1>3. ASSUME NEW v \in Users PROVE p[v] \in Int /\ p[v] = q[v]
  <2> DEFINE V == {s \in T : k[s] = v}
             g == [s \in V |-> s.owed]
  <2>1. \A s \in V : f[s] \in Int /\ f[s] = g[s]
    OBVIOUS
  <2>2. p[v] = SumFunctionOnSet(f, V)
    BY DEF PartSums
  <2>3. q[v] = SumFunctionOnSet(g, V)
    BY DEF OwedOn, SumFunction
  <2>4. IsFiniteSet(V)
    BY FS_Subset
  <2> HIDE DEF V, f, g, p, q
  <2>5. SumFunctionOnSet(f, V) = SumFunctionOnSet(g, V)
        /\ SumFunctionOnSet(f, V) \in Int
    BY <2>1, <2>4, SumSame, SumInt
  <2> QED
    BY <2>2, <2>3, <2>5
<1> HIDE DEF f, p, q
<1>4. SumFunctionOnSet(f, T) = SumFunctionOnSet(p, Users)
  BY <1>1, SumParts DEF p
<1>5. SumFunctionOnSet(p, Users) = SumFunctionOnSet(q, Users)
  BY <1>3, SumSame
<1> QED
  BY <1>2, <1>4, <1>5 DEF q

\* What one user has settled with another.
Transferred(a, b) ==
    SumFunction([p \in {q \in settlements : q.from = a /\ q.to = b} |-> p.amount])

\* What a user paid, and received, by the other party.
LEMMA TransfersByParty ==
  ASSUME settlements \subseteq Settlement, IsFiniteSet(settlements),
         IsFiniteSet(Users), NEW u \in Users
  PROVE  /\ Paid(u) = SumFunctionOnSet([v \in Users |-> Transferred(u, v)], Users)
         /\ Received(u) = SumFunctionOnSet([v \in Users |-> Transferred(v, u)], Users)
<1>1. ASSUME NEW P, IsFiniteSet(P), P \subseteq Settlement, NEW k, NEW g,
             \A p \in P : k[p] \in Users,
             \A v \in Users :
               g[v] = SumFunction([p \in {q \in P : k[q] = v} |-> p.amount])
      PROVE  SumFunction([p \in P |-> p.amount]) = SumFunctionOnSet(g, Users)
  <2> DEFINE f == [p \in P |-> p.amount]
             h == PartSums(f, k, P, Users)
  <2>1. \A p \in P : f[p] \in Int /\ k[p] \in Users
    BY <1>1 DEF Settlement
  <2>2. SumFunction([p \in P |-> p.amount]) = SumFunctionOnSet(f, P)
    BY DEF SumFunction
  <2>3. ASSUME NEW v \in Users PROVE h[v] \in Int /\ h[v] = g[v]
    <3> DEFINE V == {q \in P : k[q] = v}
               e == [p \in V |-> p.amount]
    <3>1. \A s \in V : f[s] \in Int /\ f[s] = e[s]
      BY <2>1
    <3>2. h[v] = SumFunctionOnSet(f, V)
      BY DEF PartSums
    <3>3. g[v] = SumFunctionOnSet(e, V)
      BY <1>1 DEF SumFunction
    <3>4. IsFiniteSet(V)
      BY <1>1, FS_Subset
    <3> HIDE DEF V, f, e, h
    <3>5. SumFunctionOnSet(f, V) = SumFunctionOnSet(e, V)
          /\ SumFunctionOnSet(f, V) \in Int
      BY <3>1, <3>4, SumSame, SumInt
    <3> QED
      BY <3>2, <3>3, <3>5
  <2> HIDE DEF f, h
  <2>4. IsFiniteSet(P)
    BY <1>1
  <2>5. SumFunctionOnSet(f, P) = SumFunctionOnSet(h, Users)
    BY <2>1, <2>4, SumParts DEF h
  <2>6. SumFunctionOnSet(h, Users) = SumFunctionOnSet(g, Users)
    BY <2>3, SumSame
  <2> QED
    BY <2>2, <2>5, <2>6
<1>2. Paid(u) = SumFunctionOnSet([v \in Users |-> Transferred(u, v)], Users)
  <2> DEFINE P == {q \in settlements : q.from = u}
             k == [q \in P |-> q.to]
             g == [v \in Users |-> Transferred(u, v)]
  <2>1. IsFiniteSet(P)
    BY FS_Subset
  <2>2. P \subseteq Settlement /\ \A p \in P : k[p] \in Users
    BY DEF Settlement
  <2>3. ASSUME NEW v \in Users
        PROVE g[v] = SumFunction([p \in {q \in P : k[q] = v} |-> p.amount])
    <3>1. {q \in P : k[q] = v} = {q \in settlements : q.from = u /\ q.to = v}
      OBVIOUS
    <3> QED
      BY <3>1 DEF Transferred
  <2>4. Paid(u) = SumFunction([p \in P |-> p.amount])
    BY DEF Paid
  <2> HIDE DEF P, k, g
  <2>5. SumFunction([p \in P |-> p.amount]) = SumFunctionOnSet(g, Users)
    BY <1>1, <2>1, <2>2, <2>3
  <2> QED
    BY <2>4, <2>5 DEF g
<1>3. Received(u) = SumFunctionOnSet([v \in Users |-> Transferred(v, u)], Users)
  <2> DEFINE P == {q \in settlements : q.to = u}
             k == [q \in P |-> q.from]
             g == [v \in Users |-> Transferred(v, u)]
  <2>1. IsFiniteSet(P)
    BY FS_Subset
  <2>2. P \subseteq Settlement /\ \A p \in P : k[p] \in Users
    BY DEF Settlement
  <2>3. ASSUME NEW v \in Users
        PROVE g[v] = SumFunction([p \in {q \in P : k[q] = v} |-> p.amount])
    <3>1. {q \in P : k[q] = v} = {q \in settlements : q.from = v /\ q.to = u}
      OBVIOUS
    <3> QED
      BY <3>1 DEF Transferred
  <2>4. Received(u) = SumFunction([p \in P |-> p.amount])
    BY DEF Received
  <2> HIDE DEF P, k, g
  <2>5. SumFunction([p \in P |-> p.amount]) = SumFunctionOnSet(g, Users)
    BY <1>1, <2>1, <2>2, <2>3
  <2> QED
    BY <2>4, <2>5 DEF g
<1> QED
  BY <1>2, <1>3

\* Every row belongs to an expense with a payer.
LEMMA PayerIsUser ==
  ASSUME IInv, NEW s \in splits
  PROVE  PayerOf(s) \in Users
<1>1. PICK e \in expenses : e.id = s.exp
  BY DEF IInv, NoOrphanSplits
<1>2. (CHOOSE d \in expenses : d.id = s.exp) \in expenses
  BY <1>1
<1> QED
  BY <1>2 DEF PayerOf, IInv, TypeOK, Expense

\* What is outstanding to u, and from u.
OwedTo(u) == OwedOn({s \in Outstanding : PayerOf(s) = u})
OwedFrom(u) == OwedOn({s \in Outstanding : s.user = u})

\* Both are the sum over the other party of what one owes the other.
LEMMA OutstandingByParty ==
  ASSUME IInv, NEW u \in Users
  PROVE  /\ OwedFrom(u) = SumFunctionOnSet([v \in Users |-> Owed(u, v)], Users)
         /\ OwedTo(u) = SumFunctionOnSet([v \in Users |-> Owed(v, u)], Users)
         /\ OwedFrom(u) \in Int /\ OwedTo(u) \in Int
<1> DEFINE A == {s \in Outstanding : s.user = u}
           B == {s \in Outstanding : PayerOf(s) = u}
           j == [s \in A |-> PayerOf(s)]
           k == [s \in B |-> s.user]
           a == [v \in Users |-> Owed(u, v)]
           b == [v \in Users |-> Owed(v, u)]
           f == [s \in A |-> s.owed]
           g == [s \in B |-> s.owed]
<1>1. IsFiniteSet(A) /\ IsFiniteSet(B) /\ IsFiniteSet(Users)
  BY FS_Subset, LedgerAssumption DEF Outstanding, IInv, SplitsOK
<1>2. /\ \A s \in A : s.owed \in Int /\ j[s] \in Users
      /\ \A s \in B : s.owed \in Int /\ k[s] \in Users
  BY PayerIsUser DEF Outstanding, IInv, TypeOK, Split
<1>3. /\ \A v \in Users : {s \in A : j[s] = v}
              = {r \in Outstanding : r.user = u /\ PayerOf(r) = v}
      /\ \A v \in Users : {s \in B : k[s] = v}
              = {r \in Outstanding : r.user = v /\ PayerOf(r) = u}
  OBVIOUS
<1>4. /\ a = [v \in Users |-> OwedOn({s \in A : j[s] = v})]
      /\ b = [v \in Users |-> OwedOn({s \in B : k[s] = v})]
  BY <1>3 DEF Owed, OwedOn
<1>5. /\ OwedFrom(u) = OwedOn(A) /\ OwedOn(A) = SumFunctionOnSet(f, A)
      /\ OwedTo(u) = OwedOn(B) /\ OwedOn(B) = SumFunctionOnSet(g, B)
      /\ \A s \in A : f[s] \in Int
      /\ \A s \in B : g[s] \in Int
  BY <1>2 DEF OwedFrom, OwedTo, OwedOn, SumFunction
<1> HIDE DEF A, B, j, k, a, b, f, g
<1>6. OwedOn(A) = SumFunctionOnSet(a, Users)
  BY <1>1, <1>2, <1>4, OwedByParty
<1>7. OwedOn(B) = SumFunctionOnSet(b, Users)
  BY <1>1, <1>2, <1>4, OwedByParty
<1>8. SumFunctionOnSet(f, A) \in Int /\ SumFunctionOnSet(g, B) \in Int
  BY <1>1, <1>5, SumInt
<1> QED
  BY <1>5, <1>6, <1>7, <1>8 DEF a, b

\* A member's balance is what is outstanding to the member less what is
\* outstanding from the member, when the payments settled whole rows.
LEMMA BalanceIsOutstanding ==
  ASSUME IInv, PayInv, PaidInFull, \A s \in splits : s.owed >= 0, NEW u \in Users
  PROVE  Balance(u) = OwedTo(u) - OwedFrom(u)
<1> DEFINE F == {s \in splits : s.user = u}
           T == {s \in splits : PayerOf(s) = u}
           bal == [s \in splits |-> FromSplit(u, s)]
           in == [s \in splits |-> IF PayerOf(s) = u THEN s.owed ELSE 0]
           out == [s \in splits |-> IF s.user = u THEN s.owed ELSE 0]
           from == [s \in F |-> s.owed]
           to == [s \in T |-> s.owed]
<1>1. /\ IsFiniteSet(splits) /\ IsFiniteSet(Users)
      /\ IsFiniteSet(settlements) /\ settlements \subseteq Settlement
  BY LedgerAssumption DEF IInv, SplitsOK, PayInv, TypeOK
<1>2. \A s \in splits : s.owed \in Nat /\ s.owed \in Int
  <2> SUFFICES ASSUME NEW s \in splits PROVE s.owed \in Nat
    OBVIOUS
  <2>1. s.owed \in Int /\ s.owed >= 0
    BY DEF IInv, TypeOK, Split
  <2> QED
    BY <2>1
<1>3. \A s \in splits : /\ in[s] \in Int /\ out[s] \in Int /\ bal[s] \in Int
                        /\ in[s] = bal[s] + out[s]
  BY <1>2 DEF FromSplit
<1>4. /\ F \subseteq splits /\ T \subseteq splits
      /\ \A s \in F : out[s] \in Int /\ from[s] = out[s]
      /\ \A s \in T : in[s] \in Int /\ to[s] = in[s]
      /\ \A s \in splits \ F : out[s] = 0
      /\ \A s \in splits \ T : in[s] = 0
  BY <1>2
<1>5. /\ SumFunction([s \in splits |-> FromSplit(u, s)])
           = SumFunctionOnSet(bal, splits)
      /\ OwedOn(F) = SumFunctionOnSet(from, F)
      /\ OwedOn(T) = SumFunctionOnSet(to, T)
  BY DEF OwedOn, SumFunction
<1> HIDE DEF bal, in, out, from, to
<1>6. SumFunctionOnSet(in, splits)
        = SumFunctionOnSet(bal, splits) + SumFunctionOnSet(out, splits)
  BY <1>1, <1>3, SumPlus
<1>7. /\ SumFunctionOnSet(in, splits) = OwedOn(T)
      /\ SumFunctionOnSet(out, splits) = OwedOn(F)
  BY <1>1, <1>4, <1>5, SumPart
<1>8. /\ SumFunctionOnSet(bal, splits) \in Int
      /\ SumFunctionOnSet(out, splits) \in Int
      /\ SumFunctionOnSet(in, splits) \in Int
  BY <1>1, <1>3, SumInt
<1>9. OwedOn(F) = OwedFrom(u) + Paid(u)
  <2> DEFINE S == {s \in F : s.settled}
             k == [s \in S |-> PayerOf(s)]
  <2>1. IsFiniteSet(F) /\ IsFiniteSet(S) /\ S \subseteq splits
    BY <1>1, FS_Subset
  <2>2. OwedOn(F) = OwedOn({s \in F : ~s.settled /\ s.owed > 0}) + OwedOn(S)
    BY <1>2, <2>1, OpenAndSettled
  <2>3. {s \in F : ~s.settled /\ s.owed > 0} = {s \in Outstanding : s.user = u}
    BY DEF Outstanding
  <2>4. \A s \in S : s.owed \in Int /\ k[s] \in Users
    BY <1>2, PayerIsUser
  <2>5. OwedOn(S)
          = SumFunctionOnSet([v \in Users |-> OwedOn({s \in S : k[s] = v})], Users)
    <3> HIDE DEF S, k
    <3> QED
      BY <1>1, <2>1, <2>4, OwedByParty
  <2>6. ASSUME NEW v \in Users
        PROVE  OwedOn({s \in S : k[s] = v}) = Transferred(u, v)
    <3>1. {s \in S : k[s] = v}
            = {r \in splits : r.settled /\ r.user = u /\ PayerOf(r) = v}
      OBVIOUS
    <3> QED
      BY <3>1 DEF PaidInFull, OwedOn, Transferred
  <2>7. [v \in Users |-> OwedOn({s \in S : k[s] = v})]
          = [v \in Users |-> Transferred(u, v)]
    BY <2>6
  <2>8. Paid(u) = SumFunctionOnSet([v \in Users |-> Transferred(u, v)], Users)
    BY <1>1, TransfersByParty
  <2> QED
    BY <2>2, <2>3, <2>5, <2>7, <2>8 DEF OwedFrom
<1>10. OwedOn(T) = OwedTo(u) + Received(u)
  <2> DEFINE S == {s \in T : s.settled}
             k == [s \in S |-> s.user]
  <2>1. IsFiniteSet(T) /\ IsFiniteSet(S) /\ S \subseteq splits
    BY <1>1, FS_Subset
  <2>2. OwedOn(T) = OwedOn({s \in T : ~s.settled /\ s.owed > 0}) + OwedOn(S)
    BY <1>2, <2>1, OpenAndSettled
  <2>3. {s \in T : ~s.settled /\ s.owed > 0} = {s \in Outstanding : PayerOf(s) = u}
    BY DEF Outstanding
  <2>4. \A s \in S : s.owed \in Int /\ k[s] \in Users
    BY <1>2 DEF IInv, TypeOK, Split
  <2>5. OwedOn(S)
          = SumFunctionOnSet([v \in Users |-> OwedOn({s \in S : k[s] = v})], Users)
    <3> HIDE DEF S, k
    <3> QED
      BY <1>1, <2>1, <2>4, OwedByParty
  <2>6. ASSUME NEW v \in Users
        PROVE  OwedOn({s \in S : k[s] = v}) = Transferred(v, u)
    <3>1. {s \in S : k[s] = v}
            = {r \in splits : r.settled /\ r.user = v /\ PayerOf(r) = u}
      OBVIOUS
    <3> QED
      BY <3>1 DEF PaidInFull, OwedOn, Transferred
  <2>7. [v \in Users |-> OwedOn({s \in S : k[s] = v})]
          = [v \in Users |-> Transferred(v, u)]
    BY <2>6
  <2>8. Received(u) = SumFunctionOnSet([v \in Users |-> Transferred(v, u)], Users)
    BY <1>1, TransfersByParty
  <2> QED
    BY <2>2, <2>3, <2>5, <2>7, <2>8 DEF OwedTo
<1>11. SumFunction([p \in settlements |-> FromSettlement(u, p)])
         = Paid(u) - Received(u)
  BY <1>1, SettlementSums
<1>12. OwedTo(u) \in Int /\ OwedFrom(u) \in Int
  BY OutstandingByParty
<1>13. Paid(u) \in Int /\ Received(u) \in Int
  BY <1>1, PaidReceivedInt
<1>14. Balance(u) = SumFunctionOnSet(bal, splits) + (Paid(u) - Received(u))
  BY <1>5, <1>11 DEF Balance
<1>15. /\ SumFunctionOnSet(in, splits) = OwedTo(u) + Received(u)
       /\ SumFunctionOnSet(out, splits) = OwedFrom(u) + Paid(u)
  BY <1>7, <1>9, <1>10
<1> DEFINE i == SumFunctionOnSet(in, splits)
           o == SumFunctionOnSet(out, splits)
           b == SumFunctionOnSet(bal, splits)
           t == OwedTo(u)
           f == OwedFrom(u)
           p == Paid(u)
           r == Received(u)
<1>16. /\ i \in Int /\ o \in Int /\ b \in Int /\ t \in Int /\ f \in Int
       /\ p \in Int /\ r \in Int
       /\ i = b + o /\ i = t + r /\ o = f + p /\ Balance(u) = b + (p - r)
  BY <1>6, <1>8, <1>12, <1>13, <1>14, <1>15
<1> HIDE DEF i, o, b, t, f, p, r
<1>17. b + (p - r) = t - f
  BY ONLY <1>16
<1> QED
  BY <1>16, <1>17 DEF t, f

\* The lines of one direction, of the amounts f for the users in V.
Lines(direction, f, V) ==
    {[direction |-> direction, other |-> v, amount |-> f[v]] : v \in V}

\* Lines that differ in the other party sum up to what they are made of.
LEMMA LinesSum ==
  ASSUME IsFiniteSet(Users), NEW V, V \subseteq Users, NEW f, NEW direction,
         \A v \in Users : f[v] \in Int,
         \A v \in Users \ V : f[v] = 0
  PROVE  SumFunction([l \in Lines(direction, f, V) |-> l.amount])
           = SumFunctionOnSet(f, Users)
<1> DEFINE L == Lines(direction, f, V)
           b == [v \in V |-> [direction |-> direction, other |-> v, amount |-> f[v]]]
           g == [l \in L |-> l.amount]
<1>1. L = {b[v] : v \in V}
  BY DEF Lines
<1>2. \A x, y \in V : b[x] = b[y] => x = y
  <2> SUFFICES ASSUME NEW x \in V, NEW y \in V, b[x] = b[y] PROVE x = y
    OBVIOUS
  <2>1. b[x].other = x /\ b[y].other = y
    OBVIOUS
  <2> QED
    BY <2>1
<1>3. \A x \in V : f[x] \in Int /\ g[b[x]] = f[x]
  <2> SUFFICES ASSUME NEW x \in V PROVE g[b[x]] = f[x]
    OBVIOUS
  <2>1. b[x] \in L
    BY <1>1
  <2>2. b[x].amount = f[x]
    OBVIOUS
  <2> HIDE DEF L, b
  <2> QED
    BY <2>1, <2>2
<1>4. IsFiniteSet(V)
  BY FS_Subset
<1>5. SumFunction([l \in L |-> l.amount]) = SumFunctionOnSet(g, L)
  BY DEF SumFunction
<1> HIDE DEF L, b, g
<1>6. SumFunctionOnSet(g, {b[x] : x \in V}) = SumFunctionOnSet(f, V)
  BY <1>2, <1>3, <1>4, SumRenamed
<1>7. \A x \in V : f[x] \in Int /\ f[x] = f[x]
  BY <1>3
<1>8. SumFunctionOnSet(f, Users) = SumFunctionOnSet(f, V)
  BY <1>7, SumPart
<1> QED
  BY <1>1, <1>5, <1>6, <1>8 DEF L

\* Outstanding rows owe something.
LEMMA OwedNat ==
  ASSUME IInv, NEW a, NEW b
  PROVE  Owed(a, b) \in Nat
<1> DEFINE S == {r \in Outstanding : r.user = a /\ PayerOf(r) = b}
           f == [s \in S |-> s.owed]
<1>1. IsFiniteSet(S)
  BY FS_Subset DEF Outstanding, IInv, SplitsOK
<1>2. \A s \in S : f[s] \in Nat
  <2> SUFFICES ASSUME NEW s \in S PROVE s.owed \in Nat
    OBVIOUS
  <2>1. s.owed \in Int /\ s.owed > 0
    BY DEF Outstanding, IInv, TypeOK, Split
  <2> QED
    BY <2>1
<1>3. Owed(a, b) = SumFunctionOnSet(f, S)
  BY DEF Owed, SumFunction
<1> HIDE DEF S, f
<1> QED
  BY <1>1, <1>2, <1>3, SumNat

\* With one member row each, the lines of u sum up to what is outstanding.
LEMMA DigestSums ==
  ASSUME IInv, NEW u \in Users, Cardinality(Rows(u)) = 1
  PROVE  /\ Sums(Digest(u), "owe") = OwedFrom(u)
         /\ Owed(u, u) = 0 => Sums(Digest(u), "owed") = OwedTo(u)
<1>1. IsFiniteSet(Users)
  BY LedgerAssumption
<1>2. \A a, b \in Users : Owed(a, b) \in Nat
  BY OwedNat
<1>3. \A a, b \in Users : Summed(u, a, b) = Owed(a, b)
  <2> SUFFICES ASSUME NEW a \in Users, NEW b \in Users
               PROVE  Summed(u, a, b) = Owed(a, b)
    OBVIOUS
  <2>1. Summed(u, a, b) = 1 * Owed(a, b)
    BY DEF Summed
  <2> QED
    BY <1>2, <2>1
<1>4. Sums(Digest(u), "owe") = OwedFrom(u)
  <2> DEFINE f == [v \in Users |-> Owed(u, v)]
             V == {w \in Users : Summed(u, u, w) > 0}
             L == {k \in Digest(u) : k.direction = "owe"}
  <2>1. L = Lines("owe", f, V)
    BY <1>3 DEF Digest, Lines
  <2>2. /\ V \subseteq Users
        /\ \A v \in Users : f[v] \in Int
        /\ \A v \in Users \ V : f[v] = 0
    <3> SUFFICES ASSUME NEW v \in Users
                 PROVE  f[v] \in Int /\ (v \notin V => f[v] = 0)
      OBVIOUS
    <3>1. Owed(u, v) \in Nat /\ Summed(u, u, v) = Owed(u, v)
      BY <1>2, <1>3
    <3> QED
      BY <3>1
  <2>3. Sums(Digest(u), "owe") = SumFunction([l \in L |-> l.amount])
    BY DEF Sums
  <2>4. OwedFrom(u) = SumFunctionOnSet(f, Users)
    BY OutstandingByParty
  <2> HIDE DEF f, V, L
  <2>5. SumFunction([l \in L |-> l.amount]) = SumFunctionOnSet(f, Users)
    BY <1>1, <2>1, <2>2, LinesSum
  <2> QED
    BY <2>3, <2>4, <2>5
<1>5. ASSUME Owed(u, u) = 0
      PROVE  Sums(Digest(u), "owed") = OwedTo(u)
  <2> DEFINE f == [v \in Users |-> Owed(v, u)]
             V == {w \in Users \ {u} : Summed(u, w, u) > 0}
             L == {k \in Digest(u) : k.direction = "owed"}
  <2>1. L = Lines("owed", f, V)
    BY <1>3 DEF Digest, Lines
  <2>2. /\ V \subseteq Users
        /\ \A v \in Users : f[v] \in Int
        /\ \A v \in Users \ V : f[v] = 0
    <3> SUFFICES ASSUME NEW v \in Users
                 PROVE  f[v] \in Int /\ (v \notin V => f[v] = 0)
      OBVIOUS
    <3>1. Owed(v, u) \in Nat /\ Summed(u, v, u) = Owed(v, u)
      BY <1>2, <1>3
    <3> QED
      BY <1>5, <3>1
  <2>3. Sums(Digest(u), "owed") = SumFunction([l \in L |-> l.amount])
    BY DEF Sums
  <2>4. OwedTo(u) = SumFunctionOnSet(f, Users)
    BY OutstandingByParty
  <2> HIDE DEF f, V, L
  <2>5. SumFunction([l \in L |-> l.amount]) = SumFunctionOnSet(f, Users)
    BY <1>1, <2>1, <2>2, LinesSum
  <2> QED
    BY <2>3, <2>4, <2>5
<1> QED
  BY <1>4, <1>5

\* The weekly digest and the reminder agree with the balances endpoint, for
\* every member that has one row, wherever the payments settled whole rows.
THEOREM LedgerReportsAgree == Spec => []ReportsAgree
<1>1. IInv /\ PayInv => ReportsAgree
  <2> SUFFICES ASSUME IInv, PayInv, NEW u \in Recipients, IsMember(u)
               PROVE  /\ Reminded(u) <= Sums(Digest(u), "owe")
                      /\ /\ PaidInFull /\ \A s \in splits : s.owed >= 0
                         /\ Owed(u, u) = 0
                         => Balance(u) = Sums(Digest(u), "owed")
                                         - Sums(Digest(u), "owe")
    BY DEF ReportsAgree
  <2>1. u \in Users /\ Cardinality(Rows(u)) = 1
    BY DEF Recipients, IsMember, IInv, TypeOK, Member
  <2>2. /\ Sums(Digest(u), "owe") = OwedFrom(u)
        /\ Owed(u, u) = 0 => Sums(Digest(u), "owed") = OwedTo(u)
    BY <2>1, DigestSums
  <2>3. Reminded(u) = OwedFrom(u)
    BY DEF Reminded, OwedFrom, OwedOn
  <2>4. OwedFrom(u) \in Int
    BY <2>1, OutstandingByParty
  <2>5. Reminded(u) <= Sums(Digest(u), "owe")
    BY <2>2, <2>3, <2>4
  <2>6. ASSUME PaidInFull, \A s \in splits : s.owed >= 0
        PROVE  Balance(u) = OwedTo(u) - OwedFrom(u)
    BY <2>1, <2>6, BalanceIsOutstanding
  <2> QED
    BY <2>2, <2>5, <2>6
<1> QED
  BY <1>1, PayInvariance, PTL
=============================================================================
