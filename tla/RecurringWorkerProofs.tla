------------------------ MODULE RecurringWorkerProofs ------------------------
(* What holds of the charges made from recurring templates for any number  *)
(* of templates, requests, failures and days, and any calendar.            *)
EXTENDS RecurringWorker, SumsProofs, SequenceTheorems, TLAPS

\* A month that begins before another ends when that one begins, or before.
LEMMA MonthsInOrder ==
  ASSUME NEW a \in Months, NEW b \in Months, a < b
  PROVE  /\ FirstOf[a + 1] \in Nat /\ FirstOf[b] \in Nat
         /\ FirstOf[a + 1] <= FirstOf[b]
<1>1. LastMonth \in Nat /\ a \in Nat /\ b \in Nat /\ a <= LastMonth /\ b <= LastMonth
  BY CalendarAssumption DEF Months
<1>2. a + 1 \in 0 .. LastMonth + 1 /\ b \in 0 .. LastMonth + 1
  BY <1>1
<1>3. FirstOf[a + 1] \in Nat /\ FirstOf[b] \in Nat
  BY <1>2, CalendarAssumption
<1>4. CASE a + 1 = b
  BY <1>3, <1>4
<1>5. CASE a + 1 < b
  <2>1. FirstOf[a + 1] < FirstOf[b]
    BY <1>2, <1>5, CalendarAssumption
  <2> QED
    BY <1>3, <2>1
<1> QED
  BY <1>1, <1>4, <1>5

\* No day belongs to two months.
LEMMA MonthsDisjoint ==
  ASSUME NEW d \in Nat, NEW a \in Months, NEW b \in Months,
         FirstOf[a] <= d, d < FirstOf[a + 1], FirstOf[b] <= d, d < FirstOf[b + 1]
  PROVE  a = b
<1>1. a \in Int /\ b \in Int
  BY CalendarAssumption DEF Months
<1>2. ~(a < b)
  BY MonthsInOrder
<1>3. ~(b < a)
  BY MonthsInOrder
<1> QED
  BY <1>1, <1>2, <1>3

\* The next due date is a later day, in a month of any length.
LEMMA DueAdvances ==
  ASSUME NEW d \in Days, NEW f \in Frequencies
  PROVE  next_due_date(d, f) \in Nat /\ next_due_date(d, f) > d
<1>1. d \in Nat
  BY CalendarAssumption DEF Days
<1>2. ASSUME NEW k \in 1 .. YearMonths
      PROVE  AddMonths(d, k) \in Nat /\ AddMonths(d, k) > d
  <2> DEFINE m == MonthOf(d)
             same == FirstOf[m + k] + (d - FirstOf[m])
             last == FirstOf[m + k + 1] - 1
  <2>1. PICK n \in Months :
          /\ FirstOf[n] <= d /\ d < FirstOf[n + 1] /\ n + YearMonths <= LastMonth
    BY CalendarAssumption
  <2>2. m \in Months /\ FirstOf[m] <= d /\ d < FirstOf[m + 1]
    BY <2>1 DEF MonthOf
  <2>3. m = n
    BY <1>1, <2>1, <2>2, MonthsDisjoint
  <2>4. /\ m \in 0 .. LastMonth + 1 /\ m + 1 \in 0 .. LastMonth + 1
        /\ m + k \in 0 .. LastMonth + 1 /\ m + k + 1 \in 0 .. LastMonth + 1
        /\ m + 1 <= m + k /\ m + k < m + k + 1
    <3>1. m \in Nat /\ k \in Nat /\ LastMonth \in Nat /\ YearMonths \in Nat
          /\ 1 <= k /\ k <= YearMonths
      BY <2>2, CalendarAssumption DEF Months
    <3>2. m + YearMonths <= LastMonth
      BY <2>1, <2>3
    <3> HIDE DEF m
    <3> QED
      BY <3>1, <3>2, SMTT(30)
  <2>5. /\ FirstOf[m] \in Nat /\ FirstOf[m + 1] \in Nat
        /\ FirstOf[m + k] \in Nat /\ FirstOf[m + k + 1] \in Nat
        /\ FirstOf[m + 1] <= FirstOf[m + k] /\ FirstOf[m + k] < FirstOf[m + k + 1]
    <3> HIDE DEF m
    <3>1. /\ FirstOf[m] \in Nat /\ FirstOf[m + 1] \in Nat
          /\ FirstOf[m + k] \in Nat /\ FirstOf[m + k + 1] \in Nat
      BY <2>4, CalendarAssumption
    <3>2. FirstOf[m + k] < FirstOf[m + k + 1]
      BY <2>4, CalendarAssumption
    <3>3. m + 1 = m + k \/ m + 1 < m + k
      BY <2>4
    <3>4. FirstOf[m + 1] <= FirstOf[m + k]
      BY <2>4, <3>1, <3>3, CalendarAssumption
    <3> QED
      BY <3>1, <3>2, <3>4
  <2>6. /\ same \in Nat /\ last \in Nat /\ same > d /\ last > d - 1
        /\ last >= FirstOf[m + k]
    BY <1>1, <2>2, <2>5
  <2>7. AddMonths(d, k) = IF same < last THEN same ELSE last
    BY DEF AddMonths
  <2> QED
    BY <1>1, <2>2, <2>5, <2>6, <2>7
<1>3. 1 \in 1 .. YearMonths /\ YearMonths \in 1 .. YearMonths
  BY CalendarAssumption
<1>4. d + 1 \in Nat /\ d + 1 > d /\ d + Week \in Nat /\ d + Week > d
  BY <1>1, CalendarAssumption
<1> QED
  BY <1>2, <1>3, <1>4 DEF next_due_date, Frequencies

\* Every charge there can be; the owner never leaves the group.
Groups == {who \in SUBSET Users : Owner \in who}
Charges == {Expense(row, who) : row \in Row, who \in Groups}
Items == [template : Templates, row : Row]
Writes == [template : Templates, row : Row, due : Nat, expense : Charges]
Edit == [template : Templates, seen : Row, payload : Payloads]

TypeOK ==
    /\ templates \in [Templates -> Row \cup {NoTemplate}]
    /\ members \in Groups
    /\ expenses \in [Templates -> Seq(Charges)]
    /\ job \in [left : SUBSET Items, written : SUBSET Writes]
    /\ edits \in [Editors -> Edit \cup {NoEdit}]
    /\ today \in Days

\* Every charge of t is dated before d.
ChargedBefore(t, d) == \A i \in DOMAIN expenses[t] : expenses[t][i].date < d

\* A template's date is after its charges; what a run has selected, or has
\* written and not committed, would be the next one.
DatesOK ==
    /\ \A t \in Templates : ~Exists(t) => expenses[t] = <<>>
    /\ \A t \in Templates \ back : Exists(t) => ChargedBefore(t, templates[t].due)
    /\ \A item \in job.left :
         /\ Exists(item.template) /\ item.row.due <= today
         /\ item.template \notin back => ChargedBefore(item.template, item.row.due)
    /\ \A w \in job.written :
         /\ Exists(w.template) /\ w.expense.date < w.due
         /\ w.template \notin back => ChargedBefore(w.template, w.expense.date)

\* What is edited is there, and templates never go.
EditsOK == \A e \in Editors : edits[e] # NoEdit => Exists(edits[e].template)

IInv == TypeOK /\ DatesOK /\ EditsOK /\ OncePerDate

LEMMA EditsKept ==
  ASSUME IInv, \A t \in Templates : Exists(t) => Exists(t)',
         \A e \in Editors : edits'[e] = edits[e] \/ edits'[e] = NoEdit
                             \/ templates'[edits'[e].template] # NoTemplate
  PROVE  EditsOK'
<1>1. ASSUME NEW e \in Editors, edits'[e] # NoEdit
      PROVE  templates'[edits'[e].template] # NoTemplate
  <2>1. CASE edits'[e] = edits[e]
    <3>1. edits[e] \in Edit
      BY <1>1, <2>1 DEF IInv, TypeOK
    <3>2. edits[e].template \in Templates
      BY <3>1 DEF Edit
    <3>3. Exists(edits[e].template)
      BY <1>1, <2>1 DEF IInv, EditsOK
    <3>4. templates'[edits[e].template] # NoTemplate
      BY <3>2, <3>3 DEF Exists
    <3> QED
      BY <2>1, <3>4
  <2> QED
    BY <1>1, <2>1
<1> QED
  BY <1>1 DEF EditsOK, Exists

LEMMA RowIsNoAbsence == NoTemplate \notin Row
<1>1. ASSUME NoTemplate \in Row PROVE FALSE
  <2>1. "due" \in DOMAIN NoTemplate
    BY <1>1 DEF Row
  <2> QED
    BY <2>1 DEF NoTemplate
<1> QED
  BY <1>1

LEMMA ChargeDate == \A e \in Charges : e.date \in Nat
BY DEF Charges, Expense, Row

LEMMA InitInv == Init => IInv
<1> SUFFICES ASSUME Init PROVE IInv
  OBVIOUS
<1>1. TypeOK
  BY CalendarAssumption DEF Init, TypeOK, NoJob, Days, Groups
<1>2. DatesOK
  BY DEF Init, DatesOK, NoJob, Exists
<1>3. OncePerDate /\ EditsOK
  BY DEF Init, OncePerDate, EditsOK
<1> QED
  BY <1>1, <1>2, <1>3 DEF IInv

LEMMA StartInv == IInv /\ Start => IInv'
<1> SUFFICES ASSUME IInv, Start PROVE IInv'
  OBVIOUS
<1>1. \A item \in job'.left :
        /\ item \in Items /\ Exists(item.template)
        /\ item.row = templates[item.template] /\ item.row.due <= today
  <2>1. ASSUME NEW item \in job'.left
        PROVE  /\ item \in Items /\ Exists(item.template)
               /\ item.row = templates[item.template] /\ item.row.due <= today
    <3>1. PICK t \in Templates :
            /\ item = [template |-> t, row |-> templates[t]]
            /\ Exists(t) /\ Due(templates[t])
      BY <2>1 DEF Start
    <3>2. templates[t] \in Row
      BY <3>1 DEF IInv, TypeOK, Exists
    <3> QED
      BY <3>1, <3>2 DEF Items, Due
  <2> QED
    BY <2>1
<1>2. job'.written = {} /\ job' = [left |-> job'.left, written |-> {}]
  BY DEF Start
<1>3. UNCHANGED <<templates, members, expenses, edits, today, back>>
  BY DEF Start
<1>4. TypeOK'
  BY <1>1, <1>2, <1>3 DEF IInv, TypeOK
<1>5. DatesOK'
  BY <1>1, <1>2, <1>3 DEF IInv, DatesOK, Exists, ChargedBefore, TypeOK, Items
<1> QED
  BY <1>3, <1>4, <1>5 DEF IInv, OncePerDate, EditsOK, Exists

LEMMA ProcessInv == ASSUME IInv, NEW item \in job.left, Process(item) PROVE IInv'
<1> DEFINE new == [template |-> item.template, row |-> item.row,
                   due |-> next_due_date(item.row.due, item.row.frequency),
                   expense |-> Expense(item.row, members)]
<1>1. /\ job' = [left |-> job.left \ {item}, written |-> job.written \cup {new}]
      /\ UNCHANGED <<templates, members, expenses, edits, today, back>>
  BY DEF Process
<1>2. /\ item.template \in Templates /\ item.row \in Row
      /\ job.left \subseteq Items /\ job.written \subseteq Writes
      /\ today \in Days /\ members \in Groups
  BY DEF IInv, TypeOK, Items
<1>3. item.row.due \in Days /\ item.row.frequency \in Frequencies
  <2>1. item.row.due \in Nat /\ item.row.due <= today /\ today \in 0 .. MaxDay
    BY <1>2 DEF IInv, DatesOK, Row, Days
  <2> QED
    BY <1>2, <2>1, CalendarAssumption DEF Row, Days
<1>4. new.due \in Nat /\ new.due > item.row.due
  BY <1>3, DueAdvances
<1>5. new.expense \in Charges /\ new.expense.date = item.row.due
  BY <1>2 DEF Charges, Expense
<1>6. new \in Writes
  BY <1>2, <1>4, <1>5 DEF Writes
<1>7. TypeOK'
  <2>1. job' \in [left : SUBSET Items, written : SUBSET Writes]
    BY <1>1, <1>2, <1>6
  <2> QED
    BY <1>1, <2>1 DEF IInv, TypeOK
<1>8. DatesOK'
  <2>1. /\ Exists(item.template)
        /\ item.template \notin back => ChargedBefore(item.template, item.row.due)
    BY DEF IInv, DatesOK
  <2>2. new.expense.date < new.due
    BY <1>3, <1>4, <1>5 DEF Days
  <2>3. ASSUME NEW w \in job'.written
        PROVE  /\ Exists(w.template) /\ w.expense.date < w.due
               /\ w.template \notin back => ChargedBefore(w.template, w.expense.date)
    <3>1. CASE w = new
      BY <1>5, <2>1, <2>2, <3>1
    <3>2. CASE w \in job.written
      BY <3>2 DEF IInv, DatesOK
    <3> QED
      BY <1>1, <3>1, <3>2
  <2>4. job'.left \subseteq job.left
    BY <1>1
  <2> QED
    BY <1>1, <2>3, <2>4 DEF IInv, DatesOK, Exists, ChargedBefore
<1> QED
  BY <1>1, <1>7, <1>8 DEF IInv, OncePerDate, EditsOK, Exists

\* A row that fails, a crash: the run has less to do.
LEMMA LessInv ==
  ASSUME IInv, job'.left \subseteq job.left, job'.written \subseteq job.written,
         job' \in [left : SUBSET Items, written : SUBSET Writes],
         today' \in Days, today' >= today, members' \in Groups,
         UNCHANGED <<templates, expenses, edits, back>>
  PROVE  IInv'
<1>1. TypeOK'
  BY DEF IInv, TypeOK
<1>2. ASSUME NEW item \in job'.left
      PROVE  /\ Exists(item.template) /\ item.row.due <= today'
             /\ item.template \notin back => ChargedBefore(item.template, item.row.due)
  <2>1. item \in Items /\ today \in Nat /\ today' \in Nat /\ item.row.due <= today
    BY CalendarAssumption DEF IInv, TypeOK, DatesOK, Days
  <2>2. item.row.due \in Nat
    BY <2>1 DEF Items, Row
  <2>3. item.row.due <= today'
    BY <2>1, <2>2
  <2> QED
    BY <2>3 DEF IInv, DatesOK
<1>3. DatesOK'
  BY <1>2 DEF IInv, DatesOK, Exists, ChargedBefore
<1> QED
  BY <1>1, <1>3 DEF IInv, OncePerDate, EditsOK, Exists

LEMMA CommitInv ==
  ASSUME IInv, Commit
  PROVE  /\ IInv'
         /\ \A t \in Templates : WrittenOf(t) # {} =>
              /\ Exists(t) /\ templates[t] \in Row
              /\ Written(t) \in Writes /\ Written(t).expense.date < Written(t).due
              /\ templates'[t] = Advanced(templates[t], Written(t))
              /\ expenses'[t] = Append(expenses[t], Written(t).expense)
              /\ Written(t).expense.date \in Nat
<1>1. /\ job' = NoJob
      /\ UNCHANGED <<members, edits, today, back>>
      /\ templates' \in [Templates -> Row \cup {NoTemplate}] =>
           \A t \in Templates : templates'[t] =
             IF WrittenOf(t) = {} THEN templates[t]
             ELSE Advanced(templates[t], Written(t))
      /\ \A t \in Templates : templates'[t] =
             IF WrittenOf(t) = {} THEN templates[t]
             ELSE Advanced(templates[t], Written(t))
      /\ \A t \in Templates : expenses'[t] =
             IF WrittenOf(t) = {} THEN expenses[t]
             ELSE Append(expenses[t], Written(t).expense)
      /\ DOMAIN templates' = Templates /\ DOMAIN expenses' = Templates
  BY DEF Commit
<1>2. ASSUME NEW t \in Templates, WrittenOf(t) # {}
      PROVE  /\ Written(t) \in job.written /\ Written(t).template = t
             /\ Written(t) \in Writes /\ Exists(t) /\ templates[t] \in Row
             /\ Written(t).expense.date \in Nat /\ Written(t).due \in Nat
             /\ Written(t).expense \in Charges
             /\ Written(t).expense.date < Written(t).due
  <2>1. Written(t) \in job.written /\ Written(t).template = t
    BY <1>2 DEF WrittenOf, Written
  <2>2. Written(t) \in Writes
    BY <2>1 DEF IInv, TypeOK
  <2>3. Exists(t) /\ Written(t).expense.date < Written(t).due
    BY <2>1 DEF IInv, DatesOK
  <2>4. templates[t] \in Row
    BY <2>3 DEF Exists, IInv, TypeOK
  <2>5. Written(t).expense \in Charges /\ Written(t).due \in Nat
    BY <2>2 DEF Writes
  <2> QED
    BY <2>1, <2>2, <2>3, <2>4, <2>5, ChargeDate
<1>3. ASSUME NEW t \in Templates, WrittenOf(t) # {}
      PROVE  /\ templates'[t] \in Row /\ templates'[t].due = Written(t).due
             /\ expenses'[t] \in Seq(Charges)
             /\ Len(expenses'[t]) = Len(expenses[t]) + 1
             /\ DOMAIN expenses[t] = 1 .. Len(expenses[t])
             /\ Len(expenses[t]) \in Nat
             /\ DOMAIN expenses'[t] = 1 .. Len(expenses[t]) + 1
             /\ \A i \in 1 .. Len(expenses[t]) :
                  expenses'[t][i] = expenses[t][i]
             /\ expenses'[t][Len(expenses[t]) + 1] = Written(t).expense
  <2>1. templates'[t] = [templates[t] EXCEPT !.due = Written(t).due]
    BY <1>1, <1>3 DEF Advanced
  <2>2. templates'[t] \in Row /\ templates'[t].due = Written(t).due
    BY <1>2, <1>3, <2>1 DEF Row
  <2>3. /\ expenses[t] \in Seq(Charges)
        /\ expenses'[t] = Append(expenses[t], Written(t).expense)
        /\ Written(t).expense \in Charges
    BY <1>1, <1>2, <1>3 DEF IInv, TypeOK
  <2> QED
    BY <2>2, <2>3
<1>4. TypeOK'
  <2>1. \A t \in Templates : templates'[t] \in Row \cup {NoTemplate}
    BY <1>1, <1>3 DEF IInv, TypeOK
  <2>2. \A t \in Templates : expenses'[t] \in Seq(Charges)
    BY <1>1, <1>3 DEF IInv, TypeOK
  <2>3. templates' \in [Templates -> Row \cup {NoTemplate}]
        /\ expenses' \in [Templates -> Seq(Charges)]
    BY <2>1, <2>2 DEF Commit
  <2>4. job' \in [left : SUBSET Items, written : SUBSET Writes]
    BY <1>1 DEF NoJob
  <2> QED
    BY <1>1, <2>3, <2>4 DEF IInv, TypeOK
<1>5. ASSUME NEW t \in Templates \ back
      PROVE  /\ ~Exists(t)' => expenses'[t] = <<>>
             /\ Exists(t)' => ChargedBefore(t, templates[t].due)'
             /\ \A i, j \in DOMAIN expenses'[t] :
                  i < j => expenses'[t][i].date < expenses'[t][j].date
  <2>1. CASE WrittenOf(t) = {}
    BY <1>1, <2>1 DEF IInv, DatesOK, OncePerDate, Exists, ChargedBefore
  <2>2. CASE WrittenOf(t) # {}
    <3>1. templates'[t] # NoTemplate
      BY <1>3, <2>2, RowIsNoAbsence
    <3>2. ChargedBefore(t, Written(t).expense.date)
      BY <1>2, <2>2, <1>5 DEF IInv, DatesOK
    <3>3. \A i \in 1 .. Len(expenses[t]) : expenses[t][i].date \in Nat
      <4>1. expenses[t] \in Seq(Charges)
        BY DEF IInv, TypeOK
      <4>2. \A i \in 1 .. Len(expenses[t]) : expenses[t][i] \in Charges
        BY <4>1
      <4> QED
        BY <4>2, ChargeDate
    <3> DEFINE n == Len(expenses[t])
               date == Written(t).expense.date
               old(i) == expenses[t][i].date
               new(i) == expenses'[t][i].date
    <3>6. /\ n \in Nat /\ DOMAIN expenses[t] = 1 .. n
          /\ DOMAIN expenses'[t] = 1 .. n + 1
          /\ \A i \in 1 .. n : new(i) = old(i)
          /\ new(n + 1) = date
          /\ date \in Nat /\ date < templates'[t].due /\ templates'[t].due \in Nat
      BY <1>2, <1>3, <2>2
    <3>7. \A i \in 1 .. n : old(i) \in Nat /\ old(i) < date
      BY <3>2, <3>3, <3>6 DEF ChargedBefore
    <3>8. \A i, j \in 1 .. n : i < j => old(i) < old(j)
      BY <1>5, <3>6 DEF IInv, OncePerDate
    <3> HIDE DEF n, date, old, new
    <3>9. \A i \in 1 .. n + 1 : i = n + 1 \/ i \in 1 .. n
      BY <3>6
    <3>10. \A i \in 1 .. n + 1 : new(i) < templates'[t].due
      BY <3>6, <3>7, <3>9
    <3>11. \A i, j \in 1 .. n + 1 : i < j => new(i) < new(j)
      <4>1. ASSUME NEW i \in 1 .. n + 1, NEW j \in 1 .. n + 1, i < j
            PROVE  new(i) < new(j)
        <5>1. i \in 1 .. n
          BY <3>6, <4>1
        <5>2. CASE j = n + 1
          BY <3>6, <3>7, <5>1, <5>2
        <5>3. CASE j \in 1 .. n
          BY <3>6, <3>8, <4>1, <5>1, <5>3
        <5> QED
          BY <3>9, <5>2, <5>3
      <4> QED
        BY <4>1
    <3>4. \A i \in DOMAIN expenses'[t] : expenses'[t][i].date < templates'[t].due
      BY <3>6, <3>10 DEF new
    <3>5. \A i, j \in DOMAIN expenses'[t] :
            i < j => expenses'[t][i].date < expenses'[t][j].date
      BY <3>6, <3>11 DEF new
    <3> QED
      BY <3>1, <3>4, <3>5 DEF Exists, ChargedBefore
  <2> QED
    BY <2>1, <2>2
<1>6. \A t \in Templates : ~Exists(t)' => expenses'[t] = <<>>
  BY <1>1, <1>3, RowIsNoAbsence DEF Exists, IInv, DatesOK
<1>7. job'.left = {} /\ job'.written = {}
  BY <1>1 DEF NoJob
<1>8. DatesOK' /\ OncePerDate'
  BY <1>1, <1>5, <1>6, <1>7 DEF DatesOK, OncePerDate, Exists, ChargedBefore
<1>9. \A t \in Templates : Exists(t) => Exists(t)'
  BY <1>1, <1>3, RowIsNoAbsence DEF Exists
<1>10. EditsOK'
  BY <1>1, <1>9, EditsKept
<1> QED
  BY <1>1, <1>2, <1>4, <1>8, <1>10 DEF IInv

\* A new template has no charges.
LEMMA CreateInv == ASSUME IInv, NEW t \in Templates, Create(t) PROVE IInv'
<1>1. PICK row \in Row : templates' = [templates EXCEPT ![t] = row]
  BY RequestAssumption DEF Create
<1>2. UNCHANGED <<members, expenses, job, edits, today, back>>
  BY DEF Create
<1>3. TypeOK'
  BY <1>1, <1>2 DEF IInv, TypeOK
<1>4. \A u \in Templates : templates'[u] = IF u = t THEN row ELSE templates[u]
  BY <1>1 DEF IInv, TypeOK
<1>5. \A u \in Templates : Exists(u) => Exists(u)' /\ templates'[u] = templates[u]
  BY <1>4 DEF Create, Exists
<1>6. ~Exists(t) /\ expenses[t] = <<>>
  BY DEF Create, IInv, DatesOK
<1>7. DatesOK'
  <2>1. \A u \in Templates : ~Exists(u)' => expenses'[u] = <<>>
    BY <1>2, <1>5 DEF IInv, DatesOK
  <2>2. ASSUME NEW u \in Templates \ back', Exists(u)'
        PROVE  ChargedBefore(u, templates[u].due)'
    <3>1. CASE u = t
      BY <1>2, <1>6, <3>1 DEF ChargedBefore
    <3>2. CASE u # t
      BY <1>2, <1>4, <2>2, <3>2 DEF IInv, DatesOK, ChargedBefore, Exists
    <3> QED
      BY <3>1, <3>2
  <2>3. job.left \subseteq Items /\ job.written \subseteq Writes
    BY DEF IInv, TypeOK
  <2>4. \A item \in job.left : item.template \in Templates
    BY <2>3 DEF Items
  <2>5. \A w \in job.written : w.template \in Templates
    BY <2>3 DEF Writes
  <2> QED
    BY <1>2, <1>5, <2>1, <2>2, <2>4, <2>5 DEF IInv, DatesOK, ChargedBefore
<1>8. EditsOK'
  BY <1>2, <1>5, EditsKept
<1> QED
  BY <1>2, <1>3, <1>7, <1>8 DEF IInv, OncePerDate

LEMMA BeginEditInv ==
  ASSUME IInv, NEW e \in Editors, NEW t \in Templates, BeginEdit(e, t)
  PROVE  IInv'
<1>1. PICK payload \in Payloads :
        edits' = [edits EXCEPT ![e] = [template |-> t, seen |-> templates[t],
                                       payload |-> payload]]
  BY DEF BeginEdit
<1>2. templates[t] \in Row
  BY DEF BeginEdit, Exists, IInv, TypeOK
<1>3. UNCHANGED <<templates, members, expenses, job, today, back>>
  BY DEF BeginEdit
<1>4. TypeOK'
  BY <1>1, <1>2, <1>3 DEF IInv, TypeOK, Edit
<1>5. \A f \in Editors : edits'[f] = edits[f] \/ edits'[f].template = t
  BY <1>1 DEF IInv, TypeOK
<1>6. Exists(t)'
  BY <1>3 DEF BeginEdit, Exists
<1>7. \A u \in Templates : Exists(u) => Exists(u)'
  BY <1>3 DEF Exists
<1>8. EditsOK'
  <2>1. \A f \in Editors :
          edits'[f] = edits[f] \/ templates'[edits'[f].template] # NoTemplate
    BY <1>5, <1>6 DEF Exists
  <2> QED
    BY <1>7, <2>1, EditsKept
<1> QED
  BY <1>3, <1>4, <1>8 DEF IInv, DatesOK, OncePerDate, Exists, ChargedBefore

\* Columns keep their types.
LEMMA EditedRow ==
  ASSUME NEW row \in Row, NEW seen, NEW payload \in Payloads
  PROVE  Edited(row, seen, payload) \in Row
<1> DEFINE new == Edited(row, seen, payload)
<1>1. new = [c \in {"active", "due", "frequency", "amount", "payer"} |->
               IF c \in DOMAIN payload /\ payload[c] # seen[c]
               THEN payload[c] ELSE row[c]]
  BY DEF Edited, Row
<1>2. \A c \in DOMAIN payload : payload[c] \in Values[c]
  BY RequestAssumption
<1>3. /\ Values["active"] = BOOLEAN /\ Values["due"] = Nat
      /\ Values["frequency"] = Frequencies /\ Values["amount"] = Int
      /\ Values["payer"] = Users
  BY DEF Values
<1>4. new.active \in BOOLEAN
  BY <1>1, <1>2, <1>3 DEF Row
<1>5. new.due \in Nat
  BY <1>1, <1>2, <1>3 DEF Row
<1>6. new.frequency \in Frequencies
  BY <1>1, <1>2, <1>3 DEF Row
<1>7. new.amount \in Int
  BY <1>1, <1>2, <1>3 DEF Row
<1>8. new.payer \in Users
  BY <1>1, <1>2, <1>3 DEF Row
<1>9. new = [active |-> new.active, due |-> new.due, frequency |-> new.frequency,
             amount |-> new.amount, payer |-> new.payer]
  BY <1>1
<1> QED
  BY <1>4, <1>5, <1>6, <1>7, <1>8, <1>9 DEF Row

\* An edit that moves a date to or before one that is charged is history's
\* business; every other one leaves the charges before the date.
LEMMA CommitEditInv ==
  ASSUME IInv, NEW e \in Editors, CommitEdit(e)
  PROVE  IInv'
<1> DEFINE t == edits[e].template
           new == Edited(templates[t], edits[e].seen, edits[e].payload)
<1>1. /\ edits[e] # NoEdit /\ WrittenOf(t) = {}
      /\ templates' = [templates EXCEPT ![t] = new]
      /\ back' = IF /\ new.due # templates[t].due
                    /\ \E i \in DOMAIN expenses[t] :
                         new.due <= expenses[t][i].date
                 THEN back \cup {t} ELSE back
      /\ edits' = [edits EXCEPT ![e] = NoEdit]
      /\ UNCHANGED <<members, expenses, job, today>>
  BY DEF CommitEdit
<1>2. edits[e] \in Edit
  BY <1>1 DEF IInv, TypeOK
<1>3. t \in Templates /\ edits[e].payload \in Payloads
  BY <1>2 DEF Edit
<1>4. Exists(t) /\ templates[t] \in Row
  BY <1>1, <1>3 DEF IInv, EditsOK, TypeOK, Exists
<1>5. new \in Row
  BY <1>3, <1>4, EditedRow
<1>6. \A u \in Templates : templates'[u] = IF u = t THEN new ELSE templates[u]
  BY <1>1 DEF IInv, TypeOK
<1>7. \A u \in Templates : Exists(u)' <=> Exists(u)
  BY <1>4, <1>5, <1>6, RowIsNoAbsence DEF Exists
<1>8. TypeOK'
  <2>1. templates' \in [Templates -> Row \cup {NoTemplate}]
    BY <1>1, <1>5 DEF IInv, TypeOK
  <2>2. edits' \in [Editors -> Edit \cup {NoEdit}]
    BY <1>1 DEF IInv, TypeOK
  <2> QED
    BY <1>1, <2>1, <2>2 DEF IInv, TypeOK
<1>9. back \subseteq back'
  BY <1>1
<1>10. \A f \in Editors : edits'[f] = edits[f] \/ edits'[f] = NoEdit
  BY <1>1 DEF IInv, TypeOK
<1>11. EditsOK'
  BY <1>7, <1>10, EditsKept
<1>12. ASSUME NEW u \in Templates \ back', Exists(u)
       PROVE  ChargedBefore(u, templates[u].due)'
  <2>1. ChargedBefore(u, templates[u].due) /\ u \notin back
    BY <1>9, <1>12 DEF IInv, DatesOK
  <2>2. CASE u # t
    BY <1>1, <1>6, <2>1, <2>2 DEF ChargedBefore
  <2>3. CASE u = t
    <3>1. \/ new.due = templates[t].due
          \/ \A i \in DOMAIN expenses[t] : ~(new.due <= expenses[t][i].date)
      BY <1>1, <1>12, <2>3
    <3>2. expenses[t] \in Seq(Charges)
      BY <1>3 DEF IInv, TypeOK
    <3>3. \A i \in DOMAIN expenses[t] : expenses[t][i].date \in Nat
      BY <3>2, ChargeDate
    <3>4. new.due \in Nat
      BY <1>5 DEF Row
    <3>5. \A i \in DOMAIN expenses[t] : expenses[t][i].date < new.due
      BY <2>1, <2>3, <3>1, <3>3, <3>4 DEF ChargedBefore
    <3> QED
      BY <1>1, <1>3, <1>6, <2>3, <3>5 DEF ChargedBefore
  <2> QED
    BY <2>2, <2>3
<1>13. /\ \A item \in job.left : item.template \in Templates
       /\ \A w \in job.written : w.template \in Templates
  BY DEF IInv, TypeOK, Items, Writes
<1>14. DatesOK'
  <2>1. \A u \in Templates : ~Exists(u)' => expenses'[u] = <<>>
    BY <1>1, <1>7 DEF IInv, DatesOK
  <2>2. ASSUME NEW item \in job'.left
        PROVE  /\ Exists(item.template)' /\ item.row.due <= today'
               /\ item.template \notin back' =>
                    ChargedBefore(item.template, item.row.due)'
    BY <1>1, <1>7, <1>9, <1>13 DEF IInv, DatesOK, ChargedBefore
  <2>3. ASSUME NEW w \in job'.written
        PROVE  /\ Exists(w.template)' /\ w.expense.date < w.due
               /\ w.template \notin back' =>
                    ChargedBefore(w.template, w.expense.date)'
    BY <1>1, <1>7, <1>9, <1>13 DEF IInv, DatesOK, ChargedBefore
  <2>4. \A u \in Templates \ back' : Exists(u)' => ChargedBefore(u, templates[u].due)'
    BY <1>7, <1>12
  <2> QED
    BY <2>1, <2>2, <2>3, <2>4 DEF DatesOK
<1>15. OncePerDate'
  BY <1>1, <1>9 DEF IInv, OncePerDate
<1> QED
  BY <1>8, <1>11, <1>14, <1>15 DEF IInv

LEMMA NextInv == IInv /\ [Next]_vars => IInv'
<1> SUFFICES ASSUME IInv, [Next]_vars PROVE IInv'
  OBVIOUS
<1>1. job \in [left : SUBSET Items, written : SUBSET Writes] /\ today \in Days
      /\ members \in Groups
  BY DEF IInv, TypeOK
<1>2. CASE UNCHANGED vars
  BY <1>2 DEF vars, IInv, TypeOK, DatesOK, EditsOK, OncePerDate, Exists,
              ChargedBefore
<1>3. CASE Start
  BY <1>3, StartInv
<1>4. ASSUME NEW item \in job.left, Process(item) PROVE IInv'
  BY <1>4, ProcessInv
<1>5. ASSUME NEW item \in job.left, FailRow(item) PROVE IInv'
  <2>1. /\ job' = [job EXCEPT !.left = @ \ {item}]
        /\ UNCHANGED <<templates, members, expenses, edits, today, back>>
    BY <1>5 DEF FailRow
  <2>2. /\ job'.left \subseteq job.left /\ job'.written \subseteq job.written
        /\ job' \in [left : SUBSET Items, written : SUBSET Writes]
        /\ today' >= today
    BY <1>1, <2>1, CalendarAssumption DEF Days
  <2> QED
    BY <1>1, <2>1, <2>2, LessInv
<1>6. CASE Commit
  BY <1>6, CommitInv
<1>7. CASE Crash
  <2>1. /\ job' = NoJob
        /\ UNCHANGED <<templates, members, expenses, edits, today, back>>
    BY <1>7 DEF Crash
  <2>2. /\ job'.left \subseteq job.left /\ job'.written \subseteq job.written
        /\ job' \in [left : SUBSET Items, written : SUBSET Writes]
        /\ today' >= today
    BY <1>1, <2>1, CalendarAssumption DEF Days, NoJob
  <2> QED
    BY <1>1, <2>1, <2>2, LessInv
<1>8. CASE \E u \in Users : Join(u) \/ Leave(u)
  <2>1. /\ members' \in Groups
        /\ UNCHANGED <<templates, expenses, job, edits, today, back>>
    BY <1>1, <1>8 DEF Join, Leave, Groups
  <2>2. today' >= today
    BY <1>1, <2>1, CalendarAssumption DEF Days
  <2> QED
    BY <1>1, <2>1, <2>2, LessInv
<1>9. CASE Tick
  <2>1. UNCHANGED <<templates, members, expenses, job, edits, back>>
    BY <1>9 DEF Tick
  <2>2. today' \in Days /\ today' >= today
    BY <1>1, <1>9, CalendarAssumption DEF Tick, Days
  <2> QED
    BY <1>1, <2>1, <2>2, LessInv
<1>10. CASE \E t \in Templates : Create(t)
  BY <1>10, CreateInv
<1>11. CASE \E e \in Editors, t \in Templates : BeginEdit(e, t)
  BY <1>11, BeginEditInv
<1>12. CASE \E e \in Editors : CommitEdit(e)
  BY <1>12, CommitEditInv
<1> QED
  BY <1>2, <1>3, <1>4, <1>5, <1>6, <1>7, <1>8, <1>9, <1>10, <1>11, <1>12
     DEF Next, ProcessOrFail

-----------------------------------------------------------------------------
(* What the run checks, for every value of the constants *)

\* No due date is charged twice, in any calendar and through any crashes,
\* failures and edits, unless a member moved it back.
THEOREM RecurringOncePerDate == Spec => []OncePerDate
<1>1. IInv => OncePerDate
  BY DEF IInv
<1> QED
  BY InitInv, NextInv, <1>1, PTL DEF Spec

LEMMA AdvanceStep ==
  ASSUME IInv, [Next]_vars, NEW t \in Templates,
         expenses'[t] # expenses[t] \/ (job # job' /\ templates'[t] # templates[t])
  PROVE  LET new == expenses'[t][Len(expenses'[t])] IN
         /\ Len(expenses'[t]) = Len(expenses[t]) + 1
         /\ new.date < templates'[t].due
         /\ templates'[t] = [templates[t] EXCEPT !.due = templates'[t].due]
<1>1. Commit
  BY DEF Next, vars, Start, ProcessOrFail, Process, FailRow, Crash, Create,
         BeginEdit, CommitEdit, Join, Leave, Tick
<1>2. WrittenOf(t) # {}
  BY <1>1 DEF Commit
<1>3. /\ templates[t] \in Row /\ Written(t) \in Writes
      /\ Written(t).expense.date < Written(t).due
      /\ templates'[t] = [templates[t] EXCEPT !.due = Written(t).due]
      /\ expenses'[t] = Append(expenses[t], Written(t).expense)
  BY <1>1, <1>2, CommitInv DEF Advanced
<1>4. expenses[t] \in Seq(Charges) /\ Written(t).expense \in Charges
  BY <1>3 DEF IInv, TypeOK, Writes
<1>5. /\ Len(expenses'[t]) = Len(expenses[t]) + 1
      /\ expenses'[t][Len(expenses'[t])] = Written(t).expense
  BY <1>3, <1>4
<1>6. templates'[t].due = Written(t).due
  BY <1>3 DEF Row
<1> QED
  BY <1>3, <1>5, <1>6

\* A run moves a date only together with its charge, and writes nothing else.
THEOREM RecurringAdvancesWithExpense == Spec => AdvancesWithExpense
<1>1. IInv /\ [Next]_vars =>
        [\A t \in Templates :
           expenses'[t] # expenses[t] \/ (job # job' /\ templates'[t] # templates[t]) =>
             LET new == expenses'[t][Len(expenses'[t])] IN
             /\ Len(expenses'[t]) = Len(expenses[t]) + 1
             /\ new.date < templates'[t].due
             /\ templates'[t] = [templates[t] EXCEPT !.due = templates'[t].due]]_vars
  BY AdvanceStep
<1> QED
  BY InitInv, NextInv, <1>1, PTL DEF Spec, AdvancesWithExpense

-----------------------------------------------------------------------------
(* Shares *)

\* What is left when the quotient of twice n is taken off.
LEMMA Halves ==
  ASSUME NEW x \in Int, NEW n \in Nat, n > 0, NEW q, q = x \div (2 * n)
  PROVE  /\ q \in Int /\ q * n \in Int
         /\ 2 * (q * n) <= x /\ x < 2 * (q * n) + 2 * n
<1> DEFINE d == 2 * n
<1>1. d \in Nat /\ d > 0
  OBVIOUS
<1>2. 2 * (q * n) = d * q
  OBVIOUS
<1> DEFINE p == d * q
           r == x % d
           qn == q * n
<1> HIDE DEF d
<1>3. x \div d \in Int /\ x % d \in 0 .. d - 1
  BY <1>1
<1>4. x % d = x - d * (x \div d)
  BY <1>1
<1>5. q = x \div d
  BY DEF d
<1>6. r = x - p /\ p \in Int /\ r \in 0 .. d - 1
  BY <1>1, <1>3, <1>4, <1>5
<1>7. 2 * qn = p /\ qn \in Int
  BY <1>2, <1>3, <1>5
<1> HIDE DEF p, r, qn
<1>8. 2 * qn <= x /\ x < 2 * qn + d
  BY <1>1, <1>6, <1>7
<1> QED
  BY <1>3, <1>5, <1>7, <1>8 DEF qn, d

\* A rounded share times the members misses the amount by half a cent each.
LEMMA PerPersonOK ==
  ASSUME NEW amount \in Int, NEW n \in Nat, n > 0
  PROVE  /\ PerPerson(amount, n) \in Int
         /\ PerPerson(amount, n) * n \in Int
         /\ -n <= 2 * (amount - PerPerson(amount, n) * n)
         /\ 2 * (amount - PerPerson(amount, n) * n) <= n
<1>1. CASE amount >= 0
  <2> DEFINE x == 2 * amount + n
             q == x \div (2 * n)
  <2>1. x \in Int /\ PerPerson(amount, n) = q
    BY <1>1 DEF PerPerson
  <2> HIDE DEF x
  <2>2. q \in Int /\ q * n \in Int /\ 2 * (q * n) <= x /\ x < 2 * (q * n) + 2 * n
    BY <2>1, Halves
  <2> DEFINE qn == q * n
  <2>3. qn \in Int /\ 2 * qn <= x /\ x < 2 * qn + 2 * n
    BY <2>2
  <2> HIDE DEF q, qn
  <2>4. -n <= 2 * (amount - qn) /\ 2 * (amount - qn) <= n
    BY <2>3 DEF x
  <2> QED
    BY <2>1, <2>2, <2>4 DEF qn
<1>2. CASE ~(amount >= 0)
  <2> DEFINE x == n - 2 * amount
             q == x \div (2 * n)
  <2>1. x \in Int /\ PerPerson(amount, n) = -q
    BY <1>2 DEF PerPerson
  <2> HIDE DEF x
  <2>2. q \in Int /\ q * n \in Int /\ 2 * (q * n) <= x /\ x < 2 * (q * n) + 2 * n
    BY <2>1, Halves
  <2> DEFINE qn == q * n
  <2>3. qn \in Int /\ 2 * qn <= x /\ x < 2 * qn + 2 * n
    BY <2>2
  <2> HIDE DEF q
  <2>4. (-q) * n = -qn /\ -q \in Int
    BY <2>2
  <2> HIDE DEF qn
  <2>5. -n <= 2 * (amount - (-qn)) /\ 2 * (amount - (-qn)) <= n
    BY <2>3 DEF x
  <2>6. PerPerson(amount, n) \in Int /\ PerPerson(amount, n) * n = -qn
    BY <2>1, <2>4
  <2> QED
    BY <2>3, <2>5, <2>6
<1> QED
  BY <1>1, <1>2

\* The shares of one charge.
LEMMA ChargeAddsUp ==
  ASSUME NEW e \in Charges
  PROVE  LET missing == e.amount - SumFunction(e.shares)
             n == Cardinality(DOMAIN e.shares)
         IN IF e.payer \in DOMAIN e.shares THEN missing = 0
            ELSE -n <= 2 * missing /\ 2 * missing <= n
<1>1. PICK row \in Row, who \in Groups : e = Expense(row, who)
  BY DEF Charges
<1> DEFINE n == Cardinality(who)
           each == PerPerson(row.amount, n)
           f == [u \in who |-> ShareOf(u, row.amount, row.payer, n)]
           g == [u \in who |-> each]
           whole == each * n
<1>2. row.amount \in Int
  BY DEF Row
<1>3. IsFiniteSet(who) /\ Owner \in who
  BY FS_Subset, RequestAssumption DEF Groups
<1>4. n \in Nat /\ n > 0
  BY <1>3, FS_CardinalityType, FS_EmptySet
<1>5. /\ e.amount = row.amount /\ e.payer = row.payer /\ e.shares = f
      /\ DOMAIN f = who
  BY <1>1 DEF Expense
<1>6. /\ each \in Int /\ whole \in Int
      /\ -n <= 2 * (row.amount - whole)
      /\ 2 * (row.amount - whole) <= n
  BY <1>2, <1>4, PerPersonOK
<1>7. \A u \in who : /\ g[u] = each
                     /\ f[u] = IF u = row.payer THEN each + (row.amount - whole)
                                                ELSE each
  BY DEF ShareOf
<1>8. SumFunction(e.shares) = SumFunctionOnSet(f, who)
  BY <1>5 DEF SumFunction
<1>9. SumFunctionOnSet(g, who) = whole
  <2> HIDE DEF each, g
  <2> QED
    BY <1>3, <1>6, <1>7, SumConst
<1> HIDE DEF f, g, each, whole, n
<1>10. \A u \in who : g[u] \in Int /\ f[u] \in Int
  BY <1>2, <1>6, <1>7
<1>11. CASE row.payer \in who
  <2> DEFINE y == row.payer
  <2>1. y \in who /\ \A u \in who \ {y} : g[u] = f[u]
    BY <1>7, <1>11
  <2>2. f[y] = each + (row.amount - whole) /\ g[y] = each
    BY <1>7, <1>11
  <2>3. \A u \in who : g[u] \in Int /\ f[u] \in Int
    BY <1>10
  <2> HIDE DEF y
  <2>4. SumFunctionOnSet(f, who) = SumFunctionOnSet(g, who) + f[y] - g[y]
    BY <1>3, <2>1, <2>3, SumChange
  <2>5. SumFunctionOnSet(f, who) = row.amount
    BY <1>2, <1>6, <1>9, <2>2, <2>4
  <2> QED
    BY <1>2, <1>5, <1>8, <1>11, <2>5
<1>12. CASE row.payer \notin who
  <2>1. \A u \in who : g[u] \in Int /\ g[u] = f[u]
    BY <1>7, <1>10, <1>12
  <2>2. SumFunctionOnSet(f, who) = whole
    BY <1>3, <1>9, <2>1, SumSame
  <2> QED
    BY <1>5, <1>6, <1>8, <1>12, <2>2 DEF n
<1> QED
  BY <1>11, <1>12

\* However the group and the template changed between the selection of a row and
\* its charge, nothing of the amount is lost while the payer is a member, and at
\* most half a cent for every member otherwise.
THEOREM RecurringSharesAddUp == Spec => []SharesAddUp
<1>1. IInv => SharesAddUp
  <2> SUFFICES ASSUME IInv, NEW t \in Templates, NEW i \in DOMAIN expenses[t]
               PROVE  LET e == expenses[t][i]
                          missing == e.amount - SumFunction(e.shares)
                          n == Cardinality(DOMAIN e.shares)
                      IN IF e.payer \in DOMAIN e.shares THEN missing = 0
                         ELSE -n <= 2 * missing /\ 2 * missing <= n
    BY DEF SharesAddUp
  <2>1. expenses[t] \in Seq(Charges)
    BY DEF IInv, TypeOK
  <2>2. expenses[t][i] \in Charges
    BY <2>1
  <2> QED
    BY <2>2, ChargeAddsUp
<1> QED
  BY InitInv, NextInv, <1>1, PTL DEF Spec
=============================================================================
