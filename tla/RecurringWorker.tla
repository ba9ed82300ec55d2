--------------------------- MODULE RecurringWorker ---------------------------
(***************************************************************************)
(* Recurring templates (routers/recurring.py) and the daily job of the     *)
(* notification worker that materialises them (recurring_worker.py).       *)
(*                                                                         *)
(* The job is one transaction: a SELECT of the due rows, per row a         *)
(* savepoint that inserts an expense and advances next_due, one COMMIT.    *)
(* Until then nobody else sees its writes, and the rows it has updated are *)
(* locked.  The requests of the members run in between.  A day is a        *)
(* number; months are intervals of days.                                   *)
(***************************************************************************)
EXTENDS Integers, Sequences, FiniteSetsExt

CONSTANTS
    Templates,     \* keys of recurring_expenses
    Users,
    Owner,         \* the group's owner, who cannot be removed
    Editors,       \* PUT and DELETE requests in flight at the same time
    NewRows,       \* what create_recurring may be asked to insert
    Payloads,      \* what update_recurring may be asked to change
    Week,          \* days of a week
    YearMonths,    \* months of a year
    LastMonth,
    FirstOf,       \* FirstOf[m]: the first day of month m
    HasUpdatedAt,  \* whether recurring_expenses has a column updated_at
    MaxDay,        \* bound on time; the last day repeats itself
    MaxEdits,      \* bound on the edits and the changes of membership
    MaxFaults      \* bound on failing statements and crashes

Months == 0 .. LastMonth
Days == 0 .. MaxDay
Frequencies == {"daily", "weekly", "monthly", "yearly"}
Row == [active : BOOLEAN, due : Nat, frequency : Frequencies,
        amount : Int, payer : Users]
Values == [active |-> BOOLEAN, due |-> Nat, frequency |-> Frequencies,
           amount |-> Int, payer |-> Users]

ASSUME CalendarAssumption ==
    /\ LastMonth \in Nat /\ MaxDay \in Nat
    /\ Week \in Nat \ {0} /\ YearMonths \in Nat \ {0}
    /\ FirstOf \in [0 .. LastMonth + 1 -> Nat]
    /\ \A m, n \in 0 .. LastMonth + 1 : m < n => FirstOf[m] < FirstOf[n]
    /\ \A d \in Days : \E m \in Months :
         /\ FirstOf[m] <= d /\ d < FirstOf[m + 1]
         /\ m + YearMonths <= LastMonth

ASSUME RequestAssumption ==
    /\ IsFiniteSet(Users) /\ Owner \in Users
    /\ MaxEdits \in Nat /\ MaxFaults \in Nat /\ HasUpdatedAt \in BOOLEAN
    /\ NewRows \subseteq Row
    /\ \A p \in Payloads : \A c \in DOMAIN p : p[c] \in Values[c]

VARIABLES
    templates,  \* templates[t]: its row, or NoTemplate
    members,    \* who is in the group
    expenses,   \* expenses[t]: the expenses made from t, in order
    job,        \* the daily run, if there is one
    edits,      \* edits[e]: what a request has read and will write
    today, ran, \* whether the job was started today
    nEdits, nFaults,
    back        \* history: templates whose date was moved to or before one
                \* that had an expense already

vars == <<templates, members, expenses, job, edits, today, ran, nEdits,
          nFaults, back>>

NoTemplate == [active |-> FALSE]
NoJob == [left |-> {}, written |-> {}]
NoEdit == [template |-> "none"]
Exists(t) == templates[t] # NoTemplate

-----------------------------------------------------------------------------
(* Dates *)

MonthOf(d) == CHOOSE m \in Months : FirstOf[m] <= d /\ d < FirstOf[m + 1]

\* The same day of a later month, or that month's last day.
AddMonths(d, k) ==
    LET m == MonthOf(d)
        same == FirstOf[m + k] + (d - FirstOf[m])
        last == FirstOf[m + k + 1] - 1
    IN IF same < last THEN same ELSE last

next_due_date_Stuck(d, frequency) ==
    CASE frequency = "daily"   -> d + 1
      [] frequency = "weekly"  -> d + Week
      [] frequency = "monthly" -> FirstOf[MonthOf(d)]
      [] frequency = "yearly"  -> AddMonths(d, YearMonths)
next_due_date(d, frequency) ==
    CASE frequency = "daily"   -> d + 1
      [] frequency = "weekly"  -> d + Week
      [] frequency = "monthly" -> AddMonths(d, 1)
      [] frequency = "yearly"  -> AddMonths(d, YearMonths)

-----------------------------------------------------------------------------
(* Shares *)

\* Decimal's ROUND_HALF_UP: halves away from zero.
PerPerson(amount, n) ==
    IF amount >= 0 THEN (2 * amount + n) \div (2 * n)
                   ELSE -((n - 2 * amount) \div (2 * n))

\* Everybody's rounded share; the payer's absorbs what rounding left over.
ShareOf_NoRemainder(user, amount, payer, n) == PerPerson(amount, n)
ShareOf(user, amount, payer, n) ==
    LET each == PerPerson(amount, n)
    IN IF user = payer THEN each + (amount - each * n) ELSE each

\* The expense of a selected row, split among the members there are now.
Expense(row, who) ==
    LET n == Cardinality(who) IN
    [date |-> row.due, amount |-> row.amount, payer |-> row.payer,
     shares |-> [u \in who |-> ShareOf(u, row.amount, row.payer, n)],
     owed |-> [u \in who |-> IF u = row.payer THEN 0
                             ELSE PerPerson(row.amount, n)]]

-----------------------------------------------------------------------------
(* The job *)

Due_Today(row) == row.active /\ row.due = today
Due(row) == row.active /\ row.due <= today

\* The SELECT: rows as they are now, kept while requests change them.
Start ==
    /\ job = NoJob /\ ~ran
    /\ job' = [left |-> {[template |-> t, row |-> templates[t]] :
                           t \in {u \in Templates :
                                    Exists(u) /\ Due(templates[u])}},
               written |-> {}]
    /\ ran' = TRUE
    /\ UNCHANGED <<templates, members, expenses, edits, today, nEdits, nFaults,
                   back>>

\* ORDER BY next_due.
IsNext(item) ==
    /\ item \in job.left
    /\ \A other \in job.left : item.row.due <= other.row.due

\* A savepoint that is released.
Process(item) ==
    /\ HasUpdatedAt
    /\ IsNext(item)
    /\ job' = [left |-> job.left \ {item},
               written |-> job.written \cup
                 {[template |-> item.template, row |-> item.row,
                   due |-> next_due_date(item.row.due, item.row.frequency),
                   expense |-> Expense(item.row, members)]}]
    /\ UNCHANGED <<templates, members, expenses, edits, today, ran, nEdits,
                   nFaults, back>>

\* A savepoint that is rolled back: the error is logged, the others go on.
\* Without the column the UPDATE fails every time.
FailRow(item) ==
    /\ IsNext(item)
    /\ IF HasUpdatedAt
       THEN nFaults < MaxFaults /\ nFaults' = nFaults + 1
       ELSE UNCHANGED nFaults
    /\ job' = [job EXCEPT !.left = @ \ {item}]
    /\ UNCHANGED <<templates, members, expenses, edits, today, ran, nEdits, back>>

\* What the run has written for a template, if anything.
WrittenOf(t) == {w \in job.written : w.template = t}
Written(t) == CHOOSE w \in job.written : w.template = t

\* Only next_due is written, whatever it was changed to meanwhile.
Advanced_WholeRow(row, w) == [w.row EXCEPT !.due = w.due]
Advanced(row, w) == [row EXCEPT !.due = w.due]

Commit ==
    /\ job # NoJob /\ job.left = {}
    /\ templates' = [t \in Templates |->
         IF WrittenOf(t) = {} THEN templates[t]
         ELSE Advanced(templates[t], Written(t))]
    /\ expenses' = [t \in Templates |->
         IF WrittenOf(t) = {} THEN expenses[t]
         ELSE Append(expenses[t], Written(t).expense)]
    /\ job' = NoJob
    /\ UNCHANGED <<members, edits, today, ran, nEdits, nFaults, back>>

\* The process or its connection dies before the COMMIT: nothing of the run
\* is kept, and there is no other run on that day.
Crash ==
    /\ job # NoJob
    /\ nFaults < MaxFaults
    /\ nFaults' = nFaults + 1
    /\ job' = NoJob
    /\ UNCHANGED <<templates, members, expenses, edits, today, ran, nEdits, back>>

-----------------------------------------------------------------------------
(* Requests *)

Create(t) ==
    /\ ~Exists(t)
    /\ \E row \in NewRows :
         /\ row.active /\ row.amount > 0
         /\ templates' = [templates EXCEPT ![t] = row]
    /\ UNCHANGED <<members, expenses, job, edits, today, ran, nEdits, nFaults,
                   back>>

\* PUT, or DELETE with the payload [active |-> FALSE]: the row is read, and
\* with it whether its creator or the owner is asking (the owner always can).
BeginEdit(e, t) ==
    /\ edits[e] = NoEdit
    /\ Exists(t)
    /\ nEdits < MaxEdits
    /\ nEdits' = nEdits + 1
    /\ \E payload \in Payloads :
         edits' = [edits EXCEPT ![e] =
                     [template |-> t, seen |-> templates[t],
                      payload |-> payload]]
    /\ UNCHANGED <<templates, members, expenses, job, today, ran, nFaults, back>>

\* The ORM writes the columns that differ from what it has read.
Edited(row, seen, payload) ==
    [c \in DOMAIN row |->
       IF c \in DOMAIN payload /\ payload[c] # seen[c] THEN payload[c] ELSE row[c]]

\* The UPDATE waits for the job's row lock.
CommitEdit(e) ==
    LET t == edits[e].template
        new == Edited(templates[t], edits[e].seen, edits[e].payload)
    IN
    /\ edits[e] # NoEdit
    /\ WrittenOf(t) = {}
    /\ templates' = [templates EXCEPT ![t] = new]
    /\ back' = IF /\ new.due # templates[t].due
                  /\ \E i \in DOMAIN expenses[t] : new.due <= expenses[t][i].date
               THEN back \cup {t} ELSE back
    /\ edits' = [edits EXCEPT ![e] = NoEdit]
    /\ UNCHANGED <<members, expenses, job, today, ran, nEdits, nFaults>>

\* add_member_by_email and remove_member, for everybody but the owner.
Join(u) ==
    /\ u \notin members
    /\ nEdits < MaxEdits
    /\ nEdits' = nEdits + 1
    /\ members' = members \cup {u}
    /\ UNCHANGED <<templates, expenses, job, edits, today, ran, nFaults, back>>

Leave(u) ==
    /\ u \in members \ {Owner}
    /\ nEdits < MaxEdits
    /\ nEdits' = nEdits + 1
    /\ members' = members \ {u}
    /\ UNCHANGED <<templates, expenses, job, edits, today, ran, nFaults, back>>

-----------------------------------------------------------------------------
\* The next day; a run that has not started by then is missed.  On the last
\* day of the model another run may follow.
Tick ==
    /\ job = NoJob
    /\ today' = IF today < MaxDay THEN today + 1 ELSE today
    /\ ran' = FALSE
    /\ UNCHANGED <<templates, members, expenses, job, edits, nEdits, nFaults,
                   back>>

Init ==
    /\ templates = [t \in Templates |-> NoTemplate]
    /\ members \in {m \in SUBSET Users : Owner \in m}
    /\ expenses = [t \in Templates |-> <<>>]
    /\ job = NoJob
    /\ edits = [e \in Editors |-> NoEdit]
    /\ today = 0 /\ ran = FALSE
    /\ nEdits = 0 /\ nFaults = 0
    /\ back = {}

ProcessOrFail == \E item \in job.left : Process(item) \/ FailRow(item)

Next ==
    \/ Start \/ ProcessOrFail \/ Commit \/ Crash
    \/ \E t \in Templates : Create(t)
    \/ \E e \in Editors, t \in Templates : BeginEdit(e, t)
    \/ \E e \in Editors : CommitEdit(e)
    \/ \E u \in Users : Join(u) \/ Leave(u)
    \/ Tick

\* The scheduler starts the job every day and the job goes on to its end; the
\* requests need not come.
Fairness ==
    WF_vars(Start) /\ WF_vars(ProcessOrFail) /\ WF_vars(Commit) /\ WF_vars(Tick)

Spec == Init /\ [][Next]_vars
FairSpec == Spec /\ Fairness

-----------------------------------------------------------------------------
(* Properties *)

\* A template is charged at most once per due date, and in the order of the
\* dates, unless a member moved its date back: neither a crash, a run that is
\* repeated nor an edit during a run charges a date twice.
OncePerDate ==
    \A t \in Templates \ back :
        \A i, j \in DOMAIN expenses[t] :
            i < j => expenses[t][i].date < expenses[t][j].date

\* What a run changes of a template is its date, never a column that a member
\* edited meanwhile, and only together with one more expense, of a date
\* before the new one: no date is passed over without a charge.
AdvancesWithExpense ==
    [][\A t \in Templates :
         expenses'[t] # expenses[t] \/ (job # job' /\ templates'[t] # templates[t]) =>
           LET new == expenses'[t][Len(expenses'[t])] IN
           /\ Len(expenses'[t]) = Len(expenses[t]) + 1
           /\ new.date < templates'[t].due
           /\ templates'[t] = [templates[t] EXCEPT !.due = templates'[t].due]]_vars

\* The shares of a charge add up to its amount when the payer is still in the
\* group; otherwise nobody takes the remainder, at most half a cent each.
SharesAddUp ==
    \A t \in Templates : \A i \in DOMAIN expenses[t] :
        LET e == expenses[t][i]
            missing == e.amount - SumFunction(e.shares)
            n == Cardinality(DOMAIN e.shares)
        IN IF e.payer \in DOMAIN e.shares THEN missing = 0
           ELSE -n <= 2 * missing /\ 2 * missing <= n

\* A date that is reached, or was missed, is charged by a later run, however
\* many runs fail, unless a member changes the template.
DueIsMaterialised ==
    \A t \in Templates, d \in Days :
        Exists(t) /\ templates[t].active /\ templates[t].due = d /\ d <= today
          ~> \/ \E i \in DOMAIN expenses[t] : expenses[t][i].date = d
             \/ ~templates[t].active
             \/ templates[t].due # d
=============================================================================
