------------------------------ MODULE SplitCalc ------------------------------
(***************************************************************************)
(* _calculate_splits (routers/expenses.py) as operators on sequences: the  *)
(* rows in the order of the participants, for the three split types.       *)
(* The amount is the payload's, in parts of a cent (Money), the shares are *)
(* cents, percentages hundredths of a percent.  An input is [user, given]: *)
(* the amount, in parts of a cent, or the percentage the payload lists,    *)
(* which may be negative.                                                  *)
(***************************************************************************)
EXTENDS Money, Sequences, SequencesExt

SplitTypes == {"equal", "exact", "percentage"}
ExactTolerance == 2        \* Decimal("0.02")
PercentTolerance == 1      \* Decimal("0.01") percent
Hundred == 10000           \* 100 percent

Given(inputs) == [i \in DOMAIN inputs |-> inputs[i].given]

\* Whole cents for everybody; what they miss, or exceed, of the amount goes to
\* the first participant, whose share is quantized then.
ToFirst_Nobody(cents, amount) == cents
ToFirst(cents, amount) ==
    [cents EXCEPT ![1] = Quantized(Fine * @ + amount - Fine * SumFunction(cents))]

EqualCents(amount, n) == ToFirst([i \in 1 .. n |-> amount \div (n * Fine)], amount)

ExactCents(listed) == [i \in DOMAIN listed |-> Quantized(listed[i])]

\* percentage / 100 * amount, rounded down.
PercentCents(amount, percentages) ==
    ToFirst([i \in DOMAIN percentages |->
               RoundedDown(percentages[i] * amount, Hundred * Fine)], amount)

Near(a, b, tolerance) == a - b \in -tolerance .. tolerance

ExactAccepted(amount, inputs) ==
    Near(SumFunction(Given(inputs)), amount, Fine * ExactTolerance)

PercentAccepted_Loose(inputs) ==
    Near(SumFunction(Given(inputs)), Hundred, 100 * PercentTolerance)
PercentAccepted(inputs) ==
    Near(SumFunction(Given(inputs)), Hundred, PercentTolerance)

\* No participants, or inputs that do not add up: 422.
Accepted(type, amount, ids, inputs) ==
    CASE type = "equal"      -> ids # <<>>
      [] type = "exact"      -> inputs # <<>> /\ ExactAccepted(amount, inputs)
      [] type = "percentage" -> inputs # <<>> /\ PercentAccepted(inputs)

Cents(type, amount, ids, inputs) ==
    CASE type = "equal"      -> EqualCents(amount, Len(ids))
      [] type = "exact"      -> ExactCents(Given(inputs))
      [] type = "percentage" -> PercentCents(amount, Given(inputs))

Participants(type, ids, inputs) ==
    IF type = "equal" THEN ids ELSE [i \in DOMAIN inputs |-> inputs[i].user]

\* The rows: the payer owes nothing on the own expense.
Splits(type, amount, payer, ids, inputs) ==
    LET who == Participants(type, ids, inputs)
        cents == Cents(type, amount, ids, inputs)
    IN [i \in DOMAIN who |->
          [user |-> who[i], share |-> cents[i],
           owed |-> IF who[i] = payer THEN 0 ELSE cents[i],
           settled |-> FALSE]]
=============================================================================
