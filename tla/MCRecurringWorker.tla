-------------------------- MODULE MCRecurringWorker --------------------------
(* Values for the constants of RecurringWorker that a .cfg file cannot write. *)
EXTENDS RecurringWorker

CONSTANTS u1, u2

\* Months of 3, 1, 2, 1 and 2 days: a due date on the third day of a month is
\* clamped in every other one.
MCFirstOf == [m \in 0 .. 5 |-> <<0, 3, 4, 6, 7, 9>>[m + 1]]

MCNewRows ==
    { [active |-> TRUE, due |-> 2, frequency |-> "monthly", amount |-> 5,
       payer |-> u1],
      [active |-> TRUE, due |-> 1, frequency |-> "daily", amount |-> 2,
       payer |-> u2] }

MCPayloads ==
    { [due |-> 0], [due |-> 3], [active |-> FALSE],
      [frequency |-> "weekly"], [frequency |-> "yearly", payer |-> u2],
      [amount |-> -5] }
=============================================================================
