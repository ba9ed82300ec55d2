------------------------------ MODULE MCLedger ------------------------------
(* Values for the constants of Ledger that a .cfg file cannot write. *)
EXTENDS WeeklyDigest, TLC

CONSTANTS alice, bob

\* In quarters of a cent: a list with a negative amount and halves of a cent,
\* off by less than the tolerance, and one that is refused.
MCExactInputs ==
    { << [user |-> alice, amount |-> -2], [user |-> bob, amount |-> 14] >>,
      << [user |-> alice, amount |-> 16], [user |-> bob, amount |-> 16] >> }

\* Only the handlers are interchangeable: the owner is not, and the inputs
\* name users.
HandlerSymmetry == Permutations(Handlers)
=============================================================================
