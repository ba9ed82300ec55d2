-------------------------------- MODULE Money --------------------------------
(***************************************************************************)
(* Amounts in a payload and amounts in a table.  The schemas take a        *)
(* Decimal with any number of places; the columns are Numeric(10, 2).  A   *)
(* payload's amount is an integer number of parts of a cent, Fine of which *)
(* make a cent; a column holds cents.                                      *)
(***************************************************************************)
EXTENDS Integers

CONSTANT Fine    \* parts of a cent that a payload can tell apart

ASSUME FineAssumption == Fine \in Nat \ {0}

Whole(amount) == amount % Fine = 0
Tie(amount) == 2 * (amount % Fine) = Fine

\* What numeric(10, 2) keeps of an amount that is not negative: the nearest
\* cent, the greater one of two that are as near.
Stored_Truncated(amount) == amount \div Fine
Stored(amount) == (2 * amount + Fine) \div (2 * Fine)

\* Decimal.quantize: the nearest cent, the even one of two that are as near.
Quantized(amount) ==
    LET cents == amount \div Fine
        rest == amount % Fine
    IN IF 2 * rest < Fine \/ (Tie(amount) /\ cents % 2 = 0)
       THEN cents ELSE cents + 1

\* ROUND_DOWN: a quotient cut off towards zero.
RoundedDown(x, divisor) ==
    IF x >= 0 THEN x \div divisor ELSE -((-x) \div divisor)
=============================================================================
