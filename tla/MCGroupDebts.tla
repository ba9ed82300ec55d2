---------------------------- MODULE MCGroupDebts ----------------------------
(* Values for the constants of GroupDebts that a .cfg file cannot write. *)
EXTENDS GroupDebts

Listing(users, given) ==
    [i \in DOMAIN users |-> [user |-> users[i], given |-> given[i]]]

\* With Fine = 2, in half cents.  Amounts with a remainder among four, in whole
\* cents and not; exact lists within and beyond the tolerance, with halves of a
\* cent; percentages that sum to 99.99, 100 and 100.01, of an amount that makes
\* 0.01 percent worth a cent, or with a negative one among them, and a list
\* that is refused.
MCCharges ==
    { [amount |-> 14, type |-> "equal", inputs |-> <<>>],
      [amount |-> 21, type |-> "equal", inputs |-> <<>>],
      [amount |-> 18, type |-> "exact",
       inputs |-> Listing(<<1, 2, 3>>, <<-1, 7, 13>>)],
      [amount |-> 18, type |-> "exact",
       inputs |-> Listing(<<1, 2>>, <<10, 14>>)],
      [amount |-> 20000, type |-> "percentage",
       inputs |-> Listing(<<1, 2, 3>>, <<0, 3333, 6668>>)],
      [amount |-> 199, type |-> "percentage",
       inputs |-> Listing(<<4, 2, 3>>, <<3333, 3333, 3333>>)],
      [amount |-> 198, type |-> "percentage",
       inputs |-> Listing(<<2, 4, 1>>, <<-3333, 6666, 6666>>)],
      [amount |-> 20000, type |-> "percentage",
       inputs |-> Listing(<<2, 4>>, <<5000, 5100>>)] }

\* A payment that ends within a row, and one to oneself.
MCPayments == { [from |-> 2, to |-> 1, amount |-> 7],
                [from |-> 4, to |-> 4, amount |-> 4] }
=============================================================================
