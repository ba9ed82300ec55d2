SPECIFICATION Spec
CONSTANTS
  alice = alice
  bob = bob
  Users = {alice, bob}
  Owner = alice
  Guests = {bob}
  Handlers = {h1, h2}
  Fine = 4
  Amounts = {12, 14}
  Payments = {2, 7, 8}
  ExactInputs <- MCExactInputs
  Budget = 3
  None = None
SYMMETRY HandlerSymmetry
CHECK_DEADLOCK FALSE
INVARIANTS
  TypeOK
  NoOrphanSplits
  ClearedUpToPaid
  DebtStaysVisible
  
  
  BalancesFair
  ReportsAgree
PROPERTIES
  SettledIsFinal
  SettlementClearsItsAmount
