SPECIFICATION Spec
CONSTANTS
  alice = alice
  bob = bob
  Users = {alice, bob}
  Owner = alice
  Guests = {bob}
  Handlers = {h1}
  Amounts = {12}
  Fine = 4
  Payments = {4, 12}
  ExactInputs <- MCExactInputs
  Budget = 3
  None = None
CHECK_DEADLOCK FALSE
PROPERTIES
  SettlementMovesBalance
