SPECIFICATION GroupSpec
CONSTANTS
  Users = {1, 2, 3, 4}
  Charges <- MCCharges
  Payments <- MCPayments
  MaxRows = 3
  Fine = 2
CHECK_DEADLOCK FALSE
INVARIANTS
  FewTransfers
  SharesCoverCharge
  FirstShareFair
  ListSettles
PROPERTIES
  ImplementsSettling
