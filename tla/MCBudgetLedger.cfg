SPECIFICATION Spec
CONSTANTS
  AssetKeys <- MCAssetKeys
  RequestKeys = {11, 12, 13}
  Addresses = {1, 2}
  Amounts <- MCAmounts
  MaxUint = 3
INVARIANTS
  LedgerTypeOK
  Solvency
  ChargedWithinReservation
  CountersMatchReservations
  ArithmeticNeverReverts
PROPERTIES
  LedgerHistory
  ImplementsOdometer
CHECK_DEADLOCK FALSE
