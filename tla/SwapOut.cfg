CONSTANTS
  StartHeight = 1
  MaxHeight = 6
  Timeout = 5
  Confs = 2
  Buffer = 0
SPECIFICATION FairSpec
INVARIANTS
  TypeOK
  CanceledNeverPaid
  SecretAfterDeposit
  SuccessMeansSwapped
PROPERTIES
  PaysOnlyChecked
  RecoveryReturns
CHECK_DEADLOCK FALSE
