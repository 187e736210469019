CONSTANTS
  StartHeight = 1
  MaxHeight = 6
  Timeout = 5
  Confs = 2
  Buffer = 0
SPECIFICATION Spec
PROPERTY SweepStartsInTime
CHECK_DEADLOCK FALSE
