SPECIFICATION PartsSpec
INVARIANTS
  CleanBill
CHECK_DEADLOCK FALSE
