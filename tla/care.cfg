SPECIFICATION PartsSpec
INVARIANTS
  PartsTyped
  ChangesCanBeUndone
  ServersAreRun
  FindingsHold
CHECK_DEADLOCK FALSE
