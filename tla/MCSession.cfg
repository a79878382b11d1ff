CONSTANTS
  Processes = {1, 2, 3}
  MaxRestarts = 5
  MaxSignals = 2
  MaxFaults = 1
SPECIFICATION Spec
INVARIANTS
  TypeOK
  BackoffDoubles
  OneDaemon
PROPERTIES
  BudgetIsFailedRestarts
  DaemonIsReplaced
