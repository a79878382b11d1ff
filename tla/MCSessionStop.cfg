CONSTANTS
  Processes = {1, 2, 3}
  MaxRestarts = 5
  MaxSignals = 2
  MaxFaults = 1
SPECIFICATION Spec
PROPERTY StopTerminatesChild
