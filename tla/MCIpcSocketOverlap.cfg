CONSTANTS
  Labwcs = {l1, l2}
  NoFile = NoFile
  Foreign = Foreign
  MaxFaults = 0
SPECIFICATION Spec
CHECK_DEADLOCK FALSE
SYMMETRY Symmetry
PROPERTY ReplacesOnlyStale
