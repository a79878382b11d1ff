CONSTANTS
  Labwcs = {l1, l2, l3}
  NoFile = NoFile
  Foreign = Foreign
  MaxFaults = 2
SPECIFICATION Spec
CHECK_DEADLOCK FALSE
SYMMETRY Symmetry
INVARIANTS
  ServingIsReachable
PROPERTIES
  LiveEndpointIsRefused
  DisabledOnlyIfServed
