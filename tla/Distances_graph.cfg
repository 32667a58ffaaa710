SPECIFICATION Spec
CONSTANTS
  MaxBlocks = 7
  MaxMeasured = 5
  MaxTargets = 2
  MaxProcs = 2
  MaxAssigns = 2
INVARIANTS
  TypeOK
  IdomDominates
  FlowIsKnown
  DistanceIsShortest
  RealignOnce
PROPERTIES
  Terminates
CHECK_DEADLOCK FALSE
