SPECIFICATION Spec
CONSTANTS
  Widths <- MCWidths
  Step = 2
  Unroll = 3
  RandomPaths = 2
  Random <- MCRandom
  MaxClk = 6
  MaxSaid = 1
  MaxFlips = 3
INVARIANTS
  TypeOK
  CountsAgree
  ObsAlternates
PROPERTIES
  DrivesThePlan
CHECK_DEADLOCK FALSE
