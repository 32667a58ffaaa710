CONSTANTS
  NumTargets = 1
  Unroll = 50
  Step = 5
  RandomSims = 1
  TotalLimit = 1
SPECIFICATION Spec
INVARIANT
  ClockInSlots
