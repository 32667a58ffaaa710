CONSTANTS
  Branches = {0, 3}
  BranchDim = 2
  Registers = 3
  Clocks = {1}
  TargetUpdate = 5
  MaxFlips = 3
  MaxKills = 2
  MaxRestarts = 1
SPECIFICATION Spec
INVARIANTS
  TypeOK
  LostLessons
PROPERTIES
  LearnsConsecutive
  StarvedForGood
