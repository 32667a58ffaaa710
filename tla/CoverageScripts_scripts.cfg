CONSTANTS
  Workers = {101, 102}
  Tasks = {1, 2, 3}
  Simulations = 2
  Ids = {5, 16}
  LastId = 16
  CutId = 1
  Branches = {1, 5, 16}
  Iterations = 2
  Twenty = 2
  MaxKills = 1
SPECIFICATION Spec
INVARIANTS
  TypeOK
  ReadsOwnInputs
  
  RandomReports
PROPERTIES
  ReturnsUnlessKilled
CHECK_DEADLOCK FALSE
