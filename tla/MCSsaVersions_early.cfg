CONSTANTS
  InputSigs <- MCInputs
  RegSigs <- StyleRegs
  Procs <- StyleProcs
  EdgeProcs <- StyleEdge
  Body <- StyleBody
  Sensitive <- StyleSensitive
  NoProc = NoProc
  MaxClock = 2
SPECIFICATION Spec
CHECK_DEADLOCK FALSE
INVARIANT
  InputsOfRun
