CONSTANTS
  InputSigs <- MCInputs
  RegSigs <- StyleRegs
  Procs <- StyleProcs
  EdgeProcs <- StyleEdge
  Body <- StyleBody
  Sensitive <- StyleSensitive
  NoProc = NoProc
  MaxClock = 1
SPECIFICATION Spec
CHECK_DEADLOCK FALSE
INVARIANTS
  TypeOK
  ReadsCurrent
  EdgeInputsCurrent
  TermsRemade
