CONSTANTS
  Inputs <- MCInputs
  Regs <- MCRegs
  Reset = "a"
  After <- MCAfter
  Log <- MCLog
  Branches <- MCBranches
  Node <- MCNode
  Distance0 <- MCDistance
  HashTable <- MCHash
  HashModulus = 4096
  Unroll = 3
  Step = 2
  MaxFlips = 3
SPECIFICATION Spec
INVARIANTS
  TypeOK
  StackIsOfPath
  PathGrows
PROPERTIES
  PrefixKept
  NeverTwice
