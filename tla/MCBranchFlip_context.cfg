CONSTANTS
  Inputs <- MCInputs
  Regs <- MCRegs
  Reset = "a"
  After <- MCAfter
  Log <- MCLog
  Branches <- MCBranches
  Node <- MCNode
  Distance0 <- MCDistance
  HashTable <- MCHash
  HashModulus = 4096
  Unroll = 1
  Step = 1
  MaxFlips = 1
SPECIFICATION Spec
INVARIANT
  MutatedInContext
