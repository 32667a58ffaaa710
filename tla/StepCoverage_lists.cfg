\* Unroll + Step fits both the slots and the log (LastMark = 5).
CONSTANTS
  NumTargets = 3
  Unroll = 3
  Step = 1
  RandomSims = 2
  TotalLimit = 1
SPECIFICATION Spec
INVARIANTS
  TypeOK
  OnOneList
  SearchedIsFront
  CoveredListFlagged
PROPERTY
  ImplementsContract
