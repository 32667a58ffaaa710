\* UNROLL and STEP of test/b14/Makefile.inc; one target, one random path.
CONSTANTS
  NumTargets = 1
  Unroll = 50
  Step = 5
  RandomSims = 1
  TotalLimit = 2
SPECIFICATION FairSpec
INVARIANT
  LostOnlyByReuse
PROPERTY
  SearchEnds
