SPECIFICATION FairSpec
CONSTANTS
  MaxWrites = 6
  Torn = Torn
INVARIANTS TypeOK RaceFree
PROPERTIES HandoffSpec WaitEnds
