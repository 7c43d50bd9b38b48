\* The benchmark may stop for ever: that is what the run shows.
SPECIFICATION BenchSpec
CONSTANTS
  MaxWrites = 0
  Torn = Torn
  Rounds = 2
PROPERTY BenchmarkEnds
CHECK_DEADLOCK FALSE
