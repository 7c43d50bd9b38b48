SPECIFICATION LocksFairSpec
CONSTANTS
  Threads = {th1, th2, th3, th4}
  MaxCount = 2
  HardwareConcurrency = 1
INVARIANTS TokensConserved MutualExclusion
PROPERTY SomebodyGetsIn
