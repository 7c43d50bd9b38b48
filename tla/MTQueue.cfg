SPECIFICATION FairSpec
CONSTANTS
  Threads = {t1, t2}
  Owner = t1
  Values = {v1, v2}
  Nodes = {n1, n2, n3}
  Null = Null
  NoValue = NoValue
  NoThread = NoThread
  Pending = Pending
  Empty = Empty
  Done = Done
  Thrown = Thrown
  MaxOps = 3
INVARIANTS ListIntact OwnedOnce
PROPERTIES FifoSpec CallsReturn
