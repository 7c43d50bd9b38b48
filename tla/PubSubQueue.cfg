SPECIFICATION FairSpec
CONSTANTS
  Publishers = {p1, p2}
  Subscribers = {s1, s2}
  Values = {v1, v2}
  Nodes = {n1, n2, n3}
  Null = Null
  NoValue = NoValue
  NoThread = NoThread
  MaxPublish = 3
  MaxSubscribe = 2
INVARIANTS NobodyCutOff
PROPERTIES  CallsReturn EverythingRead
