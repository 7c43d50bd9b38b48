SPECIFICATION FairSpec
CONSTANTS
  Size = 0
  HardwareConcurrency = 2
  Clients = {client}
  Owner = owner
  Tasks = {t1, t2, t3}
  Poison = Poison
  NoTask = NoTask
  NoThread = NoThread
  MaxCalls = 2
  MaxSpurious = 1
INVARIANTS TypeOK GracefulDrains NoLostWakeup PillWakesEveryone DestroyedAfterJoin
PROPERTIES ForcedQueueFrozen ExecutorSpec AcceptedTasksRun ShutdownTerminates
