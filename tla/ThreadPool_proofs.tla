------------------------- MODULE ThreadPool_proofs -------------------------
(* Proofs about ThreadPool, for any size of pool, any clients and tasks.    *)
EXTENDS ThreadPool, FiniteSetTheorems, TLAPS

(* Which control points are whose: facts about the constants alone.         *)
LEMMA Disjoint ==
  /\ Owner \in Threads
  /\ Owner \notin Submitters
  /\ Workers \subseteq Submitters
  /\ Clients \subseteq Submitters
  /\ Submitters \subseteq Threads
  /\ \A w \in Workers : w \notin Clients /\ w # Owner
  /\ \A c \in Clients : c \notin Workers /\ c # Owner
  /\ NoThread \notin Threads
  /\ Poison \notin Tasks
  /\ NoTask \notin Tasks
<1>1. /\ Workers \cap Clients = {}
      /\ Owner \notin Submitters
      /\ NoThread \notin Threads
      /\ Poison \notin Tasks
      /\ NoTask \notin Tasks
  BY PoolAssumption
<1> QED
  BY <1>1 DEF Threads, Submitters

(* Types, the ownership of the mutex and the locals, which need each other: *)
(* a task is appended only if it was set, and a front is taken only by the  *)
(* thread that saw the queue non-empty under the same lock.                 *)
BaseInv == TypeOK /\ MutexInv /\ LocalsInv

(* Every behaviour of the pool keeps its types, its mutex and its locals.   *)
LEMMA BaseCorrect == Spec => []BaseInv
<1> USE DEF WorkerPC, ClientPC, OwnerPC, AddPC
<1>1. Init => BaseInv
  <2> SUFFICES ASSUME Init PROVE BaseInv
    OBVIOUS
  <2> USE Disjoint DEF Init
  <2>1. /\ calls \in 0..MaxCalls
        /\ spurious \in 0..MaxSpurious
        /\ queue_ \in Seq(Tasks \cup {Poison})
    BY PoolAssumption
  <2>2. TypeOK
    BY <2>1 DEF TypeOK
  <2>3. MutexInv
    BY DEF MutexInv, Locked
  <2>4. LocalsInv
    BY DEF LocalsInv, Threads
  <2> QED
    BY <2>2, <2>3, <2>4 DEF BaseInv
<1>2. BaseInv /\ [Next]_vars => BaseInv'
  <2> SUFFICES ASSUME BaseInv, [Next]_vars
               PROVE  BaseInv'
    OBVIOUS
  <2> USE Disjoint DEF BaseInv, TypeOK, MutexInv, LocalsInv, Locked, Lock, Unlock, Goto,
              poolVars, localVars, envVars
  <2>1. ASSUME NEW w \in Workers, LoopLock(w) PROVE BaseInv'
    BY <2>1 DEF LoopLock
  <2>2. ASSUME NEW w \in Workers, LoopTest(w) PROVE BaseInv'
    BY <2>2 DEF LoopTest
  <2>3. ASSUME NEW w \in Workers, SpuriousWake(w) PROVE BaseInv'
    BY <2>3, PoolAssumption DEF SpuriousWake
  <2>4. ASSUME NEW w \in Workers, LoadShutdowned(w) PROVE BaseInv'
    BY <2>4 DEF LoadShutdowned
  <2>5. ASSUME NEW w \in Workers, FindPoison(w) PROVE BaseInv'
    BY <2>5 DEF FindPoison
  <2>6. ASSUME NEW w \in Workers, TakeFront(w) PROVE BaseInv'
    <3>1. /\ Head(queue_) \in Tasks
          /\ Tail(queue_) \in Seq(Tasks \cup {Poison})
      BY <2>6 DEF TakeFront
    <3>2. \A v \in Workers : pc[v] \notin {"flag", "front"} \/ v = w
      BY <2>6 DEF TakeFront
    <3> QED
      BY <2>6, <3>1, <3>2 DEF TakeFront
  <2>7. ASSUME NEW w \in Workers, TaskReturns(w) PROVE BaseInv'
    BY <2>7 DEF TaskReturns
  <2>8. ASSUME NEW th \in Submitters, NEW t \in Tasks, NEW from \in {"run", "idle"},
               CallAddTask(th, from, t),
               from = Return(th)
        PROVE  BaseInv'
    BY <2>8 DEF CallAddTask, Return
  <2>9. ASSUME NEW th \in Submitters, AddLock(th) PROVE BaseInv'
    BY <2>9 DEF AddLock, Submitters
  <2>10. ASSUME NEW th \in Submitters, AddEmplace(th) PROVE BaseInv'
    BY <2>10 DEF AddEmplace, Submitters
  <2>11. ASSUME NEW th \in Submitters, AddNotify(th) PROVE BaseInv'
    BY <2>11 DEF AddNotify, Return, Waiting, Submitters
  <2>12. CASE CallShutdown
    BY <2>12, PoolAssumption DEF CallShutdown
  <2>13. CASE CallForceShutdown
    BY <2>13, PoolAssumption DEF CallForceShutdown
  <2>14. CASE Destroy
    BY <2>14 DEF Destroy
  <2>15. CASE ForceStore
    BY <2>15 DEF ForceStore
  <2>16. CASE Halt
    BY <2>16 DEF Halt
  <2>17. CASE PoisonLock
    BY <2>17 DEF PoisonLock
  <2>18. CASE PoisonEmplace
    BY <2>18 DEF PoisonEmplace
  <2>19. CASE NotifyAll
    BY <2>19 DEF NotifyAll, Waiting
  <2>20. CASE JoinAll
    BY <2>20 DEF JoinAll
  <2>21. CASE MarkShutdowned
    BY <2>21 DEF MarkShutdowned
  <2>22. CASE UNCHANGED vars
    BY <2>22 DEF vars
  <2> QED
    BY <2>1, <2>2, <2>3, <2>4, <2>5, <2>6, <2>7, <2>8, <2>9, <2>10, <2>11, <2>12,
       <2>13, <2>14, <2>15, <2>16, <2>17, <2>18, <2>19, <2>20, <2>21, <2>22
    DEF Next, WorkerLoop, AddTask, ShutdownStep, TaskSubmits, ClientSubmits,
        Return, Terminated
<1>3. QED
  BY <1>1, <1>2, PTL DEF Spec

(* The type invariant: whatever the threads do, the mutex is held by a      *)
(* thread of the pool or free, and the queue holds only tasks and pills.    *)
THEOREM TypeCorrect == Spec => []TypeOK
<1>1. BaseInv => TypeOK
  BY DEF BaseInv
<1> QED
  BY <1>1, BaseCorrect, PTL

-----------------------------------------------------------------------------
(* What the operations on the queue do to its front and to its pills.       *)
LEMMA AppendFacts ==
  ASSUME NEW t \in Tasks \cup {Poison}, queue_ \in Seq(Tasks \cup {Poison}),
         queue_' = Append(queue_, t)
  PROVE  /\ queue_' # <<>>
         /\ queue_ # <<>> => Head(queue_') = Head(queue_)
         /\ PoisonQueued' <=> PoisonQueued \/ t = Poison
<1>1. /\ Len(queue_') = Len(queue_) + 1
      /\ \A i \in 1..Len(queue_) : queue_'[i] = queue_[i]
      /\ queue_'[Len(queue_) + 1] = t
      /\ Len(queue_) \in Nat
  OBVIOUS
<1> QED
  BY <1>1 DEF PoisonQueued

LEMMA TakeFacts ==
  ASSUME queue_ \in Seq(Tasks \cup {Poison}), queue_ # <<>>,
         Head(queue_) # Poison, queue_' = Tail(queue_)
  PROVE  PoisonQueued' <=> PoisonQueued
<1>1. /\ Len(queue_') = Len(queue_) - 1
      /\ \A i \in 1..Len(queue_) - 1 : queue_'[i] = queue_[i + 1]
      /\ Len(queue_) \in Nat \ {0}
      /\ DOMAIN queue_' = 1..Len(queue_')
  OBVIOUS
<1>2. ASSUME PoisonQueued' PROVE PoisonQueued
  BY <1>1, <1>2 DEF PoisonQueued
<1>3. ASSUME PoisonQueued PROVE PoisonQueued'
  <2>1. PICK i \in 1..Len(queue_) : queue_[i] = Poison
    BY <1>3 DEF PoisonQueued
  <2>2. i # 1
    BY <2>1
  <2>3. i - 1 \in 1..Len(queue_) - 1 /\ queue_'[i - 1] = queue_[i]
    BY <1>1, <2>1, <2>2
  <2> QED
    BY <1>1, <2>1, <2>3 DEF PoisonQueued
<1> QED
  BY <1>2, <1>3

(* A pill in front, or anywhere, is a pill queued in a non-empty queue.     *)
LEMMA PillFacts ==
  ASSUME queue_ \in Seq(Tasks \cup {Poison})
  PROVE  /\ queue_ # <<>> /\ Head(queue_) = Poison => PoisonQueued
         /\ PoisonQueued => queue_ # <<>>
BY DEF PoisonQueued

-----------------------------------------------------------------------------
(* The order of a shutdown: why a worker leaves, when workers_ is emptied,  *)
(* when shutdowned_ is set, and what force_shutdown adds.                   *)
ControlInv == ExitInv /\ JoinInv /\ ForceInv

LEMMA ControlStep ==
  ASSUME BaseInv, ControlInv, [Next]_vars
  PROVE  ControlInv'
<1> USE DEF BaseInv, TypeOK, MutexInv, Locked, LocalsInv, ControlInv, ExitInv, JoinInv, ForceInv,
            Lock, Unlock, Goto, WorkerPC, ClientPC, OwnerPC, AddPC, poolVars, localVars, envVars
<1> USE Disjoint, PillFacts
<1>0. (queue_' = queue_) => (PoisonQueued' <=> PoisonQueued)
  BY DEF PoisonQueued
<1>1. ASSUME NEW w \in Workers, LoopLock(w) PROVE ControlInv'
  BY <1>0, <1>1 DEF LoopLock
<1>2. ASSUME NEW w \in Workers, LoopTest(w) PROVE ControlInv'
  BY <1>0, <1>2 DEF LoopTest
<1>3. ASSUME NEW w \in Workers, SpuriousWake(w) PROVE ControlInv'
  BY <1>0, <1>3 DEF SpuriousWake
<1>4. ASSUME NEW w \in Workers, LoadShutdowned(w) PROVE ControlInv'
  BY <1>0, <1>4 DEF LoadShutdowned, VisibleShutdowned
<1>5. ASSUME NEW w \in Workers, FindPoison(w) PROVE ControlInv'
  BY <1>0, <1>5 DEF FindPoison
<1>6. ASSUME NEW w \in Workers, TakeFront(w) PROVE ControlInv'
  <2>1. /\ queue_ # <<>>
        /\ PoisonQueued' <=> PoisonQueued
        /\ \A v \in Workers \ {w} : pc[v] # "front"
    BY <1>6, TakeFacts DEF TakeFront
  <2> QED
    BY <1>6, <2>1 DEF TakeFront
<1>7. ASSUME NEW w \in Workers, TaskReturns(w) PROVE ControlInv'
  BY <1>0, <1>7 DEF TaskReturns
<1>8. ASSUME NEW w \in Workers, NEW t \in Tasks, TaskSubmits(w, t) PROVE ControlInv'
  BY <1>0, <1>8 DEF TaskSubmits, CallAddTask
<1>9. ASSUME NEW c \in Clients, NEW t \in Tasks, ClientSubmits(c, t) PROVE ControlInv'
  BY <1>0, <1>9 DEF ClientSubmits, CallAddTask
<1>10. ASSUME NEW th \in Submitters, AddLock(th) PROVE ControlInv'
  BY <1>0, <1>10 DEF AddLock, Submitters
<1>11. ASSUME NEW th \in Submitters, AddEmplace(th) PROVE ControlInv'
  <2>1. /\ queue_ # <<>> => Head(queue_') = Head(queue_)
        /\ queue_' # <<>>
        /\ PoisonQueued' <=> PoisonQueued
        /\ \A w \in Workers : pc[w] # "front"
    BY <1>11, AppendFacts DEF AddEmplace
  <2> QED
    BY <1>11, <2>1 DEF AddEmplace, Submitters
<1>12. ASSUME NEW th \in Submitters, AddNotify(th) PROVE ControlInv'
  BY <1>0, <1>12 DEF AddNotify, Return, Waiting, Submitters
<1>13. CASE CallShutdown
  BY <1>0, <1>13 DEF CallShutdown
<1>14. CASE CallForceShutdown
  BY <1>0, <1>14 DEF CallForceShutdown
<1>15. CASE Destroy
  BY <1>0, <1>15 DEF Destroy
<1>16. CASE ForceStore
  BY <1>0, <1>16 DEF ForceStore
<1>17. CASE Halt
  BY <1>0, <1>17 DEF Halt
<1>18. CASE PoisonLock
  BY <1>0, <1>18 DEF PoisonLock
<1>19. CASE PoisonEmplace
  <2>1. /\ queue_ # <<>> => Head(queue_') = Head(queue_)
        /\ queue_' # <<>>
        /\ PoisonQueued'
        /\ \A w \in Workers : pc[w] # "front"
    BY <1>19, AppendFacts DEF PoisonEmplace
  <2> QED
    BY <1>19, <2>1 DEF PoisonEmplace
<1>20. CASE NotifyAll
  BY <1>0, <1>20 DEF NotifyAll, Waiting
<1>21. CASE JoinAll
  BY <1>0, <1>21 DEF JoinAll
<1>22. CASE MarkShutdowned
  BY <1>0, <1>22 DEF MarkShutdowned
<1>23. CASE UNCHANGED vars
  BY <1>0, <1>23 DEF vars
<1> QED
  BY <1>1, <1>2, <1>3, <1>4, <1>5, <1>6, <1>7, <1>8, <1>9, <1>10, <1>11, <1>12, <1>13,
     <1>14, <1>15, <1>16, <1>17, <1>18, <1>19, <1>20, <1>21, <1>22, <1>23
  DEF Next, WorkerLoop, AddTask, ShutdownStep, Terminated

LEMMA ControlCorrect == Spec => [](BaseInv /\ ControlInv)
<1>1. Init => ControlInv
  BY Disjoint DEF Init, ControlInv, ExitInv, JoinInv, ForceInv, PoisonQueued, Threads
<1>2. BaseInv /\ ControlInv /\ [Next]_vars => ControlInv'
  BY ControlStep
<1> QED
  BY <1>1, <1>2, BaseCorrect, PTL DEF Spec

-----------------------------------------------------------------------------
(* When shutdown or the destructor has returned and no shutdown was forced,  *)
(* the tasks queued ahead of the pill have all been run to their end.  The   *)
(* pool must have a worker: hardware_concurrency() may be 0, and then nobody *)
(* runs anything.                                                            *)
THEOREM GracefulShutdownDrains ==
  ASSUME Workers # {}
  PROVE  Spec => []GracefulDrains
<1>1. BaseInv /\ ControlInv => GracefulDrains
  <2> SUFFICES ASSUME BaseInv, ControlInv, ShutdownReturned
               PROVE  /\ queue_ # <<>>
                      /\ Head(queue_) = Poison
                      /\ \A w \in Workers : task[w] = NoTask
    BY DEF GracefulDrains
  <2>1. workers_ = {}
    BY DEF ShutdownReturned, ControlInv, ExitInv
  <2>2. \A w \in Workers : pc[w] = "exit"
    BY <2>1 DEF ControlInv, JoinInv
  <2>3. PICK w \in Workers : pc[w] = "exit"
    BY <2>2
  <2>4. queue_ # <<>> /\ Head(queue_) = Poison
    BY <2>3 DEF ShutdownReturned, ControlInv, ExitInv
  <2> QED
    BY <2>2, <2>4 DEF BaseInv, LocalsInv, AddPC
<1> QED
  BY <1>1, ControlCorrect, PTL

(* When the destructor ends no worker is left and nobody holds the mutex.    *)
THEOREM DestroyedOnlyAfterJoin == Spec => []DestroyedAfterJoin
<1>1. BaseInv /\ ControlInv => DestroyedAfterJoin
  <2> SUFFICES ASSUME BaseInv, ControlInv, pc[Owner] = "gone"
               PROVE  workers_ = {} /\ mutex_ = NoThread /\ \A w \in Workers : pc[w] = "exit"
    BY DEF DestroyedAfterJoin
  <2>1. workers_ = {} /\ \A w \in Workers : pc[w] = "exit"
    BY DEF ControlInv, JoinInv
  <2>2. \A th \in Threads : pc[th] \notin Locked
    BY <2>1 DEF ControlInv, JoinInv, Threads, Submitters, Locked
  <2> QED
    BY <2>1, <2>2 DEF BaseInv, TypeOK, MutexInv
<1> QED
  BY <1>1, ControlCorrect, PTL

(* Three steps write queue_.                                                *)
LEMMA QueueWriters ==
  ASSUME [Next]_vars
  PROVE  \/ \E w \in Workers : TakeFront(w)
         \/ \E th \in Submitters : AddEmplace(th)
         \/ PoisonEmplace
         \/ queue_' = queue_
<1> USE Disjoint DEF poolVars
<1>1. CASE \E w \in Workers : WorkerLoop(w) \/ SpuriousWake(w)
  BY <1>1 DEF WorkerLoop, AddTask, LoopLock, LoopTest, SpuriousWake, LoadShutdowned,
              FindPoison, TaskReturns, AddLock, AddNotify
<1>2. CASE \E w \in Workers, t \in Tasks : TaskSubmits(w, t)
  BY <1>2 DEF TaskSubmits, CallAddTask
<1>3. CASE \E c \in Clients : AddTask(c)
  BY <1>3 DEF AddTask, AddLock, AddNotify
<1>4. CASE \E c \in Clients, t \in Tasks : ClientSubmits(c, t)
  BY <1>4 DEF ClientSubmits, CallAddTask
<1>5. CASE CallShutdown \/ CallForceShutdown \/ Destroy
  BY <1>5 DEF CallShutdown, CallForceShutdown, Destroy
<1>6. CASE ShutdownStep
  BY <1>6 DEF ShutdownStep, ForceStore, Halt, PoisonLock, NotifyAll, JoinAll, MarkShutdowned
<1>7. CASE UNCHANGED vars
  BY <1>7 DEF vars
<1> QED
  BY <1>1, <1>2, <1>3, <1>4, <1>5, <1>6, <1>7 DEF Next, Terminated

(* After force_shutdown has queued its pill the queue never shrinks again:   *)
(* no worker takes another task, whatever it had read of shutdowned_ before. *)
THEOREM ForceFreezesQueue == Spec => ForcedQueueFrozen
<1>1. BaseInv /\ ControlInv /\ [Next]_vars =>
        [(forced /\ PoisonQueued) => Len(queue_') >= Len(queue_)]_vars
  <2> SUFFICES ASSUME BaseInv, ControlInv, [Next]_vars, forced, PoisonQueued
               PROVE  Len(queue_') >= Len(queue_)
    OBVIOUS
  <2>1. Len(queue_) \in Nat
    BY DEF BaseInv, TypeOK
  <2>2. ASSUME NEW w \in Workers, TakeFront(w) PROVE FALSE
    BY <2>2 DEF TakeFront, ControlInv, ForceInv
  <2>3. ASSUME NEW th \in Submitters, AddEmplace(th) PROVE Len(queue_') = Len(queue_) + 1
    BY <2>3 DEF AddEmplace, BaseInv, TypeOK, LocalsInv
  <2>4. CASE PoisonEmplace
    BY <2>1, <2>4 DEF PoisonEmplace, BaseInv, TypeOK
  <2>5. ASSUME queue_' = queue_ PROVE Len(queue_') >= Len(queue_)
    BY <2>1, <2>5
  <2>6. \/ \E w \in Workers : TakeFront(w)
        \/ \E th \in Submitters : AddEmplace(th)
        \/ PoisonEmplace
        \/ queue_' = queue_
    BY QueueWriters
  <2> QED
    BY <2>1, <2>2, <2>3, <2>4, <2>5, <2>6
<1> QED
  BY <1>1, ControlCorrect, PTL DEF Spec, ForcedQueueFrozen

-----------------------------------------------------------------------------
(* A worker asleep while a pill is queued is about to be woken by            *)
(* notify_all: the pill leaves nobody behind for the join to wait for.       *)
THEOREM PillWakes == Spec => []PillWakesEveryone
<1>1. Init => PillWakesEveryone
  BY DEF Init, PillWakesEveryone, PoisonQueued
<1>2. BaseInv /\ PillWakesEveryone /\ [Next]_vars => PillWakesEveryone'
  <2> SUFFICES ASSUME BaseInv, PillWakesEveryone, [Next]_vars PROVE PillWakesEveryone'
    OBVIOUS
  <2> USE Disjoint DEF BaseInv, TypeOK, MutexInv, Locked, LocalsInv, PillWakesEveryone, Waiting,
                       Lock, Goto, AddPC, poolVars, localVars
  <2>0. queue_' = queue_ => (PoisonQueued' <=> PoisonQueued)
    BY DEF PoisonQueued
  <2>1. ASSUME NEW w \in Workers, LoopTest(w) PROVE PillWakesEveryone'
    BY <2>0, <2>1, PillFacts DEF LoopTest
  <2>2. ASSUME NEW w \in Workers, TakeFront(w) PROVE PillWakesEveryone'
    BY <2>2, TakeFacts DEF TakeFront
  <2>3. ASSUME NEW th \in Submitters, AddEmplace(th) PROVE PillWakesEveryone'
    BY <2>3, AppendFacts DEF AddEmplace, Submitters
  <2>4. ASSUME NEW th \in Submitters, AddNotify(th) PROVE PillWakesEveryone'
    BY <2>0, <2>4 DEF AddNotify, Return, Submitters
  <2>5. CASE PoisonEmplace
    BY <2>5 DEF PoisonEmplace
  <2>6. CASE NotifyAll
    BY <2>0, <2>6 DEF NotifyAll
  <2>7. ASSUME NEW w \in Workers, WorkerLoop(w) \/ SpuriousWake(w) \/ \E t \in Tasks : TaskSubmits(w, t)
        PROVE  PillWakesEveryone'
    BY <2>0, <2>1, <2>2, <2>3, <2>4, <2>7
    DEF WorkerLoop, AddTask, LoopLock, SpuriousWake, LoadShutdowned, FindPoison, TaskReturns,
        AddLock, TaskSubmits, CallAddTask
  <2>8. ASSUME NEW c \in Clients, AddTask(c) \/ \E t \in Tasks : ClientSubmits(c, t)
        PROVE  PillWakesEveryone'
    BY <2>0, <2>3, <2>4, <2>8 DEF AddTask, AddLock, ClientSubmits, CallAddTask
  <2>9. CASE CallShutdown \/ CallForceShutdown \/ Destroy
    BY <2>0, <2>9 DEF CallShutdown, CallForceShutdown, Destroy
  <2>10. CASE ShutdownStep
    BY <2>0, <2>5, <2>6, <2>10
    DEF ShutdownStep, ForceStore, Halt, PoisonLock, JoinAll, MarkShutdowned
  <2>11. CASE UNCHANGED vars
    BY <2>0, <2>11 DEF vars
  <2> QED
    BY <2>7, <2>8, <2>9, <2>10, <2>11 DEF Next, Terminated
<1> QED
  BY <1>1, <1>2, BaseCorrect, PTL DEF Spec

-----------------------------------------------------------------------------
(* Counting the workers on their way to the queue and the notify_one calls   *)
(* still to come.                                                            *)
LEMMA Finite ==
  ASSUME TypeOK
  PROVE  /\ IsFiniteSet(Coming) /\ Cardinality(Coming) \in Nat
         /\ IsFiniteSet(Notifying) /\ Cardinality(Notifying) \in Nat
<1>1. IsFiniteSet(Workers)
  BY PoolAssumption, FS_Interval DEF Workers
<1>2. IsFiniteSet(Submitters)
  BY <1>1, PoolAssumption, FS_Union DEF Submitters
<1>3. Coming \in SUBSET Workers /\ Notifying \in SUBSET Submitters
  BY DEF Coming, Notifying
<1> QED
  BY <1>1, <1>2, <1>3, FS_Subset, FS_CardinalityType

(* What a thread adds to the count, or takes from it, as it moves.           *)
LEMMA Moves ==
  ASSUME TypeOK
  PROVE  /\ Coming' = Coming => Cardinality(Coming') = Cardinality(Coming)
         /\ Notifying' = Notifying => Cardinality(Notifying') = Cardinality(Notifying)
         /\ \A w \in Workers \ Coming :
              Coming' = Coming \cup {w} => Cardinality(Coming') = Cardinality(Coming) + 1
         /\ \A w \in Coming :
              Coming' = Coming \ {w} => Cardinality(Coming') = Cardinality(Coming) - 1
         /\ \A th \in Submitters \ Notifying :
              Notifying' = Notifying \cup {th} =>
                Cardinality(Notifying') = Cardinality(Notifying) + 1
         /\ \A th \in Notifying :
              Notifying' = Notifying \ {th} =>
                Cardinality(Notifying') = Cardinality(Notifying) - 1
  BY Finite, FS_AddElement, FS_RemoveElement

(* No wake-up is lost: as long as a worker sleeps, no pill is queued and no  *)
(* shutdown is forced, every queued task has its worker or its notify_one.   *)
THEOREM WakeupsNotLost == Spec => []NoLostWakeup
<1>1. Init => NoLostWakeup
  BY Disjoint DEF Init, NoLostWakeup, Waiting
<1>2. BaseInv /\ NoLostWakeup /\ [Next]_vars => NoLostWakeup'
  <2> SUFFICES ASSUME BaseInv, NoLostWakeup, [Next]_vars,
                      Waiting' # {}, ~PoisonQueued', ~shutdowned_'
               PROVE  Len(queue_') <= Cardinality(Coming') + Cardinality(Notifying')
    BY DEF NoLostWakeup
  <2>fin. Cardinality(Coming) \in Nat /\ Cardinality(Notifying) \in Nat
    BY Finite DEF BaseInv
  <2>com. /\ Coming' = Coming => Cardinality(Coming') = Cardinality(Coming)
          /\ \A w \in Workers \ Coming :
               Coming' = Coming \cup {w} => Cardinality(Coming') = Cardinality(Coming) + 1
          /\ \A w \in Coming :
               Coming' = Coming \ {w} => Cardinality(Coming') = Cardinality(Coming) - 1
    BY Moves DEF BaseInv
  <2>not. /\ Notifying' = Notifying => Cardinality(Notifying') = Cardinality(Notifying)
          /\ \A th \in Submitters \ Notifying :
               Notifying' = Notifying \cup {th} =>
                 Cardinality(Notifying') = Cardinality(Notifying) + 1
          /\ \A th \in Notifying :
               Notifying' = Notifying \ {th} =>
                 Cardinality(Notifying') = Cardinality(Notifying) - 1
    BY Moves DEF BaseInv
  <2> USE Disjoint
      DEF BaseInv, TypeOK, MutexInv, Locked, LocalsInv, Lock, Goto, AddPC, poolVars, localVars
  <2>0. /\ queue_' = queue_ => ~PoisonQueued
        /\ Len(queue_) \in Nat
    BY DEF PoisonQueued
  <2>1. ASSUME Waiting # {}, ~PoisonQueued, ~shutdowned_
        PROVE  Len(queue_) <= Cardinality(Coming) + Cardinality(Notifying)
    BY <2>1 DEF NoLostWakeup
  <2> DEFINE Matched == Len(queue_') <= Cardinality(Coming') + Cardinality(Notifying')
  <2> DEFINE Same == /\ Coming' = Coming
                     /\ Notifying' = Notifying
                     /\ Waiting' \subseteq Waiting
                     /\ queue_' = queue_
                     /\ shutdowned_ => shutdowned_'
  <2>2. ASSUME Same PROVE Matched
    BY <2>0, <2>1, <2>2, <2>com, <2>not
  <2> HIDE DEF Same
  <2>3. ASSUME NEW w \in Workers, LoopLock(w) \/ FindPoison(w) \/ LoadShutdowned(w)
        PROVE  Matched
    <3>1. CASE LoopLock(w)
      BY <2>2, <3>1 DEF LoopLock, Coming, Notifying, Waiting, Same
    <3>2. CASE FindPoison(w)
      BY <2>0, <3>2, PillFacts DEF FindPoison
    <3>3. CASE LoadShutdowned(w)
      <4>1. pc'[w] = "front"
        BY <3>3 DEF LoadShutdowned, VisibleShutdowned
      <4> QED
        BY <2>2, <3>3, <4>1 DEF LoadShutdowned, Coming, Notifying, Waiting, Same
    <3> QED
      BY <2>3, <3>1, <3>2, <3>3
  <2>4. ASSUME NEW w \in Workers, LoopTest(w) PROVE Matched
    <3>1. CASE queue_ = <<>>
      <4>1. Notifying' = Notifying /\ Coming' = Coming \ {w} /\ w \in Coming /\ Len(queue_') = 0
        BY <2>4, <3>1 DEF LoopTest, Coming, Notifying
      <4>2. IsFiniteSet(Coming) /\ IsFiniteSet(Coming')
        BY <4>1, Finite, FS_RemoveElement
      <4>3. Cardinality(Coming') \in Nat
        BY <4>2, FS_CardinalityType
      <4> QED
        BY <4>1, <4>3, <2>fin, <2>not
    <3>2. CASE queue_ # <<>>
      BY <2>2, <2>4, <3>2 DEF LoopTest, Coming, Notifying, Waiting, Same
    <3> QED
      BY <3>1, <3>2
  <2>5. ASSUME NEW w \in Workers, SpuriousWake(w) \/ TaskReturns(w) PROVE Matched
    <3>1. /\ w \notin Coming /\ Coming' = Coming \cup {w} /\ Notifying' = Notifying
          /\ Waiting' \subseteq Waiting /\ queue_' = queue_ /\ shutdowned_' = shutdowned_
      BY <2>5 DEF SpuriousWake, TaskReturns, Coming, Notifying, Waiting
    <3>2. /\ Cardinality(Coming') = Cardinality(Coming) + 1
          /\ Cardinality(Notifying') = Cardinality(Notifying)
      BY <3>1, <2>com, <2>not
    <3> QED
      BY <2>0, <2>1, <2>fin, <3>1, <3>2
  <2>6. ASSUME NEW w \in Workers, TakeFront(w) PROVE Matched
    <3>1. /\ w \in Coming /\ Coming' = Coming \ {w} /\ Notifying' = Notifying
          /\ Waiting' = Waiting /\ shutdowned_' = shutdowned_
      BY <2>6 DEF TakeFront, Coming, Notifying, Waiting
    <3>2. ~PoisonQueued /\ Len(queue_') = Len(queue_) - 1
      BY <2>6, TakeFacts DEF TakeFront
    <3>3. /\ Cardinality(Coming') = Cardinality(Coming) - 1
          /\ Cardinality(Notifying') = Cardinality(Notifying)
      BY <3>1, <2>com, <2>not
    <3> QED
      BY <2>0, <2>1, <2>fin, <3>1, <3>2, <3>3
  <2>7. ASSUME NEW th \in Submitters, NEW t \in Tasks, NEW from \in {"run", "idle"},
               CallAddTask(th, from, t)
        PROVE  Matched
    BY <2>2, <2>7 DEF CallAddTask, Coming, Notifying, Waiting, Same
  <2>8. ASSUME NEW th \in Submitters, AddLock(th) PROVE Matched
    BY <2>2, <2>8 DEF AddLock, Coming, Notifying, Waiting, Same
  <2>9. ASSUME NEW th \in Submitters, AddEmplace(th) PROVE Matched
    <3>1. /\ th \notin Notifying /\ Notifying' = Notifying \cup {th} /\ Coming' = Coming
          /\ Waiting' = Waiting /\ shutdowned_' = shutdowned_
      BY <2>9 DEF AddEmplace, Coming, Notifying, Waiting
    <3>2. ~PoisonQueued /\ Len(queue_') = Len(queue_) + 1
      BY <2>9, AppendFacts DEF AddEmplace
    <3>3. /\ Cardinality(Coming') = Cardinality(Coming)
          /\ Cardinality(Notifying') = Cardinality(Notifying) + 1
      BY <3>1, <2>com, <2>not
    <3> QED
      BY <2>0, <2>1, <2>fin, <3>1, <3>2, <3>3
  <2>10. ASSUME NEW th \in Submitters, AddNotify(th) PROVE Matched
    <3>1. CASE Waiting = {}
      BY <2>10, <3>1 DEF AddNotify, Waiting, Return
    <3>2. CASE Waiting # {}
      <4>1. PICK w \in Waiting : pc' = [pc EXCEPT ![w] = "loop", ![th] = Return(th)]
        BY <2>10, <3>2 DEF AddNotify
      <4>2. /\ w \in Workers /\ w # th /\ w \notin Coming /\ th \in Notifying
            /\ queue_' = queue_ /\ shutdowned_' = shutdowned_
        BY <2>10, <4>1 DEF AddNotify, Waiting, Coming, Notifying
      <4>3. \A x \in Threads : pc'[x] = IF x = th THEN Return(th)
                                      ELSE IF x = w THEN "loop" ELSE pc[x]
        BY <4>1, <4>2
      <4>4. Coming' = Coming \cup {w}
        BY <4>2, <4>3 DEF Coming, Notifying, Return
      <4>5. Notifying' = Notifying \ {th}
        BY <4>2, <4>3 DEF Notifying, Waiting, Return
      <4>6. /\ Cardinality(Coming') = Cardinality(Coming) + 1
            /\ Cardinality(Notifying') = Cardinality(Notifying) - 1
        BY <4>2, <4>4, <4>5, <2>com, <2>not
      <4> QED
        BY <2>0, <2>1, <2>fin, <3>2, <4>2, <4>6
    <3> QED
      BY <3>1, <3>2
  <2>11. CASE CallShutdown \/ CallForceShutdown \/ Destroy
    BY <2>2, <2>11
    DEF CallShutdown, CallForceShutdown, Destroy, Coming, Notifying, Waiting, Same
  <2>12. CASE ForceStore \/ Halt \/ PoisonLock \/ JoinAll \/ MarkShutdowned
    BY <2>2, <2>12
    DEF ForceStore, Halt, PoisonLock, JoinAll, MarkShutdowned, Coming, Notifying, Waiting, Same
  <2>13. CASE PoisonEmplace
    BY <2>13, AppendFacts DEF PoisonEmplace
  <2>14. CASE NotifyAll
    BY <2>14 DEF NotifyAll, Waiting
  <2>15. CASE UNCHANGED vars
    BY <2>2, <2>15 DEF vars, Coming, Notifying, Waiting, Same
  <2> QED
    BY <2>3, <2>4, <2>5, <2>6, <2>7, <2>8, <2>9, <2>10, <2>11, <2>12, <2>13, <2>14, <2>15
    DEF Next, WorkerLoop, AddTask, ShutdownStep, TaskSubmits, ClientSubmits, Terminated
<1> QED
  BY <1>1, <1>2, BaseCorrect, PTL DEF Spec

-----------------------------------------------------------------------------
(* ThreadPool implements TaskExecutor.  The pending tasks are those ahead   *)
(* of the first pill, so lemmas say what the two operations on the queue do *)
(* to what is ahead.  That no task is accepted or run twice needs that each *)
(* is in one place (TasksInv); that the pool stops only when it is drained  *)
(* needs that the owner joins after its pill (PillsInv), beside the         *)
(* invariants above.                                                        *)


(* What is ahead of the first pill of a queue.                              *)
Queues == Seq(Tasks \cup {Poison})
Pills(q) == {i \in DOMAIN q : q[i] = Poison}
IsFirst(k, q) == k \in Pills(q) /\ \A j \in Pills(q) : k <= j
Ahead(q) == IF Pills(q) = {} THEN q
            ELSE SubSeq(q, 1, (CHOOSE i \in Pills(q) : \A j \in Pills(q) : i <= j) - 1)

LEMMA AheadOfFirst ==
  ASSUME NEW q \in Queues, NEW k, IsFirst(k, q)
  PROVE  Ahead(q) = SubSeq(q, 1, k - 1)
<1>. DEFINE First(i) == i \in Pills(q) /\ \A j \in Pills(q) : i <= j
            c == CHOOSE i \in Pills(q) : \A j \in Pills(q) : i <= j
<1>1. Pills(q) \subseteq Nat /\ First(k)
  BY DEF Pills, Queues, IsFirst
<1>2. First(c)
  BY <1>1
<1>3. c = k
  BY <1>1, <1>2
<1>. QED
  BY <1>1, <1>3 DEF Ahead

(* What joins the queue behind the first pill changes nothing ahead of it.  *)
LEMMA AppendBehind ==
  ASSUME NEW q \in Queues, NEW t \in Tasks \cup {Poison}, NEW k, IsFirst(k, q)
  PROVE  IsFirst(k, Append(q, t)) /\ Ahead(Append(q, t)) = Ahead(q)
<1>1. /\ Append(q, t) \in Queues /\ Len(q) \in Nat
      /\ DOMAIN Append(q, t) = 1..(Len(q) + 1) /\ DOMAIN q = 1..Len(q)
      /\ \A i \in 1..Len(q) : Append(q, t)[i] = q[i]
  BY DEF Queues
<1>2. k \in 1..Len(q)
  BY <1>1 DEF IsFirst, Pills
<1>3. IsFirst(k, Append(q, t))
  BY <1>1, <1>2 DEF IsFirst, Pills
<1>4. SubSeq(Append(q, t), 1, k - 1) = SubSeq(q, 1, k - 1)
  BY <1>1, <1>2 DEF Queues
<1>. QED
  BY <1>1, <1>3, <1>4, AheadOfFirst

LEMMA AppendToNone ==
  ASSUME NEW q \in Queues, Pills(q) = {}
  PROVE  /\ Ahead(q) = q
         /\ \A t \in Tasks : Pills(Append(q, t)) = {} /\ Ahead(Append(q, t)) = Append(q, t)
         /\ IsFirst(Len(q) + 1, Append(q, Poison)) /\ Ahead(Append(q, Poison)) = q
<1>1. ASSUME NEW t \in Tasks \cup {Poison}
      PROVE  /\ Append(q, t) \in Queues /\ Len(q) \in Nat
             /\ DOMAIN Append(q, t) = 1..(Len(q) + 1) /\ DOMAIN q = 1..Len(q)
             /\ \A i \in 1..Len(q) : Append(q, t)[i] = q[i]
             /\ Append(q, t)[Len(q) + 1] = t
  BY DEF Queues
<1>2. ASSUME NEW t \in Tasks PROVE Pills(Append(q, t)) = {}
  BY <1>1, Disjoint DEF Pills
<1>3. IsFirst(Len(q) + 1, Append(q, Poison))
  BY <1>1 DEF IsFirst, Pills
<1>4. SubSeq(Append(q, Poison), 1, Len(q) + 1 - 1) = q
  BY DEF Queues
<1>5. Ahead(Append(q, Poison)) = q
  <2>1. Append(q, Poison) \in Queues
    BY DEF Queues
  <2>2. PICK k \in Nat : k = Len(q) + 1
    BY DEF Queues
  <2>3. Ahead(Append(q, Poison)) = SubSeq(Append(q, Poison), 1, k - 1)
    BY <1>3, <2>1, <2>2, AheadOfFirst
  <2>. QED
    BY <1>4, <2>2, <2>3
<1>. QED
  BY <1>2, <1>3, <1>5 DEF Ahead

(* The front, unless it is a pill, is the first task ahead.                 *)
LEMMA TakeFirst ==
  ASSUME NEW q \in Queues, q # <<>>, Head(q) # Poison,
         Pills(q) # {} => \E k : IsFirst(k, q)
  PROVE  /\ Ahead(q) # <<>> /\ Head(Ahead(q)) = Head(q) /\ Tail(Ahead(q)) = Ahead(Tail(q))
         /\ Pills(Tail(q)) # {} => \E k : IsFirst(k, Tail(q))
<1>1. /\ Tail(q) \in Queues /\ Len(q) \in Nat \ {0}
      /\ DOMAIN Tail(q) = 1..(Len(q) - 1) /\ DOMAIN q = 1..Len(q)
      /\ \A i \in 1..(Len(q) - 1) : Tail(q)[i] = q[i + 1]
      /\ q[1] = Head(q)
  BY DEF Queues
<1>2. CASE Pills(q) = {}
  <2>1. Pills(Tail(q)) = {}
    BY <1>1, <1>2 DEF Pills
  <2>. QED
    BY <1>2, <2>1 DEF Ahead
<1>3. CASE Pills(q) # {}
  <2>1. PICK k : IsFirst(k, q)
    BY <1>3
  <2>2. k \in 2..Len(q)
    BY <1>1, <2>1 DEF IsFirst, Pills
  <2>3. IsFirst(k - 1, Tail(q))
    <3>1. k - 1 \in Pills(Tail(q))
      BY <1>1, <2>1, <2>2 DEF IsFirst, Pills
    <3>2. ASSUME NEW j \in Pills(Tail(q)) PROVE k - 1 <= j
      <4>1. j + 1 \in Pills(q) /\ j \in Nat
        BY <1>1 DEF Pills
      <4>. QED
        BY <2>1, <2>2, <4>1 DEF IsFirst
    <3>. QED
      BY <3>1, <3>2 DEF IsFirst
  <2>4. Ahead(q) = SubSeq(q, 1, k - 1) /\ Ahead(Tail(q)) = SubSeq(Tail(q), 1, k - 2)
    <3>1. k - 1 - 1 = k - 2
      BY <2>2
    <3>2. Ahead(Tail(q)) = SubSeq(Tail(q), 1, k - 1 - 1)
      BY <1>1, <2>3, AheadOfFirst
    <3>. QED
      BY <2>1, <3>1, <3>2, AheadOfFirst
  <2>5. SubSeq(q, 1, k - 1) # <<>> /\ Head(SubSeq(q, 1, k - 1)) = Head(q)
    BY <1>1, <2>2 DEF Queues
  <2>6. Tail(SubSeq(q, 1, k - 1)) = SubSeq(Tail(q), 1, k - 2)
    BY <1>1, <2>2 DEF Queues
  <2>. QED
    BY <2>3, <2>4, <2>5, <2>6
<1>. QED
  BY <1>2, <1>3

LEMMA NothingAhead ==
  ASSUME NEW q \in Queues, q # <<>>, Head(q) = Poison
  PROVE  Ahead(q) = <<>>
<1>1. IsFirst(1, q)
  BY DEF IsFirst, Pills, Queues
<1>2. SubSeq(q, 1, 0) = <<>>
  BY DEF Queues
<1>. QED
  BY <1>1, <1>2, AheadOfFirst

-----------------------------------------------------------------------------
(* A task is handed over, queued, run or done, and that once.               *)
TasksInv ==
  /\ \A th \in Submitters : arg[th] # NoTask =>
       /\ arg[th] \notin fresh \cup done
       /\ \A w \in Workers : task[w] # arg[th]
       /\ \A u \in Submitters : u # th => arg[u] # arg[th]
  /\ \A i \in DOMAIN queue_ : queue_[i] # Poison =>
       /\ queue_[i] \notin fresh \cup done
       /\ \A th \in Submitters : arg[th] # queue_[i]
       /\ \A w \in Workers : task[w] # queue_[i]
       /\ \A j \in DOMAIN queue_ : j # i => queue_[j] # queue_[i]
  /\ \A w \in Workers : task[w] # NoTask =>
       /\ task[w] \notin fresh \cup done
       /\ \A v \in Workers : v # w => task[v] # task[w]
  /\ fresh \cap done = {}

PillsInv ==
  /\ pc[Owner] \in {"notify", "join", "mark"} => PoisonQueued
  /\ workers_ = {} => shutdowned_ /\ PoisonQueued
  /\ PoisonQueued => \E k \in PoisonAt : \A j \in PoisonAt : k <= j

LEMMA QueueSteps ==
  ASSUME BaseInv, [Next]_vars
  PROVE  /\ queue_ \in Queues
         /\ \/ queue_' = queue_
            \/ \E th \in Submitters : /\ AddEmplace(th)
                                      /\ arg[th] \in Tasks
                                      /\ queue_' = Append(queue_, arg[th])
            \/ PoisonEmplace /\ queue_' = Append(queue_, Poison)
            \/ \E w \in Workers : /\ TakeFront(w)
                                  /\ queue_ # <<>> /\ Head(queue_) # Poison
                                  /\ queue_' = Tail(queue_)
BY QueueWriters
DEF BaseInv, TypeOK, LocalsInv, Queues, TakeFront, AddEmplace, PoisonEmplace, Submitters

LEMMA StepFirst ==
  ASSUME BaseInv, PillsInv, [Next]_vars
  PROVE  /\ PoisonQueued => PoisonQueued'
         /\ PoisonQueued' => \E k : IsFirst(k, queue_')
<1>1. /\ PoisonQueued <=> Pills(queue_) # {}
      /\ PoisonQueued' <=> Pills(queue_') # {}
  BY DEF PoisonQueued, Pills
<1>2. Pills(queue_) # {} => \E k : IsFirst(k, queue_)
  BY <1>1 DEF PillsInv, IsFirst, Pills, PoisonAt
<1>3. CASE queue_' = queue_
  BY <1>1, <1>2, <1>3
<1>4. ASSUME NEW t \in Tasks \cup {Poison}, queue_ \in Queues, queue_' = Append(queue_, t)
      PROVE  /\ PoisonQueued => PoisonQueued'
             /\ PoisonQueued' => \E k : IsFirst(k, queue_')
  <2>1. CASE Pills(queue_) = {}
    BY <1>1, <1>4, <2>1, AppendToNone
  <2>2. CASE Pills(queue_) # {}
    <3>1. PICK k : IsFirst(k, queue_)
      BY <1>2, <2>2
    <3>2. IsFirst(k, queue_')
      BY <1>4, <3>1, AppendBehind
    <3>. QED
      BY <1>1, <3>2 DEF IsFirst
  <2>. QED
    BY <2>1, <2>2
<1>5. CASE queue_ \in Queues /\ queue_ # <<>> /\ Head(queue_) # Poison /\ queue_' = Tail(queue_)
  <2>1. PoisonQueued' <=> PoisonQueued
    BY <1>5, TakeFacts DEF Queues
  <2>2. Pills(Tail(queue_)) # {} => \E k : IsFirst(k, Tail(queue_))
    BY <1>2, <1>5, TakeFirst
  <2>. QED
    BY <1>1, <1>5, <2>1, <2>2
<1>. QED
  BY <1>3, <1>4, <1>5, QueueSteps

LEMMA StepPills ==
  ASSUME Workers # {}, BaseInv, ControlInv, PillsInv, [Next]_vars
  PROVE  PillsInv'
<1>. USE DEF Goto, BaseInv, TypeOK
<1>1. pc'[Owner] \in {"notify", "join", "mark"} => PoisonQueued'
  <2>1. \/ pc[Owner] \in {"notify", "join", "mark"}
        \/ PoisonEmplace
        \/ pc'[Owner] \notin {"notify", "join", "mark"}
    <3>. USE Disjoint
    <3>1. CASE ShutdownStep
      BY <3>1 DEF ShutdownStep, ForceStore, Halt, PoisonLock, Lock, NotifyAll, Waiting, JoinAll,
                  MarkShutdowned
    <3>2. CASE CallShutdown \/ CallForceShutdown \/ Destroy
      BY <3>2 DEF CallShutdown, CallForceShutdown, Destroy
    <3>3. ASSUME NEW th \in Submitters, AddTask(th)
          PROVE  pc'[Owner] = pc[Owner]
      BY <3>3 DEF AddTask, AddLock, Lock, AddEmplace, AddNotify, Waiting
    <3>4. ASSUME NEW w \in Workers, WorkerLoop(w) \/ SpuriousWake(w)
          PROVE  pc'[Owner] = pc[Owner]
      BY <3>3, <3>4 DEF WorkerLoop, LoopLock, Lock, LoopTest, SpuriousWake, LoadShutdowned,
                 FindPoison, TakeFront, TaskReturns
    <3>5. ASSUME NEW th \in Submitters, NEW from, NEW t \in Tasks, CallAddTask(th, from, t)
          PROVE  pc'[Owner] = pc[Owner]
      BY <3>5 DEF CallAddTask
    <3>6. CASE UNCHANGED vars
      BY <3>6 DEF vars, localVars
    <3>. QED
      BY <3>1, <3>2, <3>3, <3>4, <3>5, <3>6 DEF Next, TaskSubmits, ClientSubmits, Terminated
  <2>2. PoisonEmplace => PoisonQueued'
    BY AppendFacts DEF PoisonEmplace, BaseInv, TypeOK
  <2>. QED
    BY <2>1, <2>2, StepFirst DEF PillsInv
<1>2. workers_' = {} => shutdowned_' /\ PoisonQueued'
  <2>1. \/ workers_' = workers_ /\ (shutdowned_ => shutdowned_')
        \/ MarkShutdowned
    BY Disjoint
    DEF Next, WorkerLoop, AddTask, ShutdownStep, TaskSubmits, ClientSubmits, CallAddTask, Terminated,
        LoopLock, LoopTest, SpuriousWake, LoadShutdowned, FindPoison, TakeFront, TaskReturns,
        AddLock, AddEmplace, AddNotify, CallShutdown, CallForceShutdown, Destroy, ForceStore,
        Halt, PoisonLock, PoisonEmplace, NotifyAll, JoinAll, poolVars, vars
  <2>2. MarkShutdowned => shutdowned_' /\ PoisonQueued
    BY DEF MarkShutdowned, PillsInv
  <2>. QED
    BY <2>1, <2>2, StepFirst DEF PillsInv
<1>3. PoisonQueued' => \E k \in PoisonAt' : \A j \in PoisonAt' : k <= j
  BY StepFirst DEF IsFirst, Pills, PoisonAt
<1>. QED
  BY <1>1, <1>2, <1>3 DEF PillsInv

(* The steps that move a task from one place to another.                    *)
Carries ==
  \/ \E th \in Submitters, from \in {"run", "idle"}, t \in Tasks : CallAddTask(th, from, t)
  \/ \E th \in Submitters : AddEmplace(th)
  \/ \E w \in Workers : TakeFront(w) \/ TaskReturns(w)
  \/ PoisonEmplace

LEMMA OthersCarryNothing ==
  ASSUME [Next]_vars, ~ Carries
  PROVE  UNCHANGED <<queue_, arg, task, fresh, done>>
<1>. USE Disjoint DEF Carries, poolVars, envVars
<1>1. CASE ShutdownStep
  BY <1>1 DEF ShutdownStep, ForceStore, Halt, PoisonLock, NotifyAll, JoinAll, MarkShutdowned
<1>2. CASE CallShutdown \/ CallForceShutdown \/ Destroy
  BY <1>2 DEF CallShutdown, CallForceShutdown, Destroy
<1>3. CASE \E th \in Submitters : AddTask(th)
  BY <1>3 DEF AddTask, AddLock, AddNotify
<1>4. CASE \E w \in Workers : WorkerLoop(w) \/ SpuriousWake(w)
  BY <1>3, <1>4 DEF WorkerLoop, LoopLock, LoopTest, SpuriousWake, LoadShutdowned, FindPoison
<1>5. CASE UNCHANGED vars
  BY <1>5 DEF vars, localVars
<1>. QED
  BY <1>1, <1>2, <1>3, <1>4, <1>5 DEF Next, TaskSubmits, ClientSubmits, Terminated

LEMMA StepTasks ==
  ASSUME BaseInv, TasksInv, [Next]_vars
  PROVE  TasksInv'
<1>0. /\ queue_ \in Queues
      /\ arg \in [Submitters -> Tasks \cup {NoTask}]
      /\ task \in [Workers -> Tasks \cup {NoTask}]
      /\ fresh \subseteq Tasks /\ done \subseteq Tasks
  BY DEF BaseInv, TypeOK, Queues
<1>1. ASSUME NEW th \in Submitters, NEW from, NEW t \in Tasks, CallAddTask(th, from, t)
      PROVE  TasksInv'
  <2>1. /\ t \in fresh /\ fresh' = fresh \ {t}
        /\ arg' = [arg EXCEPT ![th] = t]
        /\ UNCHANGED <<queue_, task, done>>
    BY <1>1 DEF CallAddTask, poolVars
  <2>. QED
    BY <1>0, <2>1, Disjoint DEF TasksInv
<1>2. ASSUME NEW th \in Submitters, AddEmplace(th), arg[th] \in Tasks,
             queue_' = Append(queue_, arg[th])
      PROVE  TasksInv'
  <2>1. /\ arg' = [arg EXCEPT ![th] = NoTask]
        /\ UNCHANGED <<task, fresh, done>>
    BY <1>2 DEF AddEmplace, envVars
  <2>2. /\ DOMAIN queue_ = 1..Len(queue_) /\ Len(queue_) \in Nat
        /\ DOMAIN queue_' = 1..(Len(queue_) + 1)
        /\ \A i \in 1..Len(queue_) : queue_'[i] = queue_[i]
        /\ queue_'[Len(queue_) + 1] = arg[th]
    BY <1>0, <1>2 DEF Queues
  <2>3. ASSUME NEW i \in DOMAIN queue_', queue_'[i] # Poison
        PROVE  /\ queue_'[i] \notin fresh \cup done
               /\ \A u \in Submitters : arg'[u] # queue_'[i]
               /\ \A w \in Workers : task[w] # queue_'[i]
               /\ \A k \in DOMAIN queue_' : k # i => queue_'[k] # queue_'[i]
    <3>1. CASE i = Len(queue_) + 1
      BY <1>0, <1>2, <2>1, <2>2, <3>1, Disjoint DEF TasksInv
    <3>2. CASE i \in 1..Len(queue_)
      <4>1. queue_'[i] = queue_[i] /\ queue_[i] \in Tasks
        BY <1>0, <2>2, <2>3, <3>2 DEF Queues
      <4>2. /\ queue_[i] \notin fresh \cup done
            /\ \A u \in Submitters : arg[u] # queue_[i]
            /\ \A w \in Workers : task[w] # queue_[i]
            /\ \A k \in 1..Len(queue_) : k # i => queue_[k] # queue_[i]
        BY <2>2, <2>3, <3>2, <4>1 DEF TasksInv
      <4>. QED
        BY <1>0, <2>1, <2>2, <4>1, <4>2, Disjoint
    <3>. QED
      BY <2>2, <3>1, <3>2
  <2>. QED
    BY <1>0, <2>1, <2>3 DEF TasksInv
<1>3. CASE PoisonEmplace /\ queue_' = Append(queue_, Poison)
  <2>1. UNCHANGED <<arg, task, fresh, done>>
    BY <1>3 DEF PoisonEmplace, envVars
  <2>2. /\ DOMAIN queue_ = 1..Len(queue_) /\ Len(queue_) \in Nat
        /\ DOMAIN queue_' = 1..(Len(queue_) + 1)
        /\ \A i \in 1..Len(queue_) : queue_'[i] = queue_[i]
        /\ queue_'[Len(queue_) + 1] = Poison
    BY <1>0, <1>3 DEF Queues
  <2>. QED
    BY <2>1, <2>2 DEF TasksInv
<1>4. ASSUME NEW w \in Workers, TakeFront(w), queue_ # <<>>, Head(queue_) # Poison,
             queue_' = Tail(queue_)
      PROVE  TasksInv'
  <2>1. /\ task' = [task EXCEPT ![w] = Head(queue_)]
        /\ UNCHANGED <<arg, fresh, done>>
    BY <1>4 DEF TakeFront, envVars
  <2>2. /\ DOMAIN queue_ = 1..Len(queue_) /\ Len(queue_) \in Nat \ {0}
        /\ DOMAIN queue_' = 1..(Len(queue_) - 1)
        /\ \A i \in 1..(Len(queue_) - 1) : queue_'[i] = queue_[i + 1]
        /\ Head(queue_) = queue_[1]
    BY <1>0, <1>4 DEF Queues
  <2>3. /\ queue_[1] \notin fresh \cup done
        /\ \A th \in Submitters : arg[th] # queue_[1]
        /\ \A v \in Workers : task[v] # queue_[1]
        /\ \A k \in 2..Len(queue_) : queue_[k] # queue_[1]
    BY <1>4, <2>2 DEF TasksInv
  <2>4. ASSUME NEW i \in DOMAIN queue_', queue_'[i] # Poison
        PROVE  /\ queue_'[i] \notin fresh \cup done
               /\ \A th \in Submitters : arg[th] # queue_'[i]
               /\ \A v \in Workers : task'[v] # queue_'[i]
               /\ \A k \in DOMAIN queue_' : k # i => queue_'[k] # queue_'[i]
    <3>1. i + 1 \in 2..Len(queue_) /\ queue_'[i] = queue_[i + 1]
      BY <2>2
    <3>2. /\ queue_[i + 1] \notin fresh \cup done
          /\ \A th \in Submitters : arg[th] # queue_[i + 1]
          /\ \A v \in Workers : task[v] # queue_[i + 1]
          /\ \A k \in 1..Len(queue_) : k # i + 1 => queue_[k] # queue_[i + 1]
      <4>1. PICK k \in DOMAIN queue_ : k = i + 1
        BY <2>2, <3>1
      <4>2. queue_[k] # Poison
        BY <2>4, <3>1, <4>1
      <4>3. /\ queue_[k] \notin fresh \cup done
            /\ \A th \in Submitters : arg[th] # queue_[k]
            /\ \A v \in Workers : task[v] # queue_[k]
            /\ \A l \in DOMAIN queue_ : l # k => queue_[l] # queue_[k]
        BY <4>2 DEF TasksInv
      <4>. QED
        BY <2>2, <4>1, <4>3
    <3>3. ASSUME NEW v \in Workers PROVE task'[v] # queue_[i + 1]
      <4>1. task'[v] = IF v = w THEN queue_[1] ELSE task[v]
        BY <1>0, <2>1, <2>2
      <4>2. queue_[i + 1] # queue_[1]
        BY <2>3, <3>1
      <4>. QED
        BY <3>2, <4>1, <4>2
    <3>4. ASSUME NEW k \in DOMAIN queue_', k # i PROVE queue_'[k] # queue_[i + 1]
      <4>1. k + 1 \in 1..Len(queue_) /\ k + 1 # i + 1 /\ queue_'[k] = queue_[k + 1]
        BY <2>2, <3>1, <3>4
      <4>. QED
        BY <3>2, <4>1
    <3>. QED
      BY <3>1, <3>2, <3>3, <3>4
  <2>. QED
    BY <1>0, <2>1, <2>2, <2>3, <2>4 DEF TasksInv
<1>5. ASSUME NEW w \in Workers, TaskReturns(w)
      PROVE  TasksInv'
  <2>1. /\ task[w] \in Tasks
        /\ task' = [task EXCEPT ![w] = NoTask]
        /\ done' = done \cup {task[w]}
        /\ UNCHANGED <<queue_, arg, fresh>>
    BY <1>5 DEF TaskReturns, poolVars, BaseInv, LocalsInv
  <2>2. /\ task[w] \notin fresh
        /\ \A th \in Submitters : arg[th] # task[w]
        /\ \A i \in DOMAIN queue_ : queue_[i] # task[w]
        /\ \A v \in Workers : v # w => task[v] # task[w]
    BY <1>0, <2>1, Disjoint DEF TasksInv
  <2>3. \A v \in Workers : task'[v] = IF v = w THEN NoTask ELSE task[v]
    BY <1>0, <2>1
  <2>4. \A i \in DOMAIN queue_ : queue_[i] # NoTask
    BY <1>0, PoolAssumption DEF Queues
  <2>5. \A th \in Submitters : arg'[th] # NoTask =>
          /\ arg'[th] \notin fresh' \cup done'
          /\ \A v \in Workers : task'[v] # arg'[th]
          /\ \A u \in Submitters : u # th => arg'[u] # arg'[th]
    BY <2>1, <2>2, <2>3 DEF TasksInv
  <2>6. \A i \in DOMAIN queue_' : queue_'[i] # Poison =>
          /\ queue_'[i] \notin fresh' \cup done'
          /\ \A th \in Submitters : arg'[th] # queue_'[i]
          /\ \A v \in Workers : task'[v] # queue_'[i]
          /\ \A k \in DOMAIN queue_' : k # i => queue_'[k] # queue_'[i]
    BY <2>1, <2>2, <2>3, <2>4 DEF TasksInv
  <2>7. \A v \in Workers : task'[v] # NoTask =>
          /\ task'[v] \notin fresh' \cup done'
          /\ \A u \in Workers : u # v => task'[u] # task'[v]
    BY <2>1, <2>2, <2>3 DEF TasksInv
  <2>8. fresh' \cap done' = {}
    BY <2>1, <2>2 DEF TasksInv
  <2>. QED
    BY <2>5, <2>6, <2>7, <2>8 DEF TasksInv
<1>6. CASE ~ Carries
  <2>1. UNCHANGED <<queue_, arg, task, fresh, done>>
    BY <1>6, OthersCarryNothing
  <2>. QED
    BY <2>1 DEF TasksInv
<1>. QED
  BY <1>1, <1>2, <1>3, <1>4, <1>5, <1>6, QueueSteps
  DEF Carries, AddEmplace, PoisonEmplace, TakeFront, BaseInv, LocalsInv

-----------------------------------------------------------------------------
(* The invariant.                                                           *)
IInv == BaseInv /\ ControlInv /\ PillsInv /\ TasksInv

LEMMA Invariance ==
  ASSUME Workers # {}
  PROVE  Spec => []IInv
<1>1. Init => PillsInv /\ TasksInv
  BY Disjoint DEF Init, PillsInv, TasksInv, PoisonQueued, Threads
<1>2. BaseInv /\ ControlInv /\ PillsInv /\ [Next]_vars => PillsInv'
  BY StepPills
<1>3. BaseInv /\ TasksInv /\ [Next]_vars => TasksInv'
  BY StepTasks
<1>. QED
  BY <1>1, <1>2, <1>3, ControlCorrect, PTL DEF Spec, IInv

-----------------------------------------------------------------------------
(* The refinement.                                                          *)
running == {task[w] : w \in Workers} \ {NoTask}
stopped == shutdowned_ /\ workers_ = {}

LEMMA PendingIs ==
  /\ Pending = IF forced /\ PoisonQueued THEN <<>> ELSE Ahead(queue_)
  /\ PoisonQueued <=> Pills(queue_) # {}
BY DEF Pending, Ahead, Pills, PoisonAt, PoisonQueued

LEMMA PendingNext ==
  /\ Pending' = IF forced' /\ PoisonQueued' THEN <<>> ELSE Ahead(queue_')
  /\ PoisonQueued' <=> Pills(queue_') # {}
BY DEF Pending, Ahead, Pills, PoisonAt, PoisonQueued

(* When the owner has joined every worker nothing is pending or running.    *)
LEMMA Drained ==
  ASSUME Workers # {}, IInv, PoisonQueued, \A w \in Workers : pc[w] = "exit"
  PROVE  Pending = <<>> /\ running = {}
<1>1. running = {}
  BY DEF running, IInv, BaseInv, LocalsInv, AddPC
<1>2. CASE forced
  BY <1>1, <1>2, PendingIs
<1>3. CASE ~ forced
  <2>1. queue_ # <<>> /\ Head(queue_) = Poison /\ queue_ \in Queues
    BY <1>3 DEF IInv, ControlInv, ExitInv, BaseInv, TypeOK, Queues
  <2>. QED
    BY <1>1, <1>3, <2>1, PendingIs, NothingAhead
<1>. QED
  BY <1>2, <1>3

(* The steps that the program feeding the pool could notice.                *)
Shows ==
  \/ \E th \in Submitters : AddEmplace(th)
  \/ \E w \in Workers : TakeFront(w) \/ TaskReturns(w)
  \/ PoisonEmplace \/ CallForceShutdown \/ ForceStore \/ MarkShutdowned

LEMMA OthersShowNothing ==
  ASSUME [Next]_vars, ~ Shows
  PROVE  UNCHANGED <<queue_, workers_, shutdowned_, task, done, forced>>
<1>. USE Disjoint DEF Shows, poolVars, envVars
<1>1. CASE ShutdownStep
  BY <1>1 DEF ShutdownStep, Halt, PoisonLock, NotifyAll, JoinAll
<1>2. CASE CallShutdown \/ Destroy
  BY <1>2 DEF CallShutdown, Destroy
<1>3. CASE \E th \in Submitters : AddTask(th)
  BY <1>3 DEF AddTask, AddLock, AddNotify
<1>4. CASE \E w \in Workers : WorkerLoop(w) \/ SpuriousWake(w)
  BY <1>3, <1>4 DEF WorkerLoop, LoopLock, LoopTest, SpuriousWake, LoadShutdowned, FindPoison
<1>5. ASSUME NEW th \in Submitters, NEW from, NEW t \in Tasks, CallAddTask(th, from, t)
      PROVE  UNCHANGED <<queue_, workers_, shutdowned_, task, done, forced>>
  BY <1>5 DEF CallAddTask
<1>6. CASE UNCHANGED vars
  BY <1>6 DEF vars, localVars
<1>. QED
  BY <1>1, <1>2, <1>3, <1>4, <1>5, <1>6 DEF Next, TaskSubmits, ClientSubmits, Terminated

LEMMA StepExecutor ==
  ASSUME Workers # {}, IInv, [Next]_vars
  PROVE  Executor!Next \/ UNCHANGED Executor!vars
<1>0. /\ queue_ \in Queues
      /\ task \in [Workers -> Tasks \cup {NoTask}]
      /\ PoisonQueued => \E k : IsFirst(k, queue_)
  BY PendingIs DEF IInv, BaseInv, TypeOK, Queues, PillsInv, IsFirst, Pills, PoisonAt
<1>. USE PendingIs, PendingNext DEF running, stopped
<1>1. ASSUME NEW th \in Submitters, AddEmplace(th), arg[th] \in Tasks,
             queue_' = Append(queue_, arg[th])
      PROVE  Executor!Next \/ UNCHANGED Executor!vars
  <2>1. UNCHANGED <<workers_, shutdowned_, task, done, forced>>
    BY <1>1 DEF AddEmplace, envVars
  <2>2. CASE PoisonQueued
    <3>1. Pending' = Pending /\ PoisonQueued'
      BY <1>0, <1>1, <2>1, <2>2, AppendBehind DEF IsFirst
    <3>. QED
      BY <2>1, <2>2, <3>1 DEF Executor!vars
  <2>3. CASE ~ PoisonQueued
    <3>1. Pending = queue_ /\ Pending' = Append(queue_, arg[th]) /\ ~ PoisonQueued'
      BY <1>0, <1>1, <2>3, AppendToNone
    <3>2. /\ arg[th] \notin done
          /\ \A w \in Workers : task[w] # arg[th]
          /\ \A i \in DOMAIN queue_ : queue_[i] # arg[th]
      BY <1>1, Disjoint DEF IInv, TasksInv
    <3>3. Executor!Accept(arg[th])
      BY <2>1, <2>3, <3>1, <3>2 DEF Executor!Accept, Executor!Pending
    <3>. QED
      BY <1>1, <3>3 DEF Executor!Next
  <2>. QED
    BY <2>2, <2>3
<1>2. ASSUME PoisonEmplace, queue_' = Append(queue_, Poison)
      PROVE  Executor!Next \/ UNCHANGED Executor!vars
  <2>1. UNCHANGED <<workers_, shutdowned_, task, done, forced>>
    BY <1>2 DEF PoisonEmplace, envVars
  <2>2. CASE PoisonQueued
    <3>1. Pending' = Pending /\ PoisonQueued'
      BY <1>0, <1>2, <2>1, <2>2, AppendBehind DEF IsFirst
    <3>. QED
      BY <2>1, <2>2, <3>1 DEF Executor!vars
  <2>3. CASE ~ PoisonQueued
    <3>1. Pending = queue_ /\ PoisonQueued' /\ Pending' = IF forced THEN <<>> ELSE queue_
      BY <1>0, <1>2, <2>1, <2>3, AppendToNone DEF IsFirst
    <3>2. Executor!Close \/ Executor!Abort
      BY <2>1, <2>3, <3>1 DEF Executor!Close, Executor!Abort
    <3>. QED
      BY <3>2 DEF Executor!Next
  <2>. QED
    BY <2>2, <2>3
<1>3. ASSUME NEW w \in Workers, TakeFront(w), queue_ # <<>>, Head(queue_) # Poison,
             queue_' = Tail(queue_)
      PROVE  Executor!Next
  <2>1. /\ task' = [task EXCEPT ![w] = Head(queue_)]
        /\ task[w] = NoTask
        /\ UNCHANGED <<workers_, shutdowned_, done, forced>>
    BY <1>3 DEF TakeFront, envVars, IInv, BaseInv, LocalsInv, AddPC
  <2>2. ~ (forced /\ PoisonQueued)
    BY <1>3 DEF TakeFront, IInv, ControlInv, ForceInv
  <2>3. PoisonQueued' = PoisonQueued
    BY <1>0, <1>3, TakeFacts DEF Queues, PoisonQueued
  <2>4. /\ Pending # <<>> /\ Head(Pending) = Head(queue_)
        /\ Pending' = Tail(Pending)
    BY <1>0, <1>3, <2>1, <2>2, <2>3, TakeFirst
  <2>5. running' = running \cup {Head(queue_)}
    BY <1>0, <1>3, <2>1, PoolAssumption DEF Queues
  <2>6. Executor!Start
    BY <2>1, <2>3, <2>4, <2>5 DEF Executor!Start
  <2>. QED
    BY <2>6 DEF Executor!Next
<1>4. ASSUME NEW w \in Workers, TaskReturns(w)
      PROVE  Executor!Next
  <2>1. /\ task[w] \in Tasks
        /\ task' = [task EXCEPT ![w] = NoTask]
        /\ done' = done \cup {task[w]}
        /\ UNCHANGED <<queue_, workers_, shutdowned_, forced>>
    BY <1>4 DEF TaskReturns, poolVars, IInv, BaseInv, LocalsInv
  <2>2. running' = running \ {task[w]} /\ task[w] \in running
    BY <1>0, <2>1, Disjoint DEF IInv, TasksInv
  <2>3. Pending' = Pending /\ PoisonQueued' = PoisonQueued
    BY <2>1 DEF Pending, PoisonAt, PoisonQueued
  <2>4. PICK t \in Tasks : t = task[w]
    BY <2>1
  <2>5. Executor!Finish(t)
    BY <2>1, <2>2, <2>3, <2>4 DEF Executor!Finish
  <2>. QED
    BY <2>5 DEF Executor!Next
<1>5. CASE CallForceShutdown
  <2>1. UNCHANGED <<queue_, workers_, shutdowned_, task, done>> /\ forced'
    BY <1>5 DEF CallForceShutdown, poolVars
  <2>2. PoisonQueued => \A w \in Workers : pc[w] = "exit"
    BY <1>5 DEF CallForceShutdown, IInv, ControlInv, JoinInv
  <2>3. Pending' = Pending
    BY <2>1, <2>2, Drained
  <2>. QED
    BY <2>1, <2>3 DEF Executor!vars
<1>6. CASE ForceStore
  <2>1. UNCHANGED <<queue_, workers_, task, done, forced>> /\ shutdowned_'
    BY <1>6 DEF ForceStore, envVars
  <2>2. workers_ = {} => shutdowned_
    BY DEF IInv, PillsInv
  <2>. QED
    BY <2>1, <2>2 DEF Executor!vars
<1>7. CASE MarkShutdowned
  <2>1. /\ UNCHANGED <<queue_, task, done, forced>>
        /\ shutdowned_' /\ workers_' = {}
        /\ PoisonQueued
        /\ \A w \in Workers : pc[w] = "exit"
    BY <1>7 DEF MarkShutdowned, envVars, IInv, PillsInv, ControlInv, JoinInv
  <2>2. Executor!Stop
    BY <2>1, Drained DEF Executor!Stop
  <2>. QED
    BY <2>2 DEF Executor!Next
<1>8. CASE ~ Shows
  <2>1. UNCHANGED <<queue_, workers_, shutdowned_, task, done, forced>>
    BY <1>8, OthersShowNothing
  <2>2. Pending' = Pending /\ PoisonQueued' = PoisonQueued
    BY <2>1 DEF Pending, PoisonAt, PoisonQueued
  <2>. QED
    BY <2>1, <2>2 DEF Executor!vars
<1>. QED
  BY <1>1, <1>2, <1>3, <1>4, <1>5, <1>6, <1>7, <1>8, QueueSteps
  DEF Shows, IInv, AddEmplace, PoisonEmplace, TakeFront, BaseInv, LocalsInv

(* A pool with a worker is an executor: tasks start in the order they were  *)
(* accepted and each once, shutdown() lets what was accepted run,           *)
(* force_shutdown() drops what has not started, and neither they nor the    *)
(* destructor report a stop while a task runs.                              *)
THEOREM ImplementsExecutor ==
  ASSUME Workers # {}
  PROVE  Spec => ExecutorSpec
<1>1. Init => Executor!Init
  <2>. SUFFICES ASSUME Init PROVE Executor!Init
    OBVIOUS
  <2>1. Pending = <<>> /\ ~ PoisonQueued
    BY DEF Init, Pending, PoisonAt, PoisonQueued
  <2>. QED
    BY <2>1 DEF Init, Executor!Init
<1>2. IInv /\ [Next]_vars => [Executor!Next]_(Executor!vars)
  BY StepExecutor
<1>. QED
  BY <1>1, <1>2, Invariance, PTL DEF Spec, ExecutorSpec, Executor!Spec
=============================================================================
