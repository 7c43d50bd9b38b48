----------------------------- MODULE ThreadPool -----------------------------
(***************************************************************************)
(* tpp::ThreadPool (include/toypp/threaded/threadpool.hpp): worker threads  *)
(* that take std::function tasks from one queue under a mutex, wait on a    *)
(* condition variable while it is empty, and stop when they find an empty   *)
(* function, the poison pill, at its front.                                 *)
(*                                                                          *)
(* Threads: the workers the constructor spawns, clients that call add_task, *)
(* and the owner, the one thread that calls shutdown, force_shutdown and    *)
(* the destructor (each joins the workers, so two threads may not call them *)
(* at once).  A task's body may itself call add_task.  Every lock,          *)
(* notification and atomic access is a step of its own; what happens        *)
(* between a lock and its unlock touches nothing an unlocked step reads,    *)
(* except the atomic flag shutdowned_, whose load is a step of its own.     *)
(***************************************************************************)
EXTENDS Naturals, Sequences, FiniteSets

CONSTANTS
  Size,                 (* the constructor's argument                       *)
  HardwareConcurrency,  (* std::thread::hardware_concurrency(), maybe 0     *)
  Clients,              (* threads that call add_task                       *)
  Owner,                (* the thread that shuts the pool down              *)
  Tasks,                (* non-empty functions; each is submitted once      *)
  Poison,               (* task_type{}, the empty function                  *)
  NoTask,               (* no function: a moved-from or unused local        *)
  NoThread,             (* the mutex is free                                *)
  MaxCalls,             (* bound: shutdown and force_shutdown calls         *)
  MaxSpurious           (* bound: spurious wake-ups of the condition        *)

(* A size of 0 asks for one worker per hardware thread.                     *)
Workers == IF Size = 0 THEN 1..HardwareConcurrency ELSE 1..Size

Submitters == Workers \cup Clients
Threads == Submitters \cup {Owner}

ASSUME PoolAssumption ==
  /\ Size \in Nat
  /\ HardwareConcurrency \in Nat
  /\ IsFiniteSet(Clients)
  /\ Workers \cap Clients = {}
  /\ Owner \notin Submitters
  /\ NoThread \notin Threads
  /\ Poison \notin Tasks
  /\ NoTask \notin Tasks \cup {Poison}
  /\ MaxCalls \in Nat
  /\ MaxSpurious \in Nat

VARIABLES
  mutex_,       (* the thread that holds it, or NoThread                    *)
  queue_,       (* tasks and poison pills, front first                      *)
  workers_,     (* the std::thread objects not yet joined                   *)
  halted_,
  shutdowned_,
  pc,           (* what each thread does next                               *)
  task,         (* worker_loop's local `task`                               *)
  arg,          (* the task a thread is handing to add_task                 *)
  call,         (* which of its three operations the owner is in            *)
  fresh,        (* tasks the program has not submitted yet                  *)
  done,         (* tasks whose body has returned                            *)
  forced,       (* history: force_shutdown has been called                  *)
  calls,        (* counts against MaxCalls                                  *)
  spurious      (* counts against MaxSpurious                               *)

poolVars  == <<mutex_, queue_, workers_, halted_, shutdowned_>>
localVars == <<pc, task, arg, call>>
envVars   == <<fresh, done, forced, calls, spurious>>
vars == <<poolVars, localVars, envVars>>

-----------------------------------------------------------------------------
(* Control points.                                                          *)

AddPC    == {"add", "emplace", "notify"}
WorkerPC == {"loop", "test", "wait", "flag", "front", "run", "exit"} \cup AddPC
ClientPC == {"idle"} \cup AddPC
OwnerPC  == {"idle", "force", "halt", "poison", "emplace", "notify",
             "join", "mark", "gone"}

(* The points at which a thread is between lock and unlock.                 *)
Locked == {"test", "flag", "front", "emplace"}

Waiting == {w \in Workers : pc[w] = "wait"}

PoisonQueued == \E i \in DOMAIN queue_ : queue_[i] = Poison

Goto(th, to) == pc' = [pc EXCEPT ![th] = to]

Lock(th, from, to) ==
  /\ pc[th] = from
  /\ mutex_ = NoThread
  /\ mutex_' = th
  /\ Goto(th, to)

Unlock == mutex_' = NoThread

-----------------------------------------------------------------------------
Init ==
  /\ mutex_ = NoThread
  /\ queue_ = <<>>
  /\ workers_ = Workers
  /\ halted_ = FALSE
  /\ shutdowned_ = FALSE
  /\ pc = [th \in Threads |-> IF th \in Workers THEN "loop" ELSE "idle"]
  /\ task = [w \in Workers |-> NoTask]
  /\ arg = [th \in Submitters |-> NoTask]
  /\ call = "none"
  /\ fresh = Tasks
  /\ done = {}
  /\ forced = FALSE
  /\ calls = 0
  /\ spurious = 0

-----------------------------------------------------------------------------
(* worker_loop.                                                             *)

LoopLock(w) ==
  /\ Lock(w, "loop", "test")
  /\ UNCHANGED <<queue_, workers_, halted_, shutdowned_, task, arg, call, envVars>>

(* cv_.wait tests its predicate; waiting releases the mutex atomically.     *)
LoopTest(w) ==
  /\ pc[w] = "test"
  /\ \/ queue_ = <<>> /\ Goto(w, "wait") /\ Unlock
     \/ queue_ # <<>> /\ Goto(w, "flag") /\ UNCHANGED mutex_
  /\ UNCHANGED <<queue_, workers_, halted_, shutdowned_, task, arg, call, envVars>>

SpuriousWake(w) ==
  /\ pc[w] = "wait"
  /\ spurious < MaxSpurious
  /\ spurious' = spurious + 1
  /\ Goto(w, "loop")
  /\ UNCHANGED <<poolVars, task, arg, call, fresh, done, forced, calls>>

(* A plausible bug: worker_loop does not look at shutdowned_.               *)
LoadShutdowned_Missing(w) ==
  /\ pc[w] = "flag"
  /\ Goto(w, "front")
  /\ UNCHANGED <<poolVars, task, arg, call, envVars>>

(* A relaxed load may still return FALSE after force_shutdown stored TRUE,  *)
(* until the mutex orders the two: once the pill is in the queue, the       *)
(* owner's critical section came after its store and before this load.      *)
VisibleShutdowned ==
  IF shutdowned_ /\ ~PoisonQueued THEN BOOLEAN ELSE {shutdowned_}

(* A plausible bug: the worker that finds the pill takes it out of the queue.  *)
FindPoison_Pops(w) ==
  /\ pc[w] = "front"
  /\ Head(queue_) = Poison
  /\ queue_' = Tail(queue_)
  /\ Goto(w, "exit")
  /\ Unlock
  /\ UNCHANGED <<workers_, halted_, shutdowned_, task, arg, call, envVars>>

LoadShutdowned(w) ==
  /\ pc[w] = "flag"
  /\ \E seen \in VisibleShutdowned :
       \/ seen /\ Goto(w, "exit") /\ Unlock
       \/ ~seen /\ Goto(w, "front") /\ UNCHANGED mutex_
  /\ UNCHANGED <<queue_, workers_, halted_, shutdowned_, task, arg, call, envVars>>

(* A plausible bug: the test for the poison pill is missing.                *)
TakeFront_Untested(w) ==
  /\ pc[w] = "front"
  /\ task' = [task EXCEPT ![w] = Head(queue_)]
  /\ queue_' = Tail(queue_)
  /\ Goto(w, "run")
  /\ Unlock
  /\ UNCHANGED <<workers_, halted_, shutdowned_, arg, call, envVars>>

FindPoison(w) ==
  /\ pc[w] = "front"
  /\ Head(queue_) = Poison
  /\ Goto(w, "exit")
  /\ Unlock
  /\ UNCHANGED <<queue_, workers_, halted_, shutdowned_, task, arg, call, envVars>>

TakeFront(w) ==
  /\ pc[w] = "front"
  /\ Head(queue_) # Poison
  /\ task' = [task EXCEPT ![w] = Head(queue_)]
  /\ queue_' = Tail(queue_)
  /\ Goto(w, "run")
  /\ Unlock
  /\ UNCHANGED <<workers_, halted_, shutdowned_, arg, call, envVars>>

(* The body of a task ends, or submits another task first.                  *)
TaskReturns(w) ==
  /\ pc[w] = "run"
  /\ done' = done \cup {task[w]}
  /\ task' = [task EXCEPT ![w] = NoTask]
  /\ Goto(w, "loop")
  /\ UNCHANGED <<poolVars, arg, call, fresh, forced, calls, spurious>>

CallAddTask(th, from, t) ==
  /\ pc[th] = from
  /\ t \in fresh
  /\ fresh' = fresh \ {t}
  /\ arg' = [arg EXCEPT ![th] = t]
  /\ Goto(th, "add")
  /\ UNCHANGED <<poolVars, task, call, done, forced, calls, spurious>>

TaskSubmits(w, t) == CallAddTask(w, "run", t)

-----------------------------------------------------------------------------
(* add_task, called by a client or by the body of a running task.  Clients  *)
(* do not use the pool while it is being destroyed or after.                *)

(* add_task returns to the body of the task, or to the client.              *)
Return(th) == IF th \in Workers THEN "run" ELSE "idle"

ClientSubmits(c, t) ==
  /\ call # "destroy"
  /\ CallAddTask(c, "idle", t)

(* A plausible bug: add_task puts the new task in front of the others.      *)
AddEmplace_Front(th) ==
  /\ pc[th] = "emplace"
  /\ queue_' = <<arg[th]>> \o queue_
  /\ arg' = [arg EXCEPT ![th] = NoTask]
  /\ Goto(th, "notify")
  /\ Unlock
  /\ UNCHANGED <<workers_, halted_, shutdowned_, task, call, envVars>>

(* A plausible bug: notify only when the queue was empty.                   *)
AddEmplace_NotifyIfEmpty(th) ==
  /\ pc[th] = "emplace"
  /\ queue_' = Append(queue_, arg[th])
  /\ arg' = [arg EXCEPT ![th] = NoTask]
  /\ Goto(th, IF queue_ = <<>> THEN "notify" ELSE Return(th))
  /\ Unlock
  /\ UNCHANGED <<workers_, halted_, shutdowned_, task, call, envVars>>

AddLock(th) ==
  /\ Lock(th, "add", "emplace")
  /\ UNCHANGED <<queue_, workers_, halted_, shutdowned_, task, arg, call, envVars>>

AddEmplace(th) ==
  /\ pc[th] = "emplace"
  /\ queue_' = Append(queue_, arg[th])
  /\ arg' = [arg EXCEPT ![th] = NoTask]
  /\ Goto(th, "notify")
  /\ Unlock
  /\ UNCHANGED <<workers_, halted_, shutdowned_, task, call, envVars>>

(* A plausible bug: add_task does not notify.                               *)
AddNotify_Missing(th) ==
  /\ pc[th] = "notify"
  /\ Goto(th, Return(th))
  /\ UNCHANGED <<poolVars, task, arg, call, envVars>>

(* notify_one wakes some waiting worker, if there is one.                   *)
AddNotify(th) ==
  /\ pc[th] = "notify"
  /\ \/ Waiting = {} /\ Goto(th, Return(th))
     \/ \E w \in Waiting :
          pc' = [pc EXCEPT ![w] = "loop", ![th] = Return(th)]
  /\ UNCHANGED <<poolVars, task, arg, call, envVars>>

-----------------------------------------------------------------------------
(* shutdown, force_shutdown and the destructor.                             *)

CallShutdown ==
  /\ pc[Owner] = "idle"
  /\ calls < MaxCalls
  /\ calls' = calls + 1
  /\ call' = "shutdown"
  /\ Goto(Owner, "halt")
  /\ UNCHANGED <<poolVars, task, arg, fresh, done, forced, spurious>>

CallForceShutdown ==
  /\ pc[Owner] = "idle"
  /\ calls < MaxCalls
  /\ calls' = calls + 1
  /\ call' = "force_shutdown"
  /\ forced' = TRUE
  /\ Goto(Owner, "force")
  /\ UNCHANGED <<poolVars, task, arg, fresh, done, spurious>>

ForceStore ==
  /\ pc[Owner] = "force"
  /\ shutdowned_' = TRUE
  /\ Goto(Owner, "halt")
  /\ UNCHANGED <<mutex_, queue_, workers_, halted_, task, arg, call, envVars>>

(* A plausible bug: the destructor does not shut the pool down.             *)
Destroy_Defaulted ==
  /\ pc[Owner] = "idle"
  /\ \A c \in Clients : pc[c] = "idle"
  /\ call' = "destroy"
  /\ Goto(Owner, "gone")
  /\ UNCHANGED <<poolVars, task, arg, envVars>>

(* The destructor returns at once after a shutdown; otherwise it shuts the  *)
(* pool down unless halted_ is set.  When it ends the members are gone.     *)
Destroy ==
  /\ pc[Owner] = "idle"
  /\ \A c \in Clients : pc[c] = "idle"
  /\ call' = "destroy"
  /\ Goto(Owner, IF shutdowned_ \/ halted_ THEN "gone" ELSE "halt")
  /\ UNCHANGED <<poolVars, task, arg, envVars>>

Halt ==
  /\ pc[Owner] = "halt"
  /\ halted_' = TRUE
  /\ Goto(Owner, "poison")
  /\ UNCHANGED <<mutex_, queue_, workers_, shutdowned_, task, arg, call, envVars>>

PoisonLock ==
  /\ Lock(Owner, "poison", "emplace")
  /\ UNCHANGED <<queue_, workers_, halted_, shutdowned_, task, arg, call, envVars>>

(* A plausible bug: shutdown wakes a single worker.                         *)
NotifyAll_One ==
  /\ pc[Owner] = "notify"
  /\ \/ Waiting = {} /\ Goto(Owner, "join")
     \/ \E w \in Waiting :
          pc' = [pc EXCEPT ![w] = "loop", ![Owner] = "join"]
  /\ UNCHANGED <<poolVars, task, arg, call, envVars>>

PoisonEmplace ==
  /\ pc[Owner] = "emplace"
  /\ queue_' = Append(queue_, Poison)
  /\ Goto(Owner, "notify")
  /\ Unlock
  /\ UNCHANGED <<workers_, halted_, shutdowned_, task, arg, call, envVars>>

(* A plausible bug: shutdown waits for one worker instead of all of them.   *)
JoinAll_Some ==
  /\ pc[Owner] = "join"
  /\ workers_ = {} \/ \E w \in workers_ : pc[w] = "exit"
  /\ Goto(Owner, "mark")
  /\ UNCHANGED <<poolVars, task, arg, call, envVars>>

NotifyAll ==
  /\ pc[Owner] = "notify"
  /\ pc' = [th \in Threads |-> IF th \in Waiting THEN "loop"
                               ELSE IF th = Owner THEN "join" ELSE pc[th]]
  /\ UNCHANGED <<poolVars, task, arg, call, envVars>>

JoinAll ==
  /\ pc[Owner] = "join"
  /\ \A w \in workers_ : pc[w] = "exit"
  /\ Goto(Owner, "mark")
  /\ UNCHANGED <<poolVars, task, arg, call, envVars>>

MarkShutdowned ==
  /\ pc[Owner] = "mark"
  /\ shutdowned_' = TRUE
  /\ workers_' = {}
  /\ Goto(Owner, IF call = "destroy" THEN "gone" ELSE "idle")
  /\ UNCHANGED <<mutex_, queue_, halted_, task, arg, call, envVars>>

(* The pool has been destroyed: nothing is left to do.                      *)
Terminated ==
  /\ pc[Owner] = "gone"
  /\ UNCHANGED vars

-----------------------------------------------------------------------------
AddTask(th) == AddLock(th) \/ AddEmplace(th) \/ AddNotify(th)

WorkerLoop(w) ==
  \/ LoopLock(w) \/ LoopTest(w) \/ LoadShutdowned(w)
  \/ FindPoison(w) \/ TakeFront(w) \/ TaskReturns(w)
  \/ AddTask(w)

ShutdownStep ==
  \/ ForceStore \/ Halt \/ PoisonLock \/ PoisonEmplace
  \/ NotifyAll \/ JoinAll \/ MarkShutdowned

Next ==
  \/ \E w \in Workers : WorkerLoop(w) \/ SpuriousWake(w)
  \/ \E w \in Workers, t \in Tasks : TaskSubmits(w, t)
  \/ \E c \in Clients : AddTask(c)
  \/ \E c \in Clients, t \in Tasks : ClientSubmits(c, t)
  \/ CallShutdown \/ CallForceShutdown \/ Destroy
  \/ ShutdownStep
  \/ Terminated

Spec == Init /\ [][Next]_vars

(* A thread that can step eventually does: the operating system schedules   *)
(* it, tasks return, and a call that has begun goes on.  Weak fairness is   *)
(* enough, since calls, tasks and spurious wake-ups are finite in number;   *)
(* nothing obliges a client to submit or the owner to shut down.            *)
Fairness ==
  /\ \A w \in Workers : WF_vars(WorkerLoop(w))
  /\ \A c \in Clients : WF_vars(AddTask(c))
  /\ WF_vars(ShutdownStep)

FairSpec == Spec /\ Fairness
-----------------------------------------------------------------------------
(* Properties.                                                              *)

(* The types; only tasks and pills are ever queued.                         *)
TypeOK ==
  /\ mutex_ \in Threads \cup {NoThread}
  /\ queue_ \in Seq(Tasks \cup {Poison})
  /\ workers_ \in SUBSET Workers
  /\ halted_ \in BOOLEAN
  /\ shutdowned_ \in BOOLEAN
  /\ pc \in [Threads -> WorkerPC \cup ClientPC \cup OwnerPC]
  /\ \A w \in Workers : pc[w] \in WorkerPC
  /\ \A c \in Clients : pc[c] \in ClientPC
  /\ pc[Owner] \in OwnerPC
  /\ task \in [Workers -> Tasks \cup {NoTask}]
  /\ arg \in [Submitters -> Tasks \cup {NoTask}]
  /\ call \in {"none", "shutdown", "force_shutdown", "destroy"}
  /\ fresh \in SUBSET Tasks
  /\ done \in SUBSET Tasks
  /\ forced \in BOOLEAN
  /\ calls \in 0..MaxCalls
  /\ spurious \in 0..MaxSpurious

(* "graceful shutdown; lets workers do all the tasks in queue so far": once  *)
(* shutdown() has returned, or the destructor has, and no force_shutdown was *)
(* asked for, every task that was queued ahead of the pill has been run to   *)
(* its end, by whichever worker: none is left in front of it, none runs.     *)
ShutdownReturned == shutdowned_ /\ ~forced

GracefulDrains ==
  ShutdownReturned =>
    /\ queue_ # <<>>
    /\ Head(queue_) = Poison
    /\ \A w \in Workers : task[w] = NoTask

(* No wake-up is lost: while a worker sleeps, every queued task is matched   *)
(* by a worker on its way to the queue or by a notify_one still to come.     *)
(* (Once a pill is queued or a shutdown is forced, notify_all sees to it.)   *)
Coming == {w \in Workers : pc[w] \in {"loop", "test", "flag", "front"}}
Notifying == {th \in Submitters : pc[th] = "notify"}

NoLostWakeup ==
  (Waiting # {} /\ ~PoisonQueued /\ ~shutdowned_) =>
    Len(queue_) <= Cardinality(Coming) + Cardinality(Notifying)

(* A sleeping worker and a queued pill: then notify_all has not run yet.     *)
(* Otherwise the worker would never be joined.                               *)
PillWakesEveryone ==
  (PoisonQueued /\ Waiting # {}) => pc[Owner] = "notify"

(* ~ThreadPool destroys the members only after every worker left its loop,   *)
(* on each of its three paths (fresh pool, after shutdown, after force).     *)
DestroyedAfterJoin ==
  pc[Owner] = "gone" =>
    /\ workers_ = {}
    /\ mutex_ = NoThread
    /\ \A w \in Workers : pc[w] = "exit"

(* force_shutdown "forces workers to leave queued tasks": once its pill is   *)
(* queued no worker takes another task, not even one that had already        *)
(* entered its critical section before shutdowned_ was set.                  *)
ForcedQueueFrozen ==
  [][(forced /\ PoisonQueued) => Len(queue_') >= Len(queue_)]_vars

(* What the safety properties rest on: their inductive strengthening, with   *)
(* TypeOK and, for the two wake-up properties, themselves (ThreadPool_proofs).*)

(* A thread is between lock and unlock exactly when it holds the mutex.     *)
MutexInv == \A th \in Threads : pc[th] \in Locked <=> mutex_ = th

(* The locals a thread is about to use are set.                             *)
LocalsInv ==
  /\ \A th \in Submitters : pc[th] \in {"add", "emplace"} => arg[th] \in Tasks
  /\ \A w \in Workers :
       /\ pc[w] \in {"run"} \cup AddPC => task[w] \in Tasks
       /\ pc[w] \notin {"run"} \cup AddPC => task[w] = NoTask
       /\ pc[w] \in {"flag", "front"} => queue_ # <<>>

(* Without force_shutdown a worker leaves only when a pill is in front, and *)
(* shutdowned_ is set only after the join.                                  *)
ExitInv ==
  /\ ~forced => \A w \in Workers : pc[w] = "exit" => queue_ # <<>> /\ Head(queue_) = Poison
  /\ (shutdowned_ /\ ~forced) => workers_ = {}

(* workers_ is emptied only after the join, and before a call returns.      *)
JoinInv ==
  /\ \A w \in Workers : w \notin workers_ => pc[w] = "exit"
  /\ pc[Owner] = "mark" => \A w \in Workers : pc[w] = "exit"
  /\ pc[Owner] = "gone" => workers_ = {}
  /\ (pc[Owner] = "idle" /\ (halted_ \/ shutdowned_)) => workers_ = {}
  /\ (pc[Owner] \in {"idle", "force"} /\ PoisonQueued) => workers_ = {}
  /\ call = "destroy" => \A c \in Clients : pc[c] = "idle"
  /\ pc[Owner] = "gone" => call = "destroy"

(* force_shutdown stores shutdowned_ first, so that a worker past its test  *)
(* of the flag when the pill arrives can only find the pill.                *)
ForceInv ==
  /\ pc[Owner] = "force" => forced
  /\ (forced /\ ~shutdowned_) => pc[Owner] = "force"
  /\ (forced /\ PoisonQueued) =>
       \A w \in Workers : pc[w] = "front" => Head(queue_) = Poison

(* The pool implements TaskExecutor.  Pending tasks are those in front of    *)
(* the first pill; a forced pill drops them.                                 *)
PoisonAt == {i \in DOMAIN queue_ : queue_[i] = Poison}

Pending ==
  CASE PoisonAt = {} -> queue_
    [] PoisonAt # {} /\ forced -> <<>>
    [] OTHER -> SubSeq(queue_, 1, (CHOOSE i \in PoisonAt : \A j \in PoisonAt : i <= j) - 1)

Executor == INSTANCE TaskExecutor WITH
  pending <- Pending,
  running <- {task[w] : w \in Workers} \ {NoTask},
  closed  <- PoisonQueued,
  stopped <- shutdowned_ /\ workers_ = {}

ExecutorSpec == Executor!Spec

(* A task accepted ahead of every pill is eventually run to its end, unless  *)
(* a shutdown is forced, whether or not the pool is ever shut down.          *)
AcceptedTasksRun ==
  \A t \in Tasks : (t \in Executor!Pending) ~> (t \in done \/ forced)

(* shutdown, force_shutdown and the destructor return.                       *)
ShutdownTerminates == (pc[Owner] # "idle") ~> (pc[Owner] \in {"idle", "gone"})
=============================================================================
