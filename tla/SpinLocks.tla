------------------------------ MODULE SpinLocks ------------------------------
(***************************************************************************)
(* Threads that use a SpinSemaphore and a SpinMutex as the two classes are  *)
(* meant to be used: each acquires the semaphore, does something there that *)
(* needs the mutex, and releases both.                                      *)
(***************************************************************************)
EXTENDS SpinMutex, SpinSemaphore, FiniteSets

ASSUME ThreadsAssumption == IsFiniteSet(Threads)

VARIABLE pc

lockVars == <<flag_, count_, current, pc>>

LocksInit ==
  /\ MutexInit
  /\ SemaphoreInit
  /\ pc = [th \in Threads |-> "out"]

Goto(th, from, to) == pc[th] = from /\ pc' = [pc EXCEPT ![th] = to]

(* SpinSemaphore::acquire.                                                  *)
Load(th) == Goto(th, "out", "spin") /\ SemaphoreLoad(th) /\ UNCHANGED flag_

Enter(th) == Goto(th, "spin", "in") /\ SemaphoreAcquired(th) /\ UNCHANGED flag_

Miss(th) == pc[th] = "spin" /\ SemaphoreMissed(th) /\ UNCHANGED <<flag_, pc>>

(* SpinMutex::acquire and release.                                          *)
Take(th) == Goto(th, "in", "critical") /\ MutexAcquired /\ UNCHANGED <<count_, current>>

Drop(th) == Goto(th, "critical", "done") /\ MutexRelease /\ UNCHANGED <<count_, current>>

(* SpinSemaphore::release.                                                  *)
Leave(th) == Goto(th, "done", "out") /\ SemaphoreRelease /\ UNCHANGED flag_

Spin(th) == Enter(th) \/ Miss(th) \/ Take(th) \/ Drop(th) \/ Leave(th)

LocksNext == \E th \in Threads : Load(th) \/ Spin(th)

LocksSpec == LocksInit /\ [][LocksNext]_lockVars

(* A thread that began goes on; it need not begin again.                    *)
LocksFairSpec == LocksSpec /\ \A th \in Threads : WF_lockVars(Spin(th))

-----------------------------------------------------------------------------
(* What is checked.                                                         *)

Inside == {th \in Threads : pc[th] \in {"in", "critical", "done"}}
Critical == {th \in Threads : pc[th] = "critical"}

(* The types.                                                               *)
LocksTypeOK ==
  /\ flag_ \in BOOLEAN
  /\ count_ \in Int
  /\ current \in [Threads -> Int]
  /\ pc \in [Threads -> {"out", "spin", "in", "critical", "done"}]

(* The semaphore gives out what it has and no more: whatever counts the     *)
(* threads saw in the meantime, the count, which is an int, stays at or     *)
(* above 0, and with the threads inside adds up to max.                     *)
TokensConserved ==
  /\ count_ >= 0
  /\ count_ + Cardinality(Inside) = max

(* One thread at most has the mutex, and the flag says whether one has.     *)
MutualExclusion ==
  /\ \A th, u \in Critical : th = u
  /\ flag_ <=> Critical # {}

(* The locks are lock-free as a whole: while a thread is at one of them,    *)
(* some thread gets to the end.  No single thread is promised its turn.     *)
SomebodyGetsIn ==
  (\E th \in Threads : pc[th] \in {"spin", "in"}) ~> (Critical # {})

=============================================================================
