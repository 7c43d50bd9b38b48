---------------------------- MODULE SpinSemaphore ----------------------------
(***************************************************************************)
(* tpp::SpinSemaphore (include/toypp/threaded/spinsemaphore.hpp).  The      *)
(* local variable `current` of each thread in acquire() is kept here; who   *)
(* takes a step is up to the module that uses the semaphore.                *)
(***************************************************************************)
EXTENDS Integers

CONSTANTS
  Threads,
  MaxCount,             (* the template argument                            *)
  HardwareConcurrency   (* std::thread::hardware_concurrency(), maybe 0     *)

ASSUME SemaphoreAssumption == MaxCount \in Nat /\ HardwareConcurrency \in Nat

VARIABLES count_, current

max == IF MaxCount # 0 THEN MaxCount ELSE HardwareConcurrency

SemaphoreInit ==
  /\ count_ = max
  /\ current = [th \in Threads |-> 0]

(* A plausible bug: the count is hoped for as it was seen.                  *)
Hoped_AsSeen(n) == n

(* current += (current == 0): the count hoped for is never 0.               *)
Hoped(n) == IF n = 0 THEN 1 ELSE n

SemaphoreLoad(th) ==
  /\ current' = [current EXCEPT ![th] = Hoped(count_)]
  /\ UNCHANGED count_

(* A plausible bug: the new count is stored without comparing the old one.  *)
SemaphoreAcquired_Unchecked(th) ==
  /\ count_ # 0
  /\ count_' = current[th] - 1
  /\ UNCHANGED current

(* compare_exchange_strong(current, current - 1).                           *)
SemaphoreAcquired(th) ==
  /\ count_ = current[th]
  /\ count_' = current[th] - 1
  /\ UNCHANGED current

(* It failed, and left in current the count that is there.                  *)
SemaphoreMissed(th) ==
  /\ count_ # current[th]
  /\ SemaphoreLoad(th)

(* A plausible bug: release() gives nothing back.                           *)
SemaphoreRelease_Missing == UNCHANGED <<count_, current>>

SemaphoreRelease ==
  /\ count_' = count_ + 1
  /\ UNCHANGED current

=============================================================================
