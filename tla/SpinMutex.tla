------------------------------ MODULE SpinMutex ------------------------------
(***************************************************************************)
(* tpp::SpinMutex (include/toypp/threaded/spinmutex.hpp).  The actions say  *)
(* when a step of acquire() or release() may be taken; who takes it is up   *)
(* to the module that uses the mutex.                                       *)
(***************************************************************************)
VARIABLE flag_

MutexInit == flag_ = FALSE

(* A plausible bug: an exchange whose result nobody looks at.               *)
MutexAcquired_Blindly == flag_' = TRUE

(* compare_exchange_weak(current, true) with current == false; acquire()    *)
(* sets current back after a failure and tries again.                       *)
MutexAcquired == ~ flag_ /\ flag_' = TRUE

(* A failure, where the flag is set or for no reason, changes nothing: it   *)
(* is a stuttering step.                                                    *)

MutexRelease == flag_' = FALSE
=============================================================================
