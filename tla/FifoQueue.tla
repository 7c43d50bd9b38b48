------------------------------ MODULE FifoQueue ------------------------------
(***************************************************************************)
(* A linearizable first-in first-out queue: each call takes effect at one   *)
(* instant between its invocation and its response, on one sequence.  What  *)
(* is pushed is popped once, cleared, or lost by a pop that says it threw.  *)
(*                                                                          *)
(* MTQueue.tla, a linked list under a mutex with a counter that is read     *)
(* without it, is shown to implement this specification.                    *)
(***************************************************************************)
EXTENDS Naturals, Sequences

CONSTANTS
  Threads,
  Values,
  NoValue,    (* no argument                                                *)
  Pending,    (* the call has not taken effect yet                          *)
  Empty,      (* std::nullopt                                               *)
  Done,       (* a call without a result took effect                        *)
  Thrown      (* the call threw                                             *)

VARIABLES
  items,      (* what is in the queue, oldest first                         *)
  op,         (* the call each thread is in: its name, or "idle"            *)
  arg,        (* the value a push was called with                           *)
  out         (* the result of the call, or Pending                         *)

vars == <<items, op, arg, out>>

Init ==
  /\ items = <<>>
  /\ op = [th \in Threads |-> "idle"]
  /\ arg = [th \in Threads |-> NoValue]
  /\ out = [th \in Threads |-> Pending]

Call(th, name, v) ==
  /\ op[th] = "idle"
  /\ op' = [op EXCEPT ![th] = name]
  /\ arg' = [arg EXCEPT ![th] = v]
  /\ UNCHANGED <<items, out>>

(* The call takes effect: the result is fixed and the queue changes.        *)
Effect(th, name, result, queue) ==
  /\ op[th] = name
  /\ out[th] = Pending
  /\ out' = [out EXCEPT ![th] = result]
  /\ items' = queue
  /\ UNCHANGED <<op, arg>>

Push(th) == Effect(th, "push", Done, Append(items, arg[th]))

Pop(th) ==
  \/ items = <<>> /\ Effect(th, "pop", Empty, items)
  \/ items # <<>> /\ Effect(th, "pop", Head(items), Tail(items))

Clear(th) == Effect(th, "clear", Done, <<>>)

Size(th) == Effect(th, "size", Len(items), items)

(* Copying or moving a value, or allocating, may throw, and then the call   *)
(* has no effect, ...                                                       *)
Throw(th) == \E name \in {"push", "pop"} : Effect(th, name, Thrown, items)

(* ... but for the move of a popped value into the caller's hands: when it  *)
(* throws the value has left the queue already and is lost.  It is the only *)
(* way for a value to get lost, and the caller is told of it.               *)
Lose(th) ==
  /\ op[th] = "pop"
  /\ out[th] \in Values
  /\ out' = [out EXCEPT ![th] = Thrown]
  /\ UNCHANGED <<items, op, arg>>

Return(th) ==
  /\ out[th] # Pending
  /\ op' = [op EXCEPT ![th] = "idle"]
  /\ arg' = [arg EXCEPT ![th] = NoValue]
  /\ out' = [out EXCEPT ![th] = Pending]
  /\ UNCHANGED items

Next ==
  \E th \in Threads :
    \/ \E v \in Values : Call(th, "push", v)
    \/ \E name \in {"pop", "clear", "size"} : Call(th, name, NoValue)
    \/ Push(th) \/ Pop(th) \/ Clear(th) \/ Size(th) \/ Throw(th)
    \/ Lose(th) \/ Return(th)

Spec == Init /\ [][Next]_vars
=============================================================================
