------------------------------ MODULE Ownership ------------------------------
(***************************************************************************)
(* Shared ownership of objects: an object lives while somebody owns it, is  *)
(* deleted once, after its last owner let go, and has no owner ever again.  *)
(*                                                                          *)
(* SharedPtr.tla, where ownership is two atomic counters, is shown to       *)
(* implement this specification.                                            *)
(***************************************************************************)
CONSTANTS
  Objects,
  Owners

VARIABLES
  object,     (* "none", "alive" or "deleted", for each object              *)
  owners      (* the owners of each object                                  *)

vars == <<object, owners>>

Init ==
  /\ object = [o \in Objects |-> "none"]
  /\ owners = [o \in Objects |-> {}]

Create(o, k) ==
  /\ object[o] = "none"
  /\ object' = [object EXCEPT ![o] = "alive"]
  /\ owners' = [owners EXCEPT ![o] = {k}]

(* Only an object that is owned can get one more owner.                     *)
Share(o, k) ==
  /\ owners[o] # {}
  /\ owners' = [owners EXCEPT ![o] = @ \cup {k}]
  /\ UNCHANGED object

(* k and l swap what they own; a move, when l owns nothing.                 *)
Exchange(k, l) ==
  /\ owners' = [o \in Objects |->
                  {IF j = k THEN l ELSE IF j = l THEN k ELSE j : j \in owners[o]}]
  /\ UNCHANGED object

Drop(o, k) ==
  /\ k \in owners[o]
  /\ owners' = [owners EXCEPT ![o] = @ \ {k}]
  /\ UNCHANGED object

Delete(o) ==
  /\ object[o] = "alive"
  /\ owners[o] = {}
  /\ object' = [object EXCEPT ![o] = "deleted"]
  /\ UNCHANGED owners

(* The bookkeeping of a deleted object ends and its address may come back.  *)
Forget(o) ==
  /\ object[o] = "deleted"
  /\ object' = [object EXCEPT ![o] = "none"]
  /\ UNCHANGED owners

Next ==
  \/ \E o \in Objects :
       \/ Delete(o)
       \/ Forget(o)
       \/ \E k \in Owners : Create(o, k) \/ Share(o, k) \/ Drop(o, k)
  \/ \E k, l \in Owners : Exchange(k, l)

Spec == Init /\ [][Next]_vars
=============================================================================
