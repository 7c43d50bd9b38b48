------------------------------ MODULE UniquePtr ------------------------------
(***************************************************************************)
(* tpp::UniquePtr (include/toypp/uniqueptr.hpp) with the default deleter.   *)
(*                                                                         *)
(* The moves are the defaulted ones: they are no templates and win over the *)
(* templates for the same type.  The moves from another instantiation read  *)
(* its private members, so a program that calls them does not compile.      *)
(***************************************************************************)
CONSTANTS
  Pointers,   (* variables of type UniquePtr; one that is destroyed is      *)
              (* empty, as is the one that takes its place                  *)
  Objects,    (* objects made by new, each once                             *)
  Null        (* nullptr                                                    *)

VARIABLES
  ptr_,       (* the member of each UniquePtr                               *)
  raw,        (* objects that the caller has in a plain pointer and has to  *)
              (* delete or give to a UniquePtr                              *)
  object      (* whether each object is there                               *)

vars == <<ptr_, raw, object>>

Init ==
  /\ ptr_ = [p \in Pointers |-> Null]
  /\ raw = {}
  /\ object = [o \in Objects |-> "none"]

(* delete of a pointer, which may be null.                                  *)
Delete(pointer) ==
  object' = [o \in Objects |->
               IF o # pointer THEN object[o]
               ELSE IF object[o] = "alive" THEN "deleted" ELSE "deleted twice"]

(* UniquePtr(new T) and make_unique.                                        *)
MakeUnique(p, o) ==
  /\ ptr_[p] = Null /\ object[o] = "none"
  /\ ptr_' = [ptr_ EXCEPT ![p] = o]
  /\ object' = [object EXCEPT ![o] = "alive"]
  /\ UNCHANGED raw

(* UniquePtr(ptr) of a pointer that the caller has.                         *)
Construct(p, o) ==
  /\ ptr_[p] = Null
  /\ ptr_' = [ptr_ EXCEPT ![p] = o]
  /\ raw' = raw \ {o}
  /\ UNCHANGED object

(* The defaulted constructor and assignment copy the pointer.               *)
MoveConstruct(p, q) ==
  /\ p # q /\ ptr_[p] = Null
  /\ ptr_' = [ptr_ EXCEPT ![p] = ptr_[q]]
  /\ UNCHANGED <<raw, object>>

MoveAssign(p, q) ==
  /\ ptr_' = [ptr_ EXCEPT ![p] = ptr_[q]]
  /\ UNCHANGED <<raw, object>>

Destruct(p) ==
  /\ Delete(ptr_[p])
  /\ ptr_' = [ptr_ EXCEPT ![p] = Null]
  /\ UNCHANGED raw

Release(p) ==
  /\ ptr_[p] # Null
  /\ ptr_' = [ptr_ EXCEPT ![p] = Null]
  /\ raw' = raw \cup {ptr_[p]}
  /\ UNCHANGED object

(* reset(other), and operator=(nullptr).                                    *)
Reset(p, other) ==
  /\ Delete(ptr_[p])
  /\ ptr_' = [ptr_ EXCEPT ![p] = other]
  /\ raw' = raw \ {other}

(* swap(pointer) swaps with its parameter, a copy; only a caller that asked *)
(* get() before still has the old pointer.                                  *)
SwapPointer(p, other) ==
  /\ ptr_' = [ptr_ EXCEPT ![p] = other]
  /\ raw' = (raw \ {other}) \cup ({ptr_[p]} \ {Null})
  /\ UNCHANGED object

Swap(p, q) ==
  /\ ptr_' = [ptr_ EXCEPT ![p] = ptr_[q], ![q] = ptr_[p]]
  /\ UNCHANGED <<raw, object>>

Next ==
  \E p \in Pointers :
    \/ Destruct(p) \/ Release(p)
    \/ \E o \in Objects : MakeUnique(p, o)
    \/ \E o \in raw : Construct(p, o)
    \/ \E o \in raw \cup {Null} : Reset(p, o) \/ SwapPointer(p, o)
    \/ \E q \in Pointers : MoveConstruct(p, q) \/ MoveAssign(p, q) \/ Swap(p, q)

Spec == Init /\ [][Next]_vars

-----------------------------------------------------------------------------
(* What is checked.                                                         *)

(* Every object is deleted once at most, whatever pointers it went through. *)
DeletedOnce == \A o \in Objects : object[o] # "deleted twice"

=============================================================================
