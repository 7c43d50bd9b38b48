------------------------------ MODULE SharedPtr ------------------------------
(***************************************************************************)
(* tpp::SharedPtr and tpp::WeakPtr (include/toypp/sharedptr.hpp).           *)
(*                                                                          *)
(* A handle is a variable of one of the two types; what it holds is its     *)
(* _shared, the control block (SharedPtrShared), whose address also stands  *)
(* for the object: _ptr and _shared are null together and travel together.  *)
(* Every call works on a temporary that is swapped with the handle it is    *)
(* for and then destroyed.  Each access to a counter of a block is a step,  *)
(* and so are the deleter and the delete of the block.                      *)
(*                                                                          *)
(* Different handles of one object may be used by several threads at once,  *)
(* and one handle too as long as nobody changes it; more is not promised by *)
(* the class, and a call begins only where that is so.                      *)
(***************************************************************************)
EXTENDS Naturals, FiniteSets

CONSTANTS
  Threads,
  Strong,     (* handles of type SharedPtr                                  *)
  Weak,       (* handles of type WeakPtr                                    *)
  Blocks,     (* addresses of control blocks, used again after a delete     *)
  Null        (* nullptr; no handle                                         *)

Handles == Strong \cup Weak

ASSUME SharedPtrAssumption ==
  /\ Strong \cap Weak = {}
  /\ Threads \cap Handles = {}
  /\ Null \notin Blocks \cup Handles
  /\ IsFiniteSet(Threads)
  /\ IsFiniteSet(Handles)

VARIABLES
  shared,          (* _shared of each handle                                *)
  temp,            (* _shared of the temporary of each thread               *)
  pc,
  dst, src,        (* the handles of the call a thread is in                *)
  refcount,        (* the local variable of lock()                          *)
  allocated,       (* the blocks that exist                                 *)
  object,          (* "none", "alive" or "deleted": the object of a block   *)
  ptr_refcount, shared_refcount

handleVars == <<shared, temp>>
blockVars  == <<allocated, object, ptr_refcount, shared_refcount>>
callVars   == <<dst, src>>
vars == <<handleVars, blockVars, callVars, pc, refcount>>

Init ==
  /\ shared = [h \in Handles |-> Null]
  /\ temp = [th \in Threads |-> Null]
  /\ pc = [th \in Threads |-> "idle"]
  /\ dst = [th \in Threads |-> Null]
  /\ src = [th \in Threads |-> Null]
  /\ refcount = [th \in Threads |-> 0]
  /\ allocated = {}
  /\ object = [b \in Blocks |-> "none"]
  /\ ptr_refcount = [b \in Blocks |-> 0]
  /\ shared_refcount = [b \in Blocks |-> 0]

Goto(th, from, to) == pc[th] = from /\ pc' = [pc EXCEPT ![th] = to]

-----------------------------------------------------------------------------
(* The calls.                                                               *)

Reads(th, g)  == \A u \in Threads \ {th} : dst[u] # g
Writes(th, h) == \A u \in Threads \ {th} : h \notin {dst[u], src[u]}

(* A call of th on h, with the argument g (Null if it has none).            *)
Begin(th, h, g, next) ==
  /\ Goto(th, "idle", next)
  /\ dst' = [dst EXCEPT ![th] = h]
  /\ src' = [src EXCEPT ![th] = g]
  /\ Writes(th, h)

(* SharedPtr(ptr, deleter), make_shared, and reset(ptr, deleter), whose     *)
(* temporary is built with a new block, or with none if ptr is null.        *)
Reset(th) ==
  /\ \E h \in Strong : Begin(th, h, Null, "swap")
  /\ \/ \E b \in Blocks \ allocated :
          /\ temp' = [temp EXCEPT ![th] = b]
          /\ allocated' = allocated \cup {b}
          /\ object' = [object EXCEPT ![b] = "alive"]
          /\ ptr_refcount' = [ptr_refcount EXCEPT ![b] = 1]
          /\ shared_refcount' = [shared_refcount EXCEPT ![b] = 1]
     \/ UNCHANGED <<temp, blockVars>>
  /\ UNCHANGED <<shared, refcount>>

(* Copy construction and copy assignment, between handles of one type and   *)
(* from a SharedPtr to a WeakPtr.  An empty argument has no block to count. *)
CopyFrom(th, h, g, first) ==
  /\ Reads(th, g)
  /\ Begin(th, h, g, IF shared[g] = Null THEN "swap" ELSE first)
  /\ temp' = [temp EXCEPT ![th] = shared[g]]
  /\ UNCHANGED <<shared, blockVars, refcount>>

Copy(th) ==
  \/ \E h, g \in Strong : CopyFrom(th, h, g, "inc_ptr")
  \/ \E h \in Weak, g \in Handles : CopyFrom(th, h, g, "inc_shared")

(* Move construction and move assignment: std::exchange empties the         *)
(* argument at once, and the call does not look at it again.                *)
MoveFrom(th, h, g) ==
  /\ Writes(th, g)
  /\ Begin(th, h, Null, "swap")
  /\ temp' = [temp EXCEPT ![th] = shared[g]]
  /\ shared' = [shared EXCEPT ![g] = Null]
  /\ UNCHANGED <<blockVars, refcount>>

Move(th) ==
  \/ \E h, g \in Strong : MoveFrom(th, h, g)
  \/ \E h, g \in Weak : MoveFrom(th, h, g)

(* What destroy() of a handle of h's type does first with a block b.        *)
AfterSwap(h, b) ==
  IF b = Null THEN "return" ELSE IF h \in Strong THEN "dec_ptr" ELSE "dec_shared"

(* ~SharedPtr and ~WeakPtr; the variable may be constructed again later.    *)
Destruct(th) ==
  \E h \in Handles :
    /\ Begin(th, h, Null, AfterSwap(h, shared[h]))
    /\ temp' = [temp EXCEPT ![th] = shared[h]]
    /\ shared' = [shared EXCEPT ![h] = Null]
    /\ UNCHANGED <<blockVars, refcount>>

(* h = g.lock(): an empty handle locks to an empty handle.                  *)
Lock(th) ==
  \E h \in Strong, g \in Weak :
    /\ Reads(th, g)
    /\ Begin(th, h, g, IF shared[g] = Null THEN "swap" ELSE "load")
    /\ temp' = [temp EXCEPT ![th] = shared[g]]
    /\ UNCHANGED <<shared, blockVars, refcount>>

Call(th) == Reset(th) \/ Copy(th) \/ Move(th) \/ Destruct(th) \/ Lock(th)

-----------------------------------------------------------------------------
(* The steps of a call.                                                     *)

(* ptr_refcount.fetch_add(1) of a copy.                                     *)
IncPtr(th) ==
  /\ Goto(th, "inc_ptr", "inc_shared")
  /\ ptr_refcount' = [ptr_refcount EXCEPT ![temp[th]] = @ + 1]
  /\ UNCHANGED <<handleVars, allocated, object, shared_refcount, callVars, refcount>>

(* shared_refcount.fetch_add(1) of a copy and of lock().                    *)
IncShared(th) ==
  /\ Goto(th, "inc_shared", "swap")
  /\ shared_refcount' = [shared_refcount EXCEPT ![temp[th]] = @ + 1]
  /\ UNCHANGED <<handleVars, allocated, object, ptr_refcount, callVars, refcount>>

(* A plausible bug: the test for 0 is made after the first load only, where *)
(* the loop of line 270 makes it again for each count it sees.              *)
Saw_TestsOnce(th, from, n) ==
  /\ refcount' = [refcount EXCEPT ![th] = n]
  /\ Goto(th, from, IF n = 0 /\ from = "load" THEN "swap" ELSE "cas")
  /\ temp' = IF n = 0 /\ from = "load" THEN [temp EXCEPT ![th] = Null] ELSE temp
  /\ UNCHANGED <<shared, blockVars, callVars>>

(* lock() saw the count n: it gives up on 0, and tries to raise it if not.  *)
Saw(th, from, n) ==
  /\ refcount' = [refcount EXCEPT ![th] = n]
  /\ Goto(th, from, IF n = 0 THEN "swap" ELSE "cas")
  /\ temp' = IF n = 0 THEN [temp EXCEPT ![th] = Null] ELSE temp
  /\ UNCHANGED <<shared, blockVars, callVars>>

Load(th) ==
  /\ pc[th] = "load"
  /\ Saw(th, "load", ptr_refcount[temp[th]])

(* A plausible bug: the count is stored without comparing it first.         *)
CasSucceeds_Adds(th) ==
  /\ Goto(th, "cas", "inc_shared")
  /\ ptr_refcount' = [ptr_refcount EXCEPT ![temp[th]] = refcount[th] + 1]
  /\ UNCHANGED <<handleVars, allocated, object, shared_refcount, callVars, refcount>>

CasFails(th) ==
  /\ pc[th] = "cas"
  /\ ptr_refcount[temp[th]] # refcount[th]
  /\ Saw(th, "cas", ptr_refcount[temp[th]])

CasSucceeds(th) ==
  /\ Goto(th, "cas", "inc_shared")
  /\ ptr_refcount[temp[th]] = refcount[th]
  /\ ptr_refcount' = [ptr_refcount EXCEPT ![temp[th]] = refcount[th] + 1]
  /\ UNCHANGED <<handleVars, allocated, object, shared_refcount, callVars, refcount>>

(* The temporary is swapped with the handle.                                *)
Swap(th) ==
  /\ Goto(th, "swap", AfterSwap(dst[th], shared[dst[th]]))
  /\ shared' = [shared EXCEPT ![dst[th]] = temp[th]]
  /\ temp' = [temp EXCEPT ![th] = shared[dst[th]]]
  /\ UNCHANGED <<blockVars, callVars, refcount>>

(* A plausible bug: fetch_sub is taken to return the new count.             *)
DecPtr_TestsNewCount(th) ==
  /\ Goto(th, "dec_ptr", IF ptr_refcount[temp[th]] = 0 THEN "deleter" ELSE "dec_shared")
  /\ ptr_refcount' = [ptr_refcount EXCEPT ![temp[th]] = @ - 1]
  /\ UNCHANGED <<handleVars, allocated, object, shared_refcount, callVars, refcount>>

(* ptr_refcount.fetch_sub(1) of ~SharedPtr: the last one runs the deleter.  *)
DecPtr(th) ==
  /\ Goto(th, "dec_ptr", IF ptr_refcount[temp[th]] = 1 THEN "deleter" ELSE "dec_shared")
  /\ ptr_refcount' = [ptr_refcount EXCEPT ![temp[th]] = @ - 1]
  /\ UNCHANGED <<handleVars, allocated, object, shared_refcount, callVars, refcount>>

Deleter(th) ==
  /\ Goto(th, "deleter", "dec_shared")
  /\ object' = [object EXCEPT ![temp[th]] = "deleted"]
  /\ UNCHANGED <<handleVars, allocated, ptr_refcount, shared_refcount, callVars, refcount>>

(* A plausible bug: the block goes with the object, whoever watches it.     *)
DecShared_FollowsObject(th) ==
  /\ Goto(th, "dec_shared", IF ptr_refcount[temp[th]] = 0 THEN "delete" ELSE "return")
  /\ shared_refcount' = [shared_refcount EXCEPT ![temp[th]] = @ - 1]
  /\ UNCHANGED <<handleVars, allocated, object, ptr_refcount, callVars, refcount>>

(* shared_refcount.fetch_sub(1): the last one deletes the block.            *)
DecShared(th) ==
  /\ Goto(th, "dec_shared", IF shared_refcount[temp[th]] = 1 THEN "delete" ELSE "return")
  /\ shared_refcount' = [shared_refcount EXCEPT ![temp[th]] = @ - 1]
  /\ UNCHANGED <<handleVars, allocated, object, ptr_refcount, callVars, refcount>>

DeleteBlock(th) ==
  /\ Goto(th, "delete", "return")
  /\ allocated' = allocated \ {temp[th]}
  /\ object' = [object EXCEPT ![temp[th]] = "none"]
  /\ UNCHANGED <<handleVars, ptr_refcount, shared_refcount, callVars, refcount>>

Return(th) ==
  /\ Goto(th, "return", "idle")
  /\ temp' = [temp EXCEPT ![th] = Null]
  /\ dst' = [dst EXCEPT ![th] = Null]
  /\ src' = [src EXCEPT ![th] = Null]
  /\ refcount' = [refcount EXCEPT ![th] = 0]
  /\ UNCHANGED <<shared, blockVars>>

Step(th) ==
  \/ IncPtr(th) \/ IncShared(th)
  \/ Load(th) \/ CasFails(th) \/ CasSucceeds(th)
  \/ Swap(th)
  \/ DecPtr(th) \/ Deleter(th) \/ DecShared(th) \/ DeleteBlock(th)
  \/ Return(th)

Next == \E th \in Threads : Call(th) \/ Step(th)

Spec == Init /\ [][Next]_vars

(* A thread that is in a call goes on; whether it calls again is its own    *)
(* affair.                                                                  *)
FairSpec == Spec /\ \A th \in Threads : WF_vars(Step(th))

-----------------------------------------------------------------------------
(* What is checked.                                                         *)

(* The steps of a thread whose temporary is counted in ptr_refcount, and in *)
(* shared_refcount.                                                         *)
OwnsObject(th) ==
  /\ temp[th] # Null
  /\ \/ pc[th] = "dec_ptr"
     \/ pc[th] \in {"inc_shared", "swap"} /\ dst[th] \in Strong

KeepsBlock(th) == temp[th] # Null /\ pc[th] \in {"swap", "dec_ptr", "deleter", "dec_shared"}

StrongHolders(b) ==
  {h \in Strong : shared[h] = b} \cup {th \in Threads : OwnsObject(th) /\ temp[th] = b}

Holders(b) ==
  {h \in Handles : shared[h] = b} \cup {th \in Threads : KeepsBlock(th) /\ temp[th] = b}

(* The types, and no counter below zero (std::size_t would wrap around).    *)
TypeOK ==
  /\ shared \in [Handles -> Blocks \cup {Null}]
  /\ temp \in [Threads -> Blocks \cup {Null}]
  /\ pc \in [Threads -> {"idle", "inc_ptr", "inc_shared", "load", "cas", "swap",
                         "dec_ptr", "deleter", "dec_shared", "delete", "return"}]
  /\ dst \in [Threads -> Handles \cup {Null}]
  /\ src \in [Threads -> Handles \cup {Null}]
  /\ refcount \in [Threads -> Nat]
  /\ allocated \subseteq Blocks
  /\ object \in [Blocks -> {"none", "alive", "deleted"}]
  /\ ptr_refcount \in [Blocks -> Nat]
  /\ shared_refcount \in [Blocks -> Nat]

(* Both counters are exact at every step of every interleaving: each block  *)
(* counts the SharedPtrs, and the handles of both types, that hold it, the  *)
(* temporaries of unfinished calls included.  use_count() is no more and no *)
(* less, and a block nobody holds is gone or is being deleted.              *)
CountsExact ==
  /\ TypeOK
  /\ \A b \in Blocks :
       /\ ptr_refcount[b] = Cardinality(StrongHolders(b))
       /\ shared_refcount[b] = Cardinality(Holders(b))
       /\ b \in allocated => \/ Holders(b) # {}
                             \/ \E th \in Threads : pc[th] = "delete" /\ temp[th] = b

(* No use after free: the object of a SharedPtr is alive, and the block is  *)
(* there whenever a handle holds it or a step is about to touch it.  In     *)
(* particular lock() may look at a block whose object just died.            *)
NoUseAfterFree ==
  /\ \A b \in Blocks : StrongHolders(b) # {} => object[b] = "alive"
  /\ \A h \in Handles : shared[h] \in allocated \cup {Null}
  /\ \A th \in Threads :
       pc[th] \notin {"idle", "return"} => temp[th] \in allocated \cup {Null}

(* The deleter runs once for each object, when the last SharedPtr let go,   *)
(* and lock() revives no object: the handles implement Ownership.           *)
Abstract == INSTANCE Ownership WITH
  Objects <- Blocks,
  Owners <- Handles \cup Threads,
  owners <- [b \in Blocks |-> StrongHolders(b)]

OwnershipSpec == Abstract!Spec

(* The deleter does run: an object without a SharedPtr is deleted, however  *)
(* many WeakPtrs watch it.                                                  *)
ExpiredIsDeleted ==
  \A b \in Blocks : (object[b] = "alive" /\ ptr_refcount[b] = 0) ~> (object[b] # "alive")

=============================================================================
