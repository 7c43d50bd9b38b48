------------------------------- MODULE MTQueue -------------------------------
(***************************************************************************)
(* tpp::MTQueue (include/toypp/threaded/queue.hpp): a singly linked list    *)
(* under a mutex.  The counter size_ is atomic and is also read without the *)
(* mutex, by size() and by the shortcut at the start of pop(), so its       *)
(* updates are steps of their own; what else happens under the mutex is     *)
(* seen by nobody until it is released.  Nodes are addresses that are       *)
(* allocated, freed and used again.                                         *)
(***************************************************************************)
EXTENDS LinkedList

CONSTANTS
  Threads,
  Owner,      (* the thread that destroys the queue                         *)
  Values,
  NoValue,    (* no argument; what a freed or fresh node holds              *)
  NoThread,
  Pending, Empty, Done, Thrown,
  MaxOps      (* bound: calls of each thread                                *)

ASSUME QueueAssumption ==
  /\ Owner \in Threads
  /\ NoThread \notin Threads
  /\ MaxOps \in Nat

ASSUME ResultAssumption ==
  /\ Pending \notin {Empty, Done, Thrown}
  /\ Pending \notin Values
  /\ Pending \notin Nat

VARIABLES
  mutex_, head_, tail_, size_,
  allocated,  (* the nodes that exist                                       *)
  next, data, (* Node's members, for each address                           *)
  pc,
  op, arg,    (* the call of each thread and its argument                   *)
  node,       (* push's `node` and pop's `node_to_delete`                   *)
  out,        (* what the call returns: pop's `ret`                         *)
  ops         (* counts against MaxOps                                      *)

queueVars == <<mutex_, head_, tail_, size_>>
heapVars  == <<allocated, next, data>>
vars == <<queueVars, heapVars, pc, op, arg, node, out, ops>>

Locked == {"link", "count", "take", "uncount", "zero", "free"}

Goto(th, from, to) == pc[th] = from /\ pc' = [pc EXCEPT ![th] = to]

Lock(th, from, to) ==
  /\ Goto(th, from, to)
  /\ mutex_ = NoThread
  /\ mutex_' = th
  /\ UNCHANGED <<head_, tail_, size_, heapVars, op, arg, node, out, ops>>

Respond(th, result) == out' = [out EXCEPT ![th] = result]

(* delete: what a freed node held may be read by nobody.                    *)
Free(n) ==
  /\ allocated' = allocated \ {n}
  /\ data' = [data EXCEPT ![n] = NoValue]
  /\ next' = [next EXCEPT ![n] = Null]

Init ==
  /\ mutex_ = NoThread
  /\ head_ = Null
  /\ tail_ = Null
  /\ size_ = 0
  /\ allocated = {}
  /\ next = [n \in Nodes |-> Null]
  /\ data = [n \in Nodes |-> NoValue]
  /\ pc = [th \in Threads |-> "idle"]
  /\ op = [th \in Threads |-> "idle"]
  /\ arg = [th \in Threads |-> NoValue]
  /\ node = [th \in Threads |-> Null]
  /\ out = [th \in Threads |-> Pending]
  /\ ops = [th \in Threads |-> 0]

-----------------------------------------------------------------------------
(* Nobody calls a queue that is being destroyed.                            *)
Call(th, name, v, start) ==
  /\ op[Owner] # "destroy"
  /\ ops[th] < MaxOps
  /\ ops' = [ops EXCEPT ![th] = @ + 1]
  /\ Goto(th, "idle", start)
  /\ op' = [op EXCEPT ![th] = name]
  /\ arg' = [arg EXCEPT ![th] = v]
  /\ UNCHANGED <<queueVars, heapVars, node, out>>

CallPush(th, v) == Call(th, "push", v, "new")
CallPop(th)     == Call(th, "pop", NoValue, "check")
CallClear(th)   == Call(th, "clear", NoValue, "clear")
CallSize(th)    == Call(th, "size", NoValue, "size")

Return(th) ==
  /\ Goto(th, "return", "idle")
  /\ op' = [op EXCEPT ![th] = "idle"]
  /\ arg' = [arg EXCEPT ![th] = NoValue]
  /\ Respond(th, Pending)
  /\ UNCHANGED <<queueVars, heapVars, node, ops>>

-----------------------------------------------------------------------------
(* push and push_node_unsafe.                                               *)

PushNew(th) ==
  \E n \in Nodes \ allocated :
    /\ Goto(th, "new", "push")
    /\ allocated' = allocated \cup {n}
    /\ data' = [data EXCEPT ![n] = arg[th]]
    /\ next' = [next EXCEPT ![n] = Null]
    /\ node' = [node EXCEPT ![th] = n]
    /\ UNCHANGED <<queueVars, op, arg, out, ops>>

(* The allocation, or the copy of the value, throws.                        *)
PushThrows(th) ==
  /\ Goto(th, "new", "return")
  /\ Respond(th, Thrown)
  /\ UNCHANGED <<queueVars, heapVars, op, arg, node, ops>>

PushLock(th) == Lock(th, "push", "link")

PushLink(th) ==
  /\ Goto(th, "link", "count")
  /\ tail_' = node[th]
  /\ \/ /\ tail_ = Null
        /\ head_' = node[th]
        /\ UNCHANGED next
     \/ /\ tail_ # Null
        /\ next' = [next EXCEPT ![tail_] = node[th]]
        /\ UNCHANGED head_
  /\ UNCHANGED <<mutex_, size_, allocated, data, op, arg, node, out, ops>>

PushCount(th) ==
  /\ Goto(th, "count", "return")
  /\ size_' = size_ + 1
  /\ mutex_' = NoThread
  /\ Respond(th, Done)
  /\ node' = [node EXCEPT ![th] = Null]
  /\ UNCHANGED <<head_, tail_, heapVars, op, arg, ops>>

-----------------------------------------------------------------------------
(* pop.                                                                     *)

PopCheck(th) ==
  /\ \/ size_ = 0 /\ Goto(th, "check", "return") /\ Respond(th, Empty)
     \/ size_ # 0 /\ Goto(th, "check", "pop") /\ UNCHANGED out
  /\ UNCHANGED <<queueVars, heapVars, op, arg, node, ops>>

PopLock(th) == Lock(th, "pop", "take")

PopEmpty(th) ==
  /\ Goto(th, "take", "return")
  /\ head_ = Null
  /\ mutex_' = NoThread
  /\ Respond(th, Empty)
  /\ UNCHANGED <<head_, tail_, size_, heapVars, op, arg, node, ops>>

(* Moving the value out of the node throws: the lock is released, and the   *)
(* queue is as it was.                                                      *)
PopThrows(th) ==
  /\ Goto(th, "take", "return")
  /\ head_ # Null
  /\ mutex_' = NoThread
  /\ Respond(th, Thrown)
  /\ UNCHANGED <<head_, tail_, size_, heapVars, op, arg, node, ops>>

(* A plausible bug: tail_ still points to the node when it was the last one.   *)
PopTake_KeepsTail(th) ==
  /\ Goto(th, "take", "uncount")
  /\ head_ # Null
  /\ Respond(th, data[head_])
  /\ node' = [node EXCEPT ![th] = head_]
  /\ head_' = next[head_]
  /\ UNCHANGED <<mutex_, tail_, size_, heapVars, op, arg, ops>>

PopTake(th) ==
  /\ Goto(th, "take", "uncount")
  /\ head_ # Null
  /\ Respond(th, data[head_])
  /\ node' = [node EXCEPT ![th] = head_]
  /\ head_' = next[head_]
  /\ tail_' = IF next[head_] = Null THEN Null ELSE tail_
  /\ UNCHANGED <<mutex_, size_, heapVars, op, arg, ops>>

PopCount(th) ==
  /\ Goto(th, "uncount", "delete")
  /\ size_' = size_ - 1
  /\ mutex_' = NoThread
  /\ UNCHANGED <<head_, tail_, heapVars, op, arg, node, out, ops>>

(* The node is deleted after the unlock, ...                                *)
DeleteTaken(th) ==
  /\ Goto(th, "delete", "return")
  /\ Free(node[th])
  /\ node' = [node EXCEPT ![th] = Null]
  /\ UNCHANGED <<queueVars, op, arg, ops>>

PopDelete(th) == DeleteTaken(th) /\ UNCHANGED out

(* ... and `return ret` moves the value once more, into the caller's object: *)
(* ret is not that object itself, since a return in its scope (line 83)     *)
(* gives another one.  A move that throws here loses the value: it is in    *)
(* the queue no longer, and its node is gone.                               *)
PopLoses(th) == DeleteTaken(th) /\ Respond(th, Thrown)

-----------------------------------------------------------------------------
(* clear, the destructor, which calls it, and size.                         *)

(* A plausible bug: clear runs without the mutex.                           *)
ClearLock_Missing(th) ==
  /\ Goto(th, "clear", "zero")
  /\ UNCHANGED <<queueVars, heapVars, op, arg, node, out, ops>>

ClearLock(th) == Lock(th, "clear", "zero")

(* A plausible bug: clear does not reset the counter.                        *)
ClearZero_KeepsSize(th) ==
  /\ Goto(th, "zero", "free")
  /\ tail_' = Null
  /\ UNCHANGED <<mutex_, head_, size_, heapVars, op, arg, node, out, ops>>

ClearZero(th) ==
  /\ Goto(th, "zero", "free")
  /\ size_' = 0
  /\ tail_' = Null
  /\ UNCHANGED <<mutex_, head_, heapVars, op, arg, node, out, ops>>

(* A plausible bug: head_->next is read after head_ was deleted.             *)
ClearFree_ReadsFreed(th) ==
  /\ Goto(th, "free", "free")
  /\ head_ # Null
  /\ Free(head_)
  /\ head_' = next'[head_]
  /\ UNCHANGED <<mutex_, tail_, size_, op, arg, node, out, ops>>

ClearFree(th) ==
  /\ Goto(th, "free", "free")
  /\ head_ # Null
  /\ Free(head_)
  /\ head_' = next[head_]
  /\ UNCHANGED <<mutex_, tail_, size_, op, arg, node, out, ops>>

(* A plausible bug: the mutex stays locked when clear returns.              *)
ClearEnd_KeepsLock(th) ==
  /\ Goto(th, "free", IF op[th] = "destroy" THEN "gone" ELSE "return")
  /\ head_ = Null
  /\ Respond(th, Done)
  /\ UNCHANGED <<queueVars, heapVars, op, arg, node, ops>>

ClearEnd(th) ==
  /\ Goto(th, "free", IF op[th] = "destroy" THEN "gone" ELSE "return")
  /\ head_ = Null
  /\ mutex_' = NoThread
  /\ Respond(th, Done)
  /\ UNCHANGED <<head_, tail_, size_, heapVars, op, arg, node, ops>>

SizeLoad(th) ==
  /\ Goto(th, "size", "return")
  /\ Respond(th, size_)
  /\ UNCHANGED <<queueVars, heapVars, op, arg, node, ops>>

(* The queue is destroyed when no call is under way.                        *)
Destroy ==
  /\ \A th \in Threads : pc[th] = "idle"
  /\ Goto(Owner, "idle", "clear")
  /\ op' = [op EXCEPT ![Owner] = "destroy"]
  /\ UNCHANGED <<queueVars, heapVars, arg, node, out, ops>>

Terminated ==
  /\ pc[Owner] = "gone"
  /\ UNCHANGED vars

-----------------------------------------------------------------------------
Push(th)  == PushNew(th) \/ PushThrows(th) \/ PushLock(th) \/ PushLink(th) \/ PushCount(th)
Pop(th)   == \/ PopCheck(th) \/ PopLock(th) \/ PopEmpty(th) \/ PopThrows(th)
             \/ PopTake(th) \/ PopCount(th) \/ PopDelete(th) \/ PopLoses(th)
Clear(th) == ClearLock(th) \/ ClearZero(th) \/ ClearFree(th) \/ ClearEnd(th)

Step(th) == Push(th) \/ Pop(th) \/ Clear(th) \/ SizeLoad(th) \/ Return(th)

Next ==
  \/ \E th \in Threads :
       \/ Step(th)
       \/ \E v \in Values : CallPush(th, v)
       \/ CallPop(th) \/ CallClear(th) \/ CallSize(th)
  \/ Destroy
  \/ Terminated

Spec == Init /\ [][Next]_vars

(* A call that has begun goes on: the threads are scheduled, and the mutex  *)
(* is released by its holder.  The calls are bounded in number, so weak     *)
(* fairness is enough to get the mutex.                                     *)
FairSpec == Spec /\ \A th \in Threads : WF_vars(Step(th))

-----------------------------------------------------------------------------
(* Properties.                                                              *)

(* The types; size_, a std::size_t, never goes below 0.                     *)
TypeOK ==
  /\ mutex_ \in Threads \cup {NoThread}
  /\ head_ \in Nodes \cup {Null}
  /\ tail_ \in Nodes \cup {Null}
  /\ size_ \in Nat
  /\ allocated \in SUBSET Nodes
  /\ next \in [Nodes -> Nodes \cup {Null}]
  /\ data \in [Nodes -> Values \cup {NoValue}]
  /\ pc \in [Threads -> {"idle", "new", "push", "check", "pop", "delete", "clear", "size",
                         "return", "gone"} \cup Locked]
  /\ op \in [Threads -> {"idle", "push", "pop", "clear", "size", "destroy"}]
  /\ arg \in [Threads -> Values \cup {NoValue}]
  /\ node \in [Threads -> Nodes \cup {Null}]
  /\ ops \in [Threads -> 0..MaxOps]

List == Along(next, head_)
Linked == {List[i] : i \in DOMAIN List}

(* The list never holds a freed node and tail_ is its last node (clear      *)
(* resets tail_ first): push writes tail_->next, pop and clear read         *)
(* head_->next, and none of them touches memory that was deleted.           *)
ListIntact ==
  /\ TypeOK
  /\ Linked \subseteq allocated
  /\ \/ tail_ = IF List = <<>> THEN Null ELSE List[Len(List)]
     \/ mutex_ # NoThread /\ pc[mutex_] = "free"

(* No node is leaked and none is deleted twice: a node that exists is in the *)
(* list or is the one some call is about to link or to delete, never both;   *)
(* so nothing is left when the destructor, a last clear, has emptied the list.*)
OwnedOnce ==
  LET held == {th \in Threads : node[th] # Null}
      inHand == {th \in held : pc[th] # "count"}
  IN  /\ allocated = Linked \cup {node[th] : th \in held}
      /\ \A th \in inHand : node[th] \notin Linked
      /\ \A t1, t2 \in held : node[t1] = node[t2] => t1 = t2

(* The queue as the callers see it: a value is in from ++size_ to --size_,   *)
(* and clear empties it as it stores 0.                                      *)
Holder(points) == mutex_ # NoThread /\ pc[mutex_] \in points

Items ==
  LET values == [i \in DOMAIN List |-> data[List[i]]]
  IN  CASE Holder({"count"})   -> SubSeq(values, 1, Len(values) - 1)
        [] Holder({"uncount"}) -> <<out[mutex_]>> \o values
        [] Holder({"free"})    -> <<>>
        [] OTHER               -> values

(* A call takes effect before it returns: pop at --size_, clear at size_ = 0. *)
(* After its effect, and before its return, a pop may still throw.          *)
Effective ==
  [th \in Threads |->
     IF pc[th] \in {"uncount", "clear", "zero"} THEN Pending
     ELSE IF pc[th] \in {"free", "gone"} THEN Done
     ELSE out[th]]

(* The destructor is a last clear.                                          *)
Operation == [th \in Threads |-> IF op[th] = "destroy" THEN "clear" ELSE op[th]]

Fifo == INSTANCE FifoQueue WITH items <- Items, op <- Operation, out <- Effective

FifoSpec == Fifo!Spec

(* Every call returns, and so does the destructor: nobody keeps the mutex.  *)
CallsReturn == \A th \in Threads : (pc[th] # "idle") ~> (pc[th] \in {"idle", "gone"})
=============================================================================
