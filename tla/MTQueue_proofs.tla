---------------------------- MODULE MTQueue_proofs ----------------------------
(***************************************************************************)
(* Proofs about MTQueue, for any sets of threads, values and node addresses *)
(* that satisfy QueueAssumption and any bound on the calls.                 *)
(*                                                                          *)
(* The list is written out: there is a sequence p of n different nodes, the *)
(* first one head_, each linked to the next and the last to nullptr (Chain),*)
(* and tail_ and size_ are what the holder of the mutex leaves them at (Ends).*)
(* Every node that exists is in p or in the hands of one call, never both   *)
(* (Apart, NodeInv).  push adds a last node to p, pop and clear take the first*)
(* one away, and nobody but the mutex holder changes anything (MutexInv): that*)
(* is the inductive invariant.                                              *)
(*                                                                          *)
(* The model's List walks along next from head_.  That the walk is p is shown*)
(* by the first place at which it would not be (LeastElement): the theorems *)
(* about List, Linked and Items are then theorems about p.                  *)
(*                                                                          *)
(* For the refinement, CallInv says what a call knows between its steps, and*)
(* each step of the list is one of the steps of FifoQueue or changes nothing a*)
(* caller sees: push takes effect as it increments size_, pop as it decrements*)
(* it, clear as it stores 0.                                                *)
(***************************************************************************)
EXTENDS MTQueue, LinkedList_proofs

(* The points of a call at which it has a node of its own; at "count" the   *)
(* node is in the list already.                                             *)
InHand == {"push", "link", "uncount", "delete"}

(* The list, written out: n nodes, p[1] the first.                          *)
Chain(p, n) ==
  /\ Links(next, p, n)
  /\ head_ = IF n = 0 THEN Null ELSE p[1]

(* What the holder of the mutex has left to do.                             *)
Ends(p, n) ==
  /\ tail_ = IF n = 0 \/ Holder({"free"}) THEN Null ELSE p[n]
  /\ size_ = CASE Holder({"free"})    -> 0
               [] Holder({"count"})   -> n - 1
               [] Holder({"uncount"}) -> n + 1
               [] OTHER               -> n
  /\ \A th \in Threads : pc[th] = "count" => n # 0 /\ node[th] = p[n]

(* The nodes in hand are not in the list.                                   *)
Apart(p, n) ==
  /\ \A th \in Threads : pc[th] \in InHand => \A i \in 1..n : p[i] # node[th]
  /\ allocated = {p[i] : i \in 1..n} \cup {node[th] : th \in {t \in Threads : node[t] # Null}}

(* The code between lock() and unlock() is run by the mutex's holder only.  *)
MutexInv == \A th \in Threads : pc[th] \in Locked <=> mutex_ = th

(* A call has a node exactly while it is about to link or to delete it; the *)
(* new one ends the list, and no two calls have the same node.              *)
NodeInv ==
  /\ \A th \in Threads : node[th] # Null <=> pc[th] \in InHand \cup {"count"}
  /\ \A th \in Threads : pc[th] \in {"push", "link"} => next[node[th]] = Null
  /\ \A t1, t2 \in Threads : node[t1] # Null /\ node[t1] = node[t2] => t1 = t2

(* What a call knows at each of its steps: its name, its argument, what its *)
(* node holds, and whether it has an answer yet.                            *)
CallAt(th) ==
  /\ pc[th] = "idle" <=> op[th] = "idle"
  /\ pc[th] = "idle" => arg[th] = NoValue
  /\ pc[th] \in {"new", "push", "link", "count"} => op[th] = "push" /\ arg[th] \in Values
  /\ pc[th] \in {"push", "link", "count"} => data[node[th]] = arg[th]
  /\ pc[th] \in {"check", "pop", "take", "uncount", "delete"} => op[th] = "pop"
  /\ pc[th] \in {"clear", "zero", "free"} => op[th] \in {"clear", "destroy"}
  /\ pc[th] = "size" => op[th] = "size"
  /\ pc[th] \notin {"uncount", "delete", "return", "gone"} <=> out[th] = Pending
  /\ pc[th] \in {"uncount", "delete"} => out[th] \in Values

(* A node that exists holds a value that was pushed.                        *)
CallInv ==
  /\ \A x \in allocated : data[x] \in Values
  /\ DOMAIN out = Threads
  /\ \A th \in Threads : CallAt(th)

(* The inductive invariant.                                                 *)
IInv ==
  /\ TypeOK
  /\ MutexInv
  /\ NodeInv
  /\ \E n \in Nat : \E p \in [1..n -> Nodes] : Chain(p, n) /\ Ends(p, n) /\ Apart(p, n)

-----------------------------------------------------------------------------
USE ListAssumption, QueueAssumption

(* The invariant holds at first: no node, no mutex, ...                     *)
LEMMA InitTypes == Init => TypeOK /\ MutexInv /\ NodeInv
BY DEF Init, TypeOK, MutexInv, NodeInv, Locked, InHand

(* ... and the list of no nodes.                                            *)
LEMMA InitList == Init => \E n \in Nat : \E p \in [1..n -> Nodes] : Chain(p, n) /\ Ends(p, n) /\ Apart(p, n)
<1>. SUFFICES ASSUME Init
              PROVE  \E p \in [1..0 -> Nodes] : Chain(p, 0) /\ Ends(p, 0) /\ Apart(p, 0)
  OBVIOUS
<1>. DEFINE none == [i \in 1..0 |-> Null]
<1>1. none \in [1..0 -> Nodes] /\ Chain(none, 0)
  BY DEF Init, Chain, Links
<1>2. Ends(none, 0)
  BY DEF Init, Ends, Holder
<1>3. Apart(none, 0)
  <2>1. {none[i] : i \in 1..0} = {}
    OBVIOUS
  <2>. QED
    BY <2>1 DEF Init, Apart, InHand
<1>. QED
  BY <1>1, <1>2, <1>3

(* Every step keeps the types; size_ does not go below 0, for --size_ is    *)
(* reached only with a node taken from the list.                            *)
LEMMA StepTypes ==
  ASSUME TypeOK, MutexInv, NodeInv, [Next]_vars,
         \A th \in Threads : pc[th] = "uncount" => size_ # 0
  PROVE  TypeOK'
<1>. USE DEF TypeOK, Locked, Goto, Lock, Respond, Free, queueVars, heapVars
<1>1. ASSUME NEW th \in Threads, Push(th)
      PROVE  TypeOK'
  <2>1. CASE PushNew(th) BY <2>1 DEF PushNew
  <2>2. CASE PushThrows(th) BY <2>2 DEF PushThrows
  <2>3. CASE PushLock(th) BY <2>3 DEF PushLock
  <2>4. CASE PushLink(th) BY <2>4 DEF PushLink
  <2>5. CASE PushCount(th) BY <2>5 DEF PushCount
  <2>. QED BY <1>1, <2>1, <2>2, <2>3, <2>4, <2>5 DEF Push
<1>2. ASSUME NEW th \in Threads, Pop(th)
      PROVE  TypeOK'
  <2>1. CASE PopCheck(th) BY <2>1 DEF PopCheck
  <2>2. CASE PopLock(th) BY <2>2 DEF PopLock
  <2>3. CASE PopEmpty(th) BY <2>3 DEF PopEmpty
  <2>4. CASE PopThrows(th) BY <2>4 DEF PopThrows
  <2>5. CASE PopTake(th) BY <2>5 DEF PopTake
  <2>6. CASE PopCount(th) BY <2>6 DEF PopCount
  <2>7. CASE PopDelete(th) \/ PopLoses(th)
     <3>1. DeleteTaken(th)
       BY <2>7 DEF PopDelete, PopLoses
     <3>2. node[th] \in Nodes
       BY <3>1 DEF DeleteTaken, NodeInv, InHand
     <3>. QED
       BY <3>1, <3>2 DEF DeleteTaken
  <2>. QED BY <1>2, <2>1, <2>2, <2>3, <2>4, <2>5, <2>6, <2>7 DEF Pop
<1>3. ASSUME NEW th \in Threads, Clear(th)
      PROVE  TypeOK'
  <2>1. CASE ClearLock(th) BY <2>1 DEF ClearLock
  <2>2. CASE ClearZero(th) BY <2>2 DEF ClearZero
  <2>3. CASE ClearFree(th) BY <2>3 DEF ClearFree
  <2>4. CASE ClearEnd(th) BY <2>4 DEF ClearEnd
  <2>. QED BY <1>3, <2>1, <2>2, <2>3, <2>4 DEF Clear
<1>4. ASSUME NEW th \in Threads, SizeLoad(th) \/ Return(th)
      PROVE  TypeOK'
  BY <1>4 DEF SizeLoad, Return
<1>5. ASSUME NEW th \in Threads, NEW name \in {"push", "pop", "clear", "size"},
             NEW v \in Values \cup {NoValue}, NEW start \in {"new", "check", "clear", "size"},
             Call(th, name, v, start)
      PROVE  TypeOK'
  BY <1>5 DEF Call
<1>6. CASE Destroy
  BY <1>6 DEF Destroy
<1>7. CASE UNCHANGED vars
  BY <1>7 DEF vars
<1>. QED
  BY <1>1, <1>2, <1>3, <1>4, <1>5, <1>6, <1>7 DEF Next, Step, CallPush, CallPop, CallClear, CallSize, Terminated

(* lock() is entered when nobody has the mutex, and only its holder leaves. *)
LEMMA StepMutex ==
  ASSUME TypeOK, MutexInv, [Next]_vars
  PROVE  MutexInv'
<1>. USE DEF TypeOK, MutexInv, Locked, Goto, Lock
<1>1. ASSUME NEW th \in Threads, Push(th)
      PROVE  MutexInv'
  <2>1. CASE PushNew(th) BY <2>1 DEF PushNew, queueVars
  <2>2. CASE PushThrows(th) BY <2>2 DEF PushThrows, queueVars
  <2>3. CASE PushLock(th) BY <2>3 DEF PushLock
  <2>4. CASE PushLink(th) BY <2>4 DEF PushLink
  <2>5. CASE PushCount(th) BY <2>5 DEF PushCount
  <2>. QED BY <1>1, <2>1, <2>2, <2>3, <2>4, <2>5 DEF Push
<1>2. ASSUME NEW th \in Threads, Pop(th)
      PROVE  MutexInv'
  <2>1. CASE PopCheck(th) BY <2>1 DEF PopCheck, queueVars
  <2>2. CASE PopLock(th) BY <2>2 DEF PopLock
  <2>3. CASE PopEmpty(th) BY <2>3 DEF PopEmpty
  <2>4. CASE PopThrows(th) BY <2>4 DEF PopThrows
  <2>5. CASE PopTake(th) BY <2>5 DEF PopTake
  <2>6. CASE PopCount(th) BY <2>6 DEF PopCount
  <2>7. CASE PopDelete(th) \/ PopLoses(th) BY <2>7 DEF PopDelete, PopLoses, DeleteTaken, queueVars
  <2>. QED BY <1>2, <2>1, <2>2, <2>3, <2>4, <2>5, <2>6, <2>7 DEF Pop
<1>3. ASSUME NEW th \in Threads, Clear(th)
      PROVE  MutexInv'
  <2>1. CASE ClearLock(th) BY <2>1 DEF ClearLock
  <2>2. CASE ClearZero(th) BY <2>2 DEF ClearZero
  <2>3. CASE ClearFree(th) BY <2>3 DEF ClearFree
  <2>4. CASE ClearEnd(th) BY <2>4 DEF ClearEnd
  <2>. QED BY <1>3, <2>1, <2>2, <2>3, <2>4 DEF Clear
<1>4. ASSUME NEW th \in Threads, SizeLoad(th) \/ Return(th)
      PROVE  MutexInv'
  BY <1>4 DEF SizeLoad, Return, queueVars
<1>5. ASSUME NEW th \in Threads, NEW name, NEW v, NEW start \in {"new", "check", "clear", "size"},
             Call(th, name, v, start)
      PROVE  MutexInv'
  BY <1>5 DEF Call, queueVars
<1>6. CASE Destroy
  BY <1>6 DEF Destroy, queueVars
<1>7. CASE UNCHANGED vars
  BY <1>7 DEF vars, queueVars
<1>. QED
  BY <1>1, <1>2, <1>3, <1>4, <1>5, <1>6, <1>7 DEF Next, Step, CallPush, CallPop, CallClear, CallSize, Terminated

(* A step that leaves every node where it is.                               *)
LEMMA NodeStays ==
  ASSUME TypeOK, NodeInv, NEW th \in Threads, NEW to,
         pc' = [pc EXCEPT ![th] = to],
         pc[th] \in InHand \cup {"count"} <=> to \in InHand \cup {"count"},
         to \in {"push", "link"} => pc[th] \in {"push", "link"},
         UNCHANGED <<node, next>>
  PROVE  NodeInv'
<1>1. \A t \in Threads : node'[t] # Null <=> pc'[t] \in InHand \cup {"count"}
  BY DEF TypeOK, NodeInv
<1>2. \A t \in Threads : pc'[t] \in {"push", "link"} => next'[node'[t]] = Null
  BY DEF TypeOK, NodeInv
<1>3. \A t, u \in Threads : node'[t] # Null /\ node'[t] = node'[u] => t = u
  BY DEF NodeInv
<1>. QED
  BY <1>1, <1>2, <1>3 DEF NodeInv

(* A node is in the hands of the call that made it or took it, alone.       *)
LEMMA StepNode ==
  ASSUME TypeOK, MutexInv, NodeInv, [Next]_vars,
         NEW n \in Nat, NEW p \in [1..n -> Nodes], Chain(p, n), Ends(p, n), Apart(p, n)
  PROVE  NodeInv'
<1>1. ASSUME NEW th \in Threads, PushNew(th)
      PROVE  NodeInv'
  <2>. PICK m \in Nodes \ allocated : /\ pc[th] = "new"
                                       /\ pc' = [pc EXCEPT ![th] = "push"]
                                       /\ next' = [next EXCEPT ![m] = Null]
                                       /\ node' = [node EXCEPT ![th] = m]
    BY <1>1 DEF PushNew, Goto
  <2>1. \A t \in Threads : node[t] # Null => node[t] # m
    BY DEF Apart
  <2>2. \A t \in Threads : node'[t] = IF t = th THEN m ELSE node[t]
    BY DEF TypeOK
  <2>3. \A t \in Threads : pc'[t] = IF t = th THEN "push" ELSE pc[t]
    BY DEF TypeOK
  <2>4. \A t \in Threads : node'[t] # Null <=> pc'[t] \in InHand \cup {"count"}
    BY <2>2, <2>3 DEF NodeInv, InHand
  <2>5. \A t \in Threads : pc'[t] \in {"push", "link"} => next'[node'[t]] = Null
    <3>1. next'[m] = Null /\ \A x \in Nodes \ {m} : next'[x] = next[x]
      BY DEF TypeOK
    <3>2. \A t \in Threads : node[t] # Null => node[t] \in Nodes \ {m}
      BY <2>1 DEF TypeOK
    <3>. QED
      BY <2>2, <2>3, <3>1, <3>2 DEF NodeInv, InHand
  <2>6. \A t, u \in Threads : node'[t] # Null /\ node'[t] = node'[u] => t = u
    BY <2>1, <2>2 DEF NodeInv
  <2>. QED
    BY <2>4, <2>5, <2>6 DEF NodeInv
<1>2. ASSUME NEW th \in Threads, PushLink(th)
      PROVE  NodeInv'
  <2>1. node' = node /\ pc[th] = "link" /\ pc' = [pc EXCEPT ![th] = "count"]
    BY <1>2 DEF PushLink, Goto
  <2>2. \A t \in Threads : pc[t] \in {"push", "link"} => node[t] # tail_
    BY DEF NodeInv, Apart, Ends, InHand
  <2>3. ASSUME NEW t \in Threads, pc'[t] \in {"push", "link"}
        PROVE  next'[node[t]] = Null
    <3>1. pc[t] \in {"push", "link"}
      BY <2>1, <2>3 DEF TypeOK
    <3>2. node[t] \in Nodes /\ next[node[t]] = Null /\ node[t] # tail_
      BY <2>2, <3>1 DEF NodeInv, TypeOK, InHand
    <3>. QED
      BY <1>2, <3>2 DEF PushLink, TypeOK
  <2>4. \A t \in Threads : node'[t] # Null <=> pc'[t] \in InHand \cup {"count"}
    BY <2>1 DEF NodeInv, TypeOK, InHand
  <2>5. \A t \in Threads : pc'[t] \in {"push", "link"} => next'[node'[t]] = Null
    BY <2>1, <2>3, Zenon DEF NodeInv
  <2>6. \A t, u \in Threads : node'[t] # Null /\ node'[t] = node'[u] => t = u
    BY <2>1 DEF NodeInv
  <2>. QED
    BY <2>4, <2>5, <2>6, Zenon DEF NodeInv
<1>3. ASSUME NEW th \in Threads, PushCount(th) \/ PopDelete(th) \/ PopLoses(th)
      PROVE  NodeInv'
  <2>1. /\ pc[th] \in {"count", "delete"}
        /\ pc' = [pc EXCEPT ![th] = "return"]
        /\ node' = [node EXCEPT ![th] = Null]
        /\ next' = next \/ next' = [next EXCEPT ![node[th]] = Null]
    BY <1>3 DEF PushCount, PopDelete, PopLoses, DeleteTaken, Goto, Free, heapVars
  <2>2. \A t \in Threads : node'[t] = IF t = th THEN Null ELSE node[t]
    BY <2>1 DEF TypeOK
  <2>3. \A t \in Threads : pc'[t] = IF t = th THEN "return" ELSE pc[t]
    BY <2>1 DEF TypeOK
  <2>4. \A t \in Threads : node'[t] # Null <=> pc'[t] \in InHand \cup {"count"}
    BY <2>2, <2>3 DEF NodeInv, InHand
  <2>5. \A t \in Threads : pc'[t] \in {"push", "link"} => next'[node'[t]] = Null
    BY <2>1, <2>2, <2>3 DEF NodeInv, TypeOK, InHand
  <2>6. \A t, u \in Threads : node'[t] # Null /\ node'[t] = node'[u] => t = u
    BY <2>2 DEF NodeInv
  <2>. QED
    BY <2>4, <2>5, <2>6 DEF NodeInv
<1>4. ASSUME NEW th \in Threads, PopTake(th)
      PROVE  NodeInv'
  <2>1. /\ pc[th] = "take"
        /\ pc' = [pc EXCEPT ![th] = "uncount"]
        /\ head_ # Null
        /\ node' = [node EXCEPT ![th] = head_]
        /\ next' = next
    BY <1>4 DEF PopTake, Goto, heapVars
  <2>2. n # 0 /\ head_ = p[1] /\ 1 \in 1..n
    BY <2>1 DEF Chain, Links
  <2>3. \A t \in Threads : node[t] # Null => node[t] # head_
    <3>1. \A t \in Threads : pc[t] # "count" \/ t = th
      BY <2>1 DEF MutexInv, Locked
    <3>. QED
      BY <2>1, <2>2, <3>1 DEF NodeInv, Apart
  <2>4. \A t \in Threads : node'[t] = IF t = th THEN head_ ELSE node[t]
    BY <2>1 DEF TypeOK
  <2>5. \A t \in Threads : pc'[t] = IF t = th THEN "uncount" ELSE pc[t]
    BY <2>1 DEF TypeOK
  <2>6. \A t \in Threads : node'[t] # Null <=> pc'[t] \in InHand \cup {"count"}
    BY <2>1, <2>4, <2>5 DEF NodeInv, InHand
  <2>7. \A t \in Threads : pc'[t] \in {"push", "link"} => next'[node'[t]] = Null
    BY <2>1, <2>4, <2>5 DEF NodeInv
  <2>8. \A t, u \in Threads : node'[t] # Null /\ node'[t] = node'[u] => t = u
    BY <2>3, <2>4 DEF NodeInv
  <2>. QED
    BY <2>6, <2>7, <2>8 DEF NodeInv
<1>5. ASSUME NEW th \in Threads, ClearFree(th)
      PROVE  NodeInv'
  <2>1. /\ pc' = pc
        /\ node' = node
        /\ next' = [next EXCEPT ![head_] = Null]
    BY <1>5 DEF ClearFree, Goto, Free, TypeOK
  <2>2. \A t \in Threads : pc[t] \in {"push", "link"} => next'[node[t]] = Null
    BY <2>1 DEF NodeInv, TypeOK, InHand
  <2>. QED
    BY <2>1, <2>2 DEF NodeInv
<1>6. ASSUME NEW th \in Threads,
             \/ PushThrows(th) \/ PushLock(th)
             \/ PopCheck(th) \/ PopLock(th) \/ PopEmpty(th) \/ PopThrows(th) \/ PopCount(th)
             \/ ClearLock(th) \/ ClearZero(th) \/ ClearEnd(th)
             \/ SizeLoad(th) \/ Return(th)
      PROVE  NodeInv'
  <2>1. PICK to : /\ pc' = [pc EXCEPT ![th] = to]
                  /\ pc[th] \in InHand \cup {"count"} <=> to \in InHand \cup {"count"}
                  /\ to \in {"push", "link"} => pc[th] \in {"push", "link"}
                  /\ UNCHANGED <<node, next>>
    <3>. USE DEF Goto, Lock, InHand, heapVars
    <3>1. CASE PushThrows(th) \/ PushLock(th) \/ PopLock(th) \/ ClearLock(th)
      BY <3>1 DEF PushThrows, PushLock, PopLock, ClearLock
    <3>2. CASE PopCheck(th) \/ PopEmpty(th) \/ PopThrows(th) \/ PopCount(th)
      BY <3>2 DEF PopCheck, PopEmpty, PopThrows, PopCount
    <3>3. CASE ClearZero(th) \/ SizeLoad(th) \/ Return(th)
      BY <3>3 DEF ClearZero, SizeLoad, Return
    <3>4. CASE ClearEnd(th)
      BY <3>4 DEF ClearEnd
    <3>. QED
      BY <1>6, <3>1, <3>2, <3>3, <3>4
  <2>. QED
    BY <2>1, NodeStays
<1>7. ASSUME NEW th \in Threads, NEW name, NEW v, NEW start \in {"new", "check", "clear", "size"},
             Call(th, name, v, start)
      PROVE  NodeInv'
  <2>1. pc[th] = "idle" /\ pc' = [pc EXCEPT ![th] = start] /\ UNCHANGED <<node, next>>
    BY <1>7 DEF Call, Goto, heapVars
  <2>2. pc[th] \notin InHand \cup {"count"} /\ start \notin InHand \cup {"count"}
    BY <2>1 DEF InHand
  <2>3. start \notin {"push", "link"}
    OBVIOUS
  <2>. QED
    BY <2>1, <2>2, <2>3, NodeStays
<1>8. CASE Destroy
  <2>1. pc[Owner] = "idle" /\ pc' = [pc EXCEPT ![Owner] = "clear"] /\ UNCHANGED <<node, next>>
    BY <1>8 DEF Destroy, Goto, heapVars
  <2>2. pc[Owner] \notin InHand \cup {"count"} /\ "clear" \notin InHand \cup {"count"}
    BY <2>1 DEF InHand
  <2>. QED
    BY <2>1, <2>2, NodeStays
<1>9. CASE UNCHANGED vars
  BY <1>9 DEF vars, heapVars, NodeInv
<1>. QED
  BY <1>1, <1>2, <1>3, <1>4, <1>5, <1>6, <1>7, <1>8, <1>9
     DEF Next, Step, Push, Pop, Clear, CallPush, CallPop, CallClear, CallSize, Terminated

(* A step between two points at which the list is complete.                 *)
Settled == {"idle", "new", "push", "link", "check", "pop", "take", "delete", "clear", "zero", "size", "return"}

(* A step that does not touch the list, nor what the mutex holder is about  *)
(* to do to it.                                                             *)
LEMMA ListStays ==
  ASSUME TypeOK, MutexInv, NEW th \in Threads, NEW to \in Settled,
         NEW n \in Nat, NEW p \in [1..n -> Nodes], Chain(p, n), Ends(p, n), Apart(p, n),
         pc[th] \in Settled,
         pc' = [pc EXCEPT ![th] = to],
         pc[th] \in InHand <=> to \in InHand,
         \/ mutex_' = mutex_
         \/ mutex_ = NoThread /\ mutex_' = th
         \/ mutex_ = th /\ mutex_' = NoThread,
         head_' = head_, tail_' = tail_, size_' = size_,
         next' = next, allocated' = allocated, node' = node
  PROVE  Chain(p, n)' /\ Ends(p, n)' /\ Apart(p, n)'
<1>. USE DEF Settled
<1>1. \A t \in Threads : pc'[t] = IF t = th THEN to ELSE pc[t]
  BY DEF TypeOK
<1>2. ASSUME NEW x \in {"free", "count", "uncount"}
      PROVE  Holder({x})' <=> Holder({x})
  BY <1>1 DEF Holder, TypeOK
<1>3. Chain(p, n)'
  BY DEF Chain, Links
<1>4. \A t \in Threads : pc'[t] = "count" => pc[t] = "count"
  BY <1>1
<1>5. Ends(p, n)'
  BY <1>2, <1>4 DEF Ends
<1>6. \A t \in Threads : pc'[t] \in InHand => pc[t] \in InHand
  BY <1>1
<1>7. Apart(p, n)'
  BY <1>6 DEF Apart
<1>. QED
  BY <1>3, <1>5, <1>7

(* push: a new node at the end of the list.                                 *)
LEMMA LinkGrows ==
  ASSUME TypeOK, MutexInv, NodeInv, NEW th \in Threads, PushLink(th), MutexInv',
         NEW n \in Nat, NEW p \in [1..n -> Nodes], Chain(p, n), Ends(p, n), Apart(p, n)
  PROVE  \E q \in [1..(n + 1) -> Nodes] :
            /\ q[n + 1] = node[th] /\ \A i \in 1..n : q[i] = p[i]
            /\ Chain(q, n + 1)' /\ Ends(q, n + 1)' /\ Apart(q, n + 1)'
<1>1. /\ pc[th] = "link" /\ pc' = [pc EXCEPT ![th] = "count"]
      /\ mutex_ = th /\ mutex_' = th
      /\ tail_' = node[th] /\ size_' = size_ /\ allocated' = allocated /\ node' = node
  BY DEF PushLink, Goto, MutexInv, Locked
<1>2. node[th] \in Nodes /\ next[node[th]] = Null
  BY <1>1 DEF NodeInv, TypeOK, InHand
<1>3. \A i \in 1..n : p[i] # node[th]
  BY <1>1 DEF Apart, InHand
<1>4. PICK q \in [1..(n + 1) -> Nodes] : q[n + 1] = node[th] /\ \A i \in 1..n : q[i] = p[i]
  <2>. DEFINE longer == [i \in 1..(n + 1) |-> IF i = n + 1 THEN node[th] ELSE p[i]]
  <2>1. longer \in [1..(n + 1) -> Nodes] /\ longer[n + 1] = node[th] /\ \A i \in 1..n : longer[i] = p[i]
    BY <1>2
  <2>. QED
    BY <2>1
<1>5. tail_ = (IF n = 0 THEN Null ELSE p[n]) /\ size_ = n
  BY <1>1 DEF Ends, Holder, TypeOK
<1>6. Chain(q, n + 1)'
  <2>1. \A i, j \in 1..(n + 1) : q[i] = q[j] => i = j
    BY <1>3, <1>4 DEF Chain, Links
  <2>2. CASE n = 0
    <3>1. head_' = node[th] /\ next' = next
      BY <1>5, <2>2 DEF PushLink, TypeOK
    <3>. QED
      BY <1>2, <1>4, <2>1, <2>2, <3>1 DEF Chain, Links
  <2>3. CASE n # 0
    <3>1. p[n] \in Nodes /\ head_' = head_ /\ next' = [next EXCEPT ![p[n]] = node[th]]
      BY <1>5, <2>3 DEF PushLink
    <3>2. head_' = q[1]
      BY <1>4, <2>3, <3>1 DEF Chain, Links
    <3>3. \A i \in 1..(n - 1) : next'[q[i]] = q[i + 1]
      <4>. TAKE i \in 1..(n - 1)
      <4>1. i \in 1..n /\ i + 1 \in 1..n /\ i # n
        OBVIOUS
      <4>2. p[i] # p[n] /\ next[p[i]] = p[i + 1]
        BY <4>1, <2>3 DEF Chain, Links
      <4>. QED
        BY <1>4, <3>1, <4>1, <4>2 DEF TypeOK
    <3>4. next'[q[n]] = q[n + 1]
      BY <1>4, <2>3, <3>1 DEF TypeOK
    <3>5. next'[q[n + 1]] = Null
      BY <1>2, <1>3, <1>4, <2>3, <3>1 DEF TypeOK
    <3>6. \A i \in 1..((n + 1) - 1) : next'[q[i]] = q[i + 1]
      BY <3>3, <3>4
    <3>. QED
      BY <2>1, <3>2, <3>5, <3>6 DEF Chain, Links
  <2>. QED
    BY <2>2, <2>3
<1>7. Ends(q, n + 1)'
  <2>1. \A t \in Threads : pc'[t] = "count" => t = th
    BY <1>1 DEF MutexInv, Locked
  <2>2. Holder({"count"})' /\ ~Holder({"free"})' /\ ~Holder({"uncount"})'
    BY <1>1 DEF Holder, TypeOK
  <2>. QED
    BY <1>1, <1>4, <1>5, <2>1, <2>2 DEF Ends
<1>8. Apart(q, n + 1)'
  <2>1. \A t \in Threads : pc'[t] \in InHand => t # th /\ pc[t] \in InHand
    BY <1>1 DEF TypeOK, InHand
  <2>2. \A t \in Threads : pc'[t] \in InHand => node[t] # node[th]
    BY <1>2, <2>1 DEF NodeInv
  <2>3. ASSUME NEW t \in Threads, pc'[t] \in InHand, NEW i \in 1..(n + 1)
        PROVE  q[i] # node'[t]
    <3>1. \A j \in 1..n : p[j] # node[t]
      BY <2>1, <2>3 DEF Apart
    <3>2. node[t] # node[th]
      BY <2>2, <2>3
    <3>. QED
      BY <1>1, <1>4, <3>1, <3>2
  <2>4. {q[i] : i \in 1..(n + 1)} = {p[i] : i \in 1..n} \cup {node[th]}
    <3>1. 1..(n + 1) = 1..n \cup {n + 1}
      OBVIOUS
    <3>. QED
      BY <1>4, <3>1
  <2>5. node[th] \in {node[t] : t \in {u \in Threads : node[u] # Null}}
    BY <1>2
  <2>. QED
    BY <1>1, <2>3, <2>4, <2>5, ZenonT(60) DEF Apart
<1>. QED
  BY <1>4, <1>6, <1>7, <1>8

(* pop and clear: the first node leaves the list.                            *)
LEMMA HeadGoes ==
  ASSUME TypeOK, NEW n \in Nat, NEW p \in [1..n -> Nodes], Chain(p, n), head_ # Null,
         head_' = next[head_], \A x \in Nodes \ {head_} : next'[x] = next[x]
  PROVE  /\ n # 0 /\ head_ = p[1]
         /\ \E q \in [1..(n - 1) -> Nodes] :
              /\ Chain(q, n - 1)'
              /\ \A i \in 1..(n - 1) : q[i] = p[i + 1] /\ q[i] # head_
              /\ {p[i] : i \in 1..n} = {head_} \cup {q[i] : i \in 1..(n - 1)}
<1>1. n # 0 /\ head_ = p[1]
  BY DEF Chain, Links
<1>2. PICK q \in [1..(n - 1) -> Nodes] : \A i \in 1..(n - 1) : q[i] = p[i + 1]
  <2>. DEFINE shorter == [i \in 1..(n - 1) |-> p[i + 1]]
  <2>1. shorter \in [1..(n - 1) -> Nodes] /\ \A i \in 1..(n - 1) : shorter[i] = p[i + 1]
    OBVIOUS
  <2>. QED
    BY <2>1
<1>3. ASSUME NEW i \in 1..(n - 1)
      PROVE  /\ i + 1 \in 1..n /\ q[i] = p[i + 1] /\ q[i] \in Nodes
             /\ q[i] # head_ /\ next'[q[i]] = next[q[i]]
  <2>1. i + 1 \in 1..n /\ 1 \in 1..n /\ i + 1 # 1
    OBVIOUS
  <2>2. p[i + 1] # p[1]
    BY <2>1 DEF Chain, Links
  <2>. QED
    BY <1>1, <1>2, <2>1, <2>2
<1>4. \A i, j \in 1..(n - 1) : q[i] = q[j] => i = j
  <2>. SUFFICES ASSUME NEW i \in 1..(n - 1), NEW j \in 1..(n - 1), q[i] = q[j]
                PROVE  i + 1 = j + 1
    OBVIOUS
  <2>. QED
    BY <1>3 DEF Chain, Links
<1>5. head_' = IF n - 1 = 0 THEN Null ELSE q[1]
  <2>1. CASE n = 1
    BY <1>1, <2>1 DEF Chain, Links
  <2>2. CASE n # 1
    <3>1. 1 \in 1..(n - 1) /\ next[p[1]] = p[1 + 1]
      BY <1>1, <2>2 DEF Chain, Links
    <3>2. q[1] = p[1 + 1]
      BY <1>2, <3>1
    <3>. QED
      BY <1>1, <2>2, <3>1, <3>2
  <2>. QED
    BY <2>1, <2>2
<1>6. \A i \in 1..((n - 1) - 1) : next'[q[i]] = q[i + 1]
  <2>. TAKE i \in 1..((n - 1) - 1)
  <2>1. PICK k \in 1..(n - 1) : k = i + 1
    BY <1>1
  <2>2. i \in 1..(n - 1)
    BY <2>1
  <2>3. next[p[k]] = p[k + 1]
    BY <2>1 DEF Chain, Links
  <2>. QED
    BY <1>3, <2>1, <2>2, <2>3
<1>7. n - 1 # 0 => next'[q[n - 1]] = Null
  <2>. SUFFICES ASSUME n - 1 # 0
                PROVE  next'[q[n - 1]] = Null
    OBVIOUS
  <2>1. n - 1 \in 1..(n - 1) /\ (n - 1) + 1 = n
    BY <1>1
  <2>2. q[n - 1] = p[n] /\ next'[q[n - 1]] = next[q[n - 1]]
    BY <1>3, <2>1
  <2>. QED
    BY <1>1, <2>2 DEF Chain, Links
<1>8. Chain(q, n - 1)'
  BY <1>4, <1>5, <1>6, <1>7 DEF Chain, Links
<1>9. {p[i] : i \in 1..n} = {head_} \cup {q[i] : i \in 1..(n - 1)}
  <2>1. ASSUME NEW i \in 1..n
        PROVE  p[i] \in {head_} \cup {q[j] : j \in 1..(n - 1)}
    <3>1. CASE i = 1
      BY <1>1, <3>1
    <3>2. CASE i # 1
      <4>1. PICK j \in 1..(n - 1) : i = j + 1
        BY <3>2
      <4>. QED
        BY <1>2, <4>1
    <3>. QED
      BY <3>1, <3>2
  <2>2. ASSUME NEW j \in 1..(n - 1)
        PROVE  q[j] \in {p[i] : i \in 1..n}
    BY <1>3
  <2>3. head_ \in {p[i] : i \in 1..n}
    BY <1>1
  <2>. QED
    BY <2>1, <2>2, <2>3
<1>. QED
  BY <1>1, <1>2, <1>3, <1>8, <1>9

(* Every step leaves a list written out: the same one, with one more node   *)
(* at its end, or without its first node.                                   *)
LEMMA StepList ==
  ASSUME TypeOK, MutexInv, NodeInv, [Next]_vars, MutexInv',
         NEW n \in Nat, NEW p \in [1..n -> Nodes], Chain(p, n), Ends(p, n), Apart(p, n)
  PROVE  \E m \in Nat : \E q \in [1..m -> Nodes] : Chain(q, m)' /\ Ends(q, m)' /\ Apart(q, m)'
<1>1. ASSUME NEW th \in Threads,
             \/ PushThrows(th) \/ PushLock(th)
             \/ PopCheck(th) \/ PopLock(th) \/ PopEmpty(th) \/ PopThrows(th)
             \/ ClearLock(th) \/ SizeLoad(th) \/ Return(th)
      PROVE  Chain(p, n)' /\ Ends(p, n)' /\ Apart(p, n)'
  <2>1. PICK to : /\ pc' = [pc EXCEPT ![th] = to]
                  /\ pc[th] \in Settled /\ to \in Settled
                  /\ pc[th] \in InHand <=> to \in InHand
                  /\ \/ mutex_' = mutex_
                     \/ mutex_ = NoThread /\ mutex_' = th
                     \/ mutex_ = th /\ mutex_' = NoThread
                  /\ UNCHANGED <<head_, tail_, size_, next, allocated, node>>
    <3>. USE DEF Goto, Lock, InHand, Settled, heapVars, queueVars
    <3>1. CASE PushLock(th) \/ PopLock(th) \/ ClearLock(th)
      BY <3>1 DEF PushLock, PopLock, ClearLock
    <3>2. CASE PushThrows(th) \/ PopCheck(th) \/ SizeLoad(th) \/ Return(th)
      BY <3>2 DEF PushThrows, PopCheck, SizeLoad, Return
    <3>3. CASE PopEmpty(th) \/ PopThrows(th)
      BY <3>3 DEF PopEmpty, PopThrows, MutexInv, Locked
    <3>. QED
      BY <1>1, <3>1, <3>2, <3>3
  <2>. QED
    BY <2>1, ListStays
<1>2. ASSUME NEW th \in Threads, NEW name, NEW v, NEW start \in {"new", "check", "clear", "size"},
             Call(th, name, v, start)
      PROVE  Chain(p, n)' /\ Ends(p, n)' /\ Apart(p, n)'
  <2>1. pc[th] = "idle" /\ pc' = [pc EXCEPT ![th] = start]
    BY <1>2 DEF Call, Goto
  <2>2. UNCHANGED <<mutex_, head_, tail_, size_, next, allocated, node>>
    BY <1>2 DEF Call, heapVars, queueVars
  <2>3. pc[th] \in Settled /\ start \in Settled
    BY <2>1 DEF Settled
  <2>4. pc[th] \notin InHand /\ start \notin InHand
    BY <2>1 DEF InHand
  <2>. QED
    BY <2>1, <2>2, <2>3, <2>4, ListStays
<1>3. CASE Destroy
  <2>1. pc[Owner] = "idle" /\ pc' = [pc EXCEPT ![Owner] = "clear"]
    BY <1>3 DEF Destroy, Goto
  <2>2. UNCHANGED <<mutex_, head_, tail_, size_, next, allocated, node>>
    BY <1>3 DEF Destroy, heapVars, queueVars
  <2>3. pc[Owner] \in Settled /\ "clear" \in Settled
    BY <2>1 DEF Settled
  <2>4. pc[Owner] \notin InHand /\ "clear" \notin InHand
    BY <2>1 DEF InHand
  <2>. QED
    BY <2>1, <2>2, <2>3, <2>4, ListStays
<1>4. CASE UNCHANGED vars
  BY <1>4 DEF vars, heapVars, queueVars, Chain, Links, Ends, Apart, Holder
<1>5. ASSUME NEW th \in Threads, PushNew(th)
      PROVE  Chain(p, n)' /\ Ends(p, n)' /\ Apart(p, n)'
  <2>. PICK m \in Nodes \ allocated : /\ pc[th] = "new" /\ pc' = [pc EXCEPT ![th] = "push"]
                                       /\ allocated' = allocated \cup {m}
                                       /\ next' = [next EXCEPT ![m] = Null]
                                       /\ node' = [node EXCEPT ![th] = m]
                                       /\ UNCHANGED queueVars
    BY <1>5 DEF PushNew, Goto
  <2>1. \A i \in 1..n : p[i] # m /\ next'[p[i]] = next[p[i]]
    BY DEF Apart, TypeOK
  <2>2. Chain(p, n)'
    BY <2>1 DEF Chain, Links, queueVars
  <2>3. \A t \in Threads : pc'[t] = (IF t = th THEN "push" ELSE pc[t]) /\ node'[t] = (IF t = th THEN m ELSE node[t])
    BY DEF TypeOK
  <2>4. \A S \in {{"free"}, {"count"}, {"uncount"}} : Holder(S)' <=> Holder(S)
    BY <2>3 DEF Holder, queueVars, TypeOK
  <2>5. Ends(p, n)'
    BY <2>3, <2>4 DEF Ends, queueVars
  <2>6. \A t \in Threads : pc'[t] \in InHand => \A i \in 1..n : p[i] # node'[t]
    BY <2>1, <2>3 DEF Apart
  <2>7. {node'[t] : t \in {u \in Threads : node'[u] # Null}} = {node[t] : t \in {u \in Threads : node[u] # Null}} \cup {m}
    <3>1. node[th] = Null
      BY DEF NodeInv, InHand
    <3>. QED
      BY <2>3, <3>1
  <2>8. Apart(p, n)'
    BY <2>6, <2>7 DEF Apart
  <2>. QED
    BY <2>2, <2>5, <2>8
<1>6. ASSUME NEW th \in Threads, PushCount(th)
      PROVE  Chain(p, n)' /\ Ends(p, n)' /\ Apart(p, n)'
  <2>1. /\ pc[th] = "count" /\ pc' = [pc EXCEPT ![th] = "return"]
        /\ mutex_ = th /\ mutex_' = NoThread /\ size_' = size_ + 1
        /\ node' = [node EXCEPT ![th] = Null]
        /\ UNCHANGED <<head_, tail_, heapVars>>
    BY <1>6 DEF PushCount, Goto, MutexInv, Locked
  <2>2. Chain(p, n)'
    BY <2>1 DEF Chain, Links, heapVars
  <2>3. \A t \in Threads : pc'[t] = (IF t = th THEN "return" ELSE pc[t]) /\ node'[t] = (IF t = th THEN Null ELSE node[t])
    BY <2>1 DEF TypeOK
  <2>4. size_ = n - 1 /\ tail_ = (IF n = 0 THEN Null ELSE p[n]) /\ n # 0 /\ node[th] = p[n]
    BY <2>1 DEF Ends, Holder
  <2>5. Ends(p, n)'
    <3>1. \A t \in Threads : pc'[t] # "count"
      BY <2>1, <2>3 DEF MutexInv, Locked
    <3>. QED
      BY <2>1, <2>4, <3>1 DEF Ends, Holder
  <2>6. \A t \in Threads : pc'[t] \in InHand => \A i \in 1..n : p[i] # node'[t]
    BY <2>1, <2>3 DEF Apart, InHand
  <2>7. {node[t] : t \in {u \in Threads : node[u] # Null}} = {node'[t] : t \in {u \in Threads : node'[u] # Null}} \cup {node[th]}
    <3>1. node[th] # Null
      BY <2>4
    <3>. QED
      BY <2>3, <3>1
  <2>8. node[th] \in {p[i] : i \in 1..n}
    BY <2>4
  <2>9. Apart(p, n)'
    BY <2>1, <2>6, <2>7, <2>8 DEF Apart, heapVars
  <2>. QED
    BY <2>2, <2>5, <2>9
<1>7. ASSUME NEW th \in Threads, PopCount(th)
      PROVE  Chain(p, n)' /\ Ends(p, n)' /\ Apart(p, n)'
  <2>1. /\ pc[th] = "uncount" /\ pc' = [pc EXCEPT ![th] = "delete"]
        /\ mutex_ = th /\ mutex_' = NoThread /\ size_' = size_ - 1
        /\ UNCHANGED <<head_, tail_, heapVars, node>>
    BY <1>7 DEF PopCount, Goto, MutexInv, Locked
  <2>2. Chain(p, n)'
    BY <2>1 DEF Chain, Links, heapVars
  <2>3. \A t \in Threads : pc'[t] = IF t = th THEN "delete" ELSE pc[t]
    BY <2>1 DEF TypeOK
  <2>4. size_ = n + 1 /\ tail_ = (IF n = 0 THEN Null ELSE p[n])
    BY <2>1 DEF Ends, Holder
  <2>5. Ends(p, n)'
    BY <2>1, <2>3, <2>4 DEF Ends, Holder
  <2>6. \A t \in Threads : pc'[t] \in InHand => pc[t] \in InHand
    BY <2>1, <2>3 DEF InHand
  <2>7. Apart(p, n)'
    BY <2>1, <2>6 DEF Apart, heapVars
  <2>. QED
    BY <2>2, <2>5, <2>7
<1>8. ASSUME NEW th \in Threads, PopDelete(th) \/ PopLoses(th)
      PROVE  Chain(p, n)' /\ Ends(p, n)' /\ Apart(p, n)'
  <2>1. /\ pc[th] = "delete" /\ pc' = [pc EXCEPT ![th] = "return"]
        /\ allocated' = allocated \ {node[th]} /\ next' = [next EXCEPT ![node[th]] = Null]
        /\ node' = [node EXCEPT ![th] = Null]
        /\ UNCHANGED queueVars
    BY <1>8 DEF PopDelete, PopLoses, DeleteTaken, Goto, Free
  <2>2. \A i \in 1..n : p[i] # node[th] /\ next'[p[i]] = next[p[i]]
    BY <2>1 DEF Apart, TypeOK, InHand
  <2>3. Chain(p, n)'
    BY <2>1, <2>2 DEF Chain, Links, queueVars
  <2>4. \A t \in Threads : pc'[t] = (IF t = th THEN "return" ELSE pc[t]) /\ node'[t] = (IF t = th THEN Null ELSE node[t])
    BY <2>1 DEF TypeOK
  <2>5. \A S \in {{"free"}, {"count"}, {"uncount"}} : Holder(S)' <=> Holder(S)
    BY <2>1, <2>4 DEF Holder, queueVars, TypeOK
  <2>6. Ends(p, n)'
    BY <2>1, <2>4, <2>5 DEF Ends, queueVars
  <2>7. \A t \in Threads : pc'[t] \in InHand => \A i \in 1..n : p[i] # node'[t]
    BY <2>4 DEF Apart, InHand
  <2>8. {node'[t] : t \in {u \in Threads : node'[u] # Null}} = {node[t] : t \in {u \in Threads : node[u] # Null}} \ {node[th]}
    <3>1. node[th] # Null
      BY <2>1 DEF NodeInv, InHand
    <3>2. \A t \in Threads \ {th} : node[t] # node[th]
      BY <3>1 DEF NodeInv
    <3>. QED
      BY <2>4, <3>1, <3>2
  <2>9. Apart(p, n)'
    BY <2>1, <2>2, <2>7, <2>8 DEF Apart
  <2>. QED
    BY <2>3, <2>6, <2>9
<1>9. ASSUME NEW th \in Threads, PopTake(th)
      PROVE  \E m \in Nat : \E q \in [1..m -> Nodes] : Chain(q, m)' /\ Ends(q, m)' /\ Apart(q, m)'
  <2>1. /\ pc[th] = "take" /\ pc' = [pc EXCEPT ![th] = "uncount"]
        /\ mutex_ = th /\ mutex_' = th /\ head_ # Null /\ head_' = next[head_]
        /\ tail_' = (IF next[head_] = Null THEN Null ELSE tail_)
        /\ node' = [node EXCEPT ![th] = head_]
        /\ size_' = size_ /\ next' = next /\ allocated' = allocated
    BY <1>9 DEF PopTake, Goto, MutexInv, Locked, heapVars
  <2>2. n # 0 /\ head_ = p[1]
    BY <2>1, HeadGoes
  <2>3. PICK q \in [1..(n - 1) -> Nodes] :
              /\ Chain(q, n - 1)'
              /\ \A i \in 1..(n - 1) : q[i] = p[i + 1] /\ q[i] # head_
              /\ {p[i] : i \in 1..n} = {head_} \cup {q[i] : i \in 1..(n - 1)}
    BY <2>1, HeadGoes
  <2>4. \A t \in Threads : pc'[t] = (IF t = th THEN "uncount" ELSE pc[t]) /\ node'[t] = (IF t = th THEN head_ ELSE node[t])
    BY <2>1 DEF TypeOK
  <2>5. tail_ = p[n] /\ size_ = n
    BY <2>1, <2>2 DEF Ends, Holder
  <2>6. tail_' = IF n - 1 = 0 THEN Null ELSE q[n - 1]
    <3>1. head_' = IF n - 1 = 0 THEN Null ELSE q[1]
      BY <2>3 DEF Chain, Links
    <3>2. n - 1 # 0 => q[1] \in Nodes /\ q[n - 1] = p[n]
      BY <2>2, <2>3
    <3>. QED
      BY <2>1, <2>2, <2>5, <3>1, <3>2
  <2>7. Ends(q, n - 1)'
    <3>1. \A t \in Threads : pc'[t] # "count"
      BY <2>1, <2>4 DEF MutexInv, Locked
    <3>2. Holder({"uncount"})' /\ ~Holder({"free"})' /\ ~Holder({"count"})'
      BY <2>1, <2>4 DEF Holder
    <3>. QED
      BY <2>1, <2>2, <2>5, <2>6, <3>1, <3>2 DEF Ends
  <2>8. ASSUME NEW t \in Threads, pc'[t] \in InHand, NEW i \in 1..(n - 1)
        PROVE  q[i] # node'[t]
    <3>1. CASE t = th
      BY <2>3, <2>4, <3>1
    <3>2. CASE t # th
      <4>1. PICK k \in 1..n : k = i + 1
        BY <2>2
      <4>2. p[k] # node[t]
        BY <2>4, <2>8, <3>2 DEF Apart
      <4>. QED
        BY <2>3, <2>4, <3>2, <4>1, <4>2
    <3>. QED
      BY <3>1, <3>2
  <2>9. {node'[t] : t \in {u \in Threads : node'[u] # Null}} = {node[t] : t \in {u \in Threads : node[u] # Null}} \cup {head_}
    <3>1. node[th] = Null
      BY <2>1 DEF NodeInv, InHand
    <3>. QED
      BY <2>1, <2>4, <3>1
  <2>10. Apart(q, n - 1)'
    BY <2>1, <2>3, <2>8, <2>9 DEF Apart
  <2>11. n - 1 \in Nat
    BY <2>2
  <2>. QED
    BY <2>3, <2>7, <2>10, <2>11
<1>10. ASSUME NEW th \in Threads, ClearFree(th)
       PROVE  \E m \in Nat : \E q \in [1..m -> Nodes] : Chain(q, m)' /\ Ends(q, m)' /\ Apart(q, m)'
  <2>1. /\ pc[th] = "free" /\ pc' = pc /\ mutex_ = th /\ mutex_' = th
        /\ head_ # Null /\ head_' = next[head_]
        /\ next' = [next EXCEPT ![head_] = Null] /\ allocated' = allocated \ {head_}
        /\ tail_' = tail_ /\ size_' = size_ /\ node' = node
    BY <1>10 DEF ClearFree, Goto, Free, MutexInv, Locked, TypeOK
  <2>2. \A x \in Nodes \ {head_} : next'[x] = next[x]
    BY <2>1 DEF TypeOK
  <2>3. n # 0 /\ head_ = p[1]
    BY <2>1, <2>2, HeadGoes
  <2>4. PICK q \in [1..(n - 1) -> Nodes] :
              /\ Chain(q, n - 1)'
              /\ \A i \in 1..(n - 1) : q[i] = p[i + 1] /\ q[i] # head_
              /\ {p[i] : i \in 1..n} = {head_} \cup {q[i] : i \in 1..(n - 1)}
    BY <2>1, <2>2, HeadGoes
  <2>5. Ends(q, n - 1)'
    <3>1. /\ Holder({"free"}) /\ ~Holder({"count"}) /\ ~Holder({"uncount"})
          /\ Holder({"free"})' /\ ~Holder({"count"})' /\ ~Holder({"uncount"})'
      BY <2>1 DEF Holder
    <3>2. \A t \in Threads : pc'[t] # "count"
      BY <2>1 DEF MutexInv, Locked
    <3>. QED
      BY <2>1, <3>1, <3>2 DEF Ends
  <2>6. ASSUME NEW t \in Threads, pc'[t] \in InHand, NEW i \in 1..(n - 1)
        PROVE  q[i] # node'[t]
    <3>1. PICK k \in 1..n : k = i + 1
      BY <2>3
    <3>2. p[k] # node[t]
      BY <2>1, <2>6 DEF Apart
    <3>. QED
      BY <2>1, <2>4, <3>1, <3>2
  <2>7. \A t \in Threads : node[t] # Null => node[t] # head_
    <3>1. \A t \in Threads : pc[t] # "count"
      BY <2>1 DEF MutexInv, Locked
    <3>2. 1 \in 1..n
      BY <2>3
    <3>. QED
      BY <2>3, <3>1, <3>2 DEF NodeInv, Apart
  <2>8. head_ \notin {node[t] : t \in {u \in Threads : node[u] # Null}} \cup {q[i] : i \in 1..(n - 1)}
    BY <2>4, <2>7
  <2>9. Apart(q, n - 1)'
    <3>1. allocated = {head_} \cup {q[i] : i \in 1..(n - 1)} \cup {node[t] : t \in {u \in Threads : node[u] # Null}}
      BY <2>4 DEF Apart
    <3>2. allocated' = {q[i] : i \in 1..(n - 1)} \cup {node'[t] : t \in {u \in Threads : node'[u] # Null}}
      BY <2>1, <2>8, <3>1, Zenon
    <3>. QED
      BY <2>6, <3>2 DEF Apart
  <2>10. n - 1 \in Nat
    BY <2>3
  <2>. QED
    BY <2>4, <2>5, <2>9, <2>10
<1>11. ASSUME NEW th \in Threads, ClearZero(th)
       PROVE  Chain(p, n)' /\ Ends(p, n)' /\ Apart(p, n)'
  <2>1. /\ pc[th] = "zero" /\ pc' = [pc EXCEPT ![th] = "free"]
        /\ mutex_ = th /\ mutex_' = th /\ size_' = 0 /\ tail_' = Null
        /\ UNCHANGED <<head_, heapVars, node>>
    BY <1>11 DEF ClearZero, Goto, MutexInv, Locked
  <2>2. \A t \in Threads : pc'[t] = IF t = th THEN "free" ELSE pc[t]
    BY <2>1 DEF TypeOK
  <2>3. Chain(p, n)'
    BY <2>1 DEF Chain, Links, heapVars
  <2>4. Ends(p, n)'
    <3>1. Holder({"free"})' /\ ~Holder({"count"})' /\ ~Holder({"uncount"})'
      BY <2>1, <2>2 DEF Holder
    <3>2. \A t \in Threads : pc'[t] # "count"
      BY <2>1, <2>2 DEF MutexInv, Locked
    <3>. QED
      BY <2>1, <3>1, <3>2 DEF Ends
  <2>5. \A t \in Threads : pc'[t] \in InHand => pc[t] \in InHand
    BY <2>2 DEF InHand
  <2>6. Apart(p, n)'
    BY <2>1, <2>5 DEF Apart, heapVars
  <2>. QED
    BY <2>3, <2>4, <2>6
<1>12. ASSUME NEW th \in Threads, ClearEnd(th)
       PROVE  Chain(p, n)' /\ Ends(p, n)' /\ Apart(p, n)'
  <2>1. PICK to \in {"gone", "return"} :
          /\ pc[th] = "free" /\ pc' = [pc EXCEPT ![th] = to]
          /\ mutex_ = th /\ mutex_' = NoThread /\ head_ = Null
          /\ UNCHANGED <<head_, tail_, size_, heapVars, node>>
    BY <1>12 DEF ClearEnd, Goto, MutexInv, Locked
  <2>2. \A t \in Threads : pc'[t] = IF t = th THEN to ELSE pc[t]
    BY <2>1 DEF TypeOK
  <2>3. Chain(p, n)'
    BY <2>1 DEF Chain, Links, heapVars
  <2>4. n = 0
    BY <2>1 DEF Chain, Links
  <2>5. Ends(p, n)'
    <3>1. tail_ = Null /\ size_ = 0
      BY <2>1 DEF Ends, Holder
    <3>2. \A t \in Threads : pc'[t] # "count"
      BY <2>1, <2>2 DEF MutexInv, Locked
    <3>. QED
      BY <2>1, <2>4, <3>1, <3>2 DEF Ends, Holder
  <2>6. \A t \in Threads : pc'[t] \in InHand => pc[t] \in InHand
    BY <2>2 DEF InHand
  <2>7. Apart(p, n)'
    BY <2>1, <2>6 DEF Apart, heapVars
  <2>. QED
    BY <2>3, <2>5, <2>7
<1>13. ASSUME NEW th \in Threads, PushLink(th)
       PROVE  \E m \in Nat : \E q \in [1..m -> Nodes] : Chain(q, m)' /\ Ends(q, m)' /\ Apart(q, m)'
  BY <1>13, LinkGrows
<1>. QED
  BY <1>1, <1>2, <1>3, <1>4, <1>5, <1>6, <1>7, <1>8, <1>9, <1>10, <1>11, <1>12, <1>13
     DEF Next, Step, Push, Pop, Clear, CallPush, CallPop, CallClear, CallSize, Terminated

(* The invariant is inductive: every step from a state with it keeps it.    *)
LEMMA Inductive == IInv /\ [Next]_vars => IInv'
<1>. SUFFICES ASSUME IInv, [Next]_vars
              PROVE  IInv'
  OBVIOUS
<1>1. PICK n \in Nat : \E p \in [1..n -> Nodes] : Chain(p, n) /\ Ends(p, n) /\ Apart(p, n)
  BY DEF IInv
<1>2. PICK p \in [1..n -> Nodes] : Chain(p, n) /\ Ends(p, n) /\ Apart(p, n)
  BY <1>1
<1>3. TypeOK /\ MutexInv /\ NodeInv
  BY DEF IInv
<1>4. \A th \in Threads : pc[th] = "uncount" => size_ # 0
  <2>. SUFFICES ASSUME NEW th \in Threads, pc[th] = "uncount"
                PROVE  size_ # 0
    OBVIOUS
  <2>1. mutex_ = th
    BY <1>3 DEF MutexInv, Locked
  <2>2. size_ = n + 1
    BY <1>2, <2>1 DEF Ends, Holder
  <2>. QED
    BY <2>2
<1>5. TypeOK'
  BY <1>3, <1>4, StepTypes
<1>6. MutexInv'
  BY <1>3, StepMutex
<1>7. NodeInv'
  BY <1>2, <1>3, StepNode
<1>8. \E m \in Nat : \E q \in [1..m -> Nodes] : Chain(q, m)' /\ Ends(q, m)' /\ Apart(q, m)'
  BY <1>2, <1>3, <1>6, StepList
<1>. QED
  BY <1>5, <1>6, <1>7, <1>8 DEF IInv

(* It holds in every state that is reached.                                 *)
LEMMA Invariance == Spec => []IInv
<1>1. Init => IInv
  BY InitTypes, InitList DEF IInv
<1>. QED
  BY <1>1, Inductive, PTL DEF Spec

(* List is the list written out.                                            *)
LEMMA ListIs ==
  TypeOK => \A n \in Nat : \A p \in [1..n -> Nodes] : Chain(p, n) => List = p
<1>. SUFFICES ASSUME TypeOK, NEW n \in Nat, NEW p \in [1..n -> Nodes], Chain(p, n)
              PROVE  List = p
  OBVIOUS
<1>1. next \in [Nodes -> Nodes \cup {Null}]
  BY DEF TypeOK
<1>2. Along(next, IF n = 0 THEN Null ELSE p[1]) = p
  BY <1>1, AlongIs DEF Chain, Links
<1>. QED
  BY <1>2 DEF List, Chain, Links

(* Whatever push, pop and clear do at the same time, the list holds existing*)
(* nodes only and tail_ is its last one, but for the moments in which clear *)
(* frees it: no call follows a pointer to a node that was deleted.          *)
THEOREM ListNeverBroken == Spec => []ListIntact
<1>1. IInv => ListIntact
  <2>. SUFFICES ASSUME IInv
                PROVE  ListIntact
    OBVIOUS
  <2>1. PICK n \in Nat : \E p \in [1..n -> Nodes] : Chain(p, n) /\ Ends(p, n) /\ Apart(p, n)
    BY DEF IInv
  <2>2. PICK p \in [1..n -> Nodes] : Chain(p, n) /\ Ends(p, n) /\ Apart(p, n)
    BY <2>1
  <2>3. TypeOK
    BY DEF IInv
  <2>4. List = p /\ Len(p) = n /\ (p = <<>> <=> n = 0)
    BY <2>2, <2>3, ListIs
  <2>5. Linked \subseteq allocated
    BY <2>2, <2>4 DEF Linked, Apart
  <2>6. Holder({"free"}) => mutex_ # NoThread /\ pc[mutex_] = "free"
    BY DEF Holder
  <2>. QED
    BY <2>2, <2>3, <2>4, <2>5, <2>6 DEF ListIntact, Ends
<1>. QED
  BY <1>1, Invariance, PTL

(* No node is leaked or deleted twice: what exists is in the list or in the *)
(* hands of one call, which is about to link it or to delete it.            *)
THEOREM NodesOwnedOnce == Spec => []OwnedOnce
<1>1. IInv => OwnedOnce
  <2>. SUFFICES ASSUME IInv
                PROVE  OwnedOnce
    OBVIOUS
  <2>1. PICK n \in Nat : \E p \in [1..n -> Nodes] : Chain(p, n) /\ Ends(p, n) /\ Apart(p, n)
    BY DEF IInv
  <2>2. PICK p \in [1..n -> Nodes] : Chain(p, n) /\ Ends(p, n) /\ Apart(p, n)
    BY <2>1
  <2>3. TypeOK /\ NodeInv
    BY DEF IInv
  <2>4. Linked = {p[i] : i \in 1..n}
    BY <2>2, <2>3, ListIs DEF Linked
  <2>5. allocated = Linked \cup {node[th] : th \in {t \in Threads : node[t] # Null}}
    BY <2>2, <2>4 DEF Apart
  <2>6. \A th \in Threads : node[th] # Null /\ pc[th] # "count" => node[th] \notin Linked
    BY <2>2, <2>3, <2>4 DEF Apart, NodeInv
  <2>7. \A t1, t2 \in Threads : node[t1] # Null /\ node[t1] = node[t2] => t1 = t2
    BY <2>3 DEF NodeInv
  <2>. QED
    BY <2>5, <2>6, <2>7, Zenon DEF OwnedOnce
<1>. QED
  BY <1>1, Invariance, PTL
-----------------------------------------------------------------------------
(* The refinement.                                                          *)

(* A step of one call that changes nothing another call relies on.          *)
LEMMA CallStays ==
  ASSUME TypeOK, CallInv, NEW th \in Threads, DOMAIN out' = Threads,
         \A t \in Threads \ {th} :
           /\ pc'[t] = pc[t] /\ op'[t] = op[t] /\ arg'[t] = arg[t]
           /\ out'[t] = out[t] /\ node'[t] = node[t]
           /\ pc[t] \in {"push", "link", "count"} => data'[node[t]] = data[node[t]],
         \A y \in allocated' : data'[y] \in Values,
         CallAt(th)'
  PROVE  CallInv'
<1>1. ASSUME NEW t \in Threads \ {th}
      PROVE  CallAt(t)'
  BY DEF CallInv, CallAt
<1>2. \A t \in Threads : CallAt(t)'
  BY <1>1
<1>. QED
  BY <1>2 DEF CallInv

(* Every step keeps what the calls know: the nodes of the others are not    *)
(* touched, and what pop moves out of a node was pushed.                    *)
LEMMA StepCall ==
  ASSUME IInv, CallInv, [Next]_vars
  PROVE  CallInv'
<1>. USE ResultAssumption DEF Goto, Lock, Respond
<1>1. TypeOK /\ NodeInv /\ MutexInv /\ DOMAIN out = Threads /\ \A y \in allocated : data[y] \in Values
  BY DEF IInv, CallInv
<1>2. ASSUME NEW th \in Threads, PushThrows(th) \/ PushLock(th) \/ PushLink(th)
      PROVE  CallInv'
  <2>1. CallAt(th)
    BY DEF CallInv
  <2>2. UNCHANGED <<allocated, data>>
    BY <1>2 DEF PushThrows, PushLock, PushLink, heapVars
  <2>3. CallAt(th)'
    BY <1>1, <1>2, <2>1, <2>2 DEF PushThrows, PushLock, PushLink, CallAt, TypeOK
  <2>. QED
    BY <1>1, <1>2, <2>2, <2>3, CallStays DEF PushThrows, PushLock, PushLink, TypeOK
<1>3. ASSUME NEW th \in Threads, PushCount(th)
      PROVE  CallInv'
  <2>1. CallAt(th)
    BY DEF CallInv
  <2>2. UNCHANGED <<allocated, data>>
    BY <1>3 DEF PushCount, heapVars
  <2>3. CallAt(th)'
    BY <1>1, <1>3, <2>1, <2>2 DEF PushCount, CallAt, TypeOK
  <2>. QED
    BY <1>1, <1>3, <2>2, <2>3, CallStays DEF PushCount, TypeOK
<1>4. ASSUME NEW th \in Threads, PopCheck(th) \/ PopLock(th)
      PROVE  CallInv'
  <2>1. CallAt(th)
    BY DEF CallInv
  <2>2. UNCHANGED <<allocated, data>>
    BY <1>4 DEF PopCheck, PopLock, heapVars
  <2>3. CallAt(th)'
    BY <1>1, <1>4, <2>1, <2>2 DEF PopCheck, PopLock, CallAt, TypeOK
  <2>. QED
    BY <1>1, <1>4, <2>2, <2>3, CallStays DEF PopCheck, PopLock, TypeOK
<1>5. ASSUME NEW th \in Threads, PopEmpty(th) \/ PopThrows(th) \/ PopCount(th)
      PROVE  CallInv'
  <2>1. CallAt(th)
    BY DEF CallInv
  <2>2. UNCHANGED <<allocated, data>>
    BY <1>5 DEF PopEmpty, PopThrows, PopCount, heapVars
  <2>3. CallAt(th)'
    BY <1>1, <1>5, <2>1, <2>2 DEF PopEmpty, PopThrows, PopCount, CallAt, TypeOK
  <2>. QED
    BY <1>1, <1>5, <2>2, <2>3, CallStays DEF PopEmpty, PopThrows, PopCount, TypeOK
<1>6. ASSUME NEW th \in Threads, ClearLock(th) \/ ClearZero(th) \/ ClearEnd(th)
      PROVE  CallInv'
  <2>1. CallAt(th)
    BY DEF CallInv
  <2>2. UNCHANGED <<allocated, data>>
    BY <1>6 DEF ClearLock, ClearZero, ClearEnd, heapVars
  <2>3. CallAt(th)'
    BY <1>1, <1>6, <2>1, <2>2 DEF ClearLock, ClearZero, ClearEnd, CallAt, TypeOK
  <2>. QED
    BY <1>1, <1>6, <2>2, <2>3, CallStays DEF ClearLock, ClearZero, ClearEnd, TypeOK
<1>7. ASSUME NEW th \in Threads, SizeLoad(th) \/ Return(th)
      PROVE  CallInv'
  <2>1. CallAt(th)
    BY DEF CallInv
  <2>2. UNCHANGED <<allocated, data>>
    BY <1>7 DEF SizeLoad, Return, heapVars
  <2>3. CallAt(th)'
    BY <1>1, <1>7, <2>1, <2>2 DEF SizeLoad, Return, CallAt, TypeOK
  <2>. QED
    BY <1>1, <1>7, <2>2, <2>3, CallStays DEF SizeLoad, Return, TypeOK
<1>8. ASSUME NEW th \in Threads, NEW v \in Values, CallPush(th, v)
      PROVE  CallInv'
  <2>1. CallAt(th)'
    BY <1>1, <1>8 DEF CallPush, Call, CallAt, CallInv, TypeOK
  <2>. QED
    BY <1>1, <1>8, <2>1, CallStays DEF CallPush, Call, TypeOK, heapVars
<1>9. ASSUME NEW th \in Threads, CallPop(th) \/ CallClear(th) \/ CallSize(th)
      PROVE  CallInv'
  <2>1. CallAt(th)'
    BY <1>1, <1>9 DEF CallPop, CallClear, CallSize, Call, CallAt, CallInv, TypeOK
  <2>. QED
    BY <1>1, <1>9, <2>1, CallStays DEF CallPop, CallClear, CallSize, Call, TypeOK, heapVars
<1>10. CASE Destroy
  <2>1. CallAt(Owner)'
    BY <1>1, <1>10 DEF Destroy, CallAt, CallInv, TypeOK
  <2>. QED
    BY <1>1, <1>10, <2>1, CallStays DEF Destroy, TypeOK, heapVars
<1>11. ASSUME NEW th \in Threads, PushNew(th)
       PROVE  CallInv'
  <2>1. CallAt(th)
    BY DEF CallInv
  <2>. PICK m \in Nodes \ allocated :
         /\ pc[th] = "new" /\ pc' = [pc EXCEPT ![th] = "push"]
         /\ allocated' = allocated \cup {m}
         /\ data' = [data EXCEPT ![m] = arg[th]]
         /\ node' = [node EXCEPT ![th] = m]
         /\ op' = op /\ arg' = arg /\ out' = out
    BY <1>11 DEF PushNew
  <2>2. \A y \in Nodes : data'[y] = IF y = m THEN arg[th] ELSE data[y]
    BY <1>1 DEF TypeOK
  <2>3. arg[th] \in Values
    BY <2>1 DEF CallAt
  <2>4. \A y \in allocated' : data'[y] \in Values
    BY <1>1, <2>2, <2>3 DEF TypeOK
  <2>5. CallAt(th)'
    BY <1>1, <2>1, <2>2 DEF CallAt, TypeOK
  <2>6. \A t \in Threads : pc[t] \in {"push", "link", "count"} => node[t] \in allocated
    BY <1>1 DEF IInv, Apart, NodeInv, InHand
  <2>7. \A t \in Threads \ {th} :
           /\ pc'[t] = pc[t] /\ op'[t] = op[t] /\ arg'[t] = arg[t]
           /\ out'[t] = out[t] /\ node'[t] = node[t]
           /\ pc[t] \in {"push", "link", "count"} => data'[node[t]] = data[node[t]]
    BY <1>1, <2>2, <2>6 DEF TypeOK
  <2>. QED
    BY <1>1, <2>4, <2>5, <2>7, CallStays
<1>12. ASSUME NEW th \in Threads, PopTake(th)
       PROVE  CallInv'
  <2>1. CallAt(th)
    BY DEF CallInv
  <2>2. /\ pc[th] = "take" /\ pc' = [pc EXCEPT ![th] = "uncount"]
        /\ head_ # Null /\ out' = [out EXCEPT ![th] = data[head_]]
        /\ node' = [node EXCEPT ![th] = head_]
        /\ op' = op /\ arg' = arg /\ allocated' = allocated /\ data' = data
    BY <1>12 DEF PopTake, heapVars
  <2>3. head_ \in allocated
    <3>1. PICK n \in Nat : \E p \in [1..n -> Nodes] : Chain(p, n) /\ Ends(p, n) /\ Apart(p, n)
      BY DEF IInv
    <3>2. PICK p \in [1..n -> Nodes] : Chain(p, n) /\ Ends(p, n) /\ Apart(p, n)
      BY <3>1
    <3>3. 1 \in 1..n /\ head_ = p[1]
      BY <2>2, <3>2 DEF Chain, Links
    <3>. QED
      BY <3>2, <3>3 DEF Apart
  <2>4. data[head_] \in Values
    BY <1>1, <2>3
  <2>5. CallAt(th)'
    BY <1>1, <2>1, <2>2, <2>4 DEF CallAt, TypeOK
  <2>6. \A t \in Threads \ {th} :
           /\ pc'[t] = pc[t] /\ op'[t] = op[t] /\ arg'[t] = arg[t]
           /\ out'[t] = out[t] /\ node'[t] = node[t]
           /\ pc[t] \in {"push", "link", "count"} => data'[node[t]] = data[node[t]]
    BY <1>1, <2>2 DEF TypeOK
  <2>7. DOMAIN out' = Threads /\ \A y \in allocated' : data'[y] \in Values
    BY <1>1, <2>2
  <2>. QED
    BY <1>1, <2>5, <2>6, <2>7, CallStays
<1>13. ASSUME NEW th \in Threads, PopDelete(th) \/ PopLoses(th)
       PROVE  CallInv'
  <2>1. CallAt(th)
    BY DEF CallInv
  <2>2. /\ pc[th] = "delete" /\ pc' = [pc EXCEPT ![th] = "return"]
        /\ allocated' = allocated \ {node[th]}
        /\ data' = [data EXCEPT ![node[th]] = NoValue]
        /\ node' = [node EXCEPT ![th] = Null]
        /\ op' = op /\ arg' = arg /\ (out' = out \/ out' = [out EXCEPT ![th] = Thrown])
    BY <1>13 DEF PopDelete, PopLoses, DeleteTaken, Respond, Free
  <2>3. CallAt(th)'
    BY <1>1, <2>1, <2>2 DEF CallAt, TypeOK
  <2>4. \A y \in Nodes \ {node[th]} : data'[y] = data[y]
    BY <1>1, <2>2 DEF TypeOK
  <2>5. \A t \in Threads \ {th} : pc[t] \in {"push", "link", "count"} => node[t] \in Nodes \ {node[th]}
    BY <1>1, <2>2 DEF NodeInv, TypeOK, InHand
  <2>6. \A t \in Threads \ {th} :
           /\ pc'[t] = pc[t] /\ op'[t] = op[t] /\ arg'[t] = arg[t]
           /\ out'[t] = out[t] /\ node'[t] = node[t]
           /\ pc[t] \in {"push", "link", "count"} => data'[node[t]] = data[node[t]]
    BY <1>1, <2>2, <2>4, <2>5 DEF TypeOK
  <2>7. DOMAIN out' = Threads /\ \A y \in allocated' : data'[y] \in Values
    BY <1>1, <2>2, <2>4 DEF TypeOK
  <2>. QED
    BY <1>1, <2>3, <2>6, <2>7, CallStays
<1>14. ASSUME NEW th \in Threads, ClearFree(th)
       PROVE  CallInv'
  <2>1. CallAt(th)
    BY DEF CallInv
  <2>2. /\ pc[th] = "free" /\ pc' = pc /\ mutex_ = th
        /\ head_ # Null /\ allocated' = allocated \ {head_}
        /\ data' = [data EXCEPT ![head_] = NoValue]
        /\ node' = node /\ op' = op /\ arg' = arg /\ out' = out
    BY <1>1, <1>14 DEF ClearFree, Free, TypeOK, MutexInv, Locked
  <2>3. CallAt(th)'
    BY <1>1, <2>1, <2>2 DEF CallAt, TypeOK
  <2>4. \A y \in Nodes \ {head_} : data'[y] = data[y]
    BY <1>1, <2>2 DEF TypeOK
  <2>5. \A t \in Threads : pc[t] \in {"push", "link", "count"} => node[t] \in Nodes \ {head_}
    <3>1. PICK n \in Nat : \E p \in [1..n -> Nodes] : Chain(p, n) /\ Ends(p, n) /\ Apart(p, n)
      BY DEF IInv
    <3>2. PICK p \in [1..n -> Nodes] : Chain(p, n) /\ Ends(p, n) /\ Apart(p, n)
      BY <3>1
    <3>3. 1 \in 1..n /\ head_ = p[1]
      BY <2>2, <3>2 DEF Chain, Links
    <3>4. \A t \in Threads : pc[t] # "count"
      BY <1>1, <2>2 DEF MutexInv, Locked
    <3>. QED
      BY <1>1, <3>2, <3>3, <3>4 DEF Apart, NodeInv, TypeOK, InHand
  <2>6. \A t \in Threads \ {th} :
           /\ pc'[t] = pc[t] /\ op'[t] = op[t] /\ arg'[t] = arg[t]
           /\ out'[t] = out[t] /\ node'[t] = node[t]
           /\ pc[t] \in {"push", "link", "count"} => data'[node[t]] = data[node[t]]
    BY <1>1, <2>2, <2>4, <2>5 DEF TypeOK
  <2>7. DOMAIN out' = Threads /\ \A y \in allocated' : data'[y] \in Values
    BY <1>1, <2>2, <2>4 DEF TypeOK
  <2>. QED
    BY <1>1, <2>3, <2>6, <2>7, CallStays
<1>15. CASE UNCHANGED vars
  BY <1>15 DEF vars, heapVars, CallInv, CallAt
<1>. QED
  BY <1>2, <1>3, <1>4, <1>5, <1>6, <1>7, <1>8, <1>9, <1>10, <1>11, <1>12, <1>13, <1>14, <1>15
     DEF Next, Step, Push, Pop, Clear, Terminated

(* Both invariants hold in every state that is reached.                     *)
LEMMA CallInvariance == Spec => [](IInv /\ CallInv)
<1>1. Init => CallInv
  BY DEF Init, CallInv, CallAt
<1>. QED
  BY <1>1, Invariance, StepCall, PTL DEF Spec

(* The values of the list's nodes.                                          *)
Val(p, n) == [i \in 1..n |-> data[p[i]]]

(* What the callers see of the chain p, whatever the mutex holder is at.     *)
ItemsFollow ==
  \A n \in Nat : \A p \in [1..n -> Nodes] : Chain(p, n) =>
    /\ Holder({"count"}) => Items = SubSeq(Val(p, n), 1, n - 1)
    /\ Holder({"uncount"}) => Items = <<out[mutex_]>> \o Val(p, n)
    /\ Holder({"free"}) => Items = <<>>
    /\ ~Holder({"count", "uncount", "free"}) => Items = Val(p, n)

(* Items, defined by walking the list, is what the callers see of p ...     *)
LEMMA ItemsAre == TypeOK => ItemsFollow
<1>. SUFFICES ASSUME TypeOK, NEW n \in Nat, NEW p \in [1..n -> Nodes], Chain(p, n)
              PROVE  /\ Holder({"count"}) => Items = SubSeq(Val(p, n), 1, n - 1)
                     /\ Holder({"uncount"}) => Items = <<out[mutex_]>> \o Val(p, n)
                     /\ Holder({"free"}) => Items = <<>>
                     /\ ~Holder({"count", "uncount", "free"}) => Items = Val(p, n)
  BY DEF ItemsFollow
<1>1. List = p /\ DOMAIN List = 1..n
  BY ListIs
<1>2. [i \in DOMAIN List |-> data[List[i]]] = Val(p, n) /\ Len(Val(p, n)) = n
  BY <1>1 DEF Val
<1>3. \A S, T \in {{"count"}, {"uncount"}, {"free"}} : Holder(S) /\ Holder(T) => S = T
  BY DEF Holder
<1>4. Holder({"count", "uncount", "free"}) <=> Holder({"count"}) \/ Holder({"uncount"}) \/ Holder({"free"})
  BY DEF Holder
<1>. QED
  BY <1>2, <1>3, <1>4 DEF Items

(* ... after a step as before it.                                           *)
LEMMA ItemsAreNext == TypeOK' => ItemsFollow'
  BY ItemsAre, PTL

(* A step outside the list's updates leaves the queue the callers see.      *)
LEMMA ItemsStay ==
  ASSUME TypeOK, TypeOK', NEW th \in Threads, NEW to \in Settled,
         NEW n \in Nat, NEW p \in [1..n -> Nodes], Chain(p, n),
         pc[th] \in Settled,
         pc' = [pc EXCEPT ![th] = to],
         \/ mutex_' = mutex_
         \/ mutex_ = NoThread /\ mutex_' = th
         \/ mutex_ = th /\ mutex_' = NoThread,
         head_' = head_,
         \A i \in 1..n : next'[p[i]] = next[p[i]] /\ data'[p[i]] = data[p[i]],
         \A t \in Threads \ {th} : out'[t] = out[t]
  PROVE  Items' = Items
<1>. USE DEF Settled
<1>1. \A t \in Threads : pc'[t] = IF t = th THEN to ELSE pc[t]
  BY DEF TypeOK
<1>2. ASSUME NEW S \in {{"free"}, {"count"}, {"uncount"}, {"count", "uncount", "free"}}
      PROVE  Holder(S)' <=> Holder(S)
  BY <1>1 DEF Holder, TypeOK
<1>3. Chain(p, n)'
  BY DEF Chain, Links
<1>4. Val(p, n)' = Val(p, n)
  BY DEF Val
<1>5. Holder({"uncount"}) => mutex_ \in Threads \ {th} /\ mutex_' = mutex_
  BY DEF Holder, TypeOK
<1>6. Holder({"uncount"}) => out'[mutex_'] = out[mutex_]
  BY <1>5
<1>7. /\ Holder({"count"}) => Items = SubSeq(Val(p, n), 1, n - 1)
      /\ Holder({"uncount"}) => Items = <<out[mutex_]>> \o Val(p, n)
      /\ Holder({"free"}) => Items = <<>>
      /\ ~Holder({"count", "uncount", "free"}) => Items = Val(p, n)
  BY ItemsAre DEF ItemsFollow
<1>8. /\ Holder({"count"})' => Items' = SubSeq(Val(p, n)', 1, n - 1)
      /\ Holder({"uncount"})' => Items' = <<out'[mutex_']>> \o Val(p, n)'
      /\ Holder({"free"})' => Items' = <<>>
      /\ ~Holder({"count", "uncount", "free"})' => Items' = Val(p, n)'
  BY <1>3, ItemsAreNext DEF ItemsFollow
<1>9. Holder({"count", "uncount", "free"}) => Holder({"count"}) \/ Holder({"uncount"}) \/ Holder({"free"})
  BY DEF Holder
<1>. QED
  BY <1>2, <1>4, <1>6, <1>7, <1>8, <1>9

(* What one thread does shows in its own call only.                         *)
LEMMA OthersSame ==
  ASSUME NEW th \in Threads, \A t \in Threads \ {th} : pc'[t] = pc[t] /\ out'[t] = out[t]
  PROVE  Effective' = [Effective EXCEPT ![th] = Effective'[th]]
<1>1. \A t \in Threads \ {th} : Effective'[t] = Effective[t]
  BY DEF Effective
<1>2. DOMAIN Effective = Threads /\ DOMAIN Effective' = Threads /\ Effective' = [t \in Threads |-> Effective'[t]]
  BY DEF Effective
<1>. QED
  BY <1>1, <1>2

(* A step of which nobody sees a thing is a stutter of FifoQueue.           *)
LEMMA Silent ==
  ASSUME NEW th \in Threads, \A t \in Threads \ {th} : pc'[t] = pc[t] /\ out'[t] = out[t],
         op' = op, arg' = arg, Effective'[th] = Effective[th], Items' = Items
  PROVE  UNCHANGED Fifo!vars
<1>1. Effective' = Effective
  <2>1. Effective = [t \in Threads |-> Effective[t]] /\ Effective' = [t \in Threads |-> Effective'[t]]
    BY DEF Effective
  <2>2. \A t \in Threads : Effective'[t] = Effective[t]
    BY DEF Effective
  <2>. QED
    BY <2>1, <2>2
<1>2. Operation' = Operation
  BY DEF Operation
<1>. QED
  BY <1>1, <1>2 DEF Fifo!vars

(* A step that gives a call its answer is an effect of FifoQueue.           *)
LEMMA TakesEffect ==
  ASSUME NEW th \in Threads, \A t \in Threads \ {th} : pc'[t] = pc[t] /\ out'[t] = out[t],
         op' = op, arg' = arg, Effective[th] = Pending
  PROVE  Fifo!Effect(th, Operation[th], Effective'[th], Items')
<1>1. Operation' = Operation
  BY DEF Operation
<1>. QED
  BY <1>1, OthersSame DEF Fifo!Effect

(* Allocating, waiting for the mutex and deleting a node are seen by nobody.*)
LEMMA QuietSteps ==
  ASSUME IInv, CallInv, TypeOK', NEW th \in Threads,
         \/ PushNew(th) \/ PushLock(th) \/ PopLock(th) \/ PopDelete(th) \/ ClearLock(th)
         \/ PopCheck(th) /\ size_ # 0
  PROVE  UNCHANGED Fifo!vars
<1>. USE DEF Goto, Lock
<1>1. PICK n \in Nat : \E p \in [1..n -> Nodes] : Chain(p, n) /\ Ends(p, n) /\ Apart(p, n)
  BY DEF IInv
<1>2. PICK p \in [1..n -> Nodes] : Chain(p, n) /\ Ends(p, n) /\ Apart(p, n)
  BY <1>1
<1>3. TypeOK /\ MutexInv /\ NodeInv
  BY DEF IInv
<1>4. PICK to \in Settled :
        /\ pc[th] \in Settled /\ pc' = [pc EXCEPT ![th] = to]
        /\ \/ pc[th] = "clear" /\ to = "zero"
           \/ pc[th] = "delete" /\ to = "return"
           \/ pc[th] \notin {"clear", "zero", "delete"} /\ to \notin {"clear", "zero", "return"}
        /\ \/ mutex_' = mutex_
           \/ mutex_ = NoThread /\ mutex_' = th
           \/ mutex_ = th /\ mutex_' = NoThread
        /\ head_' = head_ /\ out' = out /\ op' = op /\ arg' = arg
  <2>. USE DEF Settled, queueVars, heapVars
  <2>1. CASE PushNew(th) \/ PopDelete(th)
    BY <2>1 DEF PushNew, PopDelete, DeleteTaken
  <2>2. CASE PushLock(th) \/ PopLock(th) \/ ClearLock(th)
    BY <2>2 DEF PushLock, PopLock, ClearLock
  <2>3. CASE PopCheck(th) /\ size_ # 0
    BY <2>3 DEF PopCheck
  <2>. QED
    BY <2>1, <2>2, <2>3
<1>5. \A i \in 1..n : next'[p[i]] = next[p[i]] /\ data'[p[i]] = data[p[i]]
  <2>1. CASE PushNew(th)
    BY <1>2, <1>3, <2>1 DEF PushNew, Apart, TypeOK
  <2>2. CASE PopDelete(th)
    <3>1. \A i \in 1..n : p[i] # node[th]
      BY <1>2, <2>2 DEF PopDelete, DeleteTaken, Apart, InHand
    <3>. QED
      BY <1>3, <2>2, <3>1 DEF PopDelete, DeleteTaken, Free, TypeOK
  <2>3. CASE ~PushNew(th) /\ ~PopDelete(th)
    BY <2>3 DEF PushLock, PopLock, ClearLock, PopCheck, heapVars
  <2>. QED
    BY <2>1, <2>2, <2>3
<1>6. Items' = Items
  BY <1>2, <1>3, <1>4, <1>5, ItemsStay
<1>7. \A t \in Threads : pc'[t] = IF t = th THEN to ELSE pc[t]
  BY <1>3, <1>4 DEF TypeOK
<1>8. Effective'[th] = Effective[th]
  <2>1. /\ pc[th] \notin {"uncount", "zero", "free", "gone"}
        /\ to \notin {"uncount", "clear", "free", "gone"}
        /\ pc[th] = "clear" <=> to = "zero"
    <3>1. to \notin {"uncount", "free", "gone"} /\ pc[th] \notin {"uncount", "free", "gone"}
      BY <1>4 DEF Settled
    <3>2. pc[th] # "zero" /\ to # "clear"
      BY <1>4
    <3>. QED
      BY <1>4, <3>1, <3>2
  <2>2. pc[th] = "clear" => out[th] = Pending
    BY DEF CallInv, CallAt
  <2>. QED
    BY <1>4, <1>7, <2>1, <2>2 DEF Effective
<1>. QED
  BY <1>4, <1>6, <1>7, <1>8, Silent

(* A node that is linked is not in the queue before size_ counts it.        *)
LEMMA LinkIsSilent ==
  ASSUME IInv, CallInv, TypeOK', MutexInv', NEW th \in Threads, PushLink(th)
  PROVE  UNCHANGED Fifo!vars
<1>1. PICK n \in Nat : \E p \in [1..n -> Nodes] : Chain(p, n) /\ Ends(p, n) /\ Apart(p, n)
  BY DEF IInv
<1>2. PICK p \in [1..n -> Nodes] : Chain(p, n) /\ Ends(p, n) /\ Apart(p, n)
  BY <1>1
<1>3. TypeOK /\ MutexInv /\ NodeInv
  BY DEF IInv
<1>4. /\ pc[th] = "link" /\ pc' = [pc EXCEPT ![th] = "count"] /\ mutex_ = th /\ mutex_' = th
      /\ data' = data /\ op' = op /\ arg' = arg /\ out' = out
  BY <1>3 DEF PushLink, Goto, MutexInv, Locked
<1>5. \A t \in Threads : pc'[t] = IF t = th THEN "count" ELSE pc[t]
  BY <1>3, <1>4 DEF TypeOK
<1>6. PICK q \in [1..(n + 1) -> Nodes] : (\A i \in 1..n : q[i] = p[i]) /\ Chain(q, n + 1)'
  BY <1>2, <1>3, LinkGrows
<1>7. Items = Val(p, n)
  <2>1. ~Holder({"count", "uncount", "free"})
    BY <1>4 DEF Holder
  <2>. QED
    BY <1>2, <1>3, <2>1, ItemsAre DEF ItemsFollow
<1>8. Items' = SubSeq(Val(q, n + 1)', 1, n)
  <2>1. Holder({"count"})' /\ n + 1 \in Nat /\ (n + 1) - 1 = n
    BY <1>4, <1>5 DEF Holder, TypeOK
  <2>2. Items' = SubSeq(Val(q, n + 1)', 1, (n + 1) - 1)
    BY <1>6, <2>1, ItemsAreNext DEF ItemsFollow
  <2>. QED
    BY <2>1, <2>2
<1>9. Items' = Items
  <2>1. Val(q, n + 1)' = [i \in 1..(n + 1) |-> data[q[i]]]
    BY <1>4 DEF Val
  <2>2. \A i \in 1..n : data[q[i]] = data[p[i]]
    BY <1>6
  <2>3. SubSeq([i \in 1..(n + 1) |-> data[q[i]]], 1, n) = [i \in 1..n |-> data[q[i]]]
    <3>. DEFINE s == [i \in 1..(n + 1) |-> data[q[i]]]
    <3>1. s \in Seq(Values \cup {NoValue}) /\ Len(s) = n + 1
      BY <1>3 DEF TypeOK
    <3>2. SubSeq(s, 1, n) = [i \in 1..n |-> s[i]]
      BY <3>1
    <3>. QED
      BY <3>2
  <2>. QED
    BY <1>7, <1>8, <2>1, <2>2, <2>3 DEF Val
<1>10. Effective'[th] = Effective[th]
  BY <1>4, <1>5 DEF Effective
<1>. QED
  BY <1>4, <1>5, <1>9, <1>10, Silent

(* A value that was moved out is in the queue until size_ is decremented.   *)
LEMMA TakeIsSilent ==
  ASSUME IInv, CallInv, TypeOK', MutexInv', NEW th \in Threads, PopTake(th)
  PROVE  UNCHANGED Fifo!vars
<1>1. PICK n \in Nat : \E p \in [1..n -> Nodes] : Chain(p, n) /\ Ends(p, n) /\ Apart(p, n)
  BY DEF IInv
<1>2. PICK p \in [1..n -> Nodes] : Chain(p, n) /\ Ends(p, n) /\ Apart(p, n)
  BY <1>1
<1>3. TypeOK /\ MutexInv /\ NodeInv
  BY DEF IInv
<1>4. /\ pc[th] = "take" /\ pc' = [pc EXCEPT ![th] = "uncount"] /\ mutex_ = th /\ mutex_' = th
      /\ head_ # Null /\ head_' = next[head_] /\ next' = next
      /\ data' = data /\ op' = op /\ arg' = arg /\ out' = [out EXCEPT ![th] = data[head_]]
  BY <1>3 DEF PopTake, Goto, Respond, MutexInv, Locked, heapVars
<1>5. /\ \A t \in Threads : pc'[t] = IF t = th THEN "uncount" ELSE pc[t]
      /\ \A t \in Threads : out'[t] = IF t = th THEN data[head_] ELSE out[t]
  BY <1>3, <1>4 DEF TypeOK, CallInv
<1>6. n # 0 /\ head_ = p[1]
  BY <1>2, <1>3, <1>4, HeadGoes
<1>7. PICK q \in [1..(n - 1) -> Nodes] : Chain(q, n - 1)' /\ \A i \in 1..(n - 1) : q[i] = p[i + 1]
  BY <1>2, <1>3, <1>4, HeadGoes
<1>8. Items = Val(p, n)
  <2>1. ~Holder({"count", "uncount", "free"})
    BY <1>4 DEF Holder
  <2>. QED
    BY <1>2, <1>3, <2>1, ItemsAre DEF ItemsFollow
<1>9. Items' = <<data[head_]>> \o Val(q, n - 1)'
  <2>1. Holder({"uncount"})' /\ n - 1 \in Nat
    BY <1>4, <1>5, <1>6 DEF Holder, TypeOK
  <2>2. out'[mutex_'] = data[head_]
    BY <1>4, <1>5
  <2>. QED
    BY <1>7, <2>1, <2>2, ItemsAreNext DEF ItemsFollow
<1>10. Items' = Items
  <2>. DEFINE s == [i \in 1..(n - 1) |-> data[q[i]]]
              e == data[p[1]]
              D == Values \cup {NoValue}
  <2>1. Val(q, n - 1)' = s
    BY <1>4 DEF Val
  <2>2. s \in Seq(D) /\ Len(s) = n - 1 /\ e \in D
    <3>1. n - 1 \in Nat /\ p[1] \in Nodes /\ \A x \in Nodes : data[x] \in D
      BY <1>3, <1>6, SMTT(60) DEF TypeOK
    <3>2. \A i \in 1..(n - 1) : data[q[i]] \in D
      BY <3>1
    <3>. HIDE DEF D
    <3>. QED
      BY <3>1, <3>2
  <2>3. <<e>> \in Seq(D) /\ Len(<<e>>) = 1 /\ <<e>>[1] = e
    BY <2>2
  <2>4. /\ <<e>> \o s \in Seq(D) /\ Len(<<e>> \o s) = n
        /\ \A i \in 1..n : (<<e>> \o s)[i] = IF i <= 1 THEN e ELSE s[i - 1]
    <3>. HIDE DEF s, e, D
    <3>1. 1 + (n - 1) = n
      OBVIOUS
    <3>. QED
      BY <2>2, <2>3, <3>1, ConcatProperties
  <2>5. Val(p, n) \in Seq(D) /\ Len(Val(p, n)) = n
    BY <1>3 DEF Val, TypeOK
  <2>6. ASSUME NEW i \in 1..n
        PROVE  (<<e>> \o s)[i] = Val(p, n)[i]
    <3>1. CASE i = 1
      BY <2>4, <3>1 DEF Val
    <3>2. CASE i # 1
      <4>1. PICK k \in 1..(n - 1) : k = i - 1
        BY <3>2
      <4>2. s[k] = data[p[k + 1]]
        BY <1>7
      <4>. QED
        BY <2>4, <3>2, <4>1, <4>2 DEF Val
    <3>. QED
      BY <3>1, <3>2
  <2>7. <<e>> \o s = Val(p, n)
    <3>. HIDE DEF s, e, D
    <3>. QED
      BY <2>4, <2>5, <2>6, SeqEqual
  <2>. QED
    BY <1>6, <1>8, <1>9, <2>1, <2>7
<1>11. Effective'[th] = Effective[th]
  <2>1. out[th] = Pending
    BY <1>4 DEF CallInv, CallAt
  <2>. QED
    BY <1>4, <1>5, <2>1 DEF Effective
<1>. QED
  BY <1>4, <1>5, <1>10, <1>11, Silent

(* The nodes clear frees left the queue as it stored 0.                     *)
LEMMA FreeIsSilent ==
  ASSUME IInv, CallInv, TypeOK', MutexInv', NEW th \in Threads, ClearFree(th) \/ ClearEnd(th)
  PROVE  UNCHANGED Fifo!vars
<1>1. PICK n \in Nat : \E p \in [1..n -> Nodes] : Chain(p, n) /\ Ends(p, n) /\ Apart(p, n)
  BY DEF IInv
<1>2. PICK p \in [1..n -> Nodes] : Chain(p, n) /\ Ends(p, n) /\ Apart(p, n)
  BY <1>1
<1>3. TypeOK /\ MutexInv /\ NodeInv
  BY DEF IInv
<1>4. pc[th] = "free" /\ mutex_ = th /\ op' = op /\ arg' = arg
  BY <1>3 DEF ClearFree, ClearEnd, Goto, MutexInv, Locked
<1>5. Items = <<>>
  <2>1. Holder({"free"})
    BY <1>4 DEF Holder
  <2>. QED
    BY <1>2, <1>3, <2>1, ItemsAre DEF ItemsFollow
<1>6. CASE ClearFree(th)
  <2>1. /\ pc' = pc /\ mutex_' = th /\ out' = out /\ head_ # Null /\ head_' = next[head_]
        /\ next' = [next EXCEPT ![head_] = Null]
    BY <1>3, <1>4, <1>6 DEF ClearFree, Goto, Free, TypeOK
  <2>2. \A x \in Nodes \ {head_} : next'[x] = next[x]
    BY <1>3, <2>1 DEF TypeOK
  <2>3. n # 0
    BY <1>2, <1>3, <2>1, <2>2, HeadGoes
  <2>4. PICK q \in [1..(n - 1) -> Nodes] : Chain(q, n - 1)'
    BY <1>2, <1>3, <2>1, <2>2, HeadGoes
  <2>5. Holder({"free"})' /\ n - 1 \in Nat
    BY <1>4, <2>1, <2>3 DEF Holder
  <2>6. Items' = <<>>
    BY <2>4, <2>5, ItemsAreNext DEF ItemsFollow
  <2>7. Effective'[th] = Effective[th]
    BY <2>1 DEF Effective
  <2>. QED
    BY <1>4, <1>5, <2>1, <2>6, <2>7, Silent
<1>7. CASE ClearEnd(th)
  <2>1. PICK to \in {"gone", "return"} :
          /\ pc' = [pc EXCEPT ![th] = to] /\ mutex_' = NoThread /\ head_ = Null /\ head_' = Null
          /\ next' = next /\ out' = [out EXCEPT ![th] = Done]
    BY <1>7 DEF ClearEnd, Goto, Respond, heapVars
  <2>2. /\ \A t \in Threads : pc'[t] = IF t = th THEN to ELSE pc[t]
        /\ \A t \in Threads : out'[t] = IF t = th THEN Done ELSE out[t]
    BY <1>3, <2>1 DEF TypeOK, CallInv
  <2>3. n = 0
    BY <1>2, <2>1 DEF Chain, Links
  <2>4. Chain(p, n)'
    BY <1>2, <2>1 DEF Chain, Links
  <2>5. ~Holder({"count", "uncount", "free"})'
    BY <2>1 DEF Holder
  <2>6. Items' = Val(p, n)'
    BY <2>4, <2>5, ItemsAreNext DEF ItemsFollow
  <2>7. Val(p, n)' = <<>>
    BY <2>3 DEF Val
  <2>8. Effective'[th] = Effective[th]
    BY <1>4, <2>1, <2>2 DEF Effective
  <2>. QED
    BY <1>4, <1>5, <2>2, <2>6, <2>7, <2>8, Silent
<1>. QED
  BY <1>6, <1>7

(* size_ is the length of what the callers see, at every point.             *)
LEMMA SizeIsLength ==
  ASSUME IInv, CallInv
  PROVE  Items \in Seq(Values \cup {NoValue}) /\ Len(Items) = size_
<1>. DEFINE D == Values \cup {NoValue}
<1>1. PICK n \in Nat : \E p \in [1..n -> Nodes] : Chain(p, n) /\ Ends(p, n) /\ Apart(p, n)
  BY DEF IInv
<1>2. PICK p \in [1..n -> Nodes] : Chain(p, n) /\ Ends(p, n) /\ Apart(p, n)
  BY <1>1
<1>3. TypeOK /\ MutexInv
  BY DEF IInv
<1>4. Val(p, n) \in Seq(D) /\ Len(Val(p, n)) = n
  <2>1. \A i \in 1..n : data[p[i]] \in D
    BY <1>3 DEF TypeOK
  <2>. HIDE DEF D
  <2>. QED
    BY <2>1 DEF Val
<1>5. /\ Holder({"count"}) => Items = SubSeq(Val(p, n), 1, n - 1)
      /\ Holder({"uncount"}) => Items = <<out[mutex_]>> \o Val(p, n)
      /\ Holder({"free"}) => Items = <<>>
      /\ ~Holder({"count", "uncount", "free"}) => Items = Val(p, n)
  BY <1>2, <1>3, ItemsAre DEF ItemsFollow
<1>. HIDE DEF D
<1>6. CASE Holder({"count"})
  <2>1. mutex_ \in Threads /\ pc[mutex_] = "count"
    BY <1>3, <1>6 DEF Holder, TypeOK
  <2>2. n # 0 /\ size_ = n - 1
    BY <1>2, <2>1, <1>6 DEF Ends, Holder
  <2>3. SubSeq(Val(p, n), 1, n - 1) \in Seq(D) /\ Len(SubSeq(Val(p, n), 1, n - 1)) = n - 1
    BY <1>4, <2>2
  <2>. QED
    BY <1>5, <1>6, <2>2, <2>3 DEF D
<1>7. CASE Holder({"uncount"})
  <2>1. mutex_ \in Threads /\ pc[mutex_] = "uncount" /\ size_ = n + 1
    BY <1>2, <1>3, <1>7 DEF Holder, TypeOK, Ends
  <2>2. out[mutex_] \in D
    BY <2>1 DEF CallInv, CallAt, D
  <2>3. <<out[mutex_]>> \in Seq(D) /\ Len(<<out[mutex_]>>) = 1
    BY <2>2
  <2>4. <<out[mutex_]>> \o Val(p, n) \in Seq(D) /\ Len(<<out[mutex_]>> \o Val(p, n)) = 1 + n
    BY <1>4, <2>3, ConcatProperties
  <2>. QED
    BY <1>5, <1>7, <2>1, <2>4 DEF D
<1>8. CASE Holder({"free"})
  <2>1. size_ = 0
    BY <1>2, <1>8 DEF Ends, Holder
  <2>. QED
    BY <1>5, <1>8, <2>1
<1>9. CASE ~Holder({"count"}) /\ ~Holder({"uncount"}) /\ ~Holder({"free"})
  <2>1. ~Holder({"count", "uncount", "free"}) /\ size_ = n
    BY <1>2, <1>9 DEF Holder, Ends
  <2>. QED
    BY <1>4, <1>5, <2>1 DEF D
<1>. QED
  BY <1>6, <1>7, <1>8, <1>9

(* The answers that leave the queue as it is.                               *)
LEMMA AnswerSteps ==
  ASSUME IInv, CallInv, TypeOK', NEW th \in Threads,
         \/ PushThrows(th) \/ (PopCheck(th) /\ size_ = 0) \/ PopEmpty(th) \/ PopThrows(th) \/ SizeLoad(th)
  PROVE  Fifo!Next
<1>. USE DEF Goto, Respond
<1>1. PICK n \in Nat : \E p \in [1..n -> Nodes] : Chain(p, n) /\ Ends(p, n) /\ Apart(p, n)
  BY DEF IInv
<1>2. PICK p \in [1..n -> Nodes] : Chain(p, n) /\ Ends(p, n) /\ Apart(p, n)
  BY <1>1
<1>3. TypeOK /\ MutexInv
  BY DEF IInv
<1>4.
        /\ pc[th] \in {"new", "check", "take", "size"} /\ pc' = [pc EXCEPT ![th] = "return"]
        /\ mutex_' = mutex_ \/ (mutex_ = th /\ mutex_' = NoThread)
        /\ head_' = head_ /\ next' = next /\ data' = data /\ op' = op /\ arg' = arg
        /\ \A u \in Threads \ {th} : out'[u] = out[u]
  <2>. USE DEF queueVars, heapVars
  <2>1. CASE PushThrows(th) \/ SizeLoad(th)
    <3>1. pc[th] \in {"new", "size", "check"} /\ pc' = [pc EXCEPT ![th] = "return"]
      BY <2>1 DEF PushThrows, SizeLoad
    <3>2. mutex_' = mutex_ /\ head_' = head_ /\ next' = next /\ data' = data /\ op' = op /\ arg' = arg
      BY <2>1 DEF PushThrows, SizeLoad
    <3>3. \A u \in Threads \ {th} : out'[u] = out[u]
      BY <2>1 DEF PushThrows, SizeLoad, CallInv
    <3>. QED
      BY <3>1, <3>2, <3>3
  <2>2. CASE PopCheck(th) /\ size_ = 0
    <3>1. pc[th] \in {"new", "size", "check"} /\ pc' = [pc EXCEPT ![th] = "return"]
      BY <2>2 DEF PopCheck
    <3>2. mutex_' = mutex_ /\ head_' = head_ /\ next' = next /\ data' = data /\ op' = op /\ arg' = arg
      BY <2>2 DEF PopCheck
    <3>3. \A u \in Threads \ {th} : out'[u] = out[u]
      BY <2>2 DEF PopCheck, CallInv
    <3>. QED
      BY <3>1, <3>2, <3>3
  <2>3. CASE PopEmpty(th) \/ PopThrows(th)
    BY <1>3, <2>3 DEF PopEmpty, PopThrows, MutexInv, Locked, CallInv
  <2>. QED
    BY <2>1, <2>2, <2>3
<1>5. \A t \in Threads : pc'[t] = IF t = th THEN "return" ELSE pc[t]
  BY <1>3, <1>4 DEF TypeOK
<1>6. Items' = Items
  <2>1. pc[th] \in Settled /\ "return" \in Settled
    BY <1>4 DEF Settled
  <2>. QED
    BY <1>2, <1>3, <1>4, <1>5, <2>1, ItemsStay
<1>7. Effective[th] = Pending /\ Effective'[th] = out'[th]
  <2>1. out[th] = Pending
    BY <1>4 DEF CallInv, CallAt
  <2>. QED
    BY <1>4, <1>5, <2>1 DEF Effective
<1>8. Fifo!Effect(th, Operation[th], out'[th], Items)
  BY <1>4, <1>5, <1>6, <1>7, TakesEffect
<1>9. DOMAIN out = Threads /\ CallAt(th)
  BY DEF CallInv
<1>10. CASE PushThrows(th)
  <2>1. out'[th] = Thrown /\ Operation[th] = "push"
    BY <1>9, <1>10 DEF PushThrows, CallAt, Operation
  <2>. QED
    BY <1>8, <2>1 DEF Fifo!Throw, Fifo!Next
<1>11. CASE PopThrows(th)
  <2>1. out'[th] = Thrown /\ Operation[th] = "pop"
    BY <1>9, <1>11 DEF PopThrows, CallAt, Operation
  <2>. QED
    BY <1>8, <2>1 DEF Fifo!Throw, Fifo!Next
<1>12. CASE SizeLoad(th)
  <2>1. out'[th] = size_ /\ Operation[th] = "size"
    BY <1>9, <1>12 DEF SizeLoad, CallAt, Operation
  <2>. QED
    BY <1>8, <2>1, SizeIsLength DEF Fifo!Size, Fifo!Next
<1>13. CASE (PopCheck(th) /\ size_ = 0) \/ PopEmpty(th)
  <2>1. out'[th] = Empty /\ Operation[th] = "pop"
    BY <1>9, <1>13 DEF PopCheck, PopEmpty, CallAt, Operation
  <2>2. size_ = 0
    <3>1. CASE PopEmpty(th)
      <4>1. n = 0 /\ mutex_ = th
        BY <1>2, <1>3, <3>1 DEF PopEmpty, Chain, Links, MutexInv, Locked
      <4>. QED
        BY <1>2, <3>1, <4>1 DEF PopEmpty, Ends, Holder
    <3>. QED
      BY <1>13, <3>1
  <2>3. Items = <<>>
    <3>1. Items \in Seq(Values \cup {NoValue}) /\ Len(Items) = 0
      BY <2>2, SizeIsLength
    <3>. QED
      BY <3>1, EmptySeq
  <2>4. Fifo!Effect(th, "pop", Empty, Items)
    BY <1>8, <2>1
  <2>. QED
    BY <2>3, <2>4 DEF Fifo!Pop, Fifo!Next
<1>. QED
  BY <1>10, <1>11, <1>12, <1>13

(* A value whose move out of `ret` throws is lost to the caller; the queue  *)
(* gave it up before.                                                       *)
LEMMA LosesValue ==
  ASSUME IInv, CallInv, TypeOK', NEW th \in Threads, PopLoses(th)
  PROVE  Fifo!Lose(th)
<1>1. PICK n \in Nat : \E p \in [1..n -> Nodes] : Chain(p, n) /\ Ends(p, n) /\ Apart(p, n)
  BY DEF IInv
<1>2. PICK p \in [1..n -> Nodes] : Chain(p, n) /\ Ends(p, n) /\ Apart(p, n)
  BY <1>1
<1>3. TypeOK /\ NodeInv
  BY DEF IInv
<1>4. /\ pc[th] = "delete" /\ pc' = [pc EXCEPT ![th] = "return"]
      /\ mutex_' = mutex_ /\ head_' = head_ /\ op' = op /\ arg' = arg
      /\ next' = [next EXCEPT ![node[th]] = Null] /\ data' = [data EXCEPT ![node[th]] = NoValue]
      /\ out' = [out EXCEPT ![th] = Thrown]
  BY DEF PopLoses, DeleteTaken, Respond, Goto, Free, queueVars
<1>5. CallAt(th) /\ DOMAIN out = Threads
  BY DEF CallInv
<1>6. /\ \A t \in Threads : pc'[t] = IF t = th THEN "return" ELSE pc[t]
      /\ \A t \in Threads : out'[t] = IF t = th THEN Thrown ELSE out[t]
  BY <1>3, <1>4, <1>5 DEF TypeOK
<1>7. \A i \in 1..n : next'[p[i]] = next[p[i]] /\ data'[p[i]] = data[p[i]]
  <2>1. \A i \in 1..n : p[i] # node[th]
    BY <1>2, <1>4 DEF Apart, InHand
  <2>. QED
    BY <1>3, <1>4, <2>1 DEF TypeOK
<1>8. Items' = Items
  <2>1. "return" \in Settled /\ pc[th] \in Settled
    BY <1>4 DEF Settled
  <2>2. /\ pc' = [pc EXCEPT ![th] = "return"] /\ mutex_' = mutex_ /\ head_' = head_
        /\ \A t \in Threads \ {th} : out'[t] = out[t]
    BY <1>4, <1>6
  <2>3. Chain(p, n) /\ TypeOK
    BY <1>2, <1>3
  <2>. QED
    BY <1>7, <2>1, <2>2, <2>3, ItemsStay
<1>9. Effective[th] \in Values /\ Operation[th] = "pop"
  BY <1>4, <1>5 DEF Effective, Operation, CallAt
<1>10. Effective' = [Effective EXCEPT ![th] = Thrown]
  <2>1. Effective'[th] = Thrown
    BY <1>6 DEF Effective
  <2>. QED
    BY <1>6, <2>1, OthersSame
<1>11. Operation' = Operation
  BY <1>4 DEF Operation
<1>. QED
  BY <1>4, <1>8, <1>9, <1>10, <1>11 DEF Fifo!Lose

(* push takes effect as it increments size_: the value it linked is last.   *)
LEMMA PushTakesEffect ==
  ASSUME IInv, CallInv, TypeOK', NEW th \in Threads, PushCount(th)
  PROVE  Fifo!Push(th)
<1>. DEFINE D == Values \cup {NoValue}
<1>1. PICK n \in Nat : \E p \in [1..n -> Nodes] : Chain(p, n) /\ Ends(p, n) /\ Apart(p, n)
  BY DEF IInv
<1>2. PICK p \in [1..n -> Nodes] : Chain(p, n) /\ Ends(p, n) /\ Apart(p, n)
  BY <1>1
<1>3. TypeOK /\ MutexInv
  BY DEF IInv
<1>4. /\ pc[th] = "count" /\ pc' = [pc EXCEPT ![th] = "return"]
      /\ mutex_ = th /\ mutex_' = NoThread
      /\ head_' = head_ /\ next' = next /\ data' = data /\ op' = op /\ arg' = arg
      /\ out' = [out EXCEPT ![th] = Done]
  BY <1>3 DEF PushCount, Goto, Respond, MutexInv, Locked, heapVars
<1>5. /\ \A t \in Threads : pc'[t] = IF t = th THEN "return" ELSE pc[t]
      /\ \A t \in Threads : out'[t] = IF t = th THEN Done ELSE out[t]
  BY <1>3, <1>4 DEF TypeOK, CallInv
<1>6. CallAt(th) /\ op[th] = "push" /\ data[node[th]] = arg[th] /\ out[th] = Pending
  BY <1>4 DEF CallInv, CallAt
<1>7. n # 0 /\ node[th] = p[n]
  BY <1>2, <1>4 DEF Ends
<1>8. Items = SubSeq(Val(p, n), 1, n - 1)
  <2>1. Holder({"count"})
    BY <1>4 DEF Holder
  <2>. QED
    BY <1>2, <1>3, <2>1, ItemsAre DEF ItemsFollow
<1>9. Items' = Val(p, n)
  <2>1. ~Holder({"count", "uncount", "free"})'
    BY <1>4 DEF Holder
  <2>2. Chain(p, n)'
    BY <1>2, <1>4 DEF Chain, Links
  <2>3. Val(p, n)' = Val(p, n)
    BY <1>4 DEF Val
  <2>. QED
    BY <2>1, <2>2, <2>3, ItemsAreNext DEF ItemsFollow
<1>10. Val(p, n) \in Seq(D) /\ Len(Val(p, n)) = n /\ Val(p, n)[n] = arg[th]
  <2>1. \A i \in 1..n : data[p[i]] \in D
    BY <1>3 DEF TypeOK
  <2>2. data[p[n]] = arg[th]
    BY <1>6, <1>7
  <2>3. n \in 1..n
    BY <1>7
  <2>. HIDE DEF D
  <2>. QED
    BY <2>1, <2>2, <2>3 DEF Val
<1>11. Items' = Append(Items, arg[th])
  <2>. DEFINE s == Val(p, n)
              f == SubSeq(s, 1, n - 1)
              e == arg[th]
  <2>. HIDE DEF D, s, e
  <2>1. s \in Seq(D) /\ Len(s) = n /\ s[n] = e /\ e \in D
    <3>1. arg[th] \in D
      BY <1>3 DEF TypeOK, D
    <3>. QED
      BY <1>10, <3>1 DEF s, e
  <2>2. f \in Seq(D) /\ Len(f) = n - 1 /\ \A i \in 1..(n - 1) : f[i] = s[i]
    BY <2>1, <1>7
  <2>. HIDE DEF f
  <2>3. /\ Append(f, e) \in Seq(D) /\ Len(Append(f, e)) = n
        /\ \A i \in 1..(n - 1) : Append(f, e)[i] = f[i]
        /\ Append(f, e)[n] = e
    BY <2>1, <2>2, <1>7, AppendProperties
  <2>4. \A i \in 1..n : Append(f, e)[i] = s[i]
    BY <2>1, <2>2, <2>3
  <2>5. Append(f, e) = s
    BY <2>1, <2>3, <2>4, SeqEqual
  <2>. QED
    BY <1>8, <1>9, <2>5 DEF s, f, e
<1>12. Effective[th] = Pending /\ Effective'[th] = Done /\ Operation[th] = "push"
  BY <1>4, <1>5, <1>6 DEF Effective, Operation
<1>13. Fifo!Effect(th, Operation[th], Effective'[th], Items')
  BY <1>4, <1>5, <1>12, TakesEffect
<1>14. Fifo!Effect(th, "push", Done, Append(Items, arg[th]))
  BY <1>11, <1>12, <1>13
<1>. QED
  BY <1>14 DEF Fifo!Push

(* pop takes effect as it decrements size_: its value was the first.        *)
LEMMA PopTakesEffect ==
  ASSUME IInv, CallInv, TypeOK', NEW th \in Threads, PopCount(th)
  PROVE  Fifo!Pop(th)
<1>. DEFINE D == Values \cup {NoValue}
<1>1. PICK n \in Nat : \E p \in [1..n -> Nodes] : Chain(p, n) /\ Ends(p, n) /\ Apart(p, n)
  BY DEF IInv
<1>2. PICK p \in [1..n -> Nodes] : Chain(p, n) /\ Ends(p, n) /\ Apart(p, n)
  BY <1>1
<1>3. TypeOK /\ MutexInv
  BY DEF IInv
<1>4. /\ pc[th] = "uncount" /\ pc' = [pc EXCEPT ![th] = "delete"]
      /\ mutex_ = th /\ mutex_' = NoThread
      /\ head_' = head_ /\ next' = next /\ data' = data /\ op' = op /\ arg' = arg /\ out' = out
  BY <1>3 DEF PopCount, Goto, MutexInv, Locked, heapVars
<1>5. \A t \in Threads : pc'[t] = IF t = th THEN "delete" ELSE pc[t]
  BY <1>3, <1>4 DEF TypeOK
<1>6. op[th] = "pop" /\ out[th] \in Values
  BY <1>4 DEF CallInv, CallAt
<1>7. Items = <<out[th]>> \o Val(p, n)
  <2>1. Holder({"uncount"})
    BY <1>4 DEF Holder
  <2>. QED
    BY <1>2, <1>3, <1>4, <2>1, ItemsAre DEF ItemsFollow
<1>8. Items' = Val(p, n)
  <2>1. ~Holder({"count", "uncount", "free"})'
    BY <1>4 DEF Holder
  <2>2. Chain(p, n)'
    BY <1>2, <1>4 DEF Chain, Links
  <2>3. Val(p, n)' = Val(p, n)
    BY <1>4 DEF Val
  <2>. QED
    BY <2>1, <2>2, <2>3, ItemsAreNext DEF ItemsFollow
<1>9. Items # <<>> /\ Head(Items) = out[th] /\ Tail(Items) = Items'
  <2>. DEFINE s == Val(p, n)
              e == out[th]
              all == <<e>> \o s
  <2>. HIDE DEF D, s, e
  <2>1. s \in Seq(D) /\ Len(s) = n
    <3>1. \A i \in 1..n : data[p[i]] \in D
      BY <1>3 DEF TypeOK, D
    <3>. QED
      BY <3>1 DEF Val, s
  <2>2. <<e>> \in Seq(D) /\ Len(<<e>>) = 1 /\ <<e>>[1] = e
    BY <1>6 DEF D, e
  <2>3. /\ all \in Seq(D) /\ Len(all) = 1 + n
        /\ \A i \in 1..(1 + n) : all[i] = IF i <= 1 THEN <<e>>[i] ELSE s[i - 1]
    BY <2>1, <2>2, ConcatProperties
  <2>. HIDE DEF all
  <2>4. all # <<>> /\ Head(all) = e
    BY <2>2, <2>3
  <2>5. Tail(all) \in Seq(D) /\ Len(Tail(all)) = n /\ \A i \in 1..n : Tail(all)[i] = all[i + 1]
    BY <2>3, <2>4
  <2>6. \A i \in 1..n : Tail(all)[i] = s[i]
    BY <2>3, <2>5
  <2>7. Tail(all) = s
    BY <2>1, <2>5, <2>6, SeqEqual
  <2>. QED
    BY <1>7, <1>8, <2>4, <2>7 DEF s, e, all
<1>10. Effective[th] = Pending /\ Effective'[th] = out[th] /\ Operation[th] = "pop"
  BY <1>4, <1>5, <1>6 DEF Effective, Operation
<1>11. Fifo!Effect(th, Operation[th], Effective'[th], Items')
  BY <1>4, <1>5, <1>10, TakesEffect
<1>12. Fifo!Effect(th, "pop", Head(Items), Tail(Items))
  BY <1>9, <1>10, <1>11
<1>. QED
  BY <1>9, <1>12 DEF Fifo!Pop

(* clear takes effect as it stores 0.                                       *)
LEMMA ClearTakesEffect ==
  ASSUME IInv, CallInv, TypeOK', NEW th \in Threads, ClearZero(th)
  PROVE  Fifo!Clear(th)
<1>1. PICK n \in Nat : \E p \in [1..n -> Nodes] : Chain(p, n) /\ Ends(p, n) /\ Apart(p, n)
  BY DEF IInv
<1>2. PICK p \in [1..n -> Nodes] : Chain(p, n) /\ Ends(p, n) /\ Apart(p, n)
  BY <1>1
<1>3. TypeOK /\ MutexInv
  BY DEF IInv
<1>4. /\ pc[th] = "zero" /\ pc' = [pc EXCEPT ![th] = "free"]
      /\ mutex_ = th /\ mutex_' = th
      /\ head_' = head_ /\ next' = next /\ op' = op /\ arg' = arg /\ out' = out
  BY <1>3 DEF ClearZero, Goto, MutexInv, Locked, heapVars
<1>5. \A t \in Threads : pc'[t] = IF t = th THEN "free" ELSE pc[t]
  BY <1>3, <1>4 DEF TypeOK
<1>6. op[th] \in {"clear", "destroy"}
  BY <1>4 DEF CallInv, CallAt
<1>7. Items' = <<>>
  <2>1. Holder({"free"})'
    BY <1>4, <1>5 DEF Holder
  <2>2. Chain(p, n)'
    BY <1>2, <1>4 DEF Chain, Links
  <2>. QED
    BY <2>1, <2>2, ItemsAreNext DEF ItemsFollow
<1>8. Effective[th] = Pending /\ Effective'[th] = Done /\ Operation[th] = "clear"
  BY <1>4, <1>5, <1>6 DEF Effective, Operation
<1>9. Fifo!Effect(th, Operation[th], Effective'[th], Items')
  BY <1>4, <1>5, <1>8, TakesEffect
<1>10. Fifo!Effect(th, "clear", Done, <<>>)
  BY <1>7, <1>8, <1>9
<1>. QED
  BY <1>10 DEF Fifo!Clear

(* A call begins, or the destructor: nothing has taken effect.              *)
LEMMA CallBegins ==
  ASSUME IInv, CallInv, TypeOK', NEW th \in Threads, NEW v \in Values \cup {NoValue},
         NEW start \in {"new", "check", "clear", "size"},
         NEW name, pc[th] = "idle", pc' = [pc EXCEPT ![th] = start],
         op' = [op EXCEPT ![th] = name],
         arg' = [arg EXCEPT ![th] = v],
         UNCHANGED <<queueVars, heapVars, out>>
  PROVE  Fifo!Call(th, IF name = "destroy" THEN "clear" ELSE name, v)
<1>1. PICK n \in Nat : \E p \in [1..n -> Nodes] : Chain(p, n) /\ Ends(p, n) /\ Apart(p, n)
  BY DEF IInv
<1>2. PICK p \in [1..n -> Nodes] : Chain(p, n) /\ Ends(p, n) /\ Apart(p, n)
  BY <1>1
<1>3. TypeOK
  BY DEF IInv
<1>4. mutex_' = mutex_ /\ head_' = head_ /\ next' = next /\ data' = data /\ out' = out
  BY DEF queueVars, heapVars
<1>5. Items' = Items
  <2>1. start \in Settled /\ pc[th] \in Settled
    BY DEF Settled
  <2>. QED
    BY <1>2, <1>3, <1>4, <2>1, ItemsStay
<1>6. \A t \in Threads : pc'[t] = IF t = th THEN start ELSE pc[t]
  BY <1>3 DEF TypeOK
<1>7. Effective' = Effective
  <2>1. out[th] = Pending
    BY DEF CallInv, CallAt
  <2>2. \A t \in Threads : Effective'[t] = Effective[t]
    BY <1>4, <1>6, <2>1 DEF Effective
  <2>3. Effective = [t \in Threads |-> Effective[t]] /\ Effective' = [t \in Threads |-> Effective'[t]]
    BY DEF Effective
  <2>. QED
    BY <2>2, <2>3
<1>8. Operation[th] = "idle"
  BY DEF Operation, CallInv, CallAt
<1>9. Operation' = [Operation EXCEPT ![th] = IF name = "destroy" THEN "clear" ELSE name]
  BY <1>3 DEF Operation, TypeOK
<1>. QED
  BY <1>5, <1>7, <1>8, <1>9 DEF Fifo!Call

(* push, pop, clear and size begin.                                         *)
LEMMA CallSteps ==
  ASSUME IInv, CallInv, TypeOK', NEW th \in Threads,
         (\E v \in Values : CallPush(th, v)) \/ CallPop(th) \/ CallClear(th) \/ CallSize(th)
  PROVE  Fifo!Next
<1>1. CASE \E v \in Values : CallPush(th, v)
  <2>1. PICK v \in Values : CallPush(th, v)
    BY <1>1
  <2>2. Fifo!Call(th, IF "push" = "destroy" THEN "clear" ELSE "push", v)
    BY <2>1, CallBegins DEF CallPush, Call, Goto
  <2>. QED
    BY <2>2 DEF Fifo!Next
<1>2. CASE CallPop(th)
  <2>1. Fifo!Call(th, IF "pop" = "destroy" THEN "clear" ELSE "pop", NoValue)
    BY <1>2, CallBegins DEF CallPop, Call, Goto
  <2>. QED
    BY <2>1 DEF Fifo!Next
<1>3. CASE CallClear(th)
  <2>1. Fifo!Call(th, IF "clear" = "destroy" THEN "clear" ELSE "clear", NoValue)
    BY <1>3, CallBegins DEF CallClear, Call, Goto
  <2>. QED
    BY <2>1 DEF Fifo!Next
<1>4. CASE CallSize(th)
  <2>1. Fifo!Call(th, IF "size" = "destroy" THEN "clear" ELSE "size", NoValue)
    BY <1>4, CallBegins DEF CallSize, Call, Goto
  <2>. QED
    BY <2>1 DEF Fifo!Next
<1>. QED
  BY <1>1, <1>2, <1>3, <1>4

(* The destructor begins, as a call of clear.                               *)
LEMMA DestroyStep ==
  ASSUME IInv, CallInv, TypeOK', Destroy
  PROVE  Fifo!Next
<1>1. TypeOK /\ Owner \in Threads
  BY DEF IInv
<1>2. arg[Owner] = NoValue /\ pc[Owner] = "idle"
  BY <1>1 DEF Destroy, CallInv, CallAt
<1>3. arg' = [arg EXCEPT ![Owner] = NoValue]
  BY <1>1, <1>2 DEF Destroy, TypeOK
<1>4. Fifo!Call(Owner, IF "destroy" = "destroy" THEN "clear" ELSE "destroy", NoValue)
  BY <1>1, <1>2, <1>3, CallBegins DEF Destroy, Goto
<1>. QED
  BY <1>1, <1>4 DEF Fifo!Next

(* A call returns its answer.                                               *)
LEMMA ReturnStep ==
  ASSUME IInv, CallInv, TypeOK', NEW th \in Threads, Return(th)
  PROVE  Fifo!Next
<1>1. PICK n \in Nat : \E p \in [1..n -> Nodes] : Chain(p, n) /\ Ends(p, n) /\ Apart(p, n)
  BY DEF IInv
<1>2. PICK p \in [1..n -> Nodes] : Chain(p, n) /\ Ends(p, n) /\ Apart(p, n)
  BY <1>1
<1>3. TypeOK
  BY DEF IInv
<1>4. /\ pc[th] = "return" /\ pc' = [pc EXCEPT ![th] = "idle"]
      /\ mutex_' = mutex_ /\ head_' = head_ /\ next' = next /\ data' = data
      /\ op' = [op EXCEPT ![th] = "idle"] /\ arg' = [arg EXCEPT ![th] = NoValue]
      /\ out' = [out EXCEPT ![th] = Pending]
  BY DEF Return, Goto, Respond, queueVars, heapVars
<1>5. /\ \A t \in Threads : pc'[t] = IF t = th THEN "idle" ELSE pc[t]
      /\ \A t \in Threads : out'[t] = IF t = th THEN Pending ELSE out[t]
  BY <1>3, <1>4 DEF TypeOK, CallInv
<1>6. Items' = Items
  <2>1. "idle" \in Settled /\ pc[th] \in Settled
    BY <1>4 DEF Settled
  <2>. QED
    BY <1>2, <1>3, <1>4, <1>5, <2>1, ItemsStay
<1>7. Effective[th] # Pending
  <2>1. out[th] # Pending
    BY <1>4 DEF CallInv, CallAt
  <2>. QED
    BY <1>4, <2>1 DEF Effective
<1>8. Effective' = [Effective EXCEPT ![th] = Pending]
  <2>1. Effective'[th] = Pending
    BY <1>5 DEF Effective
  <2>. QED
    BY <1>5, <2>1, OthersSame
<1>9. Operation' = [Operation EXCEPT ![th] = "idle"]
  BY <1>3, <1>4 DEF Operation, TypeOK
<1>10. Fifo!Return(th)
  BY <1>4, <1>6, <1>7, <1>8, <1>9 DEF Fifo!Return
<1>. QED
  BY <1>10 DEF Fifo!Next

(* Every step of the list is a step of the queue, or none of its business.  *)
LEMMA StepFifo ==
  ASSUME IInv, CallInv, IInv', [Next]_vars
  PROVE  [Fifo!Next]_(Fifo!vars)
<1>. USE ResultAssumption
<1>1. TypeOK /\ TypeOK' /\ MutexInv'
  BY DEF IInv
<1>2. ASSUME NEW th \in Threads, Step(th)
      PROVE  [Fifo!Next]_(Fifo!vars)
  <2>1. CASE PushNew(th) \/ PushLock(th) \/ PopLock(th) \/ PopDelete(th) \/ ClearLock(th)
             \/ (PopCheck(th) /\ size_ # 0)
    BY <1>1, <2>1, QuietSteps
  <2>2. CASE PushThrows(th) \/ (PopCheck(th) /\ size_ = 0) \/ PopEmpty(th) \/ PopThrows(th) \/ SizeLoad(th)
    BY <1>1, <2>2, AnswerSteps
  <2>3. CASE PushLink(th)
    BY <1>1, <2>3, LinkIsSilent
  <2>4. CASE PopTake(th)
    BY <1>1, <2>4, TakeIsSilent
  <2>5. CASE ClearFree(th) \/ ClearEnd(th)
    BY <1>1, <2>5, FreeIsSilent
  <2>6. CASE PushCount(th)
    BY <1>1, <2>6, PushTakesEffect DEF Fifo!Next
  <2>7. CASE PopCount(th)
    BY <1>1, <2>7, PopTakesEffect DEF Fifo!Next
  <2>8. CASE ClearZero(th)
    BY <1>1, <2>8, ClearTakesEffect DEF Fifo!Next
  <2>9. CASE Return(th)
    BY <1>1, <2>9, ReturnStep
  <2>10. CASE PopLoses(th)
    BY <1>1, <2>10, LosesValue DEF Fifo!Next
  <2>. QED
    BY <1>2, <2>1, <2>2, <2>3, <2>4, <2>5, <2>6, <2>7, <2>8, <2>9, <2>10 DEF Step, Push, Pop, Clear
<1>3. ASSUME NEW th \in Threads,
             (\E v \in Values : CallPush(th, v)) \/ CallPop(th) \/ CallClear(th) \/ CallSize(th)
      PROVE  Fifo!Next
  BY <1>1, <1>3, CallSteps
<1>4. CASE Destroy
  BY <1>1, <1>4, DestroyStep
<1>5. CASE UNCHANGED vars
  <2>1. /\ mutex_' = mutex_ /\ head_' = head_ /\ next' = next /\ data' = data
        /\ pc' = pc /\ op' = op /\ arg' = arg /\ out' = out
    BY <1>5 DEF vars, queueVars, heapVars
  <2>2. Effective' = Effective /\ Operation' = Operation
    BY <2>1 DEF Effective, Operation
  <2>3. Items' = Items
    BY <2>1 DEF Items, List, Holder
  <2>. QED
    BY <2>1, <2>2, <2>3 DEF Fifo!vars
<1>. QED
  BY <1>2, <1>3, <1>4, <1>5 DEF Next, Terminated

(* The queue is empty at first.                                             *)
LEMMA InitFifo == Init => Fifo!Init
<1>. SUFFICES ASSUME Init PROVE Fifo!Init
  OBVIOUS
<1>. USE ResultAssumption
<1>1. Effective = [th \in Threads |-> Pending] /\ Operation = [th \in Threads |-> "idle"]
  BY DEF Init, Effective, Operation
<1>2. TypeOK
  BY InitTypes
<1>3. PICK n \in Nat : \E p \in [1..n -> Nodes] : Chain(p, n) /\ Ends(p, n) /\ Apart(p, n)
  BY InitList
<1>4. PICK p \in [1..n -> Nodes] : Chain(p, n)
  BY <1>3
<1>5. n = 0
  BY <1>4 DEF Chain, Links, Init
<1>6. ~Holder({"count", "uncount", "free"})
  BY DEF Holder, Init
<1>7. Items = Val(p, n)
  BY <1>2, <1>4, <1>6, ItemsAre DEF ItemsFollow
<1>8. Items = <<>>
  BY <1>5, <1>7 DEF Val
<1>. QED
  BY <1>1, <1>8 DEF Fifo!Init, Init

(* The list under the mutex implements FifoQueue: every call takes effect at*)
(* one instant between its start and its return, push at the end, pop at the*)
(* front, and an answer `empty` or a size was true at one moment of the call.*)
(* A value is lost only by a pop that throws, and only once it was popped.  *)
THEOREM ImplementsFifo == Spec => FifoSpec
<1>1. IInv /\ CallInv /\ (IInv /\ CallInv)' /\ [Next]_vars => [Fifo!Next]_(Fifo!vars)
  BY StepFifo
<1>. QED
  BY <1>1, CallInvariance, InitFifo, PTL DEF Spec, FifoSpec, Fifo!Spec
=============================================================================
