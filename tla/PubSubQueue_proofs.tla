------------------------- MODULE PubSubQueue_proofs -------------------------
(***************************************************************************)
(* Proofs about PubSubQueue, for any sets of publishers and subscribers, any*)
(* finite nonempty set of addresses and any bounds on the calls.            *)
(*                                                                          *)
(* The list is written out (LinkedList_proofs): a sequence c of n different *)
(* nodes, each linked to the next, the last one without a successor.  Every *)
(* subscription is at a node of c, and _tail is the last node of c or, between*)
(* publish's exchange and its store, a new node that is about to be linked to*)
(* it (Chain).  That is the inductive invariant, with who has the mutex     *)
(* (MutexInv) and what the calls have in their hands (CallInv).  An address *)
(* that is reused was not reached by any shared_ptr: it can only be in front of*)
(* every subscription, and c is cut there (Cut).                            *)
(*                                                                          *)
(* For the refinement, the inbox of a subscription at place i of c holds the*)
(* values of the nodes after i: publish's store appends one to all inboxes, *)
(* dequeue moves its subscription to i + 1, and nothing else changes them.  *)
(***************************************************************************)
EXTENDS PubSubQueue, LinkedList_proofs

(* Who has the shared_mutex.                                                *)
MutexInv ==
  /\ \A p \in Publishers : pc[p] \in {"exchange", "store"} <=> writer = p
  /\ \A s \in Subscribers : pc[s] = "copy" <=> s \in readers

(* What a call has in its hands at each of its steps.                       *)
CallInv ==
  /\ \A p \in Publishers :
       /\ pc[p] \in {"idle", "lock", "exchange", "store"}
       /\ pc[p] = "store" <=> prev[p] # Null
       /\ pc[p] = "idle" <=> arg[p] = NoValue
       /\ pc[p] # "idle" => _tail # Null
  /\ \A s \in Subscribers :
       /\ pc[s] \in {"idle", "share", "copy", "advance"}
       /\ pc[s] \in {"share", "copy"} => _tail # Null /\ _head[s] = Null
       /\ pc[s] = "advance" <=> headNext[s] # Null
       /\ pc[s] = "advance" => _head[s] # Null /\ next[_head[s]] = headNext[s]

(* The list written out: every subscription is at one of its nodes; _tail   *)
(* is the last, or a new node that is about to be linked to the last.       *)
Chain(c, n) ==
  /\ n # 0 /\ Links(next, c, n)
  /\ \A s \in Subscribers : _head[s] # Null => \E i \in 1..n : c[i] = _head[s]
  /\ _tail # Null /\ (\A p \in Publishers : pc[p] # "store") => _tail = c[n]
  /\ \A p \in Publishers : pc[p] = "store" =>
       /\ prev[p] = c[n] /\ next[_tail] = Null /\ value[_tail] = arg[p]
       /\ \A i \in 1..n : c[i] # _tail

(* The inductive invariant.                                                 *)
IInv ==
  /\ TypeOK
  /\ MutexInv
  /\ CallInv
  /\ \E n \in Nat : \E c \in [1..n -> Nodes] : Chain(c, n)

-----------------------------------------------------------------------------
USE ListAssumption, PubSubAssumption

(* It holds at first, with one node.                                        *)
LEMMA InitInv == Init => IInv
<1>. SUFFICES ASSUME Init
              PROVE  IInv
  OBVIOUS
<1>1. _tail \in Nodes
  BY DEF Init
<1>2. TypeOK /\ MutexInv /\ CallInv
  BY <1>1 DEF Init, TypeOK, MutexInv, CallInv
<1>. DEFINE c == [i \in 1..1 |-> _tail]
<1>3. c \in [1..1 -> Nodes] /\ Chain(c, 1)
  BY <1>1 DEF Init, Chain, Links
<1>. QED
  BY <1>2, <1>3 DEF IInv

(* Every step keeps the types, and the mutex exclusive or shared.           *)
LEMMA StepTypes ==
  ASSUME TypeOK, CallInv, [Next]_vars
  PROVE  TypeOK'
<1>. USE DEF Goto, TypeOK, mutexVars, subVars, pubVars
<1>1. ASSUME NEW p \in Publishers, Publish(p) \/ \E v \in Values : CallPublish(p, v)
      PROVE  TypeOK'
  <2>1. CASE \E v \in Values : CallPublish(p, v)
    BY <2>1 DEF CallPublish
  <2>2. CASE PublishLock(p)
    BY <2>2 DEF PublishLock
  <2>3. CASE PublishThrows(p)
    BY <2>3 DEF PublishThrows
  <2>4. CASE PublishExchange(p)
    BY <2>4 DEF PublishExchange
  <2>5. CASE PublishStore(p)
    BY <2>5 DEF PublishStore
  <2>. QED
    BY <1>1, <2>1, <2>2, <2>3, <2>4, <2>5 DEF Publish
<1>2. ASSUME NEW s \in Subscribers,
             CallSubscribe(s) \/ Subscribe(s) \/ DropSubscription(s) \/ Dequeue(s)
      PROVE  TypeOK'
  <2>1. CASE CallSubscribe(s)
    BY <2>1 DEF CallSubscribe
  <2>2. CASE SubscribeLock(s)
    BY <2>2 DEF SubscribeLock
  <2>3. CASE SubscribeCopy(s)
    BY <2>3 DEF SubscribeCopy
  <2>4. CASE DropSubscription(s)
    BY <2>4 DEF DropSubscription
  <2>5. CASE DequeueLoad(s)
    BY <2>5 DEF DequeueLoad
  <2>6. CASE DequeueAdvance(s)
    <3>1. headNext[s] \in Nodes
      BY <2>6 DEF DequeueAdvance, CallInv
    <3>. QED
      BY <2>6, <3>1 DEF DequeueAdvance
  <2>. QED
    BY <1>2, <2>1, <2>2, <2>3, <2>4, <2>5, <2>6 DEF Subscribe, Dequeue
<1>3. ASSUME NEW s \in Subscribers, NEW t \in Subscribers, CopySubscription(s, t)
      PROVE  TypeOK'
  BY <1>3 DEF CopySubscription
<1>4. CASE Destroy
  BY <1>4 DEF Destroy
<1>5. CASE UNCHANGED vars
  BY <1>5 DEF vars
<1>. QED
  BY <1>1, <1>2, <1>3, <1>4, <1>5 DEF Next, Terminated

(* publish holds the mutex while it exchanges and stores, subscribe shares it*)
(* while it copies _tail.                                                   *)
LEMMA StepMutex ==
  ASSUME TypeOK, MutexInv, [Next]_vars
  PROVE  MutexInv'
<1>. USE DEF Goto, TypeOK, MutexInv, mutexVars
<1>1. ASSUME NEW p \in Publishers, Publish(p) \/ \E v \in Values : CallPublish(p, v)
      PROVE  MutexInv'
  <2>1. CASE \E v \in Values : CallPublish(p, v)
    BY <2>1 DEF CallPublish
  <2>2. CASE PublishLock(p)
    BY <2>2 DEF PublishLock
  <2>3. CASE PublishThrows(p)
    BY <2>3 DEF PublishThrows
  <2>4. CASE PublishExchange(p)
    BY <2>4 DEF PublishExchange
  <2>5. CASE PublishStore(p)
    BY <2>5 DEF PublishStore
  <2>. QED
    BY <1>1, <2>1, <2>2, <2>3, <2>4, <2>5 DEF Publish
<1>2. ASSUME NEW s \in Subscribers,
             CallSubscribe(s) \/ Subscribe(s) \/ DropSubscription(s) \/ Dequeue(s)
      PROVE  MutexInv'
  <2>1. CASE CallSubscribe(s)
    BY <2>1 DEF CallSubscribe
  <2>2. CASE SubscribeLock(s)
    BY <2>2 DEF SubscribeLock
  <2>3. CASE SubscribeCopy(s)
    BY <2>3 DEF SubscribeCopy
  <2>4. CASE DropSubscription(s)
    BY <2>4 DEF DropSubscription
  <2>5. CASE DequeueLoad(s)
    BY <2>5 DEF DequeueLoad
  <2>6. CASE DequeueAdvance(s)
    BY <2>6 DEF DequeueAdvance
  <2>. QED
    BY <1>2, <2>1, <2>2, <2>3, <2>4, <2>5, <2>6 DEF Subscribe, Dequeue
<1>3. ASSUME NEW s \in Subscribers, NEW t \in Subscribers, CopySubscription(s, t)
      PROVE  MutexInv'
  BY <1>3 DEF CopySubscription
<1>4. CASE Destroy
  BY <1>4 DEF Destroy
<1>5. CASE UNCHANGED vars
  BY <1>5 DEF vars
<1>. QED
  BY <1>1, <1>2, <1>3, <1>4, <1>5 DEF Next, Terminated

(* A walk from a node of the list finds what is left of it from there.      *)
LEMMA FromIs ==
  ASSUME NEW n \in Nat, NEW c \in [1..n -> Nodes], Chain(c, n)
  PROVE  \A i \in 1..n : From(c[i]) = Ending(c, n, (n - i) + 1)
<1>. SUFFICES ASSUME NEW i \in 1..n
              PROVE  From(c[i]) = Ending(c, n, (n - i) + 1)
  OBVIOUS
<1>1. Links(next, c, n)
  BY DEF Chain
<1>. QED
  BY <1>1, AlongFrom DEF From

(* What is after a root in the list is alive.                               *)
LEMMA Reached ==
  ASSUME NEW n \in Nat, NEW c \in [1..n -> Nodes], Chain(c, n),
         NEW i \in 1..n, c[i] \in Roots, NEW j \in i..n
  PROVE  c[j] \in Alive
<1>1. From(c[i]) = Ending(c, n, (n - i) + 1)
  BY FromIs
<1>2. PICK k \in 1..((n - i) + 1) : k = (j - i) + 1
  OBVIOUS
<1>3. k \in DOMAIN From(c[i]) /\ From(c[i])[k] = c[j]
  BY <1>1, <1>2 DEF Ending
<1>. QED
  BY <1>3 DEF Alive

(* A step that leaves the list as it is and every subscription at one of    *)
(* its nodes.                                                               *)
LEMMA ListStays ==
  ASSUME NEW n \in Nat, NEW c \in [1..n -> Nodes], Chain(c, n),
         next' = next, value' = value,
         \A s \in Subscribers : _head'[s] # Null => \E i \in 1..n : c[i] = _head'[s],
         \/ _tail' = _tail
         \/ _tail' = Null /\ \A p \in Publishers : pc[p] # "store",
         \A p \in Publishers : pc'[p] = "store" <=> pc[p] = "store",
         \A p \in Publishers : pc[p] = "store" => prev'[p] = prev[p] /\ arg'[p] = arg[p]
  PROVE  Chain(c, n)'
BY DEF Chain, Links

(* The nodes in front of every subscription may be gone: an address that is *)
(* free is not in what is left of the list.                                 *)
LEMMA Cut ==
  ASSUME NEW n \in Nat, NEW c \in [1..n -> Nodes], Chain(c, n),
         _tail # Null, \A p \in Publishers : pc[p] # "store",
         NEW x \in Nodes \ Alive
  PROVE  \E m \in Nat : \E d \in [1..m -> Nodes] : Chain(d, m) /\ \A i \in 1..m : d[i] # x
<1>1. _tail = c[n] /\ n \in 1..n
  BY DEF Chain
<1>2. \A i \in 1..n, s \in Subscribers : c[i] = _head[s] => \A j \in i..n : c[j] # x
  <2>. SUFFICES ASSUME NEW i \in 1..n, NEW s \in Subscribers, c[i] = _head[s], NEW j \in i..n
                PROVE  c[j] \in Alive
    OBVIOUS
  <2>1. c[i] \in Roots
    BY DEF Roots
  <2>. QED
    BY <2>1, Reached
<1>3. c[n] # x
  <2>1. c[n] \in Roots
    BY <1>1 DEF Roots
  <2>. QED
    BY <1>1, <2>1, Reached
<1>4. PICK k \in 0..(n - 1) : IF k = 0 THEN \A i \in 1..n : c[i] # x ELSE c[k] = x
  <2>1. CASE \E i \in 1..n : c[i] = x
    <3>1. PICK i \in 1..n : c[i] = x
      BY <2>1
    <3>2. i # n
      BY <1>3, <3>1
    <3>. QED
      BY <3>1, <3>2
  <2>2. CASE \A i \in 1..n : c[i] # x
    BY <1>1, <2>2
  <2>. QED
    BY <2>1, <2>2
<1>. DEFINE m == n - k
            d == [i \in 1..m |-> c[k + i]]
<1>5. m \in Nat /\ m # 0 /\ d \in [1..m -> Nodes] /\ d[m] = c[n]
  OBVIOUS
<1>6. \A i \in 1..m : d[i] # x
  BY <1>4 DEF Chain, Links
<1>7. Links(next, d, m)
  <2>1. \A i, j \in 1..m : d[i] = d[j] => i = j
    BY DEF Chain, Links
  <2>2. ASSUME NEW i \in 1..(m - 1)
        PROVE  next[d[i]] = d[i + 1]
    <3>1. PICK j \in 1..(n - 1) : j = k + i
      OBVIOUS
    <3>2. next[c[j]] = c[j + 1] /\ d[i] = c[j] /\ d[i + 1] = c[j + 1]
      BY <3>1 DEF Chain, Links
    <3>. QED
      BY <3>2
  <2>3. next[d[m]] = Null
    BY <1>5 DEF Chain, Links
  <2>. HIDE DEF d, m
  <2>. QED
    BY <2>1, <2>2, <2>3 DEF Links
<1>8. \A s \in Subscribers : _head[s] # Null => \E i \in 1..m : d[i] = _head[s]
  <2>. SUFFICES ASSUME NEW s \in Subscribers, _head[s] # Null
                PROVE  \E i \in 1..m : d[i] = _head[s]
    OBVIOUS
  <2>1. PICK j \in 1..n : c[j] = _head[s]
    BY DEF Chain
  <2>2. j > k
    <3>. SUFFICES ASSUME j <= k
                  PROVE  FALSE
      OBVIOUS
    <3>1. k \in j..n /\ k # 0
      OBVIOUS
    <3>. QED
      BY <1>2, <1>4, <2>1, <3>1
  <2>3. PICK i \in 1..m : i = j - k
    BY <2>2
  <2>. QED
    BY <2>1, <2>3
<1>. HIDE DEF d, m
<1>9. Chain(d, m)
  BY <1>1, <1>5, <1>7, <1>8 DEF Chain
<1>. QED
  BY <1>5, <1>6, <1>9

(* publish's exchange: the list is what it was.                             *)
LEMMA ExchangeKeeps ==
  ASSUME TypeOK, MutexInv, CallInv, NEW p \in Publishers, PublishExchange(p),
         NEW n \in Nat, NEW c \in [1..n -> Nodes], Chain(c, n)
  PROVE  \E m \in Nat : \E d \in [1..m -> Nodes] :
            Chain(d, m) /\ Chain(d, m)' /\ \A i \in 1..m : value'[d[i]] = value[d[i]]
<1>. USE DEF Goto, mutexVars, subVars, pubVars
<1>1. PICK x \in Nodes \ Alive :
        /\ pc[p] = "exchange" /\ pc' = [pc EXCEPT ![p] = "store"]
        /\ value' = [value EXCEPT ![x] = arg[p]]
        /\ next' = [next EXCEPT ![x] = Null]
        /\ prev' = [prev EXCEPT ![p] = _tail]
        /\ _tail' = x /\ _head' = _head /\ arg' = arg
  BY DEF PublishExchange
<1>2. \A q \in Publishers : pc[q] # "store" /\ (pc'[q] = "store" <=> q = p)
  BY <1>1 DEF TypeOK, MutexInv
<1>3. _tail # Null
  BY <1>1 DEF CallInv
<1>4. PICK m \in Nat : \E d \in [1..m -> Nodes] : Chain(d, m) /\ \A i \in 1..m : d[i] # x
  BY <1>2, <1>3, Cut
<1>5. PICK d \in [1..m -> Nodes] : Chain(d, m) /\ \A i \in 1..m : d[i] # x
  BY <1>4
<1>6. \A y \in Nodes \ {x} : next'[y] = next[y] /\ value'[y] = value[y]
  BY <1>1 DEF TypeOK
<1>7. prev'[p] = _tail /\ next'[x] = Null /\ value'[x] = arg'[p] /\ _tail = d[m]
  BY <1>1, <1>2, <1>3, <1>5 DEF TypeOK, Chain
<1>8. Links(next', d, m)
  BY <1>5, <1>6 DEF Chain, Links
<1>9. Chain(d, m)'
  BY <1>1, <1>2, <1>5, <1>7, <1>8 DEF Chain
<1>. QED
  BY <1>5, <1>6, <1>9

(* publish's store: the new node is the last of the list.                   *)
LEMMA StoreGrows ==
  ASSUME TypeOK, MutexInv, CallInv, NEW p \in Publishers, PublishStore(p),
         NEW n \in Nat, NEW c \in [1..n -> Nodes], Chain(c, n)
  PROVE  \E m \in Nat : \E d \in [1..m -> Nodes] :
            /\ Chain(d, m)' /\ m = n + 1 /\ d[m] = _tail
            /\ \A i \in 1..n : d[i] = c[i]
<1>. USE DEF Goto, mutexVars, subVars, pubVars
<1>1. /\ pc[p] = "store" /\ pc' = [pc EXCEPT ![p] = "idle"]
      /\ next' = [next EXCEPT ![c[n]] = _tail]
      /\ _tail' = _tail /\ _head' = _head
      /\ \A i \in 1..n : c[i] # _tail
      /\ next[_tail] = Null
  BY DEF PublishStore, Chain
<1>2. \A q \in Publishers : pc'[q] # "store"
  BY <1>1 DEF TypeOK, MutexInv
<1>3. _tail \in Nodes
  BY <1>1 DEF TypeOK, CallInv
<1>4. PICK m \in Nat : m = n + 1 /\ n \in 1..n
  BY DEF Chain
<1>5. PICK d \in [1..m -> Nodes] : \A i \in 1..m : d[i] = IF i = m THEN _tail ELSE c[i]
  <2>. DEFINE e == [i \in 1..m |-> IF i = m THEN _tail ELSE c[i]]
  <2>1. e \in [1..m -> Nodes] /\ \A i \in 1..m : e[i] = IF i = m THEN _tail ELSE c[i]
    BY <1>3, <1>4
  <2>. HIDE DEF e
  <2>. QED
    BY <2>1
<1>6. Links(next', d, m)
  <2>1. \A i, j \in 1..m : d[i] = d[j] => i = j
    <3>1. \A i, j \in 1..n : c[i] = c[j] => i = j
      BY DEF Chain, Links
    <3>2. \A i \in 1..m : i # m => i \in 1..n
      BY <1>4
    <3>. QED
      BY <1>1, <1>5, <3>1, <3>2
  <2>2. ASSUME NEW i \in 1..n
        PROVE  next'[d[i]] = d[i + 1]
    <3>1. CASE i = n
      BY <1>1, <1>4, <1>5, <3>1 DEF TypeOK
    <3>2. CASE i # n
      <4>1. next[c[i]] = c[i + 1] /\ c[i] # c[n] /\ i + 1 \in 1..n
        BY <1>4, <1>5, <3>2 DEF Chain, Links
      <4>. QED
        BY <1>1, <1>4, <1>5, <4>1 DEF TypeOK
    <3>. QED
      BY <3>1, <3>2
  <2>3. next'[d[m]] = Null
    BY <1>1, <1>3, <1>4, <1>5 DEF TypeOK
  <2>. QED
    BY <1>4, <1>5, <2>1, <2>2, <2>3 DEF Links
<1>7. \A s \in Subscribers : _head'[s] # Null => \E i \in 1..m : d[i] = _head'[s]
  <2>. SUFFICES ASSUME NEW s \in Subscribers, _head[s] # Null
                PROVE  \E i \in 1..m : d[i] = _head[s]
    BY <1>1
  <2>1. PICK i \in 1..n : c[i] = _head[s]
    BY DEF Chain
  <2>. QED
    BY <2>1, <1>4, <1>5
<1>8. _tail' = d[m]
  BY <1>1, <1>4, <1>5
<1>9. Chain(d, m)'
  BY <1>1, <1>2, <1>4, <1>5, <1>6, <1>7, <1>8 DEF Chain
<1>. QED
  BY <1>4, <1>5, <1>9

(* What a subscriber does leaves the list as it is.                         *)
LEMMA SubscriberKeeps ==
  ASSUME TypeOK, MutexInv, CallInv, NEW s \in Subscribers,
         CallSubscribe(s) \/ Subscribe(s) \/ DropSubscription(s) \/ Dequeue(s),
         NEW n \in Nat, NEW c \in [1..n -> Nodes], Chain(c, n)
  PROVE  Chain(c, n)'
<1>. USE DEF Goto, mutexVars, subVars, pubVars
<1>1. next' = next /\ value' = value /\ _tail' = _tail /\ prev' = prev /\ arg' = arg
  BY DEF CallSubscribe, Subscribe, SubscribeLock, SubscribeCopy, DropSubscription,
              Dequeue, DequeueLoad, DequeueAdvance
<1>2. \A p \in Publishers : pc'[p] = pc[p]
  BY DEF CallSubscribe, Subscribe, SubscribeLock, SubscribeCopy, DropSubscription,
              Dequeue, DequeueLoad, DequeueAdvance, TypeOK
<1>3. \A t \in Subscribers \ {s} : _head'[t] = _head[t]
  BY DEF CallSubscribe, Subscribe, SubscribeLock, SubscribeCopy, DropSubscription,
              Dequeue, DequeueLoad, DequeueAdvance, TypeOK
<1>4. _head'[s] # Null => \E i \in 1..n : c[i] = _head'[s]
  <2>1. CASE CallSubscribe(s) \/ SubscribeLock(s) \/ DropSubscription(s) \/ DequeueLoad(s)
    BY <2>1 DEF CallSubscribe, SubscribeLock, DropSubscription, DequeueLoad, TypeOK, Chain
  <2>2. CASE SubscribeCopy(s)
    <3>1. pc[s] = "copy" /\ _head'[s] = _tail /\ _tail # Null
      BY <2>2 DEF SubscribeCopy, TypeOK, CallInv
    <3>2. \A p \in Publishers : pc[p] # "store"
      BY <3>1 DEF TypeOK, MutexInv
    <3>. QED
      BY <3>1, <3>2 DEF Chain
  <2>3. CASE DequeueAdvance(s)
    <3>1. _head'[s] = next[_head[s]] /\ _head[s] # Null
      BY <2>3 DEF DequeueAdvance, TypeOK, CallInv
    <3>2. PICK i \in 1..n : c[i] = _head[s]
      BY <3>1 DEF Chain
    <3>3. _head'[s] # Null => i # n
      BY <3>1, <3>2 DEF Chain, Links
    <3>4. i # n => next[c[i]] = c[i + 1] /\ i + 1 \in 1..n
      BY <3>1, <3>2 DEF Chain, Links
    <3>. QED
      BY <3>1, <3>2, <3>3, <3>4
  <2>. QED
    BY <2>1, <2>2, <2>3 DEF Subscribe, Dequeue
<1>5. \A t \in Subscribers : _head'[t] # Null => \E i \in 1..n : c[i] = _head'[t]
  BY <1>3, <1>4 DEF Chain
<1>. QED
  BY <1>1, <1>2, <1>5, ListStays

(* A copy of a subscription is where its original is.                       *)
LEMMA CopyKeeps ==
  ASSUME TypeOK, NEW s \in Subscribers, NEW t \in Subscribers, CopySubscription(s, t),
         NEW n \in Nat, NEW c \in [1..n -> Nodes], Chain(c, n)
  PROVE  Chain(c, n)'
<1>. USE DEF mutexVars, pubVars
<1>1. next' = next /\ value' = value /\ _tail' = _tail /\ prev' = prev /\ arg' = arg /\ pc' = pc
  BY DEF CopySubscription
<1>2. \A u \in Subscribers : _head'[u] = IF u = t THEN _head[s] ELSE _head[u]
  BY DEF CopySubscription, TypeOK
<1>3. \A u \in Subscribers : _head'[u] # Null => \E i \in 1..n : c[i] = _head'[u]
  BY <1>2 DEF Chain
<1>. QED
  BY <1>1, <1>3, ListStays

(* So do a publish before it has a node and the end of the queue.           *)
LEMMA QuietKeeps ==
  ASSUME TypeOK, MutexInv, NEW n \in Nat, NEW c \in [1..n -> Nodes], Chain(c, n),
         \/ \E p \in Publishers :
              PublishLock(p) \/ PublishThrows(p) \/ \E v \in Values : CallPublish(p, v)
         \/ Destroy
  PROVE  Chain(c, n)'
<1>. USE DEF Goto, mutexVars, subVars, pubVars
<1>1. ASSUME NEW p \in Publishers,
             PublishLock(p) \/ PublishThrows(p) \/ \E v \in Values : CallPublish(p, v)
      PROVE  Chain(c, n)'
  <2>1. /\ next' = next /\ value' = value /\ _head' = _head /\ _tail' = _tail /\ prev' = prev
        /\ pc[p] # "store"
        /\ \A q \in Publishers \ {p} : pc'[q] = pc[q] /\ arg'[q] = arg[q]
        /\ pc'[p] # "store"
    BY <1>1 DEF PublishLock, PublishThrows, CallPublish, TypeOK
  <2>. QED
    BY <2>1, ListStays DEF Chain
<1>2. CASE Destroy
  <2>1. /\ next' = next /\ value' = value /\ _tail' = Null /\ prev' = prev /\ arg' = arg
        /\ pc' = pc /\ _head' = _head /\ \A p \in Publishers : pc[p] # "store"
    BY <1>2 DEF Destroy
  <2>. QED
    BY <2>1, ListStays DEF Chain
<1>. QED
  BY <1>1, <1>2

(* Every step leaves a list written out.                                    *)
LEMMA StepList ==
  ASSUME TypeOK, MutexInv, CallInv, [Next]_vars,
         NEW n \in Nat, NEW c \in [1..n -> Nodes], Chain(c, n)
  PROVE  \E m \in Nat : \E d \in [1..m -> Nodes] : Chain(d, m)'
<1>1. ASSUME NEW p \in Publishers, Publish(p) \/ \E v \in Values : CallPublish(p, v)
      PROVE  \E m \in Nat : \E d \in [1..m -> Nodes] : Chain(d, m)'
  <2>1. CASE PublishLock(p) \/ PublishThrows(p) \/ \E v \in Values : CallPublish(p, v)
    <3>1. Chain(c, n)'
      BY <2>1, QuietKeeps
    <3>. QED
      BY <3>1
  <2>2. CASE PublishExchange(p)
    BY <2>2, ExchangeKeeps
  <2>3. CASE PublishStore(p)
    BY <2>3, StoreGrows
  <2>. QED
    BY <1>1, <2>1, <2>2, <2>3 DEF Publish
<1>2. CASE UNCHANGED vars
  <2>1. Chain(c, n)'
    BY <1>2 DEF vars, pubVars, subVars, Chain, Links
  <2>. QED
    BY <2>1
<1>3. ASSUME NEW s \in Subscribers,
             CallSubscribe(s) \/ Subscribe(s) \/ DropSubscription(s) \/ Dequeue(s)
      PROVE  Chain(c, n)'
  BY <1>3, SubscriberKeeps
<1>4. ASSUME NEW s \in Subscribers, NEW t \in Subscribers, CopySubscription(s, t)
      PROVE  Chain(c, n)'
  BY <1>4, CopyKeeps
<1>5. CASE Destroy
  <2>1. Chain(c, n)'
    BY <1>5, QuietKeeps
  <2>. QED
    BY <2>1
<1>. QED
  BY <1>1, <1>2, <1>3, <1>4, <1>5 DEF Next, Terminated

(* A call keeps what it has: a node that is created is no subscription's,    *)
(* and the one that is linked is linked to a node without a successor.      *)
LEMMA StepCall ==
  ASSUME TypeOK, TypeOK', MutexInv, CallInv, [Next]_vars,
         NEW n \in Nat, NEW c \in [1..n -> Nodes], Chain(c, n)
  PROVE  CallInv'
<1>. USE DEF Goto, mutexVars, subVars, pubVars
<1>1. ASSUME NEW p \in Publishers, Publish(p) \/ \E v \in Values : CallPublish(p, v)
      PROVE  CallInv'
  <2>1. CASE PublishLock(p) \/ PublishThrows(p) \/ \E v \in Values : CallPublish(p, v)
    BY <2>1 DEF PublishLock, PublishThrows, CallPublish, CallInv, TypeOK
  <2>2. CASE PublishExchange(p)
    <3>1. PICK x \in Nodes \ Alive :
            /\ pc[p] = "exchange" /\ pc' = [pc EXCEPT ![p] = "store"]
            /\ next' = [next EXCEPT ![x] = Null]
            /\ prev' = [prev EXCEPT ![p] = _tail]
            /\ _tail' = x /\ _head' = _head /\ headNext' = headNext /\ arg' = arg
      BY <2>2 DEF PublishExchange
    <3>2. \A s \in Subscribers : _head[s] # Null => _head[s] # x
      <4>. SUFFICES ASSUME NEW s \in Subscribers, _head[s] # Null
                    PROVE  _head[s] \in Alive
        BY <3>1
      <4>1. PICK i \in 1..n : c[i] = _head[s]
        BY DEF Chain
      <4>2. c[i] \in Roots /\ i \in i..n
        BY <4>1 DEF Roots
      <4>. QED
        BY <4>1, <4>2, Reached
    <3>. QED
      BY <3>1, <3>2 DEF CallInv, TypeOK
  <2>3. CASE PublishStore(p)
    <3>1. /\ pc[p] = "store" /\ pc' = [pc EXCEPT ![p] = "idle"]
          /\ next' = [next EXCEPT ![c[n]] = _tail] /\ next[c[n]] = Null
          /\ prev' = [prev EXCEPT ![p] = Null]
          /\ _tail' = _tail /\ _head' = _head /\ headNext' = headNext
          /\ arg' = [arg EXCEPT ![p] = NoValue]
      BY <2>3 DEF PublishStore, Chain, Links
    <3>. QED
      BY <3>1 DEF CallInv, TypeOK
  <2>. QED
    BY <1>1, <2>1, <2>2, <2>3 DEF Publish
<1>2. ASSUME NEW s \in Subscribers,
             CallSubscribe(s) \/ Subscribe(s) \/ DropSubscription(s) \/ Dequeue(s)
      PROVE  CallInv'
  <2>. USE DEF CallInv, TypeOK
  <2>1. CASE CallSubscribe(s) \/ SubscribeLock(s)
    BY <2>1 DEF CallSubscribe, SubscribeLock
  <2>2. CASE SubscribeCopy(s)
    BY <2>2 DEF SubscribeCopy
  <2>3. CASE DropSubscription(s)
    BY <2>3 DEF DropSubscription
  <2>4. CASE DequeueLoad(s)
    BY <2>4 DEF DequeueLoad
  <2>5. CASE DequeueAdvance(s)
    BY <2>5 DEF DequeueAdvance
  <2>. QED
    BY <1>2, <2>1, <2>2, <2>3, <2>4, <2>5 DEF Subscribe, Dequeue
<1>3. ASSUME NEW s \in Subscribers, NEW t \in Subscribers, CopySubscription(s, t)
      PROVE  CallInv'
  BY <1>3 DEF CopySubscription, CallInv, TypeOK
<1>4. CASE Destroy
  BY <1>4 DEF Destroy, CallInv, TypeOK
<1>5. CASE UNCHANGED vars
  BY <1>5 DEF vars, CallInv
<1>. QED
  BY <1>1, <1>2, <1>3, <1>4, <1>5 DEF Next, Terminated

(* The invariant is inductive ...                                           *)
LEMMA Inductive == IInv /\ [Next]_vars => IInv'
<1>. SUFFICES ASSUME IInv, [Next]_vars
              PROVE  IInv'
  OBVIOUS
<1>1. PICK n \in Nat : \E c \in [1..n -> Nodes] : Chain(c, n)
  BY DEF IInv
<1>2. PICK c \in [1..n -> Nodes] : Chain(c, n)
  BY <1>1
<1>3. TypeOK /\ MutexInv /\ CallInv
  BY DEF IInv
<1>4. TypeOK' /\ MutexInv'
  BY <1>3, StepTypes, StepMutex
<1>5. CallInv'
  BY <1>2, <1>3, <1>4, StepCall
<1>6. \E m \in Nat : \E d \in [1..m -> Nodes] : Chain(d, m)'
  BY <1>2, <1>3, StepList
<1>. QED
  BY <1>4, <1>5, <1>6 DEF IInv

(* ... and holds in every state that is reached.                            *)
LEMMA Invariance == Spec => []IInv
  BY InitInv, Inductive, PTL DEF Spec

(* However publications, subscriptions, copies and reads overlap, every     *)
(* subscription leads to the node the next publication is linked to: no     *)
(* publication is lost to a subscription that exists.                       *)
THEOREM SubscriptionsStayLinked == Spec => []NobodyCutOff
<1>1. IInv => NobodyCutOff
  <2>. SUFFICES ASSUME IInv
                PROVE  NobodyCutOff
    OBVIOUS
  <2>1. PICK n \in Nat : \E c \in [1..n -> Nodes] : Chain(c, n)
    BY DEF IInv
  <2>2. PICK c \in [1..n -> Nodes] : Chain(c, n)
    BY <2>1
  <2>3. TypeOK /\ CallInv
    BY DEF IInv
  <2>4. ASSUME NEW s \in Subscribers, _tail # Null, _head[s] # Null
        PROVE  LastLinked = {From(_head[s])[Len(From(_head[s]))]}
    <3>1. PICK i \in 1..n : c[i] = _head[s]
      BY <2>2, <2>4 DEF Chain
    <3>2. From(c[i]) = Ending(c, n, (n - i) + 1)
      <4>1. \A k \in 1..n : From(c[k]) = Ending(c, n, (n - k) + 1)
        BY <2>2, FromIs
      <4>. QED
        BY <4>1
    <3>3. From(_head[s])[Len(From(_head[s]))] = c[n]
      BY <3>1, <3>2 DEF Ending
    <3>4. LastLinked = {c[n]}
      <4>1. CASE \E p \in Publishers : pc[p] = "store"
        <5>1. \A p \in Publishers : prev[p] # Null <=> pc[p] = "store"
          BY <2>3 DEF CallInv
        <5>2. \A p \in Publishers : prev[p] # Null => prev[p] = c[n]
          BY <2>2, <5>1 DEF Chain
        <5>. QED
          BY <4>1, <5>1, <5>2 DEF LastLinked
      <4>2. CASE \A p \in Publishers : pc[p] # "store"
        <5>1. _tail = c[n]
          BY <2>2, <2>4, <4>2 DEF Chain
        <5>2. ~ \E p \in Publishers : prev[p] # Null
          BY <2>3, <4>2 DEF CallInv
        <5>. QED
          BY <5>1, <5>2 DEF LastLinked
      <4>. QED
        BY <4>1, <4>2
    <3>. QED
      BY <3>3, <3>4
  <2>. QED
    BY <2>3, <2>4 DEF NobodyCutOff
<1>. QED
  BY <1>1, Invariance, PTL
-----------------------------------------------------------------------------
(* The refinement.                                                          *)

(* What Broadcast sees of a subscription.                                   *)
Active == {s \in Subscribers : _head[s] # Null}
Inbox  == [s \in Subscribers |-> Unread(s)]

(* The values after place i of the list.                                    *)
Ahead(c, n, i) == [k \in 1..(n - i) |-> value[c[i + k]]]

(* What a subscription has to read is what is after its node.               *)
UnreadFollow ==
  \A n \in Nat : \A c \in [1..n -> Nodes] : Chain(c, n) =>
    \A s \in Subscribers : \A i \in 1..n : c[i] = _head[s] => Unread(s) = Ahead(c, n, i)

(* Unread, defined by a walk, is what is after the subscription's node ...  *)
LEMMA UnreadIs == TypeOK => UnreadFollow
<1>. SUFFICES ASSUME TypeOK, NEW n \in Nat, NEW c \in [1..n -> Nodes], Chain(c, n),
                     NEW s \in Subscribers, NEW i \in 1..n, c[i] = _head[s]
              PROVE  Unread(s) = Ahead(c, n, i)
  BY DEF UnreadFollow
<1>. DEFINE j == (n - i) + 1
<1>1. From(c[i]) = Ending(c, n, j)
  <2>1. \A k \in 1..n : From(c[k]) = Ending(c, n, (n - k) + 1)
    BY FromIs
  <2>. QED
    BY <2>1
<1>2. Tail(Ending(c, n, j)) = [k \in 1..(n - i) |-> c[i + k]]
  <2>1. Ending(c, n, j) \in Seq(Nodes) /\ Len(Ending(c, n, j)) = j
    BY DEF Ending
  <2>2. Tail(Ending(c, n, j)) \in Seq(Nodes) /\ Len(Tail(Ending(c, n, j))) = n - i
    BY <2>1
  <2>3. \A k \in 1..(n - i) : Tail(Ending(c, n, j))[k] = c[i + k]
    BY <2>1 DEF Ending
  <2>4. \A k \in 1..(n - i) : c[i + k] \in Nodes
    OBVIOUS
  <2>. DEFINE q == [k \in 1..(n - i) |-> c[i + k]]
  <2>5. q \in Seq(Nodes) /\ Len(q) = n - i
    BY <2>4
  <2>. HIDE DEF j
  <2>. QED
    BY <2>2, <2>3, <2>5, SeqEqual
<1>3. _head[s] # Null
  BY DEF TypeOK
<1>. QED
  BY <1>1, <1>2, <1>3, ZenonT(60) DEF Unread, Ahead

(* ... after a step as before it.                                           *)
LEMMA UnreadIsNext == TypeOK' => UnreadFollow'
  BY UnreadIs, PTL

(* A subscription that does not move on a list that stays has as much to    *)
(* read as before.                                                          *)
LEMMA UnreadStays ==
  ASSUME TypeOK, TypeOK', NEW n \in Nat, NEW c \in [1..n -> Nodes],
         Chain(c, n), Chain(c, n)', \A i \in 1..n : value'[c[i]] = value[c[i]],
         NEW s \in Subscribers, _head'[s] = _head[s]
  PROVE  Unread(s)' = Unread(s)
<1>1. CASE _head[s] = Null
  BY <1>1 DEF Unread
<1>2. CASE _head[s] # Null
  <2>1. PICK i \in 1..n : c[i] = _head[s]
    BY <1>2 DEF Chain
  <2>2. Unread(s) = Ahead(c, n, i)
    BY <2>1, UnreadIs DEF UnreadFollow
  <2>3. Unread(s)' = Ahead(c, n, i)'
    BY <2>1, UnreadIsNext DEF UnreadFollow
  <2>4. Ahead(c, n, i)' = Ahead(c, n, i)
    BY DEF Ahead
  <2>. QED
    BY <2>2, <2>3, <2>4
<1>. QED
  BY <1>1, <1>2

(* Steps at which no subscription moves and the list stays.                 *)
LEMMA InboxStays ==
  ASSUME TypeOK, TypeOK', NEW n \in Nat, NEW c \in [1..n -> Nodes],
         Chain(c, n), Chain(c, n)', \A i \in 1..n : value'[c[i]] = value[c[i]],
         _head' = _head
  PROVE  Inbox' = Inbox /\ Active' = Active
BY UnreadStays DEF Inbox, Active

(* publish takes effect in every inbox at its store.                        *)
LEMMA PublisherSteps ==
  ASSUME TypeOK, TypeOK', MutexInv, CallInv, NEW n \in Nat, NEW c \in [1..n -> Nodes], Chain(c, n),
         NEW p \in Publishers, Publish(p) \/ \E v \in Values : CallPublish(p, v)
  PROVE  [Log!Next]_(Log!vars)
<1>. USE DEF Goto, mutexVars, subVars, pubVars
<1>1. CASE PublishLock(p)
  <2>1. Inbox' = Inbox /\ Active' = Active
    BY <1>1, QuietKeeps, InboxStays DEF PublishLock
  <2>2. got' = got /\ arg' = arg
    BY <1>1 DEF PublishLock
  <2>. QED
    BY <2>1, <2>2 DEF Log!vars, Inbox, Active
<1>2. CASE PublishThrows(p)
  <2>1. Inbox' = Inbox /\ Active' = Active
    BY <1>2, QuietKeeps, InboxStays DEF PublishThrows
  <2>2. got' = got /\ arg' = [arg EXCEPT ![p] = NoValue]
    BY <1>2 DEF PublishThrows
  <2>3. Log!Throw(p)
    BY <2>1, <2>2 DEF Log!Throw, Inbox, Active
  <2>. QED
    BY <2>3 DEF Log!Next
<1>3. CASE \E v \in Values : CallPublish(p, v)
  <2>1. PICK v \in Values : CallPublish(p, v)
    BY <1>3
  <2>2. Inbox' = Inbox /\ Active' = Active
    BY <2>1, QuietKeeps, InboxStays DEF CallPublish
  <2>3. got' = got /\ arg' = [arg EXCEPT ![p] = v] /\ arg[p] = NoValue
    BY <2>1 DEF CallPublish, CallInv
  <2>4. Log!CallPublish(p, v)
    BY <2>2, <2>3 DEF Log!CallPublish, Inbox, Active
  <2>. QED
    BY <2>4 DEF Log!Next
<1>4. CASE PublishExchange(p)
  <2>1. PICK m \in Nat : \E d \in [1..m -> Nodes] :
            Chain(d, m) /\ Chain(d, m)' /\ \A i \in 1..m : value'[d[i]] = value[d[i]]
    BY <1>4, ExchangeKeeps
  <2>2. PICK d \in [1..m -> Nodes] :
            Chain(d, m) /\ Chain(d, m)' /\ \A i \in 1..m : value'[d[i]] = value[d[i]]
    BY <2>1
  <2>3. _head' = _head /\ got' = got /\ arg' = arg
    BY <1>4 DEF PublishExchange
  <2>4. Inbox' = Inbox /\ Active' = Active
    BY <2>2, <2>3, InboxStays
  <2>. QED
    BY <2>3, <2>4 DEF Log!vars, Inbox, Active
<1>5. CASE PublishStore(p)
  <2>1. PICK m \in Nat : \E d \in [1..m -> Nodes] :
            /\ Chain(d, m)' /\ m = n + 1 /\ d[m] = _tail
            /\ \A i \in 1..n : d[i] = c[i]
    BY <1>5, StoreGrows
  <2>2. PICK d \in [1..m -> Nodes] :
            /\ Chain(d, m)' /\ m = n + 1 /\ d[m] = _tail
            /\ \A i \in 1..n : d[i] = c[i]
    BY <2>1
  <2>3. /\ _head' = _head /\ got' = got /\ value' = value
        /\ arg' = [arg EXCEPT ![p] = NoValue] /\ pc[p] = "store"
    BY <1>5 DEF PublishStore
  <2>4. arg[p] # NoValue /\ value[_tail] = arg[p]
    BY <2>3 DEF CallInv, Chain
  <2>5. ASSUME NEW s \in Subscribers, _head[s] # Null
        PROVE  Unread(s)' = Append(Unread(s), arg[p])
    <3>. DEFINE D == Values \cup {NoValue}
    <3>1. PICK i \in 1..n : c[i] = _head[s]
      BY <2>5 DEF Chain
    <3>2. Unread(s) = Ahead(c, n, i)
      BY <3>1, UnreadIs DEF UnreadFollow
    <3>3. i \in 1..m /\ d[i] = _head'[s]
      BY <2>2, <2>3, <3>1
    <3>4. Unread(s)' = Ahead(d, m, i)'
      BY <2>2, <3>3, UnreadIsNext, SMTT(60) DEF UnreadFollow
    <3>5. Ahead(d, m, i)' = Ahead(d, m, i)
      BY <2>3 DEF Ahead
    <3>6. Ahead(c, n, i) \in Seq(D) /\ Len(Ahead(c, n, i)) = n - i
      <4>1. \A k \in 1..(n - i) : value[c[i + k]] \in D
        BY DEF TypeOK
      <4>. HIDE DEF D
      <4>. QED
        BY <4>1 DEF Ahead
    <3>7. Ahead(d, m, i) \in Seq(D) /\ Len(Ahead(d, m, i)) = (n - i) + 1
      <4>1. \A k \in 1..(m - i) : value[d[i + k]] \in D
        BY <2>2 DEF TypeOK
      <4>. HIDE DEF D
      <4>. QED
        BY <2>2, <4>1 DEF Ahead
    <3>8. \A k \in 1..(n - i) : Ahead(d, m, i)[k] = Ahead(c, n, i)[k]
      BY <2>2 DEF Ahead
    <3>9. Ahead(d, m, i)[(n - i) + 1] = arg[p]
      BY <2>2, <2>4 DEF Ahead
    <3>10. arg[p] \in D
      BY DEF TypeOK
    <3>. HIDE DEF D
    <3>11. /\ Append(Ahead(c, n, i), arg[p]) \in Seq(D)
           /\ Len(Append(Ahead(c, n, i), arg[p])) = (n - i) + 1
           /\ \A k \in 1..(n - i) : Append(Ahead(c, n, i), arg[p])[k] = Ahead(c, n, i)[k]
           /\ Append(Ahead(c, n, i), arg[p])[(n - i) + 1] = arg[p]
      BY <3>6, <3>10, AppendProperties
    <3>12. \A k \in 1..((n - i) + 1) : Ahead(d, m, i)[k] = Append(Ahead(c, n, i), arg[p])[k]
      BY <3>8, <3>9, <3>11
    <3>13. Ahead(d, m, i) = Append(Ahead(c, n, i), arg[p])
      BY <3>7, <3>11, <3>12, SeqEqual
    <3>. QED
      BY <3>2, <3>4, <3>5, <3>13
  <2>6. ASSUME NEW s \in Subscribers, _head[s] = Null
        PROVE  Unread(s)' = <<>>
    BY <2>3, <2>6 DEF Unread
  <2>7. Inbox' = [s \in Subscribers |-> IF s \in Active THEN Append(Inbox[s], arg[p]) ELSE <<>>]
    BY <2>5, <2>6 DEF Inbox, Active
  <2>8. Active' = Active
    BY <2>3 DEF Active
  <2>9. Log!Publish(p)
    BY <2>3, <2>4, <2>7, <2>8 DEF Log!Publish, Inbox, Active
  <2>. QED
    BY <2>9 DEF Log!Next
<1>. QED
  BY <1>1, <1>2, <1>3, <1>4, <1>5 DEF Publish

(* subscribe takes effect as it copies _tail: its inbox is empty, because no*)
(* publisher is between its exchange and its store.  dequeue takes effect as*)
(* it finds no next node, or as it moves.                                   *)
LEMMA SubscriberSteps ==
  ASSUME TypeOK, TypeOK', MutexInv, CallInv, NEW n \in Nat, NEW c \in [1..n -> Nodes], Chain(c, n),
         NEW s \in Subscribers,
         CallSubscribe(s) \/ Subscribe(s) \/ DropSubscription(s) \/ Dequeue(s)
  PROVE  [Log!Next]_(Log!vars)
<1>. USE DEF Goto, mutexVars, subVars, pubVars
<1>1. Chain(c, n)'
  BY SubscriberKeeps
<1>2. /\ next' = next /\ value' = value /\ arg' = arg
      /\ \A t \in Subscribers \ {s} : _head'[t] = _head[t]
  BY DEF CallSubscribe, Subscribe, SubscribeLock, SubscribeCopy, DropSubscription,
         Dequeue, DequeueLoad, DequeueAdvance, TypeOK
<1>3. \A t \in Subscribers \ {s} : Unread(t)' = Unread(t)
  BY <1>1, <1>2, UnreadStays
<1>4. Inbox' = [Inbox EXCEPT ![s] = Unread(s)']
  BY <1>3 DEF Inbox
<1>5. CASE CallSubscribe(s) \/ SubscribeLock(s) \/ (DequeueLoad(s) /\ next[_head[s]] # Null)
  <2>1. _head' = _head /\ got' = got
    BY <1>5 DEF CallSubscribe, SubscribeLock, DequeueLoad
  <2>2. Inbox' = Inbox /\ Active' = Active
    BY <1>1, <1>2, <2>1, InboxStays
  <2>. QED
    BY <1>2, <2>1, <2>2 DEF Log!vars, Inbox, Active
<1>6. CASE SubscribeCopy(s)
  <2>1. /\ pc[s] = "copy" /\ _head' = [_head EXCEPT ![s] = _tail] /\ got' = got /\ _tail \in Nodes
        /\ _head[s] = Null /\ _tail' = _tail
    BY <1>6 DEF SubscribeCopy, CallInv, TypeOK
  <2>2. \A p \in Publishers : pc[p] # "store"
    BY <2>1 DEF TypeOK, MutexInv
  <2>3. c[n] = _head'[s] /\ n \in 1..n
    BY <2>1, <2>2 DEF Chain, TypeOK
  <2>4. Unread(s)' = Ahead(c, n, n)'
    BY <1>1, <2>3, UnreadIsNext DEF UnreadFollow
  <2>5. Unread(s)' = <<>> /\ Unread(s) = <<>>
    BY <2>1, <2>4 DEF Ahead, Unread
  <2>6. Inbox' = Inbox
    BY <1>3, <2>5 DEF Inbox
  <2>7. Active' = Active \cup {s} /\ s \notin Active
    BY <2>1 DEF Active, TypeOK
  <2>8. Log!Subscribe(s)
    BY <1>2, <2>1, <2>6, <2>7 DEF Log!Subscribe, Inbox, Active
  <2>. QED
    BY <2>8 DEF Log!Next
<1>7. CASE DropSubscription(s)
  <2>1. _head' = [_head EXCEPT ![s] = Null] /\ got' = [got EXCEPT ![s] = NoValue]
    BY <1>7 DEF DropSubscription
  <2>2. Unread(s)' = <<>>
    BY <2>1 DEF Unread, TypeOK
  <2>3. Inbox' = [Inbox EXCEPT ![s] = <<>>]
    BY <1>4, <2>2
  <2>4. Active' = Active \ {s}
    BY <2>1 DEF Active, TypeOK
  <2>5. Log!Drop(s)
    BY <1>2, <2>1, <2>3, <2>4 DEF Log!Drop, Inbox, Active
  <2>. QED
    BY <2>5 DEF Log!Next
<1>8. CASE DequeueLoad(s) /\ next[_head[s]] = Null
  <2>1. _head' = _head /\ got' = [got EXCEPT ![s] = NoValue] /\ _head[s] # Null
    BY <1>8 DEF DequeueLoad
  <2>2. Inbox' = Inbox /\ Active' = Active
    BY <1>1, <1>2, <2>1, InboxStays
  <2>3. PICK i \in 1..n : c[i] = _head[s]
    BY <2>1 DEF Chain
  <2>4. i = n
    <3>. SUFFICES ASSUME i # n
                  PROVE  FALSE
      OBVIOUS
    <3>1. next[c[i]] = c[i + 1] /\ c[i + 1] \in Nodes
      BY DEF Chain, Links
    <3>. QED
      BY <1>8, <2>3, <3>1
  <2>5. Unread(s) = <<>>
    <3>1. Unread(s) = Ahead(c, n, i)
      BY <2>3, UnreadIs DEF UnreadFollow
    <3>. QED
      BY <2>4, <3>1 DEF Ahead
  <2>6. s \in Active /\ Inbox[s] = <<>>
    BY <2>1, <2>5 DEF Active, Inbox
  <2>7. Log!Dequeue(s)
    BY <1>2, <2>1, <2>2, <2>6 DEF Log!Dequeue, Inbox, Active
  <2>. QED
    BY <2>7 DEF Log!Next
<1>9. CASE DequeueAdvance(s)
  <2>. DEFINE D == Values \cup {NoValue}
  <2>1. /\ _head' = [_head EXCEPT ![s] = headNext[s]]
        /\ got' = [got EXCEPT ![s] = value[headNext[s]]]
        /\ _head[s] # Null /\ headNext[s] \in Nodes /\ next[_head[s]] = headNext[s]
    BY <1>9 DEF DequeueAdvance, CallInv, TypeOK
  <2>2. PICK i \in 1..n : c[i] = _head[s]
    BY <2>1 DEF Chain
  <2>3. i # n
    BY <2>1, <2>2 DEF Chain, Links
  <2>4. PICK j \in 1..n : j = i + 1 /\ c[j] = headNext[s]
    BY <2>1, <2>2, <2>3 DEF Chain, Links
  <2>5. Unread(s) = Ahead(c, n, i)
    BY <2>2, UnreadIs DEF UnreadFollow
  <2>6. Unread(s)' = Ahead(c, n, j)'
    <3>1. c[j] = _head'[s]
      BY <2>1, <2>4 DEF TypeOK
    <3>. QED
      BY <1>1, <3>1, UnreadIsNext DEF UnreadFollow
  <2>7. Ahead(c, n, j)' = Ahead(c, n, j)
    BY <1>2 DEF Ahead
  <2>8. Ahead(c, n, i) \in Seq(D) /\ Len(Ahead(c, n, i)) = n - i
    <3>1. \A k \in 1..(n - i) : value[c[i + k]] \in D
      BY DEF TypeOK
    <3>. HIDE DEF D
    <3>. QED
      BY <3>1 DEF Ahead
  <2>9. Ahead(c, n, j) \in Seq(D) /\ Len(Ahead(c, n, j)) = n - j
    <3>1. \A k \in 1..(n - j) : value[c[j + k]] \in D
      BY DEF TypeOK
    <3>. HIDE DEF D
    <3>. QED
      BY <3>1 DEF Ahead
  <2>10. n - i # 0 /\ n - i \in Nat /\ n - j = (n - i) - 1
    BY <2>3, <2>4
  <2>11. Ahead(c, n, i) # <<>> /\ Head(Ahead(c, n, i)) = value[headNext[s]]
    <3>1. Ahead(c, n, i)[1] = value[headNext[s]]
      BY <2>4, <2>10 DEF Ahead
    <3>. HIDE DEF D
    <3>. QED
      BY <2>8, <2>10, <3>1
  <2>12. Tail(Ahead(c, n, i)) = Ahead(c, n, j)
    <3>1. \A k \in 1..(n - j) : Ahead(c, n, j)[k] = Ahead(c, n, i)[k + 1]
      BY <2>4 DEF Ahead
    <3>. HIDE DEF D
    <3>2. /\ Tail(Ahead(c, n, i)) \in Seq(D) /\ Len(Tail(Ahead(c, n, i))) = n - j
          /\ \A k \in 1..(n - j) : Tail(Ahead(c, n, i))[k] = Ahead(c, n, i)[k + 1]
      BY <2>8, <2>10, <2>11
    <3>. QED
      BY <2>9, <3>1, <3>2, SeqEqual
  <2>13. s \in Active /\ Inbox[s] # <<>> /\ got' = [got EXCEPT ![s] = Head(Inbox[s])]
    BY <2>1, <2>5, <2>11 DEF Active, Inbox
  <2>14. Inbox' = [Inbox EXCEPT ![s] = Tail(Inbox[s])]
    <3>1. Inbox[s] = Unread(s)
      BY DEF Inbox
    <3>. QED
      BY <1>4, <2>5, <2>6, <2>7, <2>12, <3>1
  <2>15. Active' = Active
    BY <2>1 DEF Active, TypeOK
  <2>16. Log!Dequeue(s)
    BY <1>2, <2>13, <2>14, <2>15 DEF Log!Dequeue, Inbox, Active
  <2>. QED
    BY <2>16 DEF Log!Next
<1>. QED
  BY <1>5, <1>6, <1>7, <1>8, <1>9 DEF Subscribe, Dequeue

(* A copy has to read what its original has.                                *)
LEMMA CopyStep ==
  ASSUME TypeOK, TypeOK', NEW n \in Nat, NEW c \in [1..n -> Nodes], Chain(c, n),
         NEW s \in Subscribers, NEW t \in Subscribers, CopySubscription(s, t)
  PROVE  [Log!Next]_(Log!vars)
<1>1. /\ value' = value /\ got' = got /\ arg' = arg
      /\ _head[s] # Null /\ _head[t] = Null /\ s # t
      /\ \A u \in Subscribers : _head'[u] = IF u = t THEN _head[s] ELSE _head[u]
  BY DEF CopySubscription, TypeOK, pubVars
<1>2. Chain(c, n)'
  BY CopyKeeps
<1>3. \A u \in Subscribers \ {t} : Unread(u)' = Unread(u)
  BY <1>1, <1>2, UnreadStays
<1>4. PICK i \in 1..n : c[i] = _head[s]
  BY <1>1 DEF Chain
<1>5. Unread(s) = Ahead(c, n, i)
  BY <1>4, UnreadIs DEF UnreadFollow
<1>6. Unread(t)' = Ahead(c, n, i)'
  <2>1. c[i] = _head'[t]
    BY <1>1, <1>4
  <2>. QED
    BY <1>2, <2>1, UnreadIsNext DEF UnreadFollow
<1>7. Unread(t)' = Unread(s)
  BY <1>1, <1>5, <1>6 DEF Ahead
<1>8. Inbox' = [Inbox EXCEPT ![t] = Inbox[s]]
  BY <1>3, <1>7 DEF Inbox
<1>9. Active' = Active \cup {t} /\ s \in Active /\ t \notin Active
  BY <1>1 DEF Active
<1>10. Log!Copy(s, t)
  BY <1>1, <1>8, <1>9 DEF Log!Copy, Inbox, Active
<1>. QED
  BY <1>10 DEF Log!Next

(* Every step is a step of Broadcast or one that no inbox notices.          *)
LEMMA StepLog == IInv /\ IInv' /\ [Next]_vars => [Log!Next]_(Log!vars)
<1>. SUFFICES ASSUME IInv, IInv', [Next]_vars
              PROVE  [Log!Next]_(Log!vars)
  OBVIOUS
<1>1. PICK n \in Nat : \E c \in [1..n -> Nodes] : Chain(c, n)
  BY DEF IInv
<1>2. PICK c \in [1..n -> Nodes] : Chain(c, n)
  BY <1>1
<1>3. TypeOK /\ MutexInv /\ CallInv /\ TypeOK'
  BY DEF IInv
<1>4. ASSUME NEW p \in Publishers, Publish(p) \/ \E v \in Values : CallPublish(p, v)
      PROVE  [Log!Next]_(Log!vars)
  BY <1>2, <1>3, <1>4, PublisherSteps
<1>5. ASSUME NEW s \in Subscribers,
             CallSubscribe(s) \/ Subscribe(s) \/ DropSubscription(s) \/ Dequeue(s)
      PROVE  [Log!Next]_(Log!vars)
  BY <1>2, <1>3, <1>5, SubscriberSteps
<1>6. ASSUME NEW s \in Subscribers, NEW t \in Subscribers, CopySubscription(s, t)
      PROVE  [Log!Next]_(Log!vars)
  BY <1>2, <1>3, <1>6, CopyStep
<1>7. CASE Destroy
  <2>1. Chain(c, n)'
    BY <1>2, <1>3, <1>7, QuietKeeps
  <2>2. _head' = _head /\ value' = value /\ got' = got /\ arg' = arg
    BY <1>7 DEF Destroy, subVars, pubVars
  <2>3. Inbox' = Inbox /\ Active' = Active
    BY <1>2, <1>3, <2>1, <2>2, InboxStays
  <2>. QED
    BY <2>2, <2>3 DEF Log!vars, Inbox, Active
<1>8. CASE UNCHANGED vars
  <2>1. _head' = _head /\ value' = value /\ got' = got /\ arg' = arg /\ next' = next
    BY <1>8 DEF vars, subVars, pubVars
  <2>2. Inbox' = Inbox /\ Active' = Active
    BY <2>1 DEF Inbox, Active, Unread, From
  <2>. QED
    BY <2>1, <2>2 DEF Log!vars, Inbox, Active
<1>. QED
  BY <1>4, <1>5, <1>6, <1>7, <1>8 DEF Next, Terminated

(* No subscriptions at first.                                               *)
LEMMA InitLog == Init => Log!Init
BY DEF Init, Log!Init, Unread

(* The list that every subscription walks without a lock implements Broadcast:*)
(* a publication enters all inboxes at one instant, in one order; each is read*)
(* once, in that order, also after the queue is destroyed.                  *)
THEOREM ImplementsBroadcast == Spec => BroadcastSpec
  BY Invariance, StepLog, InitLog, PTL DEF Spec, BroadcastSpec, Log!Spec
=============================================================================
