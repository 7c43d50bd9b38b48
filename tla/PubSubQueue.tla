----------------------------- MODULE PubSubQueue -----------------------------
(***************************************************************************)
(* tpp::PubSubQueue (include/toypp/threaded/pubsub_queue.hpp): publishers   *)
(* append nodes to a linked list under a shared_mutex; each subscription    *)
(* walks the list from where it subscribed, without the mutex, through an   *)
(* atomic load of its node's `next`.  Nodes belong to shared_ptrs: a node   *)
(* lives while a shared_ptr reaches it, then its address may be used again. *)
(***************************************************************************)
EXTENDS LinkedList

CONSTANTS
  Publishers,
  Subscribers,
  Values,
  NoValue,      (* std::nullopt                                             *)
  NoThread,
  MaxPublish,   (* bound: publications, failed ones included                *)
  MaxSubscribe  (* bound: calls of subscribe                                *)

ASSUME PubSubAssumption ==
  /\ Publishers \cap Subscribers = {}
  /\ NoThread \notin Publishers
  /\ Nodes # {}
  /\ NoValue \notin Values
  /\ MaxPublish \in Nat
  /\ MaxSubscribe \in Nat

VARIABLES
  writer,       (* _mutex: the publisher that holds it, or NoThread         *)
  readers,      (* _mutex: the subscribers that share it                    *)
  _tail,
  next, value,  (* Node's members, for each address                         *)
  _head,        (* Subscription::_head, Null when there is no subscription  *)
  headNext,     (* dequeue's local head_next                                *)
  got,          (* what the last dequeue returned                           *)
  prev,         (* publish's local prev                                     *)
  arg,          (* publish's argument                                       *)
  pc,
  published,    (* counts against MaxPublish                                *)
  subscribed    (* counts against MaxSubscribe                              *)

mutexVars == <<writer, readers>>
subVars   == <<_head, headNext, got, subscribed>>
pubVars   == <<prev, arg, published>>
vars == <<mutexVars, _tail, next, value, subVars, pubVars, pc>>

Goto(th, from, to) == pc[th] = from /\ pc' = [pc EXCEPT ![th] = to]

From(n) == Along(next, n)

(* The nodes some shared_ptr reaches.                                       *)
Roots ==
  {_tail} \cup {_head[s] : s \in Subscribers} \cup {headNext[s] : s \in Subscribers}
          \cup {prev[p] : p \in Publishers}

Alive == UNION {{From(n)[i] : i \in DOMAIN From(n)} : n \in Roots}

Init ==
  /\ writer = NoThread
  /\ readers = {}
  /\ _tail = CHOOSE n \in Nodes : TRUE
  /\ next = [n \in Nodes |-> Null]
  /\ value = [n \in Nodes |-> NoValue]
  /\ _head = [s \in Subscribers |-> Null]
  /\ headNext = [s \in Subscribers |-> Null]
  /\ got = [s \in Subscribers |-> NoValue]
  /\ prev = [p \in Publishers |-> Null]
  /\ arg = [p \in Publishers |-> NoValue]
  /\ pc = [th \in Publishers \cup Subscribers |-> "idle"]
  /\ published = 0
  /\ subscribed = 0

-----------------------------------------------------------------------------
(* publish.                                                                 *)

CallPublish(p, v) ==
  /\ _tail # Null
  /\ published < MaxPublish
  /\ published' = published + 1
  /\ Goto(p, "idle", "lock")
  /\ arg' = [arg EXCEPT ![p] = v]
  /\ UNCHANGED <<mutexVars, _tail, next, value, subVars, prev>>

(* A plausible bug: publish takes the mutex in shared mode.                 *)
PublishLock_Shared(p) ==
  /\ Goto(p, "lock", "exchange")
  /\ writer = NoThread
  /\ UNCHANGED <<mutexVars, _tail, next, value, subVars, pubVars>>

PublishLock(p) ==
  /\ Goto(p, "lock", "exchange")
  /\ writer = NoThread
  /\ readers = {}
  /\ writer' = p
  /\ UNCHANGED <<readers, _tail, next, value, subVars, pubVars>>

(* make_shared or the move of the value throws: nothing has changed yet.    *)
PublishThrows(p) ==
  /\ Goto(p, "exchange", "idle")
  /\ writer' = NoThread
  /\ arg' = [arg EXCEPT ![p] = NoValue]
  /\ UNCHANGED <<readers, _tail, next, value, subVars, prev, published>>

PublishExchange(p) ==
  \E n \in Nodes \ Alive :
    /\ Goto(p, "exchange", "store")
    /\ value' = [value EXCEPT ![n] = arg[p]]
    /\ next' = [next EXCEPT ![n] = Null]
    /\ prev' = [prev EXCEPT ![p] = _tail]
    /\ _tail' = n
    /\ UNCHANGED <<mutexVars, subVars, arg, published>>

(* A plausible bug: the mutex is released before the new node is linked.    *)
PublishStore_Unlocked(p) ==
  /\ \/ /\ Goto(p, "store", "late")
        /\ writer' = NoThread
        /\ UNCHANGED <<next, prev, arg>>
     \/ /\ Goto(p, "late", "idle")
        /\ next' = [next EXCEPT ![prev[p]] = _tail]
        /\ prev' = [prev EXCEPT ![p] = Null]
        /\ arg' = [arg EXCEPT ![p] = NoValue]
        /\ UNCHANGED writer
  /\ UNCHANGED <<readers, _tail, value, subVars, published>>

(* A plausible bug: the mutex is not released.                              *)
PublishStore_KeepsLock(p) ==
  /\ Goto(p, "store", "idle")
  /\ next' = [next EXCEPT ![prev[p]] = _tail]
  /\ prev' = [prev EXCEPT ![p] = Null]
  /\ arg' = [arg EXCEPT ![p] = NoValue]
  /\ UNCHANGED <<mutexVars, _tail, value, subVars, published>>

PublishStore(p) ==
  /\ Goto(p, "store", "idle")
  /\ next' = [next EXCEPT ![prev[p]] = _tail]
  /\ prev' = [prev EXCEPT ![p] = Null]
  /\ arg' = [arg EXCEPT ![p] = NoValue]
  /\ writer' = NoThread
  /\ UNCHANGED <<readers, _tail, value, subVars, published>>

-----------------------------------------------------------------------------
(* subscribe, and copies and destruction of a subscription.                 *)

CallSubscribe(s) ==
  /\ _tail # Null
  /\ _head[s] = Null
  /\ subscribed < MaxSubscribe
  /\ subscribed' = subscribed + 1
  /\ Goto(s, "idle", "share")
  /\ UNCHANGED <<mutexVars, _tail, next, value, _head, headNext, got, pubVars>>

SubscribeLock(s) ==
  /\ Goto(s, "share", "copy")
  /\ writer = NoThread
  /\ readers' = readers \cup {s}
  /\ UNCHANGED <<writer, _tail, next, value, subVars, pubVars>>

SubscribeCopy(s) ==
  /\ Goto(s, "copy", "idle")
  /\ _head' = [_head EXCEPT ![s] = _tail]
  /\ readers' = readers \ {s}
  /\ UNCHANGED <<writer, _tail, next, value, headNext, got, subscribed, pubVars>>

(* A thread copies its own subscription and hands the copy over.            *)
CopySubscription(s, t) ==
  /\ _head[s] # Null /\ pc[s] = "idle"
  /\ _head[t] = Null /\ pc[t] = "idle"
  /\ _head' = [_head EXCEPT ![t] = _head[s]]
  /\ UNCHANGED <<mutexVars, _tail, next, value, headNext, got, subscribed, pubVars, pc>>

DropSubscription(s) ==
  /\ _head[s] # Null /\ pc[s] = "idle"
  /\ _head' = [_head EXCEPT ![s] = Null]
  /\ got' = [got EXCEPT ![s] = NoValue]
  /\ UNCHANGED <<mutexVars, _tail, next, value, headNext, subscribed, pubVars, pc>>

-----------------------------------------------------------------------------
(* dequeue.                                                                 *)

DequeueLoad(s) ==
  /\ _head[s] # Null
  /\ \/ /\ next[_head[s]] = Null
        /\ got' = [got EXCEPT ![s] = NoValue]
        /\ pc[s] = "idle"
        /\ UNCHANGED <<headNext, pc>>
     \/ /\ next[_head[s]] # Null
        /\ headNext' = [headNext EXCEPT ![s] = next[_head[s]]]
        /\ Goto(s, "idle", "advance")
        /\ UNCHANGED got
  /\ UNCHANGED <<mutexVars, _tail, next, value, _head, subscribed, pubVars>>

(* A plausible bug: _head stays where it is.                                *)
DequeueAdvance_KeepsHead(s) ==
  /\ Goto(s, "advance", "idle")
  /\ headNext' = [headNext EXCEPT ![s] = Null]
  /\ got' = [got EXCEPT ![s] = value[headNext[s]]]
  /\ UNCHANGED <<mutexVars, _tail, next, value, _head, subscribed, pubVars>>

DequeueAdvance(s) ==
  /\ Goto(s, "advance", "idle")
  /\ _head' = [_head EXCEPT ![s] = headNext[s]]
  /\ headNext' = [headNext EXCEPT ![s] = Null]
  /\ got' = [got EXCEPT ![s] = value[headNext[s]]]
  /\ UNCHANGED <<mutexVars, _tail, next, value, subscribed, pubVars>>

-----------------------------------------------------------------------------
(* The queue is destroyed when no call uses it; subscriptions live on.      *)
Destroy ==
  /\ _tail # Null
  /\ \A p \in Publishers : pc[p] = "idle"
  /\ \A s \in Subscribers : pc[s] \notin {"share", "copy"}
  /\ _tail' = Null
  /\ UNCHANGED <<mutexVars, next, value, subVars, pubVars, pc>>

(* The queue and all subscriptions are gone.                                *)
Terminated ==
  /\ _tail = Null
  /\ \A s \in Subscribers : _head[s] = Null
  /\ UNCHANGED vars

Publish(p) ==
  PublishLock(p) \/ PublishThrows(p) \/ PublishExchange(p) \/ PublishStore(p)

Subscribe(s) == SubscribeLock(s) \/ SubscribeCopy(s)

Dequeue(s) == DequeueLoad(s) \/ DequeueAdvance(s)

Next ==
  \/ \E p \in Publishers : Publish(p) \/ \E v \in Values : CallPublish(p, v)
  \/ \E s \in Subscribers :
       CallSubscribe(s) \/ Subscribe(s) \/ DropSubscription(s) \/ Dequeue(s)
  \/ \E s, t \in Subscribers : CopySubscription(s, t)
  \/ Destroy
  \/ Terminated

Spec == Init /\ [][Next]_vars

(* Calls that have begun go on, and a subscriber keeps calling dequeue, as  *)
(* the loops of the stress test do.  Publications and subscriptions are     *)
(* bounded in number, so weak fairness is enough to get the mutex (the C++  *)
(* standard does not promise a publisher more: readers that overlap for     *)
(* ever may keep it waiting).                                               *)
Fairness ==
  /\ \A p \in Publishers : WF_vars(Publish(p))
  /\ \A s \in Subscribers : WF_vars(Subscribe(s)) /\ WF_vars(Dequeue(s))

FairSpec == Spec /\ Fairness

-----------------------------------------------------------------------------
(* Properties.                                                              *)

(* The types; the shared_mutex has one writer, or readers, or nobody.       *)
TypeOK ==
  /\ writer \in Publishers \cup {NoThread}
  /\ readers \in SUBSET Subscribers
  /\ writer = NoThread \/ readers = {}
  /\ _tail \in Nodes \cup {Null}
  /\ next \in [Nodes -> Nodes \cup {Null}]
  /\ value \in [Nodes -> Values \cup {NoValue}]
  /\ _head \in [Subscribers -> Nodes \cup {Null}]
  /\ headNext \in [Subscribers -> Nodes \cup {Null}]
  /\ got \in [Subscribers -> Values \cup {NoValue}]
  /\ prev \in [Publishers -> Nodes \cup {Null}]
  /\ arg \in [Publishers -> Values \cup {NoValue}]
  /\ pc \in [Publishers \cup Subscribers ->
               {"idle", "lock", "exchange", "store", "share", "copy", "advance"}]
  /\ published \in 0..MaxPublish
  /\ subscribed \in 0..MaxSubscribe

(* All subscriptions walk one list and nobody is cut off from it: each one's *)
(* node leads to the node the next publication will be linked to (publish's  *)
(* prev while it is between its exchange and its store, else _tail).         *)
LastLinked == IF \E p \in Publishers : prev[p] # Null
              THEN {prev[p] : p \in Publishers} \ {Null}
              ELSE {_tail}

NobodyCutOff ==
  /\ TypeOK
  /\ \A s \in Subscribers :
       (_tail # Null /\ _head[s] # Null) =>
         LastLinked = {From(_head[s])[Len(From(_head[s]))]}

(* Each subscription receives what is published after it subscribed, in the  *)
(* order of publication, each value once, and nothing else, also after the   *)
(* queue itself is destroyed.                                                *)
Unread(s) == IF _head[s] = Null THEN <<>>
             ELSE LET ahead == Tail(From(_head[s]))
                  IN  [i \in DOMAIN ahead |-> value[ahead[i]]]

Log == INSTANCE Broadcast WITH
  active     <- {s \in Subscribers : _head[s] # Null},
  inbox      <- [s \in Subscribers |-> Unread(s)],
  publishing <- arg

BroadcastSpec == Log!Spec

(* publish and subscribe return, whatever the other threads do.              *)
CallsReturn == \A th \in Publishers \cup Subscribers : (pc[th] # "idle") ~> (pc[th] = "idle")

(* A subscriber that keeps calling dequeue reads all that was published.     *)
EverythingRead == \A s \in Subscribers : []<>(Unread(s) = <<>>)
=============================================================================
