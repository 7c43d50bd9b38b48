-------------------------------- MODULE Queue --------------------------------
(***************************************************************************)
(* tpp::Queue (include/toypp/queue.hpp): a singly linked list with a count. *)
(* The class knows no threads.  The variable `heap` holds the members of    *)
(* the Queue objects and the nodes; operations are functions of it.         *)
(***************************************************************************)
EXTENDS LinkedList, Integers, SequencesExt

CONSTANTS
  Queues,     (* variables of type Queue                                    *)
  Items,
  SizeValues  (* the number of values of std::size_t                        *)

(* std::size_t can count what there are addresses for.                      *)
ASSUME QueueAssumption == SizeValues \in Nat /\ Cardinality(Nodes) < SizeValues

VARIABLES
  heap,       (* head_, tail_ and size_ of each queue, and each node there  *)
              (* is with its data and next                                  *)
  contents,   (* history: what each queue should hold, oldest first         *)
  miscounted  (* history: the queues whose size_ a move construction has    *)
              (* made wrong                                                 *)

queueVars == <<heap, contents, miscounted>>

NewQueue == [head |-> Null, tail |-> Null, size |-> 0]

QueueInit ==
  /\ heap = [queue |-> [q \in Queues |-> NewQueue], node |-> [n \in {} |-> Null]]
  /\ contents = [q \in Queues |-> <<>>]
  /\ miscounted = {}

Allocated(s) == DOMAIN s.node

NextOf(s) == [n \in Nodes |-> IF n \in Allocated(s) THEN s.node[n].next ELSE Null]

(* The nodes of a queue from head_ on.                                      *)
Chain(s, q) == Along(NextOf(s), s.queue[q].head)

Data(s, q) == LET c == Chain(s, q) IN [i \in DOMAIN c |-> s.node[c[i]].data]

(* push: new Node, and push_node, which links it at the tail.  Any address  *)
(* that is free will do.                                                    *)
Pushed(s, q, v) ==
  LET n == CHOOSE m \in Nodes : m \notin Allocated(s)
      last == s.queue[q].tail
      linked == [m \in Allocated(s) \cup {n} |->
                   IF m = n THEN [data |-> v, next |-> Null]
                   ELSE IF m = last THEN [s.node[m] EXCEPT !.next = n] ELSE s.node[m]]
  IN [queue |-> [s.queue EXCEPT ![q] = [head |-> IF last = Null THEN n ELSE @.head,
                                        tail |-> n,
                                        size |-> (@.size + 1) % SizeValues]],
      node |-> linked]

Without(s, gone) == [m \in Allocated(s) \ gone |-> s.node[m]]

(* clear(): deletes the nodes from head_ on.                                *)
Cleared(s, q) ==
  [queue |-> [s.queue EXCEPT ![q] = NewQueue],
   node |-> Without(s, ToSet(Chain(s, q)))]

(* A plausible bug: the tail is left where it was.                          *)
Popped_KeepsTail(s, q) ==
  LET n == s.queue[q].head
      rest == s.node[n].next
  IN [queue |-> [s.queue EXCEPT ![q] = [head |-> rest,
                                        tail |-> @.tail,
                                        size |-> (@.size - 1) % SizeValues]],
      node |-> Without(s, {n})]

(* pop() of a queue that has a head.                                        *)
Popped(s, q) ==
  LET n == s.queue[q].head
      rest == s.node[n].next
  IN [queue |-> [s.queue EXCEPT ![q] = [head |-> rest,
                                        tail |-> IF rest = Null THEN Null ELSE @.tail,
                                        size |-> (@.size - 1) % SizeValues]],
      node |-> Without(s, {n})]

(* The loop of the two copies, which pushes each item of r.                 *)
Copied(s, q, r) ==
  LET items == Data(s, r)
      after[k \in 0..Len(items)] == IF k = 0 THEN s ELSE Pushed(after[k - 1], q, items[k])
  IN after[Len(items)]

Room(s, k) == Cardinality(Nodes \ Allocated(s)) >= k

-----------------------------------------------------------------------------
Push(q, v) ==
  /\ Room(heap, 1)
  /\ heap' = Pushed(heap, q, v)
  /\ contents' = [contents EXCEPT ![q] = Append(@, v)]
  /\ UNCHANGED miscounted

(* An empty queue gives std::nullopt.                                       *)
Pop(q) ==
  /\ heap.queue[q].head # Null
  /\ heap' = Popped(heap, q)
  /\ contents' = [contents EXCEPT ![q] = Tail(@)]
  /\ UNCHANGED miscounted

(* clear(), and the destructor with a new empty queue in its place.         *)
Clear(q) ==
  /\ heap' = Cleared(heap, q)
  /\ contents' = [contents EXCEPT ![q] = <<>>]
  /\ miscounted' = miscounted \ {q}

(* Copy assignment to another queue, and copy construction where q is new.  *)
CopyAssign(q, r) ==
  /\ q # r
  /\ Room(Cleared(heap, q), Len(Chain(heap, r)))
  /\ heap' = Copied(Cleared(heap, q), q, r)
  /\ contents' = [contents EXCEPT ![q] = contents[r]]
  /\ miscounted' = miscounted \ {q}

(* Move construction where the queue q was destroyed: the count stays       *)
(* behind, with the argument.                                               *)
MoveConstruct(q, r) ==
  /\ q # r
  /\ heap.queue[q] = NewQueue
  /\ heap' = [heap EXCEPT !.queue[q] = [@ EXCEPT !.head = heap.queue[r].head,
                                                 !.tail = heap.queue[r].tail],
                          !.queue[r] = [@ EXCEPT !.head = Null, !.tail = Null]]
  /\ contents' = [contents EXCEPT ![q] = contents[r], ![r] = <<>>]
  /\ miscounted' = miscounted \cup {q, r}

(* Move assignment swaps all three members.                                 *)
MoveAssign(q, r) ==
  /\ heap' = [heap EXCEPT !.queue[q] = heap.queue[r], !.queue[r] = heap.queue[q]]
  /\ contents' = [contents EXCEPT ![q] = contents[r], ![r] = contents[q]]
  /\ miscounted' = {x \in Queues :
                      (IF x = q THEN r ELSE IF x = r THEN q ELSE x) \in miscounted}

QueueNext ==
  \/ \E q \in Queues : Pop(q) \/ Clear(q) \/ \E v \in Items : Push(q, v)
  \/ \E q, r \in Queues : CopyAssign(q, r) \/ MoveConstruct(q, r) \/ MoveAssign(q, r)

-----------------------------------------------------------------------------
(* What is checked.                                                         *)

(* Whatever was pushed, popped, copied and moved between the queues, each   *)
(* holds what it should in the order it should; the tail is the last node;  *)
(* each node there is belongs to one queue, so none leaks and none is       *)
(* deleted twice; and size() counts the nodes, of every queue but the two   *)
(* of a move construction, until they are cleared or assigned to.           *)
QueuesIntact ==
  /\ \A q \in Queues :
       LET c == Chain(heap, q) IN
         /\ ToSet(c) \subseteq Allocated(heap)
         /\ Data(heap, q) = contents[q]
         /\ heap.queue[q].tail = IF c = <<>> THEN Null ELSE c[Len(c)]
         /\ q \notin miscounted => heap.queue[q].size = Len(c)
  /\ \A n \in Allocated(heap) :
       Cardinality({q \in Queues : n \in ToSet(Chain(heap, q))}) = 1

=============================================================================
