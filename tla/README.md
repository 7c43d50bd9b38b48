# TLA+ verification of libtoypp

libtoypp is a header-only C++17 library of containers, smart pointers and
threading primitives (`include/toypp`, `include/toypp/threaded`). These modules
model its components at the level at which their hard behaviour happens: each
lock, atomic access and visible step of the threaded classes is a step of the
model, and each call of the sequential ones. TLC checks them on small
instances; TLAPS proves the main results for every value of the constants.

## 1. The system

The components do not call each other: the library is a set of classes that a
program uses side by side. What interacts are the *threads* that use one object,
and, in the smart pointers and strings, the *variables* that share one block. The one
exception is that Vector and Matrix, which are not modelled, loop over Ranges.

| Component | Source | State | Operations | What is hard | What makes it correct |
|---|---|---|---|---|---|
| ThreadPool | `threaded/threadpool.hpp` | `queue_` under `mutex_`, condition variable, `halted_`, `shutdowned_`, `workers_`; a local task per worker | `add_task`, `worker_loop`, `shutdown`, `force_shutdown`, destructor | lost wake-ups, a pill left in the queue for everyone, two relaxed flags, three destructor paths, tasks that add tasks | no wake-up is lost; a graceful shutdown drains; a forced one freezes the queue; the destructor ends after every worker |
| MTQueue | `threaded/queue.hpp` | list of nodes under a mutex, an atomic `size_` that is also read without it | `push`, `pop`, `clear`, `size`, destructor | the unlocked shortcut of `pop`, `delete` after the unlock, exceptions of `new` and of the value's moves, one of them after the node is gone | linearizable FIFO; no leak, no use of a deleted node; no value lost but by a `pop` that throws with it |
| PubSubQueue | `threaded/pubsub_queue.hpp` | linked nodes owned by `shared_ptr`, `_tail` under a `shared_mutex`; one `_head` per subscription | `publish`, `subscribe`, `dequeue`, destructor | `dequeue` takes no lock; `publish` moves `_tail` before it links | every subscriber gets everything published after it came, in order, once |
| DoubleBuffer | `threaded/doublebuffer.hpp` | two buffers, a plain `_index`, an atomic `_waiting` | `reader_arrive`, `writer_arrive_and_wait`, the buffers | a plain index that both threads read | no data race; each exchange hands over one whole item |
| its benchmark | `benchmark/threaded/doublebuffer.cpp` | the flag `running` and a counter | the two thread bodies | the flag is cleared before the last arrival | the program ends |
| SpinMutex, SpinSemaphore | `threaded/spinmutex.hpp`, `spinsemaphore.hpp` | one atomic each, a local per thread in `acquire` | `acquire`, `release` | a compare-exchange on a count that comes and goes | mutual exclusion; counts neither lost nor made; someone gets in |
| SPSCRingBuffer | `threaded/spsc_ringbuffer.hpp` | bytes, atomic `head_` and `tail_` | `read`, `write` | wrap-around between two threads | what is written is read |
| SharedPtr, WeakPtr | `sharedptr.hpp` | block with two atomic counters and a deleter; `_ptr`, `_shared` per handle | construct, copy, move, assign, `reset`, `lock`, destructor | two counters changed in two steps; `lock()` against the last owner | counters exact; deleted once, when the last owner is gone; never revived |
| UniquePtr | `uniqueptr.hpp` | `ptr_` | construct, move, `reset`, `release`, `swap`, destructor | the defaulted moves | an object is deleted once |
| ImmutableString | `immutable_string.hpp` | a text in the variable, or a region of a counted block | construct, copy, move, assign, `substr`, `append`, `prepend`, destructor | sharing by copies and substrings; the short/long boundary | counts exact; sharing is never seen; `substr` is exact |
| Queue | `queue.hpp` | list of nodes, `size_` | `push`, `pop`, `clear`, copies, moves | head, tail, and nodes through copies and moves | the right items in order, no leak, no double delete |
| FlatMap | `flatmap.hpp` | a vector of entries | `insert`, `insert_or_assign`, `remove`, `operator[]` | unsigned indices in the binary search | no read outside; the entry found has the key; no key is missed while the entries are in order |
| DynamicSquareMatrix | `dynamic_square_matrix.hpp` | a vector in an order of its own, `size_` | `resize`, `add_rowcol`, `pop_rowcol`, `at` | moving cells inside one vector with running indices | cells keep their values at their new places |
| Range, math | `range.hpp`, `math.hpp` | a position and two limits per iterator | `++`, `--`, `begin`, `end`, loops; `clamp` | a loop ends only if a clamp stops it exactly at `end()` | loops end, inside, without repetition |
| curry | `curry.hpp` | the arguments given so far: values and references | giving arguments, as an lvalue and as an rvalue; calling | values of variables change, and rvalue calls move, between giving and calling | the function gets what it was given, in order |
| tmputils | `tmputils.hpp` | types only; the compiler evaluates it | searches in packs of types | recursion over a pack, ties and ends | searches find what a direct description says |
| Span, Buffer | `span.hpp`, `buffer.hpp` | a pointer and a size; an array and its size | construct, move, destroy, `subspan` | spans of spans of a buffer that moves, with no test of an index | a span shows the items it should, inside |
| Vector, Matrix, optional, Array, functional | `vector.hpp`, `matrix.hpp`, `optional.hpp`, `array.hpp`, `functional.hpp` | values | - | - | not modelled, see section 8 |

## 2. Modules

| Code | Module | Implements (refinement) | Checked by | Proofs |
|---|---|---|---|---|
| ThreadPool | `ThreadPool` | `TaskExecutor` | `ThreadPool.cfg` | `ThreadPool_proofs` |
| MTQueue | `MTQueue` (extends `LinkedList`) | `FifoQueue` | `MTQueue.cfg` | `MTQueue_proofs` (extends `LinkedList_proofs`) |
| PubSubQueue | `PubSubQueue` (extends `LinkedList`) | `Broadcast` | `PubSubQueue.cfg` | `PubSubQueue_proofs` (extends `LinkedList_proofs`) |
| DoubleBuffer | `DoubleBuffer` | `Handoff` | `DoubleBuffer.cfg` | `Spinning_proofs` |
| its benchmark | `DoubleBufferBench` (extends `DoubleBuffer`) | - | `DoubleBufferBench.cfg` | - |
| SpinMutex, SpinSemaphore | `SpinMutex`, `SpinSemaphore`, composed in `SpinLocks` | - | `SpinLocks.cfg` | `Spinning_proofs` |
| SPSCRingBuffer | `SPSCRingBuffer` | - | `SPSCRingBuffer.cfg` | - |
| SharedPtr, WeakPtr | `SharedPtr` | `Ownership` | `SharedPtr.cfg` | `SharedPtr_proofs` |
| UniquePtr | `UniquePtr` | - | `UniquePtr.cfg` | - |
| ImmutableString | `ImmutableString`, instantiated by `MCImmutableString` | `ImmutableText` | `MCImmutableString.cfg`, `ImmutableStringSubstr.cfg` | `ImmutableString_proofs` |
| Queue, FlatMap, DynamicSquareMatrix | `Queue` (extends `LinkedList`), `FlatMap`, `DynamicSquareMatrix`, side by side in `Containers` | - | `Containers.cfg` | `Containers_proofs` (extends `LinkedList_proofs`) |
| Range, math | `Range`, in `Containers` | - | `Containers.cfg` | `Containers_proofs` |
| curry; tmputils; Span, Buffer | `Curry`; `TypePack`; `Span`; in `Containers` | - | `Containers.cfg` | `Containers_proofs` |

Conventions. Variables and actions have the names of the members and functions
they model. In a threaded module `pc` holds the next step of each thread; an
action is one access to shared memory with everything the code does up to the
next one that another thread can notice. What happens between a lock and its
unlock is one step, except where an unlocked reader can see the middle
(`size_` of MTQueue, `shutdowned_` of ThreadPool, `next` of PubSubQueue): there
each access is a step. Memory is a set of addresses; `delete` returns an address
to the set and a later `new` may take it again, so that stale pointers meet new
nodes. The atomics are sequentially consistent in the models. That is what the
code asks for with the default order, and what release and acquire on a single
flag come to in DoubleBuffer. The relaxed accesses of ThreadPool's flags are
single variables too, whose loads are steps of their own. In the ring buffer,
the loads and stores are steps in program order. Definitions
called `X_Something` with the comment "A plausible bug" stand for a mistake in
`X`; no specification uses them, and each property is seen to fail when `X` is
replaced by one of them.

How state and actions correspond to the code, by module:

* **ThreadPool** - `WorkerLoop` is `worker_loop` (lock, wait, test, load of the
  flag, look at the front, take, run); a worker in the condition's wait set is
  in `Waiting`, and a spurious wake-up is an action with a bound. `AddTask` is
  lock, emplace, notify; a task's body may call it. `ShutdownStep` has
  `shutdown`, `force_shutdown` and the destructor, called by one owner thread.
  A client does not call `add_task` while the destructor runs.
* **MTQueue** - `Push`, `Pop`, `Clear` and `SizeLoad`, with the exceptions that
  `new`, the copy into the node, the move out of it (`PopThrows`) and the second
  move, of `return ret`, may throw. The second one comes after the node is deleted (`PopLoses`):
  the compiler may not build `ret` in the caller's object, since line 83 returns another.
  `FifoQueue` has a step for this (`Lose`), which only a pop that took a value may take, and then throws.
* **PubSubQueue** - `Publish` (lock, exchange of `_tail`, store into the
  predecessor), `Subscribe` under the shared lock, `Dequeue` in two steps; the
  nodes no `shared_ptr` reaches are reclaimed. The queue may be destroyed before
  its subscriptions.
* **DoubleBuffer** - an access to a buffer takes two steps, so a torn read would
  show. The two accesses (`WriteBegin` and `WriteEnd`, `Read`) are steps of the
  threads that use the class, as its comment tells them to, and not of its code.
  `Handoff` is the single-item queue that the class comment speaks of.
* **SharedPtr** - each call builds a temporary, swaps it in and destroys it;
  every access to a counter is a step, so are the deleter and the delete of the
  block. The converting constructors do the same and are the same actions.
* **ImmutableString** - `value[h]` is the union of the short text and the long
  region; `refcount`, `memory` and `allocated` are the blocks. `extra` counts
  what move assignment adds for nobody (section 7).
* **Queue, FlatMap, DynamicSquareMatrix** - operations are functions of the
  heap or the vector (`Pushed`, `Inserted`, `PoppedRowcol`, ...), loops are
  recursive functions, and actions call them. `miscounted` of Queue are
  the queues whose `size_` a move construction has put wrong (section 7).
* **Range** - `Loop` is a range-for: the numbers its body sees from one iterator to another.
* **Curry** - a kept argument is a value or the name of a variable, as
  `std::tuple_cat(args_, std::forward_as_tuple(...))` makes it; `given` is the
  history it is compared with.
* **TypePack** - a type is its name and its size, a pack a sequence of types; a
  template that recurses on the rest of its pack is a function of how many types are left.
* **Span** - an item stands for its address, an array and an index; `shows` is the
  history of what each span should show.
* **Containers** - the sequential parts together: a behaviour picks one and uses
  it.

## 3. Runs

| Run | What it asks | Bounds |
|---|---|---|
| `pool` | Does the pool implement an executor, keep every wake-up, drain, freeze, end? | two workers (chosen as `Size = 0` with two hardware threads), one client, three tasks that submit each other, two shutdown calls of either kind and the destructor, one spurious wake-up |
| `mtqueue` | Is the queue a linearizable FIFO, and does it neither leak nor touch freed nodes? | two threads (one destroys the queue in the end), two values, three addresses, three calls each |
| `pubsub` | Does every subscriber get its messages? | two publishers, two subscriptions that may be copied, three publications, two calls of subscribe, three addresses |
| `doublebuffer` | Is each item handed over whole? | six items; the state repeats after two exchanges |
| `doublebuffer_bench` | Does the benchmark end? (it does not) | two rounds |
| `sharedptr` | Are the counters exact, is anything used after free? | two threads, two SharedPtrs, one WeakPtr, two blocks; calls are not bounded |
| `immutable_string` | Is sharing invisible and every block freed in time? | two threads, three strings, two blocks, short texts up to one character, long ones up to three; counts up to three |
| `immutable_string_substr` | The same for substr of a long substring (it is wrong) | as above |
| `spinlocks` | Are counts kept, is the mutex exclusive, does somebody get in? | four threads, a semaphore of two; rounds are not bounded |
| `spsc_ringbuffer` | Is what is written read? (it is not) | four bytes |
| `uniqueptr` | Is an object deleted once? (it is not) | two pointers, two objects |
| `containers` | Are nodes, entries, cells, arguments, items and indices where they should be after any sequence of calls? | two queues over four nodes; four entries of four keys; square matrices up to 4; ranges of numbers from -3 to 3; two Curries of a function of three parameters; packs of up to four of four types; two buffers of up to three items with two spans |

Why these are enough. Lost wake-ups, ABA on an address, a count lowered twice and
a missed pill need two threads on one object and one address used twice; a third
worker or client repeats what the second did, and the proofs drop the bound. A subscription that is cut off needs one
other publisher and one node in between. In ImmutableString, three strings are
source, copy and bystander, and `ShortMax = 1` puts every length on both sides of
the short/long boundary; texts are two letters so that a region at the wrong
place differs. Four cells on a side are the least where `pop_rowcol` takes out a
row that is neither first nor last, with more than one row on a side. Numbers up to 3
give ranges in both directions whose step divides the distance, does not, is
larger than it and is zero; a loop that has not ended after `MaxTurns` > 2 `MaxNumber`
turns has passed every number it could, and is endless. Three parameters give a Curry two
partial applications before its call. Bounds stand in the guards as `MaxOps`, `MaxPublish`, `MaxSubscribe`, `MaxCalls`,
`MaxSpurious`, `MaxWrites`, `MaxLength`, `MaxRefcount`, `MaxEntries`,
`MaxSize`, `MaxWritten`, `MaxNumber`, `MaxTurns`, `Size`, `Arity`, `MaxPack`,
`MaxItems` and nowhere else.

Safety and refinement, by run: `GracefulDrains` (nothing accepted is left undone by a
graceful shutdown), `NoLostWakeup` (a queued task never waits for a sleeping worker
that nobody will wake), `PillWakesEveryone`, `DestroyedAfterJoin`,
`ForcedQueueFrozen` (after the forced pill nothing is taken, by a worker that
read the old flag either), `ExecutorSpec`; `ListIntact`, `OwnedOnce`,
`FifoSpec`; `NobodyCutOff`, `BroadcastSpec`; `RaceFree`, `HandoffSpec`;
`CountsExact`, `NoUseAfterFree`, `OwnershipSpec`; `RefcountExact`, `SubstrExact`,
`TextSpec`; `TokensConserved`, `MutualExclusion`; `QueuesIntact`, `EntryOfKey`,
`SquareIntact`, `RangeLoopsEnd`, `AppliedAsGiven`,
`PackSearchesExact`, `SpansInside`. The types are part of the first invariant of a
run where it has no `TypeOK` of its own. Each property is stated in words above its definition.

## 4. Liveness and fairness

* ThreadPool: weak fairness of each worker, of a client's `add_task` once called and of the owner's
  shutdown once called: the threads are scheduled. Nobody must call anything.
  `AcceptedTasksRun`, `ShutdownTerminates`.
* MTQueue, SharedPtr: weak fairness of each thread's steps inside a call; no
  call need be made. The mutex is free again and again because each holder goes on.
  `CallsReturn`, `ExpiredIsDeleted`.
* PubSubQueue: the same, and a subscriber calls `dequeue` again and again, since
  `EverythingRead` is about one that does.
* DoubleBuffer: weak fairness of the writer and of the reader inside its calls,
  and strong fairness of `ReaderArrive`: a reader that may read as often as it likes comes
  round to `reader_arrive`, which the class comment has as its part of the
  protocol. `WaitEnds`. The benchmark states the fairness of its own two threads.
* SpinLocks: weak fairness of each spinning thread. Only global progress holds,
  and only that is claimed (`SomebodyGetsIn`): one thread may lose every exchange.

## 5. Proofs

`ThreadPool_proofs`, for any pool size, clients, tasks and bounds. The base of
the argument is `BaseInv`: types, who holds the mutex at which step, and which
locals are set (a worker appends only a task, and takes a front only where it
saw one under the same lock). `ControlInv` adds the order of a shutdown: why a
worker leaves (a pill in front, or the forced flag), when `workers_` may be
empty, that `shutdowned_` is set after the join or by force. From the two follow
`TypeCorrect`, `GracefulShutdownDrains` (for a pool with a worker),
`DestroyedOnlyAfterJoin`, `ForceFreezesQueue` and `PillWakes`. `WakeupsNotLost`
is by counting: the length of the queue never passes the number of workers on
their way to it plus the number of `notify_one` calls to come, as long as a
worker sleeps; each step changes each of the two finite sets by one thread at most.
`NoLostWakeup` alone is not inductive, since whether a worker sleeps and whether a
pill is queued depend on the control state.

`ImplementsExecutor` is for any pool with a worker. (A pool
without one would report that it stopped while tasks are pending.) What is pending is what
stands ahead of the first pill, unless a forced pill dropped it; lemmas about
`Ahead` say what `Append` and `Tail` do to it. Two more invariants are needed:
`TasksInv`, that a task is in one place (being handed over, queued, run, done),
so that none is accepted or started twice; and `PillsInv`, that the owner joins
only after its pill, that `workers_` is empty only after a join, and that a queue with pills has a first
one. The last is an invariant because each step keeps it, so that no induction on the
queue is needed.

`Spinning_proofs`, about the two components whose threads wait by spinning.
DoubleBuffer, for any number of items: `IInv` says, beside `RaceFree`,
that the flag is set only while the writer waits, that each side's open buffer is
the one its index says, and that only the buffer under the writer's hand may be torn. From it: `TypeCorrect`,
`NoDataRace`, and `ImplementsHandoff`: initial states map to initial states and
each step to a step of `Handoff` or to a stutter.

SpinLocks, for any finite set of threads and any `max`: `LocksInv` joins to
the two properties that a spinning thread never hopes for 0 (`HopeInv`), without
which an exchange could take the count below 0. From it: `LocksTypeCorrect`,
`NoTokenLost`, `NeverMoreThanMax`, `MutexExcludes`.

`SharedPtr_proofs`, for any finite sets of threads and handles and any blocks. A step
moves a thread or a handle into or out of the two sets of holders of one block,
or makes a thread and a handle change places; lemmas say which step does which,
and `CountsMatch` follows, by cardinalities, from them alone. `CountsExact` and `NoUseAfterFree`
are not inductive by themselves: a copy raises two counters in two steps, and they do not say why
no other thread takes the first to 0 in between. `CallInv` does: while a call reads its argument, the
argument keeps the block and nobody may change it. `BlockInv` says that an object is alive as long as it has an owner or
its deleter is about to run, and that whoever runs a deleter or deletes a block is
alone with it. From these: `CountersAreExact`, `NothingUsedAfterFree`, and
`ImplementsOwnership`, by which `lock()` revives nothing.

`LinkedList_proofs`: what a walk along `next` finds, for any finite set of addresses.
`Along` is a recursive function; that it gives the nodes p[1], ..., p[n] of a
list that is written out (`AlongIs`), and from a node in the middle the rest of them
(`AlongFrom`), is shown with the first place at which it would not be so. That
there is a first place is the well-foundedness of < on the numbers
(`LeastElement`): the induction theorems of the library take an operator, which the
provers cannot instantiate, and this form of the argument needs none.

`MTQueue_proofs`, for any threads, values, addresses and number of calls. The
list is written out: there is a sequence of n different nodes, each linked to the
next, from `head_` to nullptr (`Chain`), with `tail_` and `size_` as the mutex holder has
left them so far (`Ends`). A node that exists is in that sequence or in the hands of
one call (`Apart`, `NodeInv`), and only the mutex holder is between lock and unlock
(`MutexInv`). `ListIntact` alone is not inductive, since it says nothing of the nodes
a call has in its hands, nor who may change the list. From it: `ListNeverBroken`,
`NodesOwnedOnce`. For `ImplementsFifo`, `CallInv` says what a call knows between its
steps, and every step is a stutter or one step of `FifoQueue`: push takes effect as
it increments `size_`, pop as it decrements it, clear as it stores 0, and the unlocked
`pop` of an empty queue as it reads `size_`. A pop that throws with its value has taken effect before,
so that `CallInv` also says that `out` holds a value until the node is deleted (`LosesValue`).

`PubSubQueue_proofs`, for any publishers, subscribers and addresses. Again the
nodes are written out, from the earliest one that a subscription is at; `_tail` is the last of
them, or a new node that the holder of the lock is about to link (`Chain`). A
`publish` may take an address that no `shared_ptr` reaches: it stands before
every subscription, and the sequence is cut there (`Cut`). From it:
`SubscriptionsStayLinked`, and `ImplementsBroadcast`, where the inbox of a
subscription is what stands behind it.

`ImmutableString_proofs`, for any finite sets of threads and strings, any blocks,
texts and bounds. Each step gives a value to a string, or belongs to an assignment or a
destruction; lemmas say which strings and calls hold which block before and after it
(one more, one less, or one in the place of another), and the counts follow by cardinality, as
for SharedPtr. `CallInv` says which strings a call may count on, `BlockInv` that
whoever frees a block is alone with it, and `DataInv` what short and long values look
like. From these: `RefcountsExact`, `NeverUsedAfterFree`. That sharing is never seen
(`ImplementsText`) rests on the memory of a block changing only while nobody sees
it, as it is filled. `SubstrOfWhole` and `ImplementsText` assume
`~ NestedSubstr`: no substr of a string that is a long substring itself. The code is
wrong there (section 7), and the run `immutable_string_substr` shows it.

`Containers_proofs`, for containers of any size. A step of the program is a step of
one part (`PartSteps`), so each part has an inductive invariant of its own.

* Queue: as for MTQueue the list of each queue is written out (`Listed`); every node
  that exists is in one of the lists and once (`Chained`), and `Counted` is about `size_`.
  Of a copy, the nodes of `Copied` are shown one push at a time. `QueuesKeepItems`.
* FlatMap: the state is any sequence of entries, sorted or not, so what counts is the
  search. While the loop runs, `low` and `high` enclose the index and, in a sorted vector,
  everything before `low` is smaller and everything after `high` larger than the key (`Narrowed`);
  the distance shrinks with each turn, and the test of the first entry keeps
  `mid - 1` from wrapping (`SearchEnds`). `SearchFindsEntry`.
* DynamicSquareMatrix: the place of a cell is in the shell of its row or column, whichever is the
  larger, and the shell of a place is the whole part of its square root (`RootIs`, `ShellExists`). The proofs
  keep the square behind the operator `Sq` and use of it only `SqNext` and `SqUp`, so that
  the rest is linear. `Src` says which cell should come to a place, `SrcNext` that the turn of
  `pop_rowcol` takes just that one, and that it is above all places the loop has been to, so that no turn
  reads what another moved from (`Popping`, `PoppedIs`). `CellsStayInPlace`.
* Range: an iterator of an ascending range stands at its end from the start, and the first
  clamp puts one of a descending range there (`Ascending`, `Descending`). So a loop has no turn or
  one, and what it sees is written down and shown to be what the recursion gives
  (`EmptyLoop`, `SingleTurn`, `LoopIs`). `LoopsComeToEnd`.
* curry: what a Curry keeps and what was given agree place by place, and an argument list that
  is cut in two is what its parts make (`PartsMakeWhole`). `FunctionGetsArguments`.
* Span, Buffer: a Span's items are inside an array which no more than one Buffer has,
  and what it shows is what was cut out for it. `SpansStayInside`.

* tmputils: each recursion has one solution, which is written down and shown to satisfy its
  equation: the last type, the I-th, the first match of a suffix (`FirstHit`), what holds between
  any two types of a suffix (`Complies`), and for the largest size, whose existence is
  an induction of its own, the first of a prefix (`BestOf`). `SearchesAreExact`.

The searches of FlatMap, the loop of pop_rowcol and the copy of Queue are recursive functions of the turn. That
such a function exists, and so satisfies its equation, is shown with the first turn for
which it would not (`LeastElement`), as for `Along`.

The assumptions are the named ASSUMEs of the modules: the constants are sets of
the right kind, finite where nodes, threads or holders are counted; null and the placeholder values are not members of
them (an answer that is pending is not an answer); a PubSubQueue has memory for a first node; `std::size_t` can count the addresses there are, so that
`size_` of a Queue does not wrap; what a read past the end of a FlatMap gives (`Wild`) is no index; and bounds are
numbers. Each is met by the constants of every configuration, since TLC evaluates them.

Only model-checked: the liveness properties, since TLAPS has no ENABLED here:
`AcceptedTasksRun`, `ShutdownTerminates`, `CallsReturn`, `EverythingRead`, `WaitEnds`,
`ExpiredIsDeleted`, `SomebodyGetsIn`. Every safety invariant, action property and refinement
that a passing run checks is a theorem of section 5.

## 6. Hazards

`PROJECT.json` lists the places where this code is hard to test, each with the
properties that would catch a mistake there, or a note that says why none does.

## 7. Where the code and its words disagree

* `benchmark/threaded/doublebuffer.cpp:34` - `running` is cleared before the
  last arrival of the writer; the reader thread may leave first, and the writer
  spins for ever (`doublebuffer_bench`).
* `include/toypp/immutable_string.hpp:161` - `substr` of a long substring
  counts from the wrong place (`immutable_string_substr`). `immutable_string`
  calls substr on the other strings.
* `include/toypp/threaded/spsc_ringbuffer.hpp:58` - the tail is stored as 0, so
  nothing written can be read (`spsc_ringbuffer`).
* `include/toypp/uniqueptr.hpp:140` - the defaulted moves copy the pointer, and
  the object is deleted twice (`uniqueptr`).

Met while modelling, as the code has them where the part is modelled, and without a run of
their own. Five properties leave room for such a defect, hold with it, and would not
catch it: `RefcountExact` (immutable_string.hpp:110), `QueuesIntact` (queue.hpp:37), `EntryOfKey`
(flatmap.hpp:119), `RangeLoopsEnd` (range.hpp:64) and `SpansInside` (buffer.hpp:15).
The hazards say so in their notes in `PROJECT.json`.

* `include/toypp/threaded/queue.hpp:96` - a `pop` whose value throws as it is moved into the caller's
  object has lost the value. `FifoSpec` allows this to a pop that throws, and to no other call.
* `include/toypp/threaded/threadpool.hpp:50` - where `hardware_concurrency()`
  is 0 a pool has no workers, and `GracefulDrains` does not hold; the theorem
  assumes a worker.
* `include/toypp/immutable_string.hpp:110` - move assignment adds a count that
  nobody gives back; the block leaks. `RefcountExact` counts it in `extra`.
* `include/toypp/queue.hpp:37` - the move constructor leaves `size_` with its
  argument. `QueuesIntact` keeps the list of such queues (`miscounted`) and lets no other call
  make a count wrong.
* `include/toypp/flatmap.hpp:119` - the index of a failed search is the last middle,
  which is the place where the key belongs or the one before it, so entries get out of
  order and are missed later. `EntryOfKey` says so, and what holds in any order.
* `include/toypp/range.hpp:64` - the iterator gives `clamp` the value first, where
  `math.hpp` has the limits first. An ascending range is empty: its iterator
  starts at `end()`. A range with a negative step and its end above its start is endless.
  So the loops of Vector (vector.hpp) and Matrix (matrix.hpp) do not run: sums keep their first element, results
  are zeros, the determinant of three rows or more is 0, that of the identity too (matrix.hpp:73), and
  `overlay` returns `*this`. `subset` (matrix.hpp:149) writes at the places of the whole into a matrix as large as
  the part, and reads rows that the whole need not have; it stays inside only because its loops are empty.
* `include/toypp/dynamic_square_matrix.hpp:82` - the note at the iterators gives
  the order of the transposed matrix, `(max(i,j) == j) * i + j`, where `index()` (line 110) has
  `(max == n) * m + n` for the row n. The list of line 106 agrees with the code.
* `include/toypp/buffer.hpp:15` - a Buffer that was moved from keeps its size. In the
  model a Span is made only over a Buffer that has its array.
* `include/toypp/tmputils.hpp:85` - `count`, `size` and `expand_into` of a pack leave out its first
  type. Nothing in the library that can be used depends on them, and they are not in the model.
* `include/toypp/optional.hpp:90` - `has_value()` answers the reverse.
* `include/toypp/array.hpp:58` - `begin()` is a pointer to the whole array.

## 8. Not modelled

* Vector, Matrix: beside an array, `at` and `set`, their operations are loops over ascending Ranges, which
  are empty (section 7). No body of a loop runs, and what could be said of the places the bodies
  use would hold whatever they did. `mul` of Matrix needs an `operator[]` that the class does not have.
* optional: a wrapper around `std::variant`, which keeps the state; most of it does not compile when it is
  used, and `has_value()` is inverted, so it keeps no promise that could be checked. Array: an aggregate
  around a built-in array, whose loops run over memory that does not exist. functional:
  composition, whose state is the callables. Tests and build files.
* Of math: `lerp`, `invlerp`, `sum`, `prod`, which nothing in the library uses. Of
  tmputils: what forwards to `<type_traits>`, and `type_pack_mix` of two packs,
  `pack_filter` and the zips, which are ill-formed when used. Of the iterator of Range: `+` and `-`,
  ill-formed too.
* Of the modelled components: exceptions outside MTQueue and PubSubQueue, those of allocation and
  of the values' own copies and moves - in Queue, `pop` unlinks a node before it moves the value out
  (queue.hpp:112), and a move that throws leaks the node and leaves the count too high; the pointer
  casts of SharedPtr's deleter; destruction of a long list of PubSubQueue nodes
  by recursion; comparison, printing and other reads that change nothing; the
  iterators and `const` overloads.

## 9. Plan

Done: the modules above, in the order of the table of section 2 - threads first,
then shared blocks, then the sequential containers - and the theorems of section 5. Left:

1. Models of the calls that are left out: a deleter that uses other handles of
   its object, and a pool whose task shuts it down.
