--------------------------- MODULE Spinning_proofs ---------------------------
(***************************************************************************)
(* Proofs about the two components whose threads wait by spinning on an     *)
(* atomic: DoubleBuffer, for any number of items, and SpinLocks, for any    *)
(* finite set of threads and any max.                                       *)
(*                                                                         *)
(* In DoubleBuffer the flag and the two program counters tell who may touch *)
(* the index and which buffer each thread may have open.  In SpinLocks that *)
(* the count and the threads inside add up to max is inductive only         *)
(* together with what a spinning thread hopes for: never 0, or its exchange *)
(* could take the count below 0.                                            *)
(***************************************************************************)
EXTENDS DoubleBuffer, SpinLocks, FiniteSetTheorems, TLAPS

-----------------------------------------------------------------------------
(* DoubleBuffer.                                                            *)

(* The inductive invariant: the flag and the two program counters tell who  *)
(* may touch the index and which buffer each thread may have open.          *)
IInv == TypeOK /\ Inv

LEMMA Constants ==
  /\ MaxWrites \in Nat
  /\ \A n \in 0..MaxWrites : n # Torn
  BY DoubleBufferAssumption

LEMMA InvStep ==
  ASSUME IInv, [Next]_vars
  PROVE  IInv'
<1> USE Constants DEF IInv, TypeOK, Inv, RaceFree, Items, Other, bufferVars
<1>1. CASE WriterBuffer
  BY <1>1 DEF WriterBuffer
<1>2. CASE WriteBegin
  BY <1>2 DEF WriteBegin
<1>3. CASE WriteEnd
  BY <1>3 DEF WriteEnd
<1>4. CASE WriterArrive
  BY <1>4 DEF WriterArrive
<1>5. CASE WriterWait
  BY <1>5 DEF WriterWait
<1>6. CASE ReaderBuffer
  BY <1>6 DEF ReaderBuffer
<1>7. CASE Read
  BY <1>7 DEF Read
<1>8. CASE ReaderArrive
  BY <1>8 DEF ReaderArrive
<1>9. CASE ReaderFlip
  BY <1>9 DEF ReaderFlip
<1>10. CASE ReaderRelease
  BY <1>10 DEF ReaderRelease
<1>11. CASE UNCHANGED vars
  BY <1>11 DEF vars
<1> QED
  BY <1>1, <1>2, <1>3, <1>4, <1>5, <1>6, <1>7, <1>8, <1>9, <1>10, <1>11
  DEF Next, Writer, Reader

LEMMA Invariant == Spec => []IInv
<1>1. Init => IInv
  <2> SUFFICES ASSUME Init PROVE TypeOK /\ Inv
    BY DEF IInv
  <2>1. 0 \in Items /\ 0 # Torn
    BY Constants DEF Items
  <2>2. TypeOK
    <3>1. _buffers \in [0..1 -> Items \cup {Torn}]
      BY <2>1 DEF Init
    <3>2. written \in Items /\ got \in Items
      BY <2>1 DEF Init
    <3>3. _index \in 0..1 /\ writerRef \in 0..1 /\ readerRef \in 0..1
      BY DEF Init
    <3>4. /\ _waiting \in BOOLEAN
          /\ writerAt \in {"idle", "open", "write", "arrive", "wait"}
          /\ readerAt \in {"idle", "read", "flip", "release"}
      BY DEF Init
    <3> QED
      BY <3>1, <3>2, <3>3, <3>4 DEF TypeOK
  <2>3. Inv
    BY <2>1 DEF Init, Inv, RaceFree, Other
  <2> QED
    BY <2>2, <2>3
<1>2. IInv /\ [Next]_vars => IInv'
  BY InvStep
<1> QED
  BY <1>1, <1>2, PTL DEF Spec

(* Types: the index stays 0 or 1, and no torn item is ever read.            *)
THEOREM TypeCorrect == Spec => []TypeOK
<1>1. IInv => TypeOK
  BY DEF IInv
<1> QED
  BY <1>1, Invariant, PTL

(* The plain index changes only while the writer waits, and the two threads *)
(* never have the same buffer open, however their steps interleave.         *)
THEOREM NoDataRace == Spec => []RaceFree
<1>1. IInv => RaceFree
  BY DEF IInv, Inv
<1> QED
  BY <1>1, Invariant, PTL

(* The double buffer implements the single-item queue: the step that changes *)
(* the index is the exchange, and every other step prepares, declares ready, *)
(* reads, or changes nothing the queue's users see.                          *)
THEOREM ImplementsHandoff == Spec => HandoffSpec
<1>1. Init => Queue!Init
  BY Constants DEF Init, Queue!Init, Items, Other
<1>2. IInv /\ [Next]_vars => [Queue!Next]_Queue!vars
  <2> SUFFICES ASSUME IInv, [Next]_vars PROVE [Queue!Next]_Queue!vars
    OBVIOUS
  <2> USE Constants DEF IInv, TypeOK, Inv, RaceFree, Items, Other, bufferVars, Queue!vars
  <2>1. CASE WriterBuffer
    BY <2>1 DEF WriterBuffer
  <2>2. CASE WriteBegin
    BY <2>2 DEF WriteBegin, Queue!Next, Queue!Prepare
  <2>3. CASE WriteEnd
    BY <2>3 DEF WriteEnd, Queue!Next, Queue!Prepare
  <2>4. CASE WriterArrive
    BY <2>4 DEF WriterArrive, Queue!Next, Queue!Ready
  <2>5. CASE WriterWait
    BY <2>5 DEF WriterWait
  <2>6. CASE ReaderBuffer
    BY <2>6 DEF ReaderBuffer
  <2>7. CASE Read
    BY <2>7 DEF Read, Queue!Next, Queue!Read
  <2>8. CASE ReaderArrive
    BY <2>8 DEF ReaderArrive
  <2>9. CASE ReaderFlip
    BY <2>9 DEF ReaderFlip, Queue!Next, Queue!Exchange
  <2>10. CASE ReaderRelease
    BY <2>10 DEF ReaderRelease
  <2>11. CASE UNCHANGED vars
    BY <2>11 DEF vars
  <2> QED
    BY <2>1, <2>2, <2>3, <2>4, <2>5, <2>6, <2>7, <2>8, <2>9, <2>10, <2>11
    DEF Next, Writer, Reader
<1> QED
  BY <1>1, <1>2, Invariant, PTL DEF Spec, HandoffSpec, Queue!Spec
-----------------------------------------------------------------------------
(* SpinMutex and SpinSemaphore.                                             *)

(* What a thread exchanges the count for is not negative.                   *)
HopeInv == \A th \in Threads : pc[th] = "spin" => current[th] > 0

LocksInv == LocksTypeOK /\ HopeInv /\ TokensConserved /\ MutualExclusion

LEMMA MaxType == max \in Nat
BY SemaphoreAssumption DEF max

LEMMA InsideFinite == IsFiniteSet(Inside) /\ Cardinality(Inside) \in Nat
<1>1. Inside \subseteq Threads
  BY DEF Inside
<1>. QED
  BY <1>1, ThreadsAssumption, FS_Subset, FS_CardinalityType

LEMMA LocksInitInv == LocksInit => LocksInv
<1>. SUFFICES ASSUME LocksInit PROVE LocksInv
  OBVIOUS
<1>. USE DEF LocksInit, MutexInit, SemaphoreInit
<1>1. LocksTypeOK
  <2>1. flag_ \in BOOLEAN
    OBVIOUS
  <2>2. count_ \in Int
    BY MaxType
  <2>3. current \in [Threads -> Int]
    OBVIOUS
  <2>4. pc \in [Threads -> {"out", "spin", "in", "critical", "done"}]
    OBVIOUS
  <2>. QED
    BY <2>1, <2>2, <2>3, <2>4 DEF LocksTypeOK
<1>2. HopeInv
  BY DEF HopeInv
<1>3. TokensConserved
  <2>1. Inside = {}
    BY DEF Inside
  <2>2. Cardinality(Inside) = 0 /\ count_ = max
    BY <2>1, FS_EmptySet
  <2>. QED
    BY <2>2, MaxType DEF TokensConserved
<1>4. MutualExclusion
  BY DEF MutualExclusion, Critical
<1>. QED
  BY <1>1, <1>2, <1>3, <1>4 DEF LocksInv

LEMMA LocksNextTypeOK == LocksTypeOK /\ [LocksNext]_lockVars => LocksTypeOK'
<1>. SUFFICES ASSUME LocksTypeOK, [LocksNext]_lockVars PROVE LocksTypeOK'
  OBVIOUS
<1>. USE DEF LocksTypeOK
<1>1. ASSUME NEW th \in Threads, Load(th) PROVE LocksTypeOK'
  BY <1>1 DEF Load, Goto, SemaphoreLoad, Hoped
<1>2. ASSUME NEW th \in Threads, Enter(th) PROVE LocksTypeOK'
  BY <1>2 DEF Enter, Goto, SemaphoreAcquired
<1>3. ASSUME NEW th \in Threads, Miss(th) PROVE LocksTypeOK'
  BY <1>3 DEF Miss, SemaphoreMissed, SemaphoreLoad, Hoped
<1>4. ASSUME NEW th \in Threads, Take(th) PROVE LocksTypeOK'
  BY <1>4 DEF Take, Goto, MutexAcquired
<1>5. ASSUME NEW th \in Threads, Drop(th) PROVE LocksTypeOK'
  BY <1>5 DEF Drop, Goto, MutexRelease
<1>6. ASSUME NEW th \in Threads, Leave(th) PROVE LocksTypeOK'
  BY <1>6 DEF Leave, Goto, SemaphoreRelease
<1>7. CASE UNCHANGED lockVars
  BY <1>7 DEF lockVars
<1>. QED
  BY <1>1, <1>2, <1>3, <1>4, <1>5, <1>6, <1>7 DEF LocksNext, Spin

LEMMA LocksNextHopeInv == LocksInv /\ [LocksNext]_lockVars => HopeInv'
<1>. SUFFICES ASSUME LocksInv, [LocksNext]_lockVars, NEW u \in Threads, (pc[u] = "spin")'
              PROVE (current[u] > 0)'
  BY DEF HopeInv
<1>. USE DEF LocksInv, LocksTypeOK, HopeInv, TokensConserved
<1>1. ASSUME NEW th \in Threads, Load(th) PROVE current'[u] > 0
  BY <1>1 DEF Load, Goto, SemaphoreLoad, Hoped
<1>2. ASSUME NEW th \in Threads, Enter(th) PROVE current'[u] > 0
  BY <1>2 DEF Enter, Goto, SemaphoreAcquired
<1>3. ASSUME NEW th \in Threads, Miss(th) PROVE current'[u] > 0
  BY <1>3 DEF Miss, SemaphoreMissed, SemaphoreLoad, Hoped
<1>4. ASSUME NEW th \in Threads, Take(th) \/ Drop(th) \/ Leave(th) PROVE current'[u] > 0
  BY <1>4 DEF Take, Drop, Leave, Goto, MutexAcquired, MutexRelease, SemaphoreRelease
<1>5. CASE UNCHANGED lockVars
  BY <1>5 DEF lockVars
<1>. QED
  BY <1>1, <1>2, <1>3, <1>4, <1>5 DEF LocksNext, Spin

(* An exchange takes one from the count and puts one thread inside; a       *)
(* release does the reverse.                                                *)
LEMMA LocksNextTokensConserved == LocksInv /\ [LocksNext]_lockVars => TokensConserved'
<1>. SUFFICES ASSUME LocksInv, [LocksNext]_lockVars PROVE TokensConserved'
  OBVIOUS
<1>. USE DEF LocksInv, LocksTypeOK
<1>. USE InsideFinite, MaxType
<1>1. ASSUME NEW th \in Threads, Enter(th) PROVE TokensConserved'
  <2>1. th \notin Inside /\ Inside' = Inside \cup {th}
    BY <1>1 DEF Enter, Goto, Inside
  <2>2. Cardinality(Inside') = Cardinality(Inside) + 1
    BY <2>1, FS_AddElement
  <2>3. current[th] > 0 /\ count_ = current[th] /\ count_' = current[th] - 1
    BY <1>1 DEF Enter, Goto, SemaphoreAcquired, HopeInv
  <2>. QED
    BY <2>2, <2>3 DEF TokensConserved
<1>2. ASSUME NEW th \in Threads, Leave(th) PROVE TokensConserved'
  <2>1. th \in Inside /\ Inside' = Inside \ {th}
    BY <1>2 DEF Leave, Goto, Inside
  <2>2. Cardinality(Inside') = Cardinality(Inside) - 1
    BY <2>1, FS_RemoveElement
  <2>3. count_' = count_ + 1
    BY <1>2 DEF Leave, SemaphoreRelease
  <2>. QED
    BY <2>2, <2>3 DEF TokensConserved
<1>3. ASSUME NEW th \in Threads, Load(th) \/ Miss(th) PROVE TokensConserved'
  <2>1. Inside' = Inside /\ count_' = count_
    BY <1>3 DEF Load, Miss, Goto, SemaphoreMissed, SemaphoreLoad, Inside
  <2>. QED
    BY <2>1 DEF TokensConserved
<1>4. ASSUME NEW th \in Threads, Take(th) \/ Drop(th) PROVE TokensConserved'
  <2>1. Inside' = Inside /\ count_' = count_
    BY <1>4 DEF Take, Drop, Goto, Inside
  <2>. QED
    BY <2>1 DEF TokensConserved
<1>5. CASE UNCHANGED lockVars
  <2>1. Inside' = Inside /\ count_' = count_
    BY <1>5 DEF lockVars, Inside
  <2>. QED
    BY <2>1 DEF TokensConserved
<1>. QED
  BY <1>1, <1>2, <1>3, <1>4, <1>5 DEF LocksNext, Spin

LEMMA LocksNextMutualExclusion == LocksInv /\ [LocksNext]_lockVars => MutualExclusion'
<1>. SUFFICES ASSUME LocksInv, [LocksNext]_lockVars PROVE MutualExclusion'
  OBVIOUS
<1>. USE DEF LocksInv, LocksTypeOK
<1>1. ASSUME NEW th \in Threads, Take(th) PROVE MutualExclusion'
  <2>1. Critical = {} /\ flag_'
    BY <1>1 DEF Take, MutexAcquired, MutualExclusion
  <2>2. Critical' = {th}
    BY <1>1, <2>1 DEF Take, Goto, Critical
  <2>. QED
    BY <2>1, <2>2 DEF MutualExclusion
<1>2. ASSUME NEW th \in Threads, Drop(th) PROVE MutualExclusion'
  <2>1. Critical = {th} /\ ~ flag_'
    BY <1>2 DEF Drop, Goto, MutexRelease, MutualExclusion, Critical
  <2>2. Critical' = {}
    BY <1>2, <2>1 DEF Drop, Goto, Critical
  <2>. QED
    BY <2>1, <2>2 DEF MutualExclusion
<1>3. ASSUME NEW th \in Threads, Load(th) \/ Enter(th) \/ Miss(th) \/ Leave(th)
      PROVE MutualExclusion'
  <2>1. Critical' = Critical /\ flag_' = flag_
    BY <1>3 DEF Load, Enter, Miss, Leave, Goto, Critical
  <2>. QED
    BY <2>1 DEF MutualExclusion
<1>4. CASE UNCHANGED lockVars
  <2>1. Critical' = Critical /\ flag_' = flag_
    BY <1>4 DEF lockVars, Critical
  <2>. QED
    BY <2>1 DEF MutualExclusion
<1>. QED
  BY <1>1, <1>2, <1>3, <1>4 DEF LocksNext, Spin

LEMMA LocksInvariance == LocksSpec => []LocksInv
<1>1. LocksInit => LocksInv
  BY LocksInitInv
<1>2. LocksInv /\ [LocksNext]_lockVars => LocksInv'
  BY LocksNextTypeOK, LocksNextHopeInv, LocksNextTokensConserved, LocksNextMutualExclusion DEF LocksInv
<1>. QED
  BY <1>1, <1>2, PTL DEF LocksSpec

(* Every variable keeps its type.                                           *)
THEOREM LocksTypeCorrect == LocksSpec => []LocksTypeOK
<1>1. LocksInv => LocksTypeOK
  BY DEF LocksInv
<1>. QED
  BY <1>1, LocksInvariance, PTL

(* SpinSemaphore::acquire and release neither make nor lose a count,        *)
(* however many threads compete and whatever each of them saw before its    *)
(* compare_exchange.                                                        *)
THEOREM NoTokenLost == LocksSpec => []TokensConserved
<1>1. LocksInv => TokensConserved
  BY DEF LocksInv
<1>. QED
  BY <1>1, LocksInvariance, PTL

(* Never more threads are between acquire and release than the semaphore    *)
(* was built for.                                                           *)
THEOREM NeverMoreThanMax == LocksSpec => [](Cardinality(Inside) <= max)
<1>1. LocksInv => Cardinality(Inside) <= max
  BY InsideFinite, MaxType DEF LocksInv, LocksTypeOK, TokensConserved
<1>. QED
  BY <1>1, LocksInvariance, PTL

(* SpinMutex is a mutex: one thread at most is between its acquire and its  *)
(* release, and the flag is set exactly then.                               *)
THEOREM MutexExcludes == LocksSpec => []MutualExclusion
<1>1. LocksInv => MutualExclusion
  BY DEF LocksInv
<1>. QED
  BY <1>1, LocksInvariance, PTL
=============================================================================
