---------------------------- MODULE DoubleBuffer ----------------------------
(***************************************************************************)
(* tpp::DoubleBuffer (include/toypp/threaded/doublebuffer.hpp): two buffers,*)
(* a plain index that says which of them the reader has, and an atomic flag *)
(* with which the writer waits for the reader to exchange them.  One reader *)
(* thread and one writer thread, as the class comment describes its use:    *)
(* neither keeps a reference to a buffer across its arrival.                *)
(*                                                                          *)
(* An access to a buffer takes two steps, so that the other thread can get  *)
(* in between; items are numbered in the order they are written.  The flag  *)
(* is stored with release and loaded with acquire, and nothing else is      *)
(* shared without it, so the threads' steps interleave.                     *)
(***************************************************************************)
EXTENDS Naturals

CONSTANTS
  MaxWrites,    (* bound: items the writer writes                           *)
  Torn          (* a buffer that is being written                           *)

ASSUME DoubleBufferAssumption ==
  /\ MaxWrites \in Nat
  /\ Torn \notin 0..MaxWrites

Items == 0..MaxWrites

VARIABLES
  _buffers, _index, _waiting,
  writerAt,     (* what the writer does next                                *)
  readerAt,     (* what the reader does next                                *)
  writerRef,    (* the buffer writer_buffer() returned                      *)
  readerRef,    (* the buffer reader_buffer() returned                      *)
  written,      (* the last item written                                    *)
  got           (* the last item read                                       *)

bufferVars == <<_buffers, _index, _waiting>>
vars == <<bufferVars, writerAt, readerAt, writerRef, readerRef, written, got>>

Other(i) == 1 - i

Init ==
  /\ _buffers = [i \in 0..1 |-> 0]
  /\ _index = 0
  /\ _waiting = FALSE
  /\ writerAt = "idle"
  /\ readerAt = "idle"
  /\ writerRef = 1
  /\ readerRef = 0
  /\ written = 0
  /\ got = 0

-----------------------------------------------------------------------------
(* The writer.                                                              *)

WriterBuffer ==
  /\ writerAt = "idle"
  /\ written < MaxWrites
  /\ writerAt' = "open"
  /\ writerRef' = Other(_index)
  /\ UNCHANGED <<bufferVars, readerAt, readerRef, written, got>>

WriteBegin ==
  /\ writerAt = "open"
  /\ writerAt' = "write"
  /\ _buffers' = [_buffers EXCEPT ![writerRef] = Torn]
  /\ UNCHANGED <<_index, _waiting, readerAt, writerRef, readerRef, written, got>>

WriteEnd ==
  /\ writerAt = "write"
  /\ writerAt' = "arrive"
  /\ written' = written + 1
  /\ _buffers' = [_buffers EXCEPT ![writerRef] = written + 1]
  /\ UNCHANGED <<_index, _waiting, readerAt, writerRef, readerRef, got>>

(* writer_arrive_and_wait.                                                  *)
WriterArrive ==
  /\ writerAt = "arrive"
  /\ writerAt' = "wait"
  /\ _waiting' = TRUE
  /\ UNCHANGED <<_buffers, _index, readerAt, writerRef, readerRef, written, got>>

(* A plausible bug: the writer does not wait for the reader.                *)
WriterWait_Missing ==
  /\ writerAt = "wait"
  /\ writerAt' = "idle"
  /\ UNCHANGED <<bufferVars, readerAt, writerRef, readerRef, written, got>>

WriterWait ==
  /\ writerAt = "wait"
  /\ ~_waiting
  /\ writerAt' = "idle"
  /\ UNCHANGED <<bufferVars, readerAt, writerRef, readerRef, written, got>>

-----------------------------------------------------------------------------
(* The reader.                                                              *)

ReaderBuffer ==
  /\ readerAt = "idle"
  /\ readerAt' = "read"
  /\ readerRef' = _index
  /\ UNCHANGED <<bufferVars, writerAt, writerRef, written, got>>

Read ==
  /\ readerAt = "read"
  /\ readerAt' = "idle"
  /\ got' = _buffers[readerRef]
  /\ UNCHANGED <<bufferVars, writerAt, writerRef, readerRef, written>>

(* reader_arrive; it returns false, with no effect, unless _waiting is set. *)
ReaderArrive ==
  /\ readerAt = "idle"
  /\ _waiting
  /\ readerAt' = "flip"
  /\ UNCHANGED <<bufferVars, writerAt, writerRef, readerRef, written, got>>

(* A plausible bug: the index is incremented.                               *)
ReaderFlip_Increments ==
  /\ readerAt = "flip"
  /\ readerAt' = "release"
  /\ _index' = _index + 1
  /\ UNCHANGED <<_buffers, _waiting, writerAt, writerRef, readerRef, written, got>>

(* A plausible bug: _waiting is reset before the index is changed.          *)
ReaderFlip_ReleasesFirst ==
  \/ /\ readerAt = "flip"
     /\ readerAt' = "late"
     /\ _waiting' = FALSE
     /\ UNCHANGED <<_buffers, _index, writerAt, writerRef, readerRef, written, got>>
  \/ /\ readerAt = "late"
     /\ readerAt' = "idle"
     /\ _index' = Other(_index)
     /\ UNCHANGED <<_buffers, _waiting, writerAt, writerRef, readerRef, written, got>>

ReaderFlip ==
  /\ readerAt = "flip"
  /\ readerAt' = "release"
  /\ _index' = Other(_index)
  /\ UNCHANGED <<_buffers, _waiting, writerAt, writerRef, readerRef, written, got>>

(* A plausible bug: the writer is not released.                             *)
ReaderRelease_Missing ==
  /\ readerAt = "release"
  /\ readerAt' = "idle"
  /\ UNCHANGED <<bufferVars, writerAt, writerRef, readerRef, written, got>>

ReaderRelease ==
  /\ readerAt = "release"
  /\ readerAt' = "idle"
  /\ _waiting' = FALSE
  /\ UNCHANGED <<_buffers, _index, writerAt, writerRef, readerRef, written, got>>

-----------------------------------------------------------------------------
Writer == WriterBuffer \/ WriteBegin \/ WriteEnd \/ WriterArrive \/ WriterWait

Reader == ReaderBuffer \/ Read \/ ReaderArrive \/ ReaderFlip \/ ReaderRelease

Next == Writer \/ Reader

Spec == Init /\ [][Next]_vars

(* Both threads are scheduled, and the reader, however often it reads, calls *)
(* reader_arrive again and again.                                            *)
Fairness ==
  /\ WF_vars(Writer)
  /\ WF_vars(Read \/ ReaderFlip \/ ReaderRelease)
  /\ SF_vars(ReaderArrive)

FairSpec == Spec /\ Fairness

-----------------------------------------------------------------------------
(* Properties.                                                              *)

(* The types; no read gives a torn item, since got is never Torn.           *)
TypeOK ==
  /\ _buffers \in [0..1 -> Items \cup {Torn}]
  /\ _index \in 0..1
  /\ _waiting \in BOOLEAN
  /\ writerAt \in {"idle", "open", "write", "arrive", "wait"}
  /\ readerAt \in {"idle", "read", "flip", "release"}
  /\ writerRef \in 0..1
  /\ readerRef \in 0..1
  /\ written \in Items
  /\ got \in Items

(* The plain members are never touched by both threads at once: the reader  *)
(* changes _index only while the writer waits, and what the writer has open *)
(* is not what the reader reads.                                            *)
RaceFree ==
  /\ readerAt \in {"flip", "release"} => writerAt = "wait" /\ _waiting
  /\ (writerAt \in {"open", "write"} /\ readerAt = "read") => writerRef # readerRef

(* What RaceFree rests on, and what the exchange hands over.                *)
Inv ==
  /\ RaceFree
  /\ _waiting => writerAt = "wait"
  /\ writerAt \in {"open", "write", "arrive"} => writerRef = Other(_index)
  /\ readerAt = "read" => readerRef = _index
  /\ _buffers[_index] # Torn
  /\ writerAt # "write" => _buffers[Other(_index)] # Torn
  /\ writerAt \in {"open", "write"} => written < MaxWrites

(* The double buffer is a single-item queue: the reader gets each item the   *)
(* writer completed, whole, from the one step that changes the index.        *)
Queue == INSTANCE Handoff WITH
  front <- _buffers[_index],
  back  <- _buffers[Other(_index)],
  ready <- _waiting /\ readerAt # "release"

HandoffSpec == Queue!Spec

(* writer_arrive_and_wait returns, if the reader keeps arriving.             *)
WaitEnds == (writerAt = "wait") ~> (writerAt = "idle")
=============================================================================
