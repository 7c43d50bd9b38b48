--------------------------- MODULE SPSCRingBuffer ---------------------------
(***************************************************************************)
(* tpp::SPSCRingBuffer (include/toypp/threaded/spsc_ringbuffer.hpp), with   *)
(* one thread that writes and one that reads, again and again.  Each load   *)
(* and store of head_ and tail_ is a step, and so is each memcpy.           *)
(***************************************************************************)
EXTENDS Integers, Sequences, FiniteSetsExt

CONSTANTS
  BufferSize,  (* buffer_size_                                              *)
  Junk,        (* what the buffer holds before anything is written          *)
  MaxSize,     (* bound: the largest size a call asks for                   *)
  MaxWritten   (* bound: the bytes written, which are numbered from 1       *)

VARIABLES
  buffer_, head_, tail_,
  reader, writer,  (* pc, local variables and size of each thread's call    *)
  sent, received   (* history: the bytes that the calls said they moved     *)

vars == <<buffer_, head_, tail_, reader, writer, sent, received>>

Idle == [pc |-> "idle", head |-> 0, tail |-> 0, size |-> 0]

Init ==
  /\ buffer_ = [i \in 0..(BufferSize - 1) |-> Junk]
  /\ head_ = 0
  /\ tail_ = 0
  /\ reader = Idle
  /\ writer = Idle
  /\ sent = <<>>
  /\ received = <<>>

(* read(ptr, size).                                                         *)
ReadCall ==
  /\ reader.pc = "idle"
  /\ \E n \in 1..MaxSize :
       reader' = [reader EXCEPT !.pc = "tail", !.size = n, !.head = head_]
  /\ UNCHANGED <<buffer_, head_, tail_, writer, sent, received>>

(* What can be read in one piece ends at the tail or at the end.            *)
ReadTail ==
  /\ reader.pc = "tail"
  /\ reader' = IF reader.head = tail_ THEN Idle
               ELSE [reader EXCEPT !.pc = "copy", !.tail = tail_,
                       !.size = Min({@, (IF reader.head <= tail_ THEN tail_ ELSE BufferSize)
                                          - reader.head})]
  /\ UNCHANGED <<buffer_, head_, tail_, writer, sent, received>>

ReadCopy ==
  /\ reader.pc = "copy"
  /\ received' = received \o [i \in 1..reader.size |-> buffer_[reader.head + i - 1]]
  /\ reader' = [reader EXCEPT !.pc = "store"]
  /\ UNCHANGED <<buffer_, head_, tail_, writer, sent>>

ReadStore ==
  /\ reader.pc = "store"
  /\ head_' = IF reader.head <= reader.tail THEN reader.tail ELSE 0
  /\ reader' = Idle
  /\ UNCHANGED <<buffer_, tail_, writer, sent, received>>

(* write(ptr, size): the bytes are the next ones of the numbering.          *)
WriteCall ==
  /\ writer.pc = "idle"
  /\ \E n \in 1..MaxSize :
       /\ Len(sent) + n <= MaxWritten
       /\ writer' = [writer EXCEPT !.pc = "tail", !.size = n, !.head = head_]
  /\ UNCHANGED <<buffer_, head_, tail_, reader, sent, received>>

(* The test for a full buffer, head + tail - 1 in std::size_t: it wraps     *)
(* around for 0, to a number that is no buffer's size.                      *)
WriteTail ==
  /\ writer.pc = "tail"
  /\ writer' = IF BufferSize = writer.head + tail_ - 1 THEN Idle
               ELSE [writer EXCEPT !.pc = "copy", !.tail = tail_,
                       !.size = Min({@, (IF writer.head <= tail_ THEN BufferSize ELSE writer.head)
                                          - tail_})]
  /\ UNCHANGED <<buffer_, head_, tail_, reader, sent, received>>

WriteCopy ==
  /\ writer.pc = "copy"
  /\ buffer_' = [i \in DOMAIN buffer_ |->
                   IF i \in writer.tail..(writer.tail + writer.size - 1)
                   THEN Len(sent) + 1 + i - writer.tail ELSE buffer_[i]]
  /\ sent' = sent \o [i \in 1..writer.size |-> Len(sent) + i]
  /\ writer' = [writer EXCEPT !.pc = "store"]
  /\ UNCHANGED <<head_, tail_, reader, received>>

(* The tail goes to the start of the buffer, or just before the head.       *)
WriteStore ==
  /\ writer.pc = "store"
  /\ tail_' = IF writer.head <= writer.tail THEN 0 ELSE writer.head - 1
  /\ writer' = Idle
  /\ UNCHANGED <<buffer_, head_, reader, sent, received>>

Read == ReadCall \/ ReadTail \/ ReadCopy \/ ReadStore
Write == WriteTail \/ WriteCopy \/ WriteStore

Next == Read \/ WriteCall \/ Write

(* The consumer reads for ever, and a write that began ends.                *)
FairSpec == Init /\ [][Next]_vars /\ WF_vars(Read) /\ WF_vars(Write)

(* Each byte that a write took is read by a consumer that keeps reading:    *)
(* a byte sequence goes through the buffer.                                 *)
EverythingIsRead ==
  \A n \in 1..MaxWritten : (Len(sent) >= n) ~> (Len(received) >= n)

=============================================================================
