-------------------------------- MODULE Span --------------------------------
(***************************************************************************)
(* tpp::Buffer (include/toypp/buffer.hpp), which owns an array, and         *)
(* tpp::Span (span.hpp), which points into one.  An item stands for its     *)
(* address: an array and an index.                                          *)
(***************************************************************************)
EXTENDS Integers, Sequences, FiniteSets, SequencesExt

CONSTANTS
  Buffers,    (* variables of type Buffer                                   *)
  Spans,      (* variables of type Span                                     *)
  Arrays,     (* what make_unique gives, used again after it was freed      *)
  NoArray,    (* a unique_ptr that was moved from                           *)
  MaxItems    (* bound: the size of a buffer                                *)

ASSUME SpanAssumption == NoArray \notin Arrays /\ MaxItems \in Nat

VARIABLES
  buffer_,    (* _size and _ptr of each Buffer there is                     *)
  array_,     (* the number of items of each array there is                 *)
  span_,      (* ptr_, as an array and an index, and size_ of each Span     *)
  shows       (* history: the items that each Span should show, in order    *)

spanVars == <<buffer_, array_, span_, shows>>

SpanInit ==
  /\ buffer_ = [b \in {} |-> NoArray]
  /\ array_ = [a \in {} |-> 0]
  /\ span_ = [s \in {} |-> 0]
  /\ shows = [s \in {} |-> <<>>]

Put(f, x, v) == [y \in DOMAIN f \cup {x} |-> IF y = x THEN v ELSE f[y]]
Drop(f, gone) == [y \in DOMAIN f \ gone |-> f[y]]

(* The items that a Span shows by its own members.                          *)
Shown(s) == [i \in 1..s.size |-> <<s.array, s.offset + i - 1>>]

BufferConstruct(b, a, n) ==
  /\ b \notin DOMAIN buffer_
  /\ a \notin DOMAIN array_
  /\ buffer_' = Put(buffer_, b, [size |-> n, ptr |-> a])
  /\ array_' = Put(array_, a, n)
  /\ UNCHANGED <<span_, shows>>

(* The implicit move constructor.  The const _size is copied and stays with *)
(* the argument, whose pointer is gone.                                     *)
BufferMove(b, c) ==
  /\ b \in DOMAIN buffer_
  /\ c \notin DOMAIN buffer_
  /\ buffer_' = Put([buffer_ EXCEPT ![b].ptr = NoArray], c, buffer_[b])
  /\ UNCHANGED <<array_, span_, shows>>

(* The program does not use a Span after its array was freed.               *)
BufferDestroy(b) ==
  LET a == buffer_[b].ptr
      dangling == {s \in DOMAIN span_ : span_[s].array = a}
  IN /\ buffer_' = Drop(buffer_, {b})
     /\ array_' = Drop(array_, {a})
     /\ span_' = Drop(span_, dangling)
     /\ shows' = Drop(shows, dangling)

SpanOf(s, b) ==
  /\ buffer_[b].ptr # NoArray
  /\ span_' = Put(span_, s, [array |-> buffer_[b].ptr, offset |-> 0, size |-> buffer_[b].size])
  /\ shows' = Put(shows, s, [i \in 1..buffer_[b].size |-> <<buffer_[b].ptr, i - 1>>])
  /\ UNCHANGED <<buffer_, array_>>

(* A plausible bug: the size stays what it was.                             *)
Subspan_SameSize(t, offset) == [t EXCEPT !.offset = @ + offset]

(* The two subspans.                                                        *)
Subspan(t, offset) == [t EXCEPT !.offset = @ + offset, !.size = @ - offset]
SubspanOf(t, offset, count) == [t EXCEPT !.offset = @ + offset, !.size = count]

(* A call of subspan with an offset and a count that are inside t.          *)
Take(s, t, offset, count) ==
  /\ offset + count <= span_[t].size
  /\ span_' = Put(span_, s, IF offset + count = span_[t].size
                            THEN Subspan(span_[t], offset)
                            ELSE SubspanOf(span_[t], offset, count))
  /\ shows' = Put(shows, s, SubSeq(shows[t], offset + 1, offset + count))
  /\ UNCHANGED <<buffer_, array_>>

SpanNext ==
  \/ \E b \in Buffers, a \in Arrays, n \in 0..MaxItems : BufferConstruct(b, a, n)
  \/ \E b, c \in Buffers : BufferMove(b, c)
  \/ \E b \in DOMAIN buffer_ : BufferDestroy(b) \/ \E s \in Spans : SpanOf(s, b)
  \/ \E s \in Spans, t \in DOMAIN span_, offset, count \in 0..MaxItems :
       Take(s, t, offset, count)

-----------------------------------------------------------------------------
(* What is checked.                                                         *)

(* A Span of a Span of a Buffer shows the items of the Buffer that it       *)
(* should, wherever the Buffer was moved to in the meantime, and never one  *)
(* outside the array.  Each array has one Buffer, which knows its size, so  *)
(* that it is freed once.                                                   *)
SpansInside ==
  /\ \A s \in DOMAIN span_ :
       /\ Shown(span_[s]) = shows[s]
       /\ span_[s].array \in DOMAIN array_
       /\ span_[s].offset + span_[s].size <= array_[span_[s].array]
  /\ \A a \in DOMAIN array_ :
       \E b \in DOMAIN buffer_ :
         /\ {c \in DOMAIN buffer_ : buffer_[c].ptr = a} = {b}
         /\ buffer_[b].size = array_[a]
=============================================================================
