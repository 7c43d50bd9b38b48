--------------------------- MODULE Containers_proofs ---------------------------
(***************************************************************************)
(* Proofs about the parts of Containers.                                    *)
(***************************************************************************)
EXTENDS Containers, LinkedList_proofs

(* A step of the program is a step of one part, and leaves the others alone. *)
LEMMA PartSteps ==
  ASSUME [Next]_vars
  PROVE  /\ [MapNext]_container_
         /\ [RangeNext]_range_
         /\ [CurryNext]_curryVars
         /\ [PackNext]_pack_
         /\ [SpanNext]_spanVars
         /\ [QueueNext]_queueVars
         /\ [SquareNext]_squareVars
BY DEF Next, Others, vars, queueVars, squareVars, curryVars, spanVars

-----------------------------------------------------------------------------
(* Span and Buffer.                                                         *)

(* What a Buffer or a Span is; a Buffer has an array that exists or none,   *)
(* and the arrays of two Buffers differ.                                    *)
SpanTypes ==
  /\ \A b \in DOMAIN buffer_ :
       /\ buffer_[b] = [size |-> buffer_[b].size, ptr |-> buffer_[b].ptr]
       /\ buffer_[b].size \in Nat
       /\ buffer_[b].ptr \in DOMAIN array_ \cup {NoArray}
  /\ DOMAIN array_ \subseteq Arrays
  /\ DOMAIN shows = DOMAIN span_
  /\ \A s \in DOMAIN span_ :
       /\ span_[s] = [array |-> span_[s].array, offset |-> span_[s].offset, size |-> span_[s].size]
       /\ span_[s].offset \in Nat
       /\ span_[s].size \in Nat

(* The same as the second part of SpansInside, without a set.               *)
Owners ==
  \A a \in DOMAIN array_ :
    \E b \in DOMAIN buffer_ :
      /\ \A c \in DOMAIN buffer_ : buffer_[c].ptr = a <=> c = b
      /\ buffer_[b].size = array_[a]

SpansShow ==
  \A s \in DOMAIN span_ :
    /\ Shown(span_[s]) = shows[s]
    /\ span_[s].array \in DOMAIN array_
    /\ span_[s].offset + span_[s].size <= array_[span_[s].array]

SpanInv == SpanTypes /\ Owners /\ SpansShow

LEMMA SpanInvInit == SpanInit => SpanInv
BY DEF SpanInit, SpanInv, SpanTypes, Owners, SpansShow

(* What an update of one entry, and of several, gives.                      *)
LEMMA PutIs ==
  ASSUME NEW f, NEW x, NEW v
  PROVE  /\ DOMAIN Put(f, x, v) = DOMAIN f \cup {x}
         /\ Put(f, x, v)[x] = v
         /\ \A y \in DOMAIN f : y # x => Put(f, x, v)[y] = f[y]
BY DEF Put

LEMMA DropIs ==
  ASSUME NEW f, NEW gone
  PROVE  /\ DOMAIN Drop(f, gone) = DOMAIN f \ gone
         /\ \A y \in DOMAIN f \ gone : Drop(f, gone)[y] = f[y]
BY DEF Drop

LEMMA BufferConstructKeeps ==
  ASSUME SpanInv, NEW b \in Buffers, NEW a \in Arrays, NEW n \in 0..MaxItems,
         BufferConstruct(b, a, n)
  PROVE  SpanInv'
<1>. USE SpanAssumption
<1>1. SpanTypes'
  BY DEF SpanInv, SpanTypes, BufferConstruct, Put
<1>2. Owners'
  BY DEF SpanInv, SpanTypes, Owners, BufferConstruct, Put
<1>3. SpansShow'
  BY DEF SpanInv, SpanTypes, SpansShow, BufferConstruct, Put, Shown
<1>. QED
  BY <1>1, <1>2, <1>3 DEF SpanInv

LEMMA BufferMoveKeeps ==
  ASSUME SpanInv, NEW b \in Buffers, NEW c \in Buffers, BufferMove(b, c)
  PROVE  SpanInv'
<1>. USE SpanAssumption
<1>1. SpanTypes'
  BY DEF SpanInv, SpanTypes, BufferMove, Put
<1>2. Owners'
  <2>. SUFFICES ASSUME NEW a \in DOMAIN array_
                PROVE  \E e \in DOMAIN buffer_' :
                         /\ \A d \in DOMAIN buffer_' : buffer_'[d].ptr = a <=> d = e
                         /\ buffer_'[e].size = array_[a]
    BY DEF BufferMove, Owners
  <2>1. PICK e \in DOMAIN buffer_ : /\ \A d \in DOMAIN buffer_ : buffer_[d].ptr = a <=> d = e
                                    /\ buffer_[e].size = array_[a]
    BY DEF SpanInv, Owners
  <2>. DEFINE f == IF e = b THEN c ELSE e
  <2>2. /\ DOMAIN buffer_' = DOMAIN buffer_ \cup {c}
        /\ \A d \in DOMAIN buffer_ : buffer_'[d].size = buffer_[d].size
        /\ \A d \in DOMAIN buffer_ : d # b => buffer_'[d].ptr = buffer_[d].ptr
        /\ buffer_'[b].ptr = NoArray /\ buffer_'[c] = buffer_[b]
    BY DEF BufferMove, Put, SpanInv, SpanTypes
  <2>3. a # NoArray /\ c # b /\ b \in DOMAIN buffer_ /\ c \notin DOMAIN buffer_
    BY DEF SpanInv, SpanTypes, BufferMove
  <2>4. f \in DOMAIN buffer_' /\ buffer_'[f].size = array_[a]
    BY <2>1, <2>2, <2>3
  <2>5. \A d \in DOMAIN buffer_' : buffer_'[d].ptr = a <=> d = f
    BY <2>1, <2>2, <2>3
  <2>. QED
    BY <2>4, <2>5
<1>3. SpansShow'
  BY DEF SpanInv, SpanTypes, SpansShow, BufferMove, Put, Shown
<1>. QED
  BY <1>1, <1>2, <1>3 DEF SpanInv

LEMMA BufferDestroyKeeps ==
  ASSUME SpanInv, NEW b \in DOMAIN buffer_, BufferDestroy(b)
  PROVE  SpanInv'
<1>. USE SpanAssumption
<1>. DEFINE a == buffer_[b].ptr
            dangling == {s \in DOMAIN span_ : span_[s].array = a}
<1>1. /\ DOMAIN buffer_' = DOMAIN buffer_ \ {b}
      /\ \A c \in DOMAIN buffer_' : buffer_'[c] = buffer_[c]
      /\ DOMAIN array_' = DOMAIN array_ \ {a}
      /\ \A x \in DOMAIN array_' : array_'[x] = array_[x]
  BY DEF BufferDestroy, Drop
<1>2. /\ DOMAIN span_' = DOMAIN span_ \ dangling
      /\ \A s \in DOMAIN span_' : span_'[s] = span_[s]
      /\ DOMAIN shows' = DOMAIN shows \ dangling
      /\ \A s \in DOMAIN shows' : shows'[s] = shows[s]
  BY DEF BufferDestroy, Drop
<1>3. \A c \in DOMAIN buffer_ : c # b /\ a # NoArray => buffer_[c].ptr # a
  BY DEF SpanInv, SpanTypes, Owners
<1>. HIDE DEF a
<1>4. SpanTypes'
  BY <1>1, <1>2, <1>3 DEF SpanInv, SpanTypes
<1>5. Owners'
  BY <1>1, <1>3 DEF SpanInv, SpanTypes, Owners, a
<1>6. SpansShow'
  BY <1>1, <1>2 DEF SpanInv, SpanTypes, SpansShow, Shown
<1>. QED
  BY <1>4, <1>5, <1>6 DEF SpanInv

(* A Span that is given its members, and what it should show.               *)
LEMMA SpanGiven ==
  ASSUME SpanInv, NEW s, NEW a \in DOMAIN array_, NEW offset \in Nat, NEW size \in Nat,
         offset + size <= array_[a],
         span_' = Put(span_, s, [array |-> a, offset |-> offset, size |-> size]),
         shows' = Put(shows, s, [i \in 1..size |-> <<a, offset + i - 1>>]),
         UNCHANGED <<buffer_, array_>>
  PROVE  SpanInv'
<1>1. SpanTypes'
  BY DEF SpanInv, SpanTypes, Put
<1>2. Owners'
  BY DEF SpanInv, Owners
<1>3. SpansShow'
  BY DEF SpanInv, SpanTypes, SpansShow, Put, Shown
<1>. QED
  BY <1>1, <1>2, <1>3 DEF SpanInv

LEMMA SpanOfKeeps ==
  ASSUME SpanInv, NEW b \in DOMAIN buffer_, NEW s \in Spans, SpanOf(s, b)
  PROVE  SpanInv'
<1>. DEFINE a == buffer_[b].ptr
            n == buffer_[b].size
<1>1. a \in DOMAIN array_ /\ n \in Nat
  BY DEF SpanInv, SpanTypes, SpanOf
<1>2. n = array_[a]
  BY <1>1 DEF SpanInv, Owners
<1>3. [i \in 1..n |-> <<a, i - 1>>] = [i \in 1..n |-> <<a, 0 + i - 1>>]
  BY <1>1
<1>4. /\ span_' = Put(span_, s, [array |-> a, offset |-> 0, size |-> n])
      /\ shows' = Put(shows, s, [i \in 1..n |-> <<a, i - 1>>])
      /\ UNCHANGED <<buffer_, array_>>
  BY DEF SpanOf
<1>5. 0 + n <= array_[a]
  BY <1>1, <1>2
<1>. HIDE DEF a, n
<1>6. shows' = Put(shows, s, [i \in 1..n |-> <<a, 0 + i - 1>>])
  BY <1>3, <1>4
<1>. QED
  BY <1>1, <1>4, <1>5, <1>6, SpanGiven

(* A span by its three fields.                                              *)
Piece(array, offset, size) == [array |-> array, offset |-> offset, size |-> size]

(* What the two subspans of a span are.                                     *)
LEMMA SubspanIs ==
  ASSUME NEW a, NEW from \in Nat, NEW size \in Nat, NEW offset \in Nat, NEW count \in Nat
  PROVE  /\ Subspan(Piece(a, from, size), offset) = Piece(a, from + offset, size - offset)
         /\ SubspanOf(Piece(a, from, size), offset, count) = Piece(a, from + offset, count)
<1>. DEFINE t == [array |-> a, offset |-> from, size |-> size]
<1>1. [t EXCEPT !.offset = from + offset] = [array |-> a, offset |-> from + offset, size |-> size]
  OBVIOUS
<1>2. \A n \in Int :
        [[array |-> a, offset |-> from + offset, size |-> size] EXCEPT !.size = n] =
          [array |-> a, offset |-> from + offset, size |-> n]
  OBVIOUS
<1>3. \A n \in Int :
        [t EXCEPT !.offset = from + offset, !.size = n] =
          [[t EXCEPT !.offset = from + offset] EXCEPT !.size = n]
  OBVIOUS
<1>4. t.offset = from /\ t.size = size
  OBVIOUS
<1>. HIDE DEF t
<1>5. \A n \in Int :
        [t EXCEPT !.offset = from + offset, !.size = n] =
          [array |-> a, offset |-> from + offset, size |-> n]
  BY <1>1, <1>2, <1>3
<1>6. size - offset \in Int /\ count \in Int
  OBVIOUS
<1>7. /\ Subspan(t, offset) = [t EXCEPT !.offset = from + offset, !.size = size - offset]
      /\ SubspanOf(t, offset, count) = [t EXCEPT !.offset = from + offset, !.size = count]
  BY <1>4 DEF Subspan, SubspanOf
<1>8. /\ Subspan(t, offset) = [array |-> a, offset |-> from + offset, size |-> size - offset]
      /\ SubspanOf(t, offset, count) = [array |-> a, offset |-> from + offset, size |-> count]
  BY <1>5, <1>6, <1>7
<1>. QED
  BY <1>8 DEF t, Piece

(* A part of a sequence that is written out.                                *)
LEMMA SubSeqIs ==
  ASSUME NEW n \in Nat, NEW f, NEW m \in Nat, NEW k \in Nat, m + k <= n
  PROVE  SubSeq([i \in 1..n |-> f[i]], m + 1, m + k) = [i \in 1..k |-> f[m + i]]
<1>. DEFINE s == [i \in 1..n |-> f[i]]
            S == {f[i] : i \in 1..n}
            t == SubSeq(s, m + 1, m + k)
            u == [i \in 1..k |-> f[m + i]]
<1>1. s \in Seq(S) /\ Len(s) = n
  OBVIOUS
<1>2. \A i \in (m + 1)..(m + k) : s[i] \in S
  OBVIOUS
<1>. HIDE DEF s, S
<1>3. /\ t \in Seq(S)
      /\ Len(t) = IF m + 1 <= m + k THEN (m + k) - (m + 1) + 1 ELSE 0
      /\ \A i \in 1..((m + k) - (m + 1) + 1) : t[i] = s[(m + 1) + i - 1]
  <2>1. m + 1 \in Int /\ m + k \in Int
    OBVIOUS
  <2>. QED
    BY <1>2, <2>1, SubSeqProperties
<1>4. Len(t) = k /\ \A i \in 1..k : t[i] = s[m + i]
  <2>1. ASSUME NEW i \in 1..k PROVE t[i] = s[m + i]
    <3>1. (m + 1) + i - 1 = m + i /\ i \in 1..((m + k) - (m + 1) + 1)
      OBVIOUS
    <3>. QED
      BY <3>1, <1>3
  <2>. QED
    BY <1>3, <2>1
<1>5. \A i \in 1..k : t[i] = f[m + i]
  BY <1>4 DEF s
<1>. HIDE DEF t
<1>6. DOMAIN t = 1..k /\ t = [i \in DOMAIN t |-> t[i]]
  BY <1>3, <1>4
<1>7. t = u
  BY <1>5, <1>6
<1>. QED
  BY <1>7 DEF t, s

LEMMA TakeKeeps ==
  ASSUME SpanInv, NEW s \in Spans, NEW t \in DOMAIN span_,
         NEW offset \in 0..MaxItems, NEW count \in 0..MaxItems, Take(s, t, offset, count)
  PROVE  SpanInv'
<1>. USE SpanAssumption
<1>. DEFINE a == span_[t].array
            from == span_[t].offset
            size == span_[t].size
<1>1. /\ a \in DOMAIN array_ /\ from \in Nat /\ size \in Nat
      /\ from + size <= array_[a]
      /\ shows[t] = [i \in 1..size |-> <<a, from + i - 1>>]
      /\ span_[t] = [array |-> a, offset |-> from, size |-> size]
  BY DEF SpanInv, SpanTypes, SpansShow, Shown
<1>2. offset + count <= size
  BY DEF Take
<1>3. span_' = Put(span_, s, [array |-> a, offset |-> from + offset, size |-> count])
  <2>. HIDE DEF a, from, size
  <2>1. /\ Subspan(span_[t], offset) =
             [array |-> a, offset |-> from + offset, size |-> size - offset]
        /\ SubspanOf(span_[t], offset, count) =
             [array |-> a, offset |-> from + offset, size |-> count]
    <3>1. span_[t] = Piece(a, from, size)
      BY <1>1 DEF Piece
    <3>2. from \in Nat /\ size \in Nat /\ offset \in Nat /\ count \in Nat
      BY <1>1
    <3>3. /\ Subspan(Piece(a, from, size), offset) = Piece(a, from + offset, size - offset)
          /\ SubspanOf(Piece(a, from, size), offset, count) = Piece(a, from + offset, count)
      BY <3>2, SubspanIs
    <3>. QED
      BY <3>1, <3>3 DEF Piece
  <2>2. span_[t].size = size
    BY DEF size
  <2>3. CASE offset + count = size
    <3>1. size - offset = count
      BY <2>3, <1>1
    <3>. QED
      BY <2>1, <2>2, <2>3, <3>1 DEF Take
  <2>4. CASE offset + count # size
    BY <2>1, <2>2, <2>4 DEF Take
  <2>. QED
    BY <2>3, <2>4
<1>4. SubSeq(shows[t], offset + 1, offset + count) =
        [i \in 1..count |-> <<a, (from + offset) + i - 1>>]
  <2>. HIDE DEF a, from, size
  <2>. DEFINE f == [i \in 1..size |-> <<a, from + i - 1>>]
  <2>1. f = [i \in 1..size |-> f[i]] /\ offset \in Nat /\ count \in Nat
    OBVIOUS
  <2>2. \A i \in 1..count : f[offset + i] = <<a, (from + offset) + i - 1>>
    BY <1>1, <1>2, SMTT(90)
  <2>. HIDE DEF f
  <2>3. SubSeq(f, offset + 1, offset + count) = [i \in 1..count |-> f[offset + i]]
    BY <2>1, <1>1, <1>2, SubSeqIs, SMTT(90)
  <2>. QED
    BY <2>2, <2>3, <1>1, ZenonT(90) DEF f
<1>5. shows' = Put(shows, s, [i \in 1..count |-> <<a, (from + offset) + i - 1>>])
  BY <1>4 DEF Take
<1>6. UNCHANGED <<buffer_, array_>>
  BY DEF Take
<1>7. array_[a] \in Nat
  BY <1>1 DEF SpanInv, SpanTypes, Owners
<1>. HIDE DEF a, from, size
<1>8. (from + offset) + count <= array_[a]
  BY <1>1, <1>2, <1>7
<1>. QED
  BY <1>1, <1>3, <1>5, <1>6, <1>8, SpanGiven

LEMMA SpanInvariance == Spec => []SpanInv
<1>1. Init => SpanInv
  BY SpanInvInit DEF Init
<1>2. SpanInv /\ [Next]_vars => SpanInv'
  <2>. SUFFICES ASSUME SpanInv, [Next]_vars PROVE SpanInv'
    OBVIOUS
  <2>1. CASE UNCHANGED spanVars
    BY <2>1 DEF spanVars, SpanInv, SpanTypes, Owners, SpansShow
  <2>2. CASE SpanNext
    BY <2>2, BufferConstructKeeps, BufferMoveKeeps, BufferDestroyKeeps, SpanOfKeeps, TakeKeeps
    DEF SpanNext
  <2>. QED
    BY <2>1, <2>2, PartSteps
<1>. QED
  BY <1>1, <1>2, PTL DEF Spec

(* Spans of Spans of Buffers show the items they should, inside their       *)
(* arrays, and each array has one Buffer that knows its size.               *)
THEOREM SpansStayInside == Spec => []SpansInside
<1>1. SpanInv => SpansInside
  <2>. SUFFICES ASSUME SpanInv PROVE SpansInside
    OBVIOUS
  <2>1. ASSUME NEW a \in DOMAIN array_
        PROVE  \E b \in DOMAIN buffer_ :
                 /\ {c \in DOMAIN buffer_ : buffer_[c].ptr = a} = {b}
                 /\ buffer_[b].size = array_[a]
    <3>1. PICK b \in DOMAIN buffer_ : /\ \A c \in DOMAIN buffer_ : buffer_[c].ptr = a <=> c = b
                                      /\ buffer_[b].size = array_[a]
      BY DEF SpanInv, Owners
    <3>. QED
      BY <3>1
  <2>. QED
    BY <2>1 DEF SpanInv, SpansShow, SpansInside
<1>. QED
  BY <1>1, SpanInvariance, PTL

-----------------------------------------------------------------------------
(* curry.                                                                   *)

(* A Curry that was not moved from keeps what it was given.                 *)
CurryInv ==
  \A c \in DOMAIN given :
    /\ c \in DOMAIN args_
    /\ args_[c] = given[c]
    /\ given[c] \in Seq(Arguments)
    /\ Len(given[c]) <= Arity

LEMMA CurryInvariance == Spec => []CurryInv
<1>. USE CurryAssumption
<1>1. Init => CurryInv
  BY DEF Init, CurryInit, CurryInv
<1>2. CurryInv /\ [Next]_vars => CurryInv'
  <2>. SUFFICES ASSUME CurryInv, [Next]_vars PROVE CurryInv'
    OBVIOUS
  <2>1. CASE UNCHANGED curryVars
    BY <2>1 DEF curryVars, CurryInv
  <2>2. CASE \E c \in Curries : MakeCurry(c)
    BY <2>2 DEF MakeCurry, With, CurryInv
  <2>3. CASE \E x \in Locals, v \in ArgValues : Change(x, v)
    BY <2>3 DEF Change, CurryInv
  <2>4. ASSUME NEW c \in DOMAIN given, NEW d \in Curries, NEW n \in 1..Arity,
               NEW more \in [1..n -> Arguments],
               Supply(c, d, more) \/ SupplyMoved(c, d, more)
        PROVE  CurryInv'
    <3>. DEFINE all == given[c] \o more
    <3>1. more \in Seq(Arguments) /\ Len(more) = n
      OBVIOUS
    <3>2. /\ given[c] \in Seq(Arguments)
          /\ args_[c] = given[c]
          /\ Len(given[c]) + Len(more) <= Arity
      BY <2>4 DEF CurryInv, Supply, SupplyMoved, Fits
    <3>3. all \in Seq(Arguments) /\ Len(all) <= Arity /\ Supplied(args_[c], more) = all
      BY <3>1, <3>2, ConcatProperties DEF Supplied
    <3>. HIDE DEF all
    <3>4. CASE Supply(c, d, more)
      <4>1. args_' = With(args_, d, all) /\ given' = With(given, d, all)
        BY <3>3, <3>4 DEF Supply, all
      <4>. QED
        BY <3>3, <4>1 DEF CurryInv, With
    <3>5. CASE SupplyMoved(c, d, more)
      <4>1. PICK left : args_' = With(With(args_, d, all), c, left)
        BY <3>3, <3>5 DEF SupplyMoved
      <4>2. /\ given' = [e \in (DOMAIN given \cup {d}) \ {c} |-> IF e = d THEN all ELSE given[e]]
            /\ c # d
        BY <3>5 DEF SupplyMoved, all
      <4>. QED
        BY <3>3, <4>1, <4>2 DEF CurryInv, With
    <3>. QED
      BY <2>4, <3>4, <3>5
  <2>. QED
    BY <2>1, <2>2, <2>3, <2>4, PartSteps DEF CurryNext
<1>. QED
  BY <1>1, <1>2, PTL DEF Spec

(* A sequence is what its parts make.                                       *)
LEMMA PartsMakeWhole ==
  ASSUME NEW S, NEW s \in Seq(S), NEW k \in 0..Len(s)
  PROVE  /\ SubSeq(s, 1, k) \in Seq(S)
         /\ SubSeq(s, k + 1, Len(s)) \in Seq(S)
         /\ SubSeq(s, 1, k) \o SubSeq(s, k + 1, Len(s)) = s
<1>. DEFINE t == SubSeq(s, 1, k)
            u == SubSeq(s, k + 1, Len(s))
<1>1. t \in Seq(S) /\ Len(t) = k /\ \A i \in 1..k : t[i] = s[i]
  <2>1. \A i \in 1..k : s[i] \in S
    OBVIOUS
  <2>2. 1 \in Int /\ k \in Int
    OBVIOUS
  <2>3. /\ t \in Seq(S)
        /\ Len(t) = IF 1 <= k THEN k - 1 + 1 ELSE 0
        /\ \A i \in 1..(k - 1 + 1) : t[i] = s[1 + i - 1]
    BY <2>1, <2>2, SubSeqProperties
  <2>. HIDE DEF t
  <2>. QED
    BY <2>3
<1>2. u \in Seq(S) /\ Len(u) = Len(s) - k /\ \A i \in 1..(Len(s) - k) : u[i] = s[k + i]
  <2>1. \A i \in (k + 1)..Len(s) : s[i] \in S
    OBVIOUS
  <2>2. k + 1 \in Int /\ Len(s) \in Int
    OBVIOUS
  <2>3. /\ u \in Seq(S)
        /\ Len(u) = IF k + 1 <= Len(s) THEN Len(s) - (k + 1) + 1 ELSE 0
        /\ \A i \in 1..(Len(s) - (k + 1) + 1) : u[i] = s[(k + 1) + i - 1]
    BY <2>1, <2>2, SubSeqProperties
  <2>. HIDE DEF u
  <2>4. ASSUME NEW i \in 1..(Len(s) - k) PROVE u[i] = s[k + i]
    <3>1. i \in 1..(Len(s) - (k + 1) + 1) /\ (k + 1) + i - 1 = k + i
      OBVIOUS
    <3>. QED
      BY <2>3, <3>1
  <2>. QED
    BY <2>3, <2>4
<1>. HIDE DEF t, u
<1>3. /\ t \o u \in Seq(S)
      /\ Len(t \o u) = Len(t) + Len(u)
      /\ \A i \in 1..(Len(t) + Len(u)) : (t \o u)[i] = IF i <= Len(t) THEN t[i] ELSE u[i - Len(t)]
  BY <1>1, <1>2, ConcatProperties
<1>4. Len(t \o u) = Len(s)
  BY <1>1, <1>2, <1>3
<1>5. ASSUME NEW i \in 1..Len(t \o u) PROVE (t \o u)[i] = s[i]
  <2>1. CASE i <= k
    BY <1>1, <1>2, <1>3, <2>1
  <2>2. CASE i > k
    <3>1. i - k \in 1..(Len(s) - k) /\ k + (i - k) = i
      BY <1>4, <2>2
    <3>2. u[i - k] = s[i]
      BY <1>2, <3>1
    <3>. QED
      BY <1>1, <1>2, <1>3, <1>4, <2>2, <3>2
  <2>. QED
    BY <2>1, <2>2
<1>6. t \o u = s
  BY <1>3, <1>4, <1>5, SeqEqual
<1>. QED
  BY <1>1, <1>2, <1>6 DEF t, u

(* However the arguments are spread over calls, the function gets what the  *)
(* Curry was given, in order.                                               *)
THEOREM FunctionGetsArguments == Spec => []AppliedAsGiven
<1>1. CurryInv => AppliedAsGiven
  <2>. SUFFICES ASSUME CurryInv, NEW c \in DOMAIN given,
                       NEW rest \in Lists(Arity - Len(given[c])), NEW k \in 0..Len(rest)
                PROVE  Applied(Supplied(args_[c], SubSeq(rest, 1, k)), SubSeq(rest, k + 1, Len(rest)))
                         = [i \in 1..Arity |-> ValueOf((given[c] \o rest)[i])]
    BY DEF AppliedAsGiven
  <2>1. given[c] \in Seq(Arguments) /\ args_[c] = given[c] /\ Arity - Len(given[c]) \in Nat
    BY CurryAssumption DEF CurryInv
  <2>2. rest \in Seq(Arguments)
    BY <2>1 DEF Lists, Arguments
  <2>. DEFINE t == SubSeq(rest, 1, k)
              u == SubSeq(rest, k + 1, Len(rest))
  <2>3. t \in Seq(Arguments) /\ u \in Seq(Arguments) /\ t \o u = rest
    BY <2>2, PartsMakeWhole
  <2>. HIDE DEF t, u
  <2>4. (given[c] \o t) \o u = given[c] \o rest
    <3>1. given[c] \in Seq(Arguments)
      BY <2>1
    <3>2. \A x, y, z \in Seq(Arguments) : (x \o y) \o z = x \o (y \o z)
      BY ConcatAssociative, SMTT(90)
    <3>3. (given[c] \o t) \o u = given[c] \o (t \o u)
      BY <2>3, <3>1, <3>2, Zenon
    <3>. QED
      BY <2>3, <3>3, Zenon
  <2>5. Supplied(Supplied(args_[c], t), u) = given[c] \o rest
    BY <2>1, <2>4 DEF Supplied
  <2>. QED
    BY <2>5 DEF Applied, t, u
<1>. QED
  BY <1>1, CurryInvariance, PTL

-----------------------------------------------------------------------------
(* Range.                                                                   *)

(* The equation that defines the turns of a loop.                           *)
IsTurns(f, first, last, by) ==
  f = [k \in 0..MaxTurns |->
         IF k = 0 THEN [it |-> first, seen |-> <<>>]
         ELSE Turned(f[k - 1], last, by)]

(* It has one solution.                                                     *)
LEMMA TurnsUnique ==
  ASSUME NEW f, NEW g, NEW first, NEW last, NEW by,
         IsTurns(f, first, last, by), IsTurns(g, first, last, by)
  PROVE  f = g
<1>1. MaxTurns \in Nat
  BY RangeAssumption
<1>2. \A k \in 0..MaxTurns : f[k] = g[k]
  <2>. DEFINE T == {k \in 0..MaxTurns : f[k] # g[k]}
  <2>. SUFFICES ASSUME T # {} PROVE FALSE
    OBVIOUS
  <2>1. PICK m \in T : \A k \in T : m <= k
    <3>1. T \in SUBSET Nat
      BY <1>1
    <3>. HIDE DEF T
    <3>. QED
      BY <3>1, LeastElement
  <2>2. m # 0
    BY <1>1, <2>1 DEF IsTurns
  <2>3. m - 1 \in 0..MaxTurns /\ f[m - 1] = g[m - 1]
    BY <1>1, <2>1, <2>2
  <2>. QED
    BY <1>1, <2>1, <2>2, <2>3 DEF IsTurns
<1>. QED
  BY <1>2 DEF IsTurns

LEMMA LoopIs ==
  ASSUME NEW f, NEW first, NEW last, NEW by, IsTurns(f, first, last, by)
  PROVE  Loop(first, last, by) = f[MaxTurns].seen
<1>. DEFINE g == CHOOSE h : IsTurns(h, first, last, by)
<1>1. IsTurns(g, first, last, by)
  OBVIOUS
<1>. HIDE DEF g
<1>2. f = g
  BY <1>1, TurnsUnique
<1>3. Loop(first, last, by) = g[MaxTurns].seen
  BY DEF Loop, IsTurns, g
<1>. QED
  BY <1>2, <1>3

(* A loop from an iterator to an equal one has no turn, and one whose first *)
(* turn gets to the end has one.                                            *)
LEMMA EmptyLoop ==
  ASSUME NEW first, NEW last, NEW by, first.iter = last.iter
  PROVE  Loop(first, last, by) = <<>>
<1>. DEFINE f == [k \in 0..MaxTurns |-> [it |-> first, seen |-> <<>>]]
<1>1. MaxTurns \in Nat
  BY RangeAssumption
<1>2. IsTurns(f, first, last, by)
  BY <1>1 DEF IsTurns, Turned
<1>3. f[MaxTurns].seen = <<>>
  BY <1>1
<1>. HIDE DEF f
<1>. QED
  BY <1>2, <1>3, LoopIs

LEMMA SingleTurn ==
  ASSUME NEW first, NEW last, NEW by, first.iter # last.iter, Advanced(first, by).iter = last.iter
  PROVE  Loop(first, last, by) = <<first.iter>>
<1>. DEFINE f == [k \in 0..MaxTurns |->
                    IF k = 0 THEN [it |-> first, seen |-> <<>>]
                    ELSE [it |-> Advanced(first, by), seen |-> <<first.iter>>]]
<1>1. MaxTurns \in Nat \ {0}
  BY RangeAssumption
<1>2. IsTurns(f, first, last, by)
  <2>1. Append(<<>>, first.iter) = <<first.iter>>
    OBVIOUS
  <2>. QED
    BY <1>1, <2>1 DEF IsTurns, Turned
<1>3. f[MaxTurns].seen = <<first.iter>>
  BY <1>1
<1>. HIDE DEF f
<1>. QED
  BY <1>2, <1>3, LoopIs

(* clamp has its arguments in another order, so an ascending range starts at*)
(* its end, and a descending one is at its end after one number.            *)
LEMMA Ascending ==
  ASSUME NEW start \in Int, NEW end \in Int, NEW step \in Int, step >= 0
  PROVE  /\ RangeIterator(start, end, step).iter = end
         /\ RangeIterator(end, end, step).iter = end
BY DEF RangeIterator, Placed, clamp

LEMMA Descending ==
  ASSUME NEW start \in Int, NEW end \in Int, NEW step \in Int, step < 0, start > end
  PROVE  /\ RangeIterator(start, end, step).iter = start
         /\ RangeIterator(end, end, step).iter = end
         /\ Advanced(RangeIterator(start, end, step), step).iter = end
BY DEF RangeIterator, Placed, clamp, Advanced

LEMMA LeastOfTwo ==
  ASSUME NEW a \in Int, NEW b \in Int
  PROVE  /\ Min({a, b}) = IF a <= b THEN a ELSE b
         /\ Max({a, b}) = IF a <= b THEN b ELSE a
BY DEF Min, Max

RangeInv == range_ = [start |-> range_.start, end |-> range_.end, step |-> range_.step]
            /\ range_.start \in Int /\ range_.end \in Int /\ range_.step \in Int

LEMMA RangeInvariance == Spec => []RangeInv
<1>1. Init => RangeInv
  BY DEF Init, RangeInit, RangeInv
<1>2. RangeInv /\ [Next]_vars => RangeInv'
  BY PartSteps, RangeAssumption DEF RangeNext, Construct, RangeInv
<1>. QED
  BY <1>1, <1>2, PTL DEF Spec

(* A loop over a range whose step is not away from its end comes to its end *)
(* in time, without repetition and inside.                                  *)
THEOREM LoopsComeToEnd == Spec => []RangeLoopsEnd
<1>1. RangeInv => RangeLoopsEnd
  <2>. SUFFICES ASSUME RangeInv PROVE RangeLoopsEnd
    OBVIOUS
  <2>. DEFINE start == range_.start
              end == range_.end
              step == range_.step
  <2>1. start \in Int /\ end \in Int /\ step \in Int
    BY DEF RangeInv
  <2>2. /\ Begin(range_) = RangeIterator(start, end, step)
        /\ End(range_) = RangeIterator(end, end, step)
    BY DEF Begin, End
  <2>. DEFINE low == Min({start, end})
              high == Max({start, end})
  <2>. HIDE DEF start, end, step
  <2>6. low \in Int /\ high \in Int /\ high >= low /\ {start, end} \subseteq low..high
        /\ (start # end => high - low >= 1)
    BY <2>1, LeastOfTwo
  <2>. HIDE DEF low, high
  <2>7. RangeLoopsEnd <=>
          /\ step >= 0 \/ start > end =>
               /\ Len(Forward(range_)) <= high - low
               /\ IsInjective(Forward(range_))
               /\ ToSet(Forward(range_)) \subseteq low..high
          /\ step >= 0 => Len(Backward(range_)) <= high - low
    BY DEF RangeLoopsEnd, low, high, start, end, step
  <2>3. CASE step >= 0
    <3>1. Forward(range_) = <<>> /\ Backward(range_) = <<>>
      BY <2>1, <2>2, <2>3, Ascending, EmptyLoop DEF Forward, Backward
    <3>2. Len(<<>>) = 0 /\ IsInjective(<<>>) /\ ToSet(<<>>) = {}
      BY DEF IsInjective, ToSet
    <3>. QED
      BY <2>1, <2>3, <2>6, <2>7, <3>1, <3>2
  <2>4. CASE step < 0 /\ start > end
    <3>1. Forward(range_) = <<start>>
      BY <2>1, <2>2, <2>4, Descending, SingleTurn DEF Forward, step
    <3>2. Len(<<start>>) = 1 /\ IsInjective(<<start>>) /\ ToSet(<<start>>) = {start}
      BY DEF IsInjective, ToSet
    <3>. QED
      BY <2>1, <2>4, <2>6, <2>7, <3>1, <3>2
  <2>5. CASE step < 0 /\ ~ start > end
    BY <2>1, <2>5, <2>7
  <2>. QED
    BY <2>1, <2>3, <2>4, <2>5
<1>. QED
  BY <1>1, RangeInvariance, PTL

-----------------------------------------------------------------------------
(* Queue.                                                                   *)

(* A heap: queues with their members, and nodes.                            *)
HasQueues(s) ==
  s.queue \in [Queues -> [head : Nodes \cup {Null}, tail : Nodes \cup {Null}, size : Nat]]

IsHeap(s) ==
  /\ DOMAIN s.node \subseteq Nodes
  /\ s.node \in [DOMAIN s.node -> [data : Items, next : Nodes \cup {Null}]]
  /\ HasQueues(s)

(* The list c of a queue with the given ends, written out.                  *)
Listed(s, c, head, tail) ==
  /\ Links(NextOf(s), c, Len(c))
  /\ head = IF c = <<>> THEN Null ELSE c[1]
  /\ tail = IF c = <<>> THEN Null ELSE c[Len(c)]

Has(c, n) == \E i \in 1..Len(c) : c[i] = n

(* Every queue has its own list of nodes, and every node is in one.         *)
Chained(s, chain) ==
  /\ chain \in [Queues -> Seq(Nodes)]
  /\ \A q \in Queues : Listed(s, chain[q], s.queue[q].head, s.queue[q].tail)
  /\ \A q, r \in Queues : \A n \in Nodes : Has(chain[q], n) /\ Has(chain[r], n) => q = r
  /\ \A n \in Nodes : n \in DOMAIN s.node <=> \E q \in Queues : Has(chain[q], n)

(* The nodes of each queue hold what it should.                             *)
Holds(s, chain, items) ==
  /\ items \in [Queues -> Seq(Items)]
  /\ \A q \in Queues : /\ Len(items[q]) = Len(chain[q])
                       /\ \A i \in 1..Len(chain[q]) : s.node[chain[q][i]].data = items[q][i]

LEMMA ChainNodes ==
  ASSUME NEW s, NEW chain, Chained(s, chain), NEW q \in Queues
  PROVE  /\ chain[q] \in Seq(Nodes)
         /\ Len(chain[q]) \in Nat
         /\ \A i \in 1..Len(chain[q]) : /\ chain[q][i] \in Nodes
                                        /\ Has(chain[q], chain[q][i])
                                        /\ chain[q][i] \in DOMAIN s.node
<1>1. chain[q] \in Seq(Nodes)
  BY DEF Chained
<1>2. Len(chain[q]) \in Nat
  BY <1>1
<1>3. ASSUME NEW i \in 1..Len(chain[q])
      PROVE  /\ chain[q][i] \in Nodes
             /\ Has(chain[q], chain[q][i])
             /\ chain[q][i] \in DOMAIN s.node
  <2>1. chain[q][i] \in Nodes
    BY <1>1
  <2>2. Has(chain[q], chain[q][i])
    BY Zenon DEF Has
  <2>. QED
    BY <2>1, <2>2 DEF Chained
<1>. QED
  BY <1>1, <1>2, <1>3

(* What a walk over a queue finds is its list, which cannot be longer than  *)
(* there are nodes.                                                         *)
LEMMA ChainIs ==
  ASSUME NEW s, NEW chain, Chained(s, chain), NEW q \in Queues
  PROVE  /\ Chain(s, q) = chain[q]
         /\ Len(chain[q]) \in Nat
         /\ Cardinality(Nodes) \in Nat
         /\ Len(chain[q]) <= Cardinality(Nodes)
<1>0. PICK n \in Nat : n = Len(chain[q]) /\ chain[q] \in [1..n -> Nodes]
  BY DEF Chained
<1>1. PICK p \in [1..n -> Nodes] : p = chain[q]
  BY <1>0
<1>2. Links(NextOf(s), p, n)
  BY <1>0, <1>1 DEF Chained, Listed
<1>3. s.queue[q].head = IF n = 0 THEN Null ELSE p[1]
  BY <1>0, <1>1 DEF Chained, Listed
<1>4. Along(NextOf(s), IF n = 0 THEN Null ELSE p[1]) = p
  BY <1>2, AlongIs
<1>5. Chain(s, q) = p
  BY <1>3, <1>4 DEF Chain
<1>6. Cardinality(Nodes) \in Nat /\ n <= Cardinality(Nodes)
  BY <1>2, LinksFit
<1>. QED
  BY <1>0, <1>1, <1>5, <1>6

LEMMA DataIs ==
  ASSUME NEW s, NEW chain, Chained(s, chain), NEW items, Holds(s, chain, items), NEW q \in Queues
  PROVE  Data(s, q) = items[q]
<1>0. chain[q] \in Seq(Nodes)
  BY DEF Chained
<1>1. Chain(s, q) = chain[q] /\ chain[q] \in Seq(Nodes)
  BY <1>0, ChainIs
<1>2. Data(s, q) = [i \in 1..Len(chain[q]) |-> s.node[chain[q][i]].data]
  BY <1>1 DEF Data
<1>3. Data(s, q) = [i \in 1..Len(items[q]) |-> items[q][i]] /\ items[q] \in Seq(Items)
  BY <1>2 DEF Holds
<1>. QED
  BY <1>3

(* A list changes only with its own nodes.                                  *)
LEMMA ListedStays ==
  ASSUME NEW s, NEW t, NEW c \in Seq(Nodes), NEW head, NEW tail, Listed(s, c, head, tail),
         \A i \in 1..Len(c) : NextOf(t)[c[i]] = NextOf(s)[c[i]]
  PROVE  Listed(t, c, head, tail)
BY DEF Listed, Links

(* The address that new takes.                                              *)
Fresh(s) == CHOOSE m \in Nodes : m \notin Allocated(s)

(* The heap t is s with v pushed to q, in the new node n.                   *)
IsPush(t, s, q, v, n) ==
  /\ IsHeap(t)
  /\ DOMAIN t.node = DOMAIN s.node \cup {n}
  /\ \A m \in DOMAIN s.node : t.node[m].data = s.node[m].data
  /\ t.node[n].data = v
  /\ \A m \in Nodes : NextOf(t)[m] = IF m = n THEN Null
                                     ELSE IF m \in DOMAIN s.node /\ m = s.queue[q].tail THEN n
                                     ELSE NextOf(s)[m]
  /\ \A r \in Queues : r # q => t.queue[r] = s.queue[r]
  /\ t.queue[q] = [head |-> IF s.queue[q].tail = Null THEN n ELSE s.queue[q].head,
                   tail |-> n,
                   size |-> (s.queue[q].size + 1) % SizeValues]

LEMMA PushedIs ==
  ASSUME NEW s, IsHeap(s), NEW q \in Queues, NEW v \in Items, NEW n \in Nodes \ DOMAIN s.node,
         n = Fresh(s)
  PROVE  IsPush(Pushed(s, q, v), s, q, v, n)
<1>. DEFINE last == s.queue[q].tail
            Added(m) == IF m = n THEN [data |-> v, next |-> Null]
                      ELSE IF m = last THEN [s.node[m] EXCEPT !.next = n] ELSE s.node[m]
            node == [m \in Allocated(s) \cup {n} |-> Added(m)]
            queue == [s.queue EXCEPT ![q] = [head |-> IF last = Null THEN n ELSE s.queue[q].head,
                                             tail |-> n,
                                             size |-> (s.queue[q].size + 1) % SizeValues]]
<1>1. Pushed(s, q, v) = [queue |-> queue, node |-> node]
  BY DEF Pushed, Fresh
<1>2. PICK t : t = Pushed(s, q, v)
  OBVIOUS
<1>3. t.queue = queue /\ t.node = node
  BY <1>1, <1>2
<1>4. /\ DOMAIN node = DOMAIN s.node \cup {n}
      /\ node[n] = [data |-> v, next |-> Null]
      /\ \A m \in DOMAIN s.node :
           /\ node[m] \in [data : Items, next : Nodes \cup {Null}]
           /\ node[m].data = s.node[m].data
           /\ node[m].next = IF m = last THEN n ELSE s.node[m].next
  <2>1. s.node \in [DOMAIN s.node -> [data : Items, next : Nodes \cup {Null}]] /\ Allocated(s) = DOMAIN s.node
    BY DEF IsHeap, HasQueues, Allocated
  <2>. HIDE DEF last
  <2>2. /\ DOMAIN node = DOMAIN s.node \cup {n}
        /\ node[n] = [data |-> v, next |-> Null]
    BY <2>1
  <2>3. ASSUME NEW m \in DOMAIN s.node
        PROVE  /\ node[m] \in [data : Items, next : Nodes \cup {Null}]
               /\ node[m].data = s.node[m].data
               /\ node[m].next = IF m = last THEN n ELSE s.node[m].next
    <3>1. node[m] = IF m = last THEN [s.node[m] EXCEPT !.next = n] ELSE s.node[m]
      BY <2>1
    <3>2. s.node[m] \in [data : Items, next : Nodes \cup {Null}]
      BY <2>1
    <3>. HIDE DEF node
    <3>. QED
      BY <3>1, <3>2
  <2>. QED
    BY <2>2, <2>3
<1>5. /\ DOMAIN queue = Queues
      /\ \A r \in Queues : r # q => queue[r] = s.queue[r]
      /\ queue[q] = [head |-> IF last = Null THEN n ELSE s.queue[q].head,
                     tail |-> n,
                     size |-> (s.queue[q].size + 1) % SizeValues]
  BY DEF IsHeap, HasQueues
<1>. HIDE DEF Added, node, queue, last
<1>6. IsHeap(t)
  <2>1. node \in [DOMAIN node -> [data : Items, next : Nodes \cup {Null}]]
    <3>1. node[n] \in [data : Items, next : Nodes \cup {Null}]
      BY <1>4
    <3>2. \A m \in DOMAIN node : node[m] \in [data : Items, next : Nodes \cup {Null}]
      BY <1>4, <3>1
    <3>3. node = [m \in DOMAIN node |-> node[m]]
      BY DEF node
    <3>. QED
      BY <3>2, <3>3
  <2>2. queue \in [Queues -> [head : Nodes \cup {Null}, tail : Nodes \cup {Null}, size : Nat]]
    <3>1. (s.queue[q].size + 1) % SizeValues \in Nat
      <4>1. SizeValues \in Nat \ {0}
        BY QueueAssumption, ListAssumption, FS_CardinalityType
      <4>2. s.queue[q].size + 1 \in Nat
        BY DEF IsHeap, HasQueues
      <4>. QED
        BY <4>1, <4>2
    <3>2. queue[q] \in [head : Nodes \cup {Null}, tail : Nodes \cup {Null}, size : Nat]
      BY <1>5, <3>1 DEF IsHeap, HasQueues
    <3>. QED
      BY <3>2 DEF IsHeap, HasQueues, queue
  <2>3. DOMAIN node \subseteq Nodes
    BY <1>4 DEF IsHeap, HasQueues
  <2>. QED
    BY <1>3, <2>1, <2>2, <2>3 DEF IsHeap, HasQueues
<1>7. \A m \in Nodes : NextOf(t)[m] = IF m = n THEN Null
                                      ELSE IF m \in DOMAIN s.node /\ m = last THEN n
                                      ELSE NextOf(s)[m]
  <2>1. \A m \in Nodes : /\ NextOf(t)[m] = IF m \in DOMAIN node THEN node[m].next ELSE Null
                         /\ NextOf(s)[m] = IF m \in DOMAIN s.node THEN s.node[m].next ELSE Null
    BY <1>3 DEF NextOf, Allocated
  <2>2. n \notin DOMAIN s.node
    OBVIOUS
  <2>. TAKE m \in Nodes
  <2>3. CASE m = n
    BY <1>4, <2>1, <2>3
  <2>4. CASE m # n /\ m \in DOMAIN s.node
    BY <1>4, <2>1, <2>4
  <2>5. CASE m # n /\ m \notin DOMAIN s.node
    BY <1>4, <2>1, <2>5
  <2>. QED
    BY <2>3, <2>4, <2>5
<1>. QED
  BY <1>2, <1>3, <1>4, <1>5, <1>6, <1>7 DEF last, IsPush

LEMMA AppendIs ==
  ASSUME NEW S, NEW c \in Seq(S), NEW n \in S
  PROVE  /\ Len(c) \in Nat
         /\ Append(c, n) \in Seq(S)
         /\ Len(Append(c, n)) = Len(c) + 1
         /\ \A i \in 1..Len(c) : Append(c, n)[i] = c[i]
         /\ Append(c, n)[Len(c) + 1] = n
OBVIOUS

(* push puts the new node at the end of its queue's list, with the item.    *)
LEMMA PushLists ==
  ASSUME NEW s, IsHeap(s), NEW chain, Chained(s, chain), NEW items, Holds(s, chain, items),
         NEW q \in Queues, NEW v \in Items, NEW n \in Nodes \ DOMAIN s.node,
         n = Fresh(s)
  PROVE  /\ Chained(Pushed(s, q, v), [chain EXCEPT ![q] = Append(@, n)])
         /\ Holds(Pushed(s, q, v), [chain EXCEPT ![q] = Append(@, n)],
                  [items EXCEPT ![q] = Append(@, v)])
<1>. PICK t : t = Pushed(s, q, v)
  OBVIOUS
<1>. DEFINE c == chain[q]
            longer == [chain EXCEPT ![q] = Append(@, n)]
            more == [items EXCEPT ![q] = Append(@, v)]
            last == s.queue[q].tail
<1>1. /\ DOMAIN t.node = DOMAIN s.node \cup {n}
      /\ \A m \in DOMAIN s.node : t.node[m].data = s.node[m].data
      /\ t.node[n].data = v
      /\ \A m \in Nodes : NextOf(t)[m] = IF m = n THEN Null
                                         ELSE IF m \in DOMAIN s.node /\ m = last THEN n
                                         ELSE NextOf(s)[m]
      /\ \A r \in Queues : r # q => t.queue[r] = s.queue[r]
      /\ t.queue[q].head = IF last = Null THEN n ELSE s.queue[q].head
      /\ t.queue[q].tail = n
  <2>1. IsPush(t, s, q, v, n)
    BY PushedIs
  <2>. QED
    BY <2>1 DEF IsPush, last
<1>2. chain \in [Queues -> Seq(Nodes)] /\ items \in [Queues -> Seq(Items)]
  BY DEF Chained, Holds
<1>3. \A r \in Queues : \A i \in 1..Len(chain[r]) :
        /\ chain[r][i] \in Nodes /\ chain[r][i] \in DOMAIN s.node /\ chain[r][i] # n
  BY ChainNodes
<1>4. /\ c \in Seq(Nodes) /\ Len(c) \in Nat
      /\ Append(c, n) \in Seq(Nodes) /\ Len(Append(c, n)) = Len(c) + 1
      /\ \A i \in 1..Len(c) : Append(c, n)[i] = c[i]
      /\ Append(c, n)[Len(c) + 1] = n
  <2>1. c \in Seq(Nodes)
    BY <1>2
  <2>. QED
    BY <2>1, AppendIs
<1>5. /\ longer \in [Queues -> Seq(Nodes)]
      /\ longer[q] = Append(c, n)
      /\ \A r \in Queues : r # q => longer[r] = chain[r]
  BY <1>2, <1>4
<1>6. /\ last = IF Len(c) = 0 THEN Null ELSE c[Len(c)]
      /\ s.queue[q].head = IF Len(c) = 0 THEN Null ELSE c[1]
      /\ Links(NextOf(s), c, Len(c))
  <2>1. c = <<>> <=> Len(c) = 0
    BY <1>4
  <2>. QED
    BY <2>1 DEF Chained, Listed
<1>. HIDE DEF longer, more, c, last
<1>7. ASSUME NEW r \in Queues
      PROVE  Listed(t, longer[r], t.queue[r].head, t.queue[r].tail)
  <2>1. CASE r # q
    <3>1. Listed(s, chain[r], s.queue[r].head, s.queue[r].tail) /\ chain[r] \in Seq(Nodes)
      BY <1>2 DEF Chained
    <3>2. \A i \in 1..Len(chain[r]) : chain[r][i] # last
      <4>1. ASSUME NEW i \in 1..Len(chain[r]), chain[r][i] = last
            PROVE  FALSE
        <5>1. last # Null /\ Len(c) # 0 /\ last = c[Len(c)]
          BY <1>3, <1>6, <4>1, ListAssumption
        <5>2. Len(c) \in 1..Len(c)
          BY <1>4, <5>1
        <5>. QED
          <6>1. Has(chain[r], last) /\ Has(chain[q], last) /\ last \in Nodes
            BY <1>3, <4>1, <5>1, <5>2, ChainNodes DEF c
          <6>. QED
            BY <2>1, <6>1 DEF Chained
      <4>. QED
        BY <4>1
    <3>3. \A i \in 1..Len(chain[r]) : NextOf(t)[chain[r][i]] = NextOf(s)[chain[r][i]]
      BY <1>1, <1>3, <3>2
    <3>4. Listed(t, chain[r], s.queue[r].head, s.queue[r].tail)
      BY <3>1, <3>3, ListedStays
    <3>. QED
      BY <1>1, <1>5, <2>1, <3>4
  <2>2. CASE r = q
    <3>. DEFINE l == Append(c, n)
                k == Len(c)
    <3>1. /\ k \in Nat /\ Len(l) = k + 1 /\ l[k + 1] = n /\ \A i \in 1..k : l[i] = c[i]
          /\ l \in Seq(Nodes)
      BY <1>4
    <3>2. \A i \in 1..k : c[i] \in Nodes /\ c[i] # n /\ c[i] \in DOMAIN s.node
      BY <1>3 DEF c
    <3>. HIDE DEF l, k
    <3>3. \A i, j \in 1..(k + 1) : l[i] = l[j] => i = j
      BY <1>6, <3>1, <3>2 DEF Links, k
    <3>4. \A i \in 1..k : NextOf(t)[l[i]] = l[i + 1]
      <4>. TAKE i \in 1..k
      <4>1. CASE i = k
        BY <1>1, <1>6, <3>1, <3>2, <4>1 DEF k
      <4>2. CASE i # k
        <5>1. c[i] # last /\ i \in 1..(k - 1) /\ k \in 1..k /\ k # 0
          BY <1>6, <3>1, <4>2 DEF Links, k
        <5>2. NextOf(t)[c[i]] = NextOf(s)[c[i]]
          BY <1>1, <3>2, <5>1
        <5>3. NextOf(s)[c[i]] = c[i + 1]
          BY <1>6, <5>1 DEF Links, k
        <5>. QED
          BY <3>1, <5>1, <5>2, <5>3
      <4>. QED
        BY <4>1, <4>2
    <3>5. NextOf(t)[l[k + 1]] = Null
      BY <1>1, <3>1
    <3>6. Links(NextOf(t), l, k + 1)
      BY <3>1, <3>3, <3>4, <3>5 DEF Links
    <3>7. t.queue[q].head = l[1] /\ t.queue[q].tail = l[k + 1]
      <4>1. CASE k = 0
        BY <1>1, <1>6, <3>1, <4>1 DEF k
      <4>2. CASE k # 0
        <5>1. last # Null
          BY <1>6, <3>1, <3>2, <4>2, ListAssumption DEF k
        <5>. QED
          BY <1>1, <1>6, <3>1, <4>2, <5>1 DEF k
      <4>. QED
        BY <4>1, <4>2
    <3>8. l # <<>>
      BY <3>1
    <3>9. longer[r] = l
      BY <1>5, <2>2 DEF l
    <3>. QED
      BY <2>2, <3>1, <3>6, <3>7, <3>8, <3>9 DEF Listed
  <2>. QED
    BY <2>1, <2>2
<1>8. ASSUME NEW r \in Queues, NEW i \in 1..Len(longer[r])
      PROVE  \/ r = q /\ i = Len(c) + 1 /\ longer[r][i] = n
             \/ i \in 1..Len(chain[r]) /\ longer[r][i] = chain[r][i]
  <2>1. CASE r = q
    <3>1. longer[r] = Append(c, n) /\ chain[r] = c
      BY <1>5, <2>1 DEF c
    <3>2. i \in 1..(Len(c) + 1)
      BY <1>4, <3>1
    <3>. QED
      BY <1>4, <2>1, <3>1, <3>2
  <2>2. CASE r # q
    BY <1>5, <2>2
  <2>. QED
    BY <2>1, <2>2
<1>9. \A r \in Queues : \A i \in 1..Len(chain[r]) :
        i \in 1..Len(longer[r]) /\ longer[r][i] = chain[r][i]
  <2>. TAKE r \in Queues
  <2>1. CASE r = q
    <3>1. longer[r] = Append(c, n) /\ chain[r] = c
      BY <1>5, <2>1 DEF c
    <3>. QED
      BY <1>4, <3>1
  <2>2. CASE r # q
    BY <1>5, <2>2
  <2>. QED
    BY <2>1, <2>2
<1>10. Len(c) + 1 \in 1..Len(longer[q]) /\ longer[q][Len(c) + 1] = n
  BY <1>4, <1>5
<1>11. ASSUME NEW r \in Queues, NEW m
       PROVE  Has(longer[r], m) <=> Has(chain[r], m) \/ (r = q /\ m = n)
  BY <1>8, <1>9, <1>10 DEF Has
<1>12. \A r \in Queues : ~ Has(chain[r], n)
  BY <1>3 DEF Has
<1>13. Chained(t, longer)
  <2>1. \A r1, r2 \in Queues : \A m \in Nodes : Has(longer[r1], m) /\ Has(longer[r2], m) => r1 = r2
    BY <1>11, <1>12 DEF Chained
  <2>2. \A m \in Nodes : m \in DOMAIN t.node <=> \E r \in Queues : Has(longer[r], m)
    BY <1>1, <1>11 DEF Chained
  <2>. QED
    BY <1>5, <1>7, <2>1, <2>2 DEF Chained
<1>14. Holds(t, longer, more)
  <2>1. /\ items[q] \in Seq(Items) /\ Len(items[q]) = Len(c)
        /\ Append(items[q], v) \in Seq(Items) /\ Len(Append(items[q], v)) = Len(c) + 1
        /\ \A i \in 1..Len(c) : Append(items[q], v)[i] = items[q][i]
        /\ Append(items[q], v)[Len(c) + 1] = v
    BY <1>2 DEF Holds, c
  <2>2. /\ more \in [Queues -> Seq(Items)]
        /\ more[q] = Append(items[q], v)
        /\ \A r \in Queues : r # q => more[r] = items[r]
    BY <1>2, <2>1 DEF more
  <2>3. ASSUME NEW r \in Queues
        PROVE  /\ Len(more[r]) = Len(longer[r])
               /\ \A i \in 1..Len(longer[r]) : t.node[longer[r][i]].data = more[r][i]
    <3>1. Len(items[r]) = Len(chain[r]) /\ \A i \in 1..Len(chain[r]) : s.node[chain[r][i]].data = items[r][i]
      BY DEF Holds
    <3>2. CASE r # q
      <4>1. longer[r] = chain[r] /\ more[r] = items[r]
        BY <1>5, <2>2, <3>2
      <4>2. \A i \in 1..Len(chain[r]) : t.node[chain[r][i]].data = s.node[chain[r][i]].data
        BY <1>1, <1>3
      <4>. QED
        BY <3>1, <4>1, <4>2
    <3>3. CASE r = q
      <4>1. Len(more[r]) = Len(longer[r])
        BY <1>4, <1>5, <2>1, <2>2, <3>3
      <4>2. ASSUME NEW i \in 1..Len(longer[r])
            PROVE  t.node[longer[r][i]].data = more[r][i]
        <5>1. CASE i = Len(c) + 1
          BY <1>1, <1>10, <2>1, <2>2, <3>3, <5>1
        <5>2. CASE i \in 1..Len(c)
          <6>1. longer[q][i] = c[i] /\ more[q][i] = items[q][i]
            BY <1>4, <1>5, <2>1, <2>2, <5>2
          <6>2. t.node[c[i]].data = s.node[c[i]].data
            BY <1>1, <1>3, <5>2 DEF c
          <6>. QED
            BY <3>1, <3>3, <5>2, <6>1, <6>2 DEF c
        <5>. QED
          BY <1>4, <1>5, <3>3, <5>1, <5>2
      <4>. QED
        BY <4>1, <4>2
    <3>. QED
      BY <3>2, <3>3
  <2>. QED
    BY <2>2, <2>3 DEF Holds
<1>. QED
  BY <1>13, <1>14 DEF longer, more

(* Chained and items cut from others: queue q has those of queue p[q], but for*)
(* the first d[q].                                                          *)
IsCut(left, kept, chain, items, p, d) ==
  /\ left \in [Queues -> Seq(Nodes)]
  /\ kept \in [Queues -> Seq(Items)]
  /\ p \in [Queues -> Queues]
  /\ d \in [Queues -> Nat]
  /\ \A q, r \in Queues : p[q] = p[r] => q = r
  /\ \A q \in Queues :
       /\ Len(chain[p[q]]) = d[q] + Len(left[q])
       /\ Len(kept[q]) = Len(left[q])
       /\ \A i \in 1..Len(left[q]) : /\ left[q][i] = chain[p[q]][d[q] + i]
                                     /\ kept[q][i] = items[p[q]][d[q] + i]

(* The heap t has the nodes of the lists left, as they are in the heap s,   *)
(* and its queues have the ends of those lists.                             *)
HasEnds(t, s, left) ==
  /\ \A n \in Nodes : n \in DOMAIN t.node
                      <=> \E q \in Queues : Has(left[q], n)
  /\ \A n \in DOMAIN t.node : n \in DOMAIN s.node /\ t.node[n] = s.node[n]
  /\ \A q \in Queues :
       /\ t.queue[q].head = IF left[q] = <<>> THEN Null ELSE left[q][1]
       /\ t.queue[q].tail = IF left[q] = <<>> THEN Null ELSE left[q][Len(left[q])]

LEMMA EndsListed ==
  ASSUME NEW s, NEW chain, Chained(s, chain), NEW items, Holds(s, chain, items),
         NEW left, NEW kept, NEW p, NEW d, IsCut(left, kept, chain, items, p, d),
         NEW t, HasEnds(t, s, left)
  PROVE  Chained(t, left) /\ Holds(t, left, kept)
<1>1. ASSUME NEW q \in Queues
      PROVE  /\ p[q] \in Queues /\ chain[p[q]] \in Seq(Nodes) /\ left[q] \in Seq(Nodes)
             /\ d[q] \in Nat /\ Len(left[q]) \in Nat
             /\ \A i \in 1..Len(left[q]) : /\ d[q] + i \in 1..Len(chain[p[q]])
                                           /\ left[q][i] \in Nodes
                                           /\ left[q][i] \in DOMAIN t.node
  <2>1. /\ p[q] \in Queues /\ chain[p[q]] \in Seq(Nodes) /\ left[q] \in Seq(Nodes)
        /\ d[q] \in Nat /\ Len(left[q]) \in Nat
    BY DEF Chained, IsCut
  <2>2. ASSUME NEW i \in 1..Len(left[q])
        PROVE  /\ d[q] + i \in 1..Len(chain[p[q]])
               /\ left[q][i] \in Nodes
               /\ left[q][i] \in DOMAIN t.node
    <3>1. Len(chain[p[q]]) = d[q] + Len(left[q])
      BY DEF IsCut
    <3>2. d[q] + i \in 1..Len(chain[p[q]])
      BY <2>1, <3>1
    <3>3. left[q][i] \in Nodes
      BY <2>1
    <3>. QED
      BY <3>2, <3>3 DEF HasEnds, Has
  <2>. QED
    BY <2>1, <2>2
<1>2. ASSUME NEW q \in Queues
      PROVE  Listed(t, left[q], t.queue[q].head, t.queue[q].tail)
  <2>1. PICK c : c = chain[p[q]]
    OBVIOUS
  <2>2. PICK l : l = left[q]
    OBVIOUS
  <2>3. PICK k : k = d[q]
    OBVIOUS
  <2>4. PICK m : m = Len(left[q])
    OBVIOUS
  <2>5. /\ k \in Nat /\ m \in Nat /\ Len(c) = k + m
        /\ \A i \in 1..m : l[i] = c[k + i] /\ l[i] \in DOMAIN t.node /\ l[i] \in Nodes
    BY <1>1, <2>1, <2>2, <2>3, <2>4 DEF IsCut
  <2>6. Links(NextOf(s), c, k + m)
    <3>1. p[q] \in Queues /\ Links(NextOf(s), c, Len(c))
      BY <1>1, <2>1 DEF Chained, Listed
    <3>. QED
      BY <2>5, <3>1
  <2>7. \A i \in 1..m : NextOf(t)[l[i]] = NextOf(s)[l[i]]
    BY <2>5 DEF NextOf, Allocated, HasEnds
  <2>8. \A i, j \in 1..m : l[i] = l[j] => i = j
    BY <2>5, <2>6 DEF Links
  <2>9. \A i \in 1..(m - 1) : NextOf(s)[l[i]] = l[i + 1]
    <3>. TAKE i \in 1..(m - 1)
    <3>1. /\ k + i \in 1..((k + m) - 1) /\ i \in 1..m /\ i + 1 \in 1..m
          /\ (k + i) + 1 = k + (i + 1)
      <4>1. k \in Nat /\ m \in Nat /\ i \in Int
        BY <2>5
      <4>. QED
        BY <4>1
    <3>2. NextOf(s)[c[k + i]] = c[(k + i) + 1]
      BY <2>6, <3>1 DEF Links
    <3>. QED
      BY <2>5, <3>1, <3>2
  <2>10. m # 0 => NextOf(s)[l[m]] = Null
    <3>1. m # 0 => m \in 1..m /\ k + m # 0
      BY <2>5
    <3>. QED
      BY <2>5, <2>6, <3>1 DEF Links
  <2>11. Links(NextOf(t), l, m)
    <3>1. \A i \in 1..(m - 1) : i \in 1..m
      BY <2>5
    <3>2. m # 0 => m \in 1..m
      BY <2>5
    <3>. QED
      BY <2>7, <2>8, <2>9, <2>10, <3>1, <3>2 DEF Links
  <2>. QED
    BY <2>2, <2>4, <2>11 DEF Listed, HasEnds
<1>3. ASSUME NEW q \in Queues, NEW r \in Queues,
             NEW i \in 1..Len(left[q]), NEW j \in 1..Len(left[r]), left[q][i] = left[r][j]
      PROVE  q = r
  <2>1. PICK n : n = left[q][i] /\ n = left[r][j]
    BY <1>3
  <2>2. p[q] \in Queues /\ p[r] \in Queues
    BY <1>1
  <2>3. Has(chain[p[q]], n)
    <3>1. d[q] + i \in 1..Len(chain[p[q]]) /\ chain[p[q]][d[q] + i] = n
      BY <1>1, <2>1 DEF IsCut
    <3>. QED
      BY <3>1, Zenon DEF Has
  <2>4. Has(chain[p[r]], n)
    <3>1. d[r] + j \in 1..Len(chain[p[r]]) /\ chain[p[r]][d[r] + j] = n
      BY <1>1, <2>1 DEF IsCut
    <3>. QED
      BY <3>1, Zenon DEF Has
  <2>5. p[q] = p[r]
    BY <1>1, <2>1, <2>2, <2>3, <2>4 DEF Chained
  <2>. QED
    BY <2>5 DEF IsCut
<1>4. Chained(t, left)
  <2>1. \A q, r \in Queues : \A n \in Nodes : Has(left[q], n) /\ Has(left[r], n) => q = r
    BY <1>3 DEF Has
  <2>. QED
    BY <1>2, <2>1 DEF Chained, IsCut, HasEnds
<1>5. ASSUME NEW q \in Queues, NEW i \in 1..Len(left[q])
      PROVE  t.node[left[q][i]].data = kept[q][i]
  <2>1. p[q] \in Queues /\ d[q] + i \in 1..Len(chain[p[q]]) /\ left[q][i] \in DOMAIN t.node
    BY <1>1
  <2>2. s.node[chain[p[q]][d[q] + i]].data = items[p[q]][d[q] + i]
    BY <2>1 DEF Holds
  <2>3. left[q][i] = chain[p[q]][d[q] + i] /\ kept[q][i] = items[p[q]][d[q] + i]
    BY DEF IsCut
  <2>4. t.node[left[q][i]] = s.node[left[q][i]]
    BY <2>1 DEF HasEnds
  <2>. QED
    BY <2>2, <2>3, <2>4
<1>6. Holds(t, left, kept)
  BY <1>5 DEF Holds, IsCut
<1>. QED
  BY <1>4, <1>6

(* The count of every queue but those of wrong is the length of its list.   *)
Counted(s, chain, wrong) == \A q \in Queues : q \notin wrong => s.queue[q].size = Len(chain[q])

(* The inductive invariant: each queue has its own list, with the items that*)
(* it should hold.                                                          *)
Holding(s, items, wrong) ==
  /\ IsHeap(s)
  /\ \E chain : Chained(s, chain) /\ Holds(s, chain, items) /\ Counted(s, chain, wrong)

LEMMA RemainderOfLess ==
  ASSUME NEW k \in Nat, k <= Cardinality(Nodes)
  PROVE  k % SizeValues = k
<1>1. Cardinality(Nodes) \in Nat
  BY ListAssumption, FS_CardinalityType
<1>2. SizeValues \in Nat /\ k < SizeValues
  BY <1>1, QueueAssumption
<1>. QED
  BY <1>2

(* An address is free where there is room for a node.                       *)
LEMMA FreshIs ==
  ASSUME NEW s, IsHeap(s), NEW k \in Nat, Room(s, k + 1)
  PROVE  /\ Fresh(s) \in Nodes \ DOMAIN s.node
         /\ Cardinality((Nodes \ DOMAIN s.node) \ {Fresh(s)}) >= k
<1>1. IsFiniteSet(Nodes \ DOMAIN s.node) /\ Cardinality(Nodes \ DOMAIN s.node) \in Nat
  BY ListAssumption, FS_Difference, FS_CardinalityType
<1>2. Cardinality(Nodes \ DOMAIN s.node) >= k + 1
  BY DEF Room, Allocated
<1>3. Nodes \ DOMAIN s.node # {}
  BY <1>1, <1>2, FS_EmptySet
<1>4. \E m \in Nodes : m \notin Allocated(s)
  BY <1>3 DEF Allocated
<1>5. Fresh(s) \in Nodes \ DOMAIN s.node
  BY <1>4 DEF Fresh, Allocated
<1>6. Cardinality((Nodes \ DOMAIN s.node) \ {Fresh(s)}) = Cardinality(Nodes \ DOMAIN s.node) - 1
  BY <1>1, <1>5, FS_RemoveElement
<1>. QED
  BY <1>1, <1>2, <1>5, <1>6

LEMMA PushKeeps ==
  ASSUME NEW s, NEW items, NEW wrong, Holding(s, items, wrong),
         NEW q \in Queues, NEW v \in Items, NEW k \in Nat, Room(s, k + 1)
  PROVE  /\ Holding(Pushed(s, q, v), [items EXCEPT ![q] = Append(@, v)], wrong)
         /\ Room(Pushed(s, q, v), k)
<1>1. PICK chain : Chained(s, chain) /\ Holds(s, chain, items) /\ Counted(s, chain, wrong)
  BY DEF Holding
<1>2. PICK n : n = Fresh(s)
  OBVIOUS
<1>3. PICK t : t = Pushed(s, q, v)
  OBVIOUS
<1>4. PICK longer : longer = [chain EXCEPT ![q] = Append(@, n)]
  OBVIOUS
<1>5. IsHeap(s) /\ n \in Nodes \ DOMAIN s.node /\ Cardinality((Nodes \ DOMAIN s.node) \ {n}) >= k
  BY <1>2, FreshIs DEF Holding
<1>6. IsPush(t, s, q, v, n)
  BY <1>2, <1>3, <1>5, PushedIs
<1>7. Chained(t, longer) /\ Holds(t, longer, [items EXCEPT ![q] = Append(@, v)])
  BY <1>1, <1>2, <1>3, <1>4, <1>5, PushLists
<1>8. Room(t, k)
  <2>1. Nodes \ DOMAIN t.node = (Nodes \ DOMAIN s.node) \ {n}
    BY <1>5, <1>6 DEF IsPush
  <2>. QED
    BY <1>5, <2>1 DEF Room, Allocated
<1>9. Counted(t, longer, wrong)
  <2>. SUFFICES ASSUME NEW r \in Queues, r \notin wrong
                PROVE  t.queue[r].size = Len(longer[r])
    BY DEF Counted
  <2>1. chain \in [Queues -> Seq(Nodes)] /\ chain[r] \in Seq(Nodes)
    BY <1>1 DEF Chained
  <2>2. s.queue[r].size = Len(chain[r])
    BY <1>1 DEF Counted
  <2>3. CASE r = q
    <3>1. longer[r] = Append(chain[r], n)
      BY <1>4, <2>1, <2>3
    <3>2. Len(longer[r]) = Len(chain[r]) + 1 /\ Len(longer[r]) \in Nat
      BY <1>5, <2>1, <3>1, AppendIs
    <3>3. Len(longer[r]) <= Cardinality(Nodes)
      BY <1>7, ChainIs
    <3>4. t.queue[r].size = Len(longer[r]) % SizeValues
      BY <1>6, <2>2, <2>3, <3>2 DEF IsPush
    <3>. QED
      BY <3>2, <3>3, <3>4, RemainderOfLess
  <2>4. CASE r # q
    <3>1. longer[r] = chain[r]
      BY <1>4, <2>1, <2>4
    <3>2. t.queue[r] = s.queue[r]
      BY <1>6, <2>4 DEF IsPush
    <3>. QED
      BY <2>2, <3>1, <3>2
  <2>. QED
    BY <2>3, <2>4
<1>10. Holding(t, [items EXCEPT ![q] = Append(@, v)], wrong)
  BY <1>6, <1>7, <1>9 DEF Holding, IsPush
<1>. QED
  BY <1>3, <1>8, <1>10

LEMMA TailIs ==
  ASSUME NEW S, NEW c \in Seq(S), Len(c) # 0
  PROVE  /\ Tail(c) \in Seq(S)
         /\ Len(Tail(c)) \in Nat /\ Len(c) \in Nat
         /\ Len(c) = 1 + Len(Tail(c))
         /\ \A i \in 1..Len(Tail(c)) : Tail(c)[i] = c[1 + i]
OBVIOUS

(* The heap t with the nodes of s but those of gone.                        *)
LEMMA WithoutIs ==
  ASSUME NEW s, IsHeap(s), NEW gone, NEW t, t.node = Without(s, gone),
         HasQueues(t)
  PROVE  /\ IsHeap(t)
         /\ DOMAIN t.node = DOMAIN s.node \ gone
         /\ \A n \in DOMAIN t.node : t.node[n] = s.node[n]
<1>1. /\ DOMAIN t.node = DOMAIN s.node \ gone
      /\ \A n \in DOMAIN t.node : t.node[n] = s.node[n]
  BY DEF Without, Allocated
<1>2. t.node \in [DOMAIN s.node \ gone -> [data : Items, next : Nodes \cup {Null}]]
  BY DEF Without, Allocated, IsHeap, HasQueues
<1>. QED
  BY <1>1, <1>2 DEF IsHeap, HasQueues

(* A queue has a head when its list has a node, and the head's next is the  *)
(* second.                                                                  *)
LEMMA HeadIs ==
  ASSUME NEW s, NEW chain, Chained(s, chain), NEW q \in Queues
  PROVE  /\ Len(chain[q]) \in Nat
         /\ s.queue[q].head = IF Len(chain[q]) = 0 THEN Null ELSE chain[q][1]
         /\ s.queue[q].tail = IF Len(chain[q]) = 0 THEN Null ELSE chain[q][Len(chain[q])]
         /\ s.queue[q].head = Null <=> Len(chain[q]) = 0
         /\ Len(chain[q]) # 0 =>
              /\ s.queue[q].head \in DOMAIN s.node
              /\ s.node[s.queue[q].head].next = IF Len(chain[q]) = 1 THEN Null ELSE chain[q][2]
              /\ \A i \in 1..Len(chain[q]) : chain[q][i] = s.queue[q].head => i = 1
<1>. PICK c : c = chain[q]
  OBVIOUS
<1>. PICK head : head = s.queue[q].head
  OBVIOUS
<1>1. /\ c \in Seq(Nodes) /\ Len(c) \in Nat
      /\ \A i \in 1..Len(c) : c[i] \in Nodes /\ c[i] \in DOMAIN s.node
  BY ChainNodes
<1>2. c = <<>> <=> Len(c) = 0
  BY <1>1
<1>3. /\ Links(NextOf(s), c, Len(c))
      /\ head = IF Len(c) = 0 THEN Null ELSE c[1]
      /\ s.queue[q].tail = IF Len(c) = 0 THEN Null ELSE c[Len(c)]
  BY <1>2 DEF Chained, Listed
<1>4. ASSUME Len(c) # 0
      PROVE  /\ head # Null
             /\ head \in DOMAIN s.node
             /\ s.node[head].next = IF Len(c) = 1 THEN Null ELSE c[2]
             /\ \A i \in 1..Len(c) : c[i] = head => i = 1
  <2>0. 1 \in 1..Len(c) /\ Len(c) \in 1..Len(c) /\ head = c[1]
    BY <1>1, <1>3, <1>4
  <2>1. 1 \in 1..Len(c) /\ head = c[1] /\ head \in Nodes /\ head \in DOMAIN s.node
    BY <1>1, <2>0
  <2>2. NextOf(s)[head] = s.node[head].next
    BY <2>1 DEF NextOf, Allocated
  <2>3. Len(c) # 1 => 1 \in 1..(Len(c) - 1)
    <3>1. PICK k \in Nat : k = Len(c) /\ k # 0
      BY <1>1, <1>4
    <3>2. k \in Nat /\ k # 0
      BY <3>1
    <3>3. k # 1 => 1 \in 1..(k - 1)
      BY <3>2
    <3>. QED
      BY <3>1, <3>3
  <2>4. NextOf(s)[head] = IF Len(c) = 1 THEN Null ELSE c[2]
    BY <1>3, <1>4, <2>1, <2>3 DEF Links
  <2>. QED
    BY <1>3, <2>1, <2>2, <2>4, ListAssumption DEF Links
<1>. QED
  BY <1>1, <1>3, <1>4

LEMMA PopKeeps ==
  ASSUME NEW s, NEW items, NEW wrong, Holding(s, items, wrong),
         NEW q \in Queues, s.queue[q].head # Null
  PROVE  Holding(Popped(s, q), [items EXCEPT ![q] = Tail(@)], wrong)
<1>1. PICK chain : Chained(s, chain) /\ Holds(s, chain, items) /\ Counted(s, chain, wrong)
  BY DEF Holding
<1>2. PICK c : c = chain[q]
  OBVIOUS
<1>3. PICK n : n = s.queue[q].head
  OBVIOUS
<1>4. PICK t : t = Popped(s, q)
  OBVIOUS
<1>5. /\ Len(c) \in Nat /\ Len(c) # 0
      /\ n = c[1] /\ n \in DOMAIN s.node
      /\ s.node[n].next = IF Len(c) = 1 THEN Null ELSE c[2]
      /\ s.queue[q].tail = c[Len(c)]
      /\ \A i \in 1..Len(c) : c[i] = n => i = 1
  BY <1>1, <1>2, <1>3, HeadIs
<1>6. /\ c \in Seq(Nodes) /\ chain \in [Queues -> Seq(Nodes)]
      /\ items \in [Queues -> Seq(Items)] /\ items[q] \in Seq(Items)
      /\ Len(items[q]) = Len(c)
  BY <1>1, <1>2 DEF Chained, Holds
<1>7. /\ Tail(c) \in Seq(Nodes) /\ Len(Tail(c)) \in Nat /\ Len(c) = 1 + Len(Tail(c))
      /\ \A i \in 1..Len(Tail(c)) : Tail(c)[i] = c[1 + i]
  BY <1>5, <1>6, TailIs
<1>8. /\ Tail(items[q]) \in Seq(Items) /\ Len(items[q]) = 1 + Len(Tail(items[q]))
      /\ Len(Tail(items[q])) \in Nat
      /\ \A i \in 1..Len(Tail(items[q])) : Tail(items[q])[i] = items[q][1 + i]
  BY <1>5, <1>6, TailIs
<1>. DEFINE left == [chain EXCEPT ![q] = Tail(@)]
            kept == [items EXCEPT ![q] = Tail(@)]
            p == [r \in Queues |-> r]
            d == [r \in Queues |-> IF r = q THEN 1 ELSE 0]
<1>9. /\ left \in [Queues -> Seq(Nodes)] /\ left[q] = Tail(c)
      /\ \A r \in Queues : r # q => left[r] = chain[r]
  BY <1>2, <1>6, <1>7
<1>10. /\ kept \in [Queues -> Seq(Items)] /\ kept[q] = Tail(items[q])
       /\ \A r \in Queues : r # q => kept[r] = items[r]
  BY <1>6, <1>8
<1>. HIDE DEF left, kept
<1>11. IsCut(left, kept, chain, items, p, d)
  <2>1. ASSUME NEW r \in Queues
        PROVE  /\ Len(chain[p[r]]) = d[r] + Len(left[r])
               /\ Len(kept[r]) = Len(left[r])
               /\ \A i \in 1..Len(left[r]) : /\ left[r][i] = chain[p[r]][d[r] + i]
                                             /\ kept[r][i] = items[p[r]][d[r] + i]
    <3>1. CASE r = q
      <4>1. /\ left[r] = Tail(c) /\ kept[r] = Tail(items[q]) /\ chain[p[r]] = c
            /\ items[p[r]] = items[q] /\ d[r] = 1
        BY <1>2, <1>9, <1>10, <3>1
      <4>2. Len(Tail(c)) = Len(Tail(items[q]))
        <5>1. PICK x \in Nat : x = Len(Tail(c))
          BY <1>7
        <5>2. PICK y \in Nat : y = Len(Tail(items[q]))
          BY <1>8
        <5>3. 1 + x = 1 + y
          BY <1>6, <1>7, <1>8, <5>1, <5>2
        <5>4. x = y
          BY <5>3
        <5>. QED
          BY <5>1, <5>2, <5>4
      <4>. HIDE DEF p, d
      <4>. QED
        BY <1>7, <1>8, <4>1, <4>2
    <3>2. CASE r # q
      <4>1. /\ left[r] = chain[r] /\ kept[r] = items[r] /\ p[r] = r /\ d[r] = 0
            /\ Len(chain[r]) \in Nat /\ Len(items[r]) = Len(chain[r])
        BY <1>1, <1>6, <1>9, <1>10, <3>2 DEF Holds
      <4>2. \A i \in 1..Len(chain[r]) : 0 + i = i
        BY <4>1
      <4>. HIDE DEF p, d
      <4>. QED
        BY <4>1, <4>2
    <3>. QED
      BY <3>1, <3>2
  <2>. QED
    BY <1>9, <1>10, <2>1 DEF IsCut
<1>12. /\ t.queue = [s.queue EXCEPT ![q] = [head |-> s.node[n].next,
                                            tail |-> IF s.node[n].next = Null THEN Null ELSE @.tail,
                                            size |-> (@.size - 1) % SizeValues]]
       /\ t.node = Without(s, {n})
  BY <1>3, <1>4 DEF Popped
<1>13. /\ \A r \in Queues : r # q => t.queue[r] = s.queue[r]
       /\ t.queue[q].head = s.node[n].next
       /\ t.queue[q].tail = IF s.node[n].next = Null THEN Null ELSE c[Len(c)]
       /\ t.queue[q].size = (s.queue[q].size - 1) % SizeValues
       /\ t.queue \in [Queues -> [head : Nodes \cup {Null}, tail : Nodes \cup {Null}, size : Nat]]
  <2>1. SizeValues \in Nat \ {0}
    BY QueueAssumption, ListAssumption, FS_CardinalityType
  <2>2. s.queue \in [Queues -> [head : Nodes \cup {Null}, tail : Nodes \cup {Null}, size : Nat]]
    BY DEF Holding, IsHeap, HasQueues
  <2>3. s.node[n].next \in Nodes \cup {Null}
    BY <1>5 DEF Holding, IsHeap, HasQueues
  <2>4. (s.queue[q].size - 1) % SizeValues \in Nat
    BY <2>1, <2>2
  <2>. QED
    BY <1>5, <1>12, <2>2, <2>3, <2>4
<1>14. /\ IsHeap(t) /\ DOMAIN t.node = DOMAIN s.node \ {n}
       /\ \A m \in DOMAIN t.node : t.node[m] = s.node[m]
  <2>1. IsHeap(s) /\ t.node = Without(s, {n})
    BY <1>12 DEF Holding
  <2>2. HasQueues(t)
    BY <1>13 DEF HasQueues
  <2>. QED
    BY <2>1, <2>2, WithoutIs, SMTT(90)
<1>15. HasEnds(t, s, left)
  <2>1. ASSUME NEW m \in Nodes
        PROVE  m \in DOMAIN t.node <=> \E r \in Queues : Has(left[r], m)
    <3>1. ASSUME m \in DOMAIN t.node
          PROVE  \E r \in Queues : Has(left[r], m)
      <4>1. PICK r \in Queues : Has(chain[r], m)
        BY <1>1, <1>14, <3>1 DEF Chained
      <4>2. CASE r # q
        BY <1>9, <4>1, <4>2
      <4>3. CASE r = q
        <5>1. PICK i \in 1..Len(c) : c[i] = m
          BY <1>2, <4>1, <4>3 DEF Has
        <5>2. i # 1
          BY <1>5, <1>14, <3>1, <5>1
        <5>3. i - 1 \in 1..Len(Tail(c)) /\ Tail(c)[i - 1] = m
          BY <1>5, <1>7, <5>1, <5>2
        <5>. QED
          BY <1>9, <5>3 DEF Has
      <4>. QED
        BY <4>2, <4>3
    <3>2. ASSUME NEW r \in Queues, Has(left[r], m)
          PROVE  m \in DOMAIN t.node
      <4>1. Has(chain[q], n)
        BY <1>1, <1>2, <1>5, ChainNodes
      <4>2. Has(chain[r], m) /\ m # n
        <5>1. CASE r # q
          BY <1>1, <1>9, <3>2, <4>1, <5>1 DEF Chained
        <5>2. CASE r = q
          <6>1. PICK i \in 1..Len(Tail(c)) : c[1 + i] = m
            BY <1>7, <1>9, <3>2, <5>2 DEF Has
          <6>2. 1 + i \in 1..Len(c) /\ 1 + i # 1
            BY <1>7
          <6>. QED
            BY <1>2, <1>5, <5>2, <6>1, <6>2 DEF Has
        <5>. QED
          BY <5>1, <5>2
      <4>. QED
        BY <1>1, <1>14, <4>2 DEF Chained
    <3>. QED
      BY <3>1, <3>2
  <2>2. ASSUME NEW r \in Queues
        PROVE  /\ t.queue[r].head = IF left[r] = <<>> THEN Null ELSE left[r][1]
               /\ t.queue[r].tail = IF left[r] = <<>> THEN Null ELSE left[r][Len(left[r])]
    <3>1. CASE r # q
      BY <1>1, <1>9, <1>13, <3>1 DEF Chained, Listed
    <3>2. CASE r = q
      <4>1. CASE Len(c) = 1
        <5>1. Tail(c) = <<>>
          <6>1. PICK x \in Nat : x = Len(Tail(c))
            BY <1>7
          <6>2. 1 = 1 + x
            BY <1>7, <4>1, <6>1
          <6>3. x = 0
            BY <6>2
          <6>4. PICK e \in Seq(Nodes) : e = Tail(c)
            BY <1>7
          <6>5. e = <<>>
            BY <6>1, <6>3, <6>4, EmptySeq
          <6>. QED
            BY <6>4, <6>5
        <5>. QED
          BY <1>5, <1>9, <1>13, <3>2, <4>1, <5>1
      <4>2. CASE Len(c) # 1
        <5>1. /\ Tail(c) # <<>> /\ Tail(c)[1] = c[2] /\ Tail(c)[Len(Tail(c))] = c[Len(c)]
              /\ c[2] \in Nodes
          <6>1. PICK x \in Nat : x = Len(Tail(c))
            BY <1>7
          <6>2. Len(c) = 1 + x
            BY <1>7, <6>1
          <6>3. x # 0
            BY <4>2, <6>2
          <6>4. 1 \in 1..x /\ x \in 1..x /\ 2 \in 1..(1 + x) /\ 1 + 1 = 2
            BY <6>3
          <6>5. Tail(c)[1] = c[1 + 1] /\ Tail(c)[x] = c[1 + x]
            BY <1>7, <6>1, <6>4
          <6>6. c[2] \in Nodes
            BY <1>6, <6>2, <6>4
          <6>7. PICK e : e = Tail(c)
            OBVIOUS
          <6>8. Len(e) # 0
            BY <6>1, <6>3, <6>7
          <6>9. e # <<>>
            BY <6>8
          <6>. QED
            BY <6>1, <6>2, <6>4, <6>5, <6>6, <6>7, <6>9
        <5>. QED
          <6>1. c[2] # Null /\ s.node[n].next = c[2] /\ left[r] = Tail(c)
            BY <1>5, <1>9, <3>2, <4>2, <5>1, ListAssumption
          <6>. QED
            BY <1>13, <3>2, <5>1, <6>1
      <4>. QED
        BY <4>1, <4>2
    <3>. QED
      BY <3>1, <3>2
  <2>. QED
    BY <1>14, <2>1, <2>2 DEF HasEnds
<1>16. Chained(t, left) /\ Holds(t, left, kept)
  BY <1>1, <1>11, <1>15, EndsListed
<1>17. Counted(t, left, wrong)
  <2>. SUFFICES ASSUME NEW r \in Queues, r \notin wrong
                PROVE  t.queue[r].size = Len(left[r])
    BY DEF Counted
  <2>1. s.queue[r].size = Len(chain[r])
    BY <1>1 DEF Counted
  <2>2. CASE r = q
    <3>1. t.queue[r].size = Len(Tail(c)) % SizeValues
      <4>1. s.queue[q].size - 1 = Len(Tail(c))
        BY <1>2, <1>7, <2>1, <2>2
      <4>. QED
        BY <1>13, <2>2, <4>1
    <3>2. Len(left[r]) <= Cardinality(Nodes)
      BY <1>16, ChainIs
    <3>. QED
      BY <1>7, <1>9, <2>2, <3>1, <3>2, RemainderOfLess
  <2>3. CASE r # q
    BY <1>9, <1>13, <2>1, <2>3
  <2>. QED
    BY <2>2, <2>3
<1>. QED
  BY <1>4, <1>14, <1>16, <1>17 DEF Holding, kept

LEMMA ClearKeeps ==
  ASSUME NEW s, NEW items, NEW wrong, Holding(s, items, wrong), NEW q \in Queues
  PROVE  /\ Holding(Cleared(s, q), [items EXCEPT ![q] = <<>>], wrong \ {q})
         /\ items \in [Queues -> Seq(Items)]
<1>1. PICK chain : Chained(s, chain) /\ Holds(s, chain, items) /\ Counted(s, chain, wrong)
  BY DEF Holding
<1>2. PICK c : c = chain[q]
  OBVIOUS
<1>3. PICK t : t = Cleared(s, q)
  OBVIOUS
<1>4. /\ chain \in [Queues -> Seq(Nodes)] /\ items \in [Queues -> Seq(Items)]
      /\ c \in Seq(Nodes) /\ Len(c) \in Nat
  BY <1>1, <1>2 DEF Chained, Holds
<1>5. \A m : m \in ToSet(c) <=> Has(c, m)
  <2>1. DOMAIN c = 1..Len(c)
    BY <1>4
  <2>. QED
    BY <2>1, Zenon DEF ToSet, Has
<1>. DEFINE left == [chain EXCEPT ![q] = <<>>]
            kept == [items EXCEPT ![q] = <<>>]
            p == [r \in Queues |-> r]
            d == [r \in Queues |-> IF r = q THEN Len(c) ELSE 0]
<1>6. /\ left \in [Queues -> Seq(Nodes)] /\ left[q] = <<>> /\ Len(left[q]) = 0
      /\ \A r \in Queues : r # q => left[r] = chain[r]
      /\ kept \in [Queues -> Seq(Items)] /\ kept[q] = <<>> /\ Len(kept[q]) = 0
      /\ \A r \in Queues : r # q => kept[r] = items[r]
  BY <1>4
<1>7. /\ p \in [Queues -> Queues] /\ d \in [Queues -> Nat]
      /\ \A r \in Queues : p[r] = r /\ d[r] = IF r = q THEN Len(c) ELSE 0
  BY <1>4
<1>. HIDE DEF left, kept, p, d
<1>8. IsCut(left, kept, chain, items, p, d)
  <2>1. ASSUME NEW r \in Queues
        PROVE  /\ Len(chain[p[r]]) = d[r] + Len(left[r])
               /\ Len(kept[r]) = Len(left[r])
               /\ \A i \in 1..Len(left[r]) : /\ left[r][i] = chain[p[r]][d[r] + i]
                                             /\ kept[r][i] = items[p[r]][d[r] + i]
    <3>1. CASE r = q
      BY <1>2, <1>4, <1>6, <1>7, <3>1
    <3>2. CASE r # q
      <4>1. /\ left[r] = chain[r] /\ kept[r] = items[r] /\ p[r] = r /\ d[r] = 0
            /\ Len(chain[r]) \in Nat /\ Len(items[r]) = Len(chain[r])
        BY <1>1, <1>4, <1>6, <1>7, <3>2 DEF Holds
      <4>2. \A i \in 1..Len(chain[r]) : 0 + i = i
        BY <4>1
      <4>. QED
        BY <4>1, <4>2
    <3>. QED
      BY <3>1, <3>2
  <2>. QED
    BY <1>6, <1>7, <2>1 DEF IsCut
<1>9. t.queue = [s.queue EXCEPT ![q] = NewQueue] /\ t.node = Without(s, ToSet(c))
  <2>1. Chain(s, q) = c
    BY <1>1, <1>2, ChainIs
  <2>. QED
    BY <1>3, <2>1 DEF Cleared
<1>10. /\ \A r \in Queues : r # q => t.queue[r] = s.queue[r]
       /\ t.queue[q] = NewQueue
       /\ HasQueues(t)
  BY <1>9 DEF Holding, IsHeap, HasQueues, NewQueue
<1>11. /\ IsHeap(t) /\ DOMAIN t.node = DOMAIN s.node \ ToSet(c)
       /\ \A m \in DOMAIN t.node : t.node[m] = s.node[m]
  <2>1. IsHeap(s)
    BY DEF Holding
  <2>. QED
    BY <1>9, <1>10, <2>1, WithoutIs
<1>12. HasEnds(t, s, left)
  <2>1. ~ \E m : Has(left[q], m)
    BY <1>6 DEF Has
  <2>2. ASSUME NEW m \in Nodes
        PROVE  m \in DOMAIN t.node <=> \E r \in Queues : Has(left[r], m)
    <3>1. m \in DOMAIN t.node <=> m \in DOMAIN s.node /\ ~ Has(chain[q], m)
      BY <1>2, <1>5, <1>11
    <3>2. m \in DOMAIN s.node <=> \E r \in Queues : Has(chain[r], m)
      BY <1>1 DEF Chained
    <3>3. \A r \in Queues : Has(chain[r], m) /\ Has(chain[q], m) => r = q
      BY <1>1 DEF Chained
    <3>. QED
      BY <1>6, <2>1, <3>1, <3>2, <3>3
  <2>3. ASSUME NEW r \in Queues
        PROVE  /\ t.queue[r].head = IF left[r] = <<>> THEN Null ELSE left[r][1]
               /\ t.queue[r].tail = IF left[r] = <<>> THEN Null ELSE left[r][Len(left[r])]
    <3>1. CASE r # q
      BY <1>1, <1>6, <1>10, <3>1 DEF Chained, Listed
    <3>2. CASE r = q
      BY <1>6, <1>10, <3>2 DEF NewQueue
    <3>. QED
      BY <3>1, <3>2
  <2>. QED
    BY <1>11, <2>2, <2>3 DEF HasEnds
<1>13. Chained(t, left) /\ Holds(t, left, kept)
  BY <1>1, <1>8, <1>12, EndsListed
<1>14. Counted(t, left, wrong \ {q})
  <2>1. ASSUME NEW r \in Queues, r \notin wrong \ {q}
        PROVE  t.queue[r].size = Len(left[r])
    <3>1. CASE r = q
      BY <1>6, <1>10, <3>1 DEF NewQueue
    <3>2. CASE r # q
      BY <1>1, <1>6, <1>10, <2>1, <3>2 DEF Counted
    <3>. QED
      BY <3>1, <3>2
  <2>. QED
    BY <2>1 DEF Counted
<1>. QED
  BY <1>3, <1>4, <1>11, <1>13, <1>14 DEF Holding, kept

(* A heap in which the queues have exchanged their lists.                   *)
Exchanged(t, s, p) ==
  /\ p \in [Queues -> Queues]
  /\ \A q \in Queues : p[p[q]] = q
  /\ t.node = s.node
  /\ \A q \in Queues : /\ t.queue[q].head = s.queue[p[q]].head
                        /\ t.queue[q].tail = s.queue[p[q]].tail

LEMMA ExchangedLists ==
  ASSUME NEW s, NEW chain, Chained(s, chain), NEW items, Holds(s, chain, items),
         NEW t, NEW p, Exchanged(t, s, p)
  PROVE  /\ Chained(t, [q \in Queues |-> chain[p[q]]])
         /\ Holds(t, [q \in Queues |-> chain[p[q]]], [q \in Queues |-> items[p[q]]])
<1>. DEFINE left == [q \in Queues |-> chain[p[q]]]
            kept == [q \in Queues |-> items[p[q]]]
            d == [q \in Queues |-> 0]
<1>1. chain \in [Queues -> Seq(Nodes)] /\ items \in [Queues -> Seq(Items)]
  BY DEF Chained, Holds
<1>2. /\ left \in [Queues -> Seq(Nodes)] /\ kept \in [Queues -> Seq(Items)]
      /\ d \in [Queues -> Nat] /\ \A q \in Queues : d[q] = 0
      /\ \A q \in Queues : left[q] = chain[p[q]] /\ kept[q] = items[p[q]]
  BY <1>1 DEF Exchanged
<1>. HIDE DEF left, kept, d
<1>3. IsCut(left, kept, chain, items, p, d)
  <2>1. ASSUME NEW q \in Queues
        PROVE  /\ Len(chain[p[q]]) = d[q] + Len(left[q])
               /\ Len(kept[q]) = Len(left[q])
               /\ \A i \in 1..Len(left[q]) : /\ left[q][i] = chain[p[q]][d[q] + i]
                                             /\ kept[q][i] = items[p[q]][d[q] + i]
    <3>1. p[q] \in Queues
      BY DEF Exchanged
    <3>2. Len(chain[p[q]]) \in Nat /\ Len(items[p[q]]) = Len(chain[p[q]])
      BY <1>1, <3>1 DEF Holds
    <3>3. \A i \in 1..Len(chain[p[q]]) : 0 + i = i
      BY <3>2
    <3>. QED
      BY <1>2, <3>2, <3>3
  <2>. QED
    BY <1>2, <2>1 DEF IsCut, Exchanged
<1>4. HasEnds(t, s, left)
  <2>1. ASSUME NEW m \in Nodes
        PROVE  m \in DOMAIN t.node <=> \E r \in Queues : Has(left[r], m)
    <3>1. ASSUME NEW q \in Queues, Has(chain[q], m)
          PROVE  p[q] \in Queues /\ Has(left[p[q]], m)
      BY <1>2, <3>1 DEF Exchanged
    <3>2. ASSUME NEW q \in Queues, Has(left[q], m)
          PROVE  p[q] \in Queues /\ Has(chain[p[q]], m)
      BY <1>2, <3>2 DEF Exchanged
    <3>3. m \in DOMAIN s.node <=> \E r \in Queues : Has(chain[r], m)
      BY DEF Chained
    <3>. QED
      BY <3>1, <3>2, <3>3 DEF Exchanged
  <2>2. ASSUME NEW q \in Queues
        PROVE  /\ t.queue[q].head = IF left[q] = <<>> THEN Null ELSE left[q][1]
               /\ t.queue[q].tail = IF left[q] = <<>> THEN Null ELSE left[q][Len(left[q])]
    <3>1. p[q] \in Queues
      BY DEF Exchanged
    <3>2. Listed(s, chain[p[q]], s.queue[p[q]].head, s.queue[p[q]].tail)
      BY <3>1 DEF Chained
    <3>. QED
      BY <1>2, <3>2 DEF Listed, Exchanged
  <2>. QED
    BY <2>1, <2>2 DEF HasEnds, Exchanged
<1>. QED
  BY <1>3, <1>4, EndsListed DEF left, kept

(* The exchange of two queues.                                              *)
Exchange(q, r) == [x \in Queues |-> IF x = q THEN r ELSE IF x = r THEN q ELSE x]

LEMMA MoveConstructKeeps ==
  ASSUME NEW s, NEW items, NEW wrong, Holding(s, items, wrong),
         NEW q \in Queues, NEW r \in Queues, q # r, s.queue[q] = NewQueue,
         NEW t,
         t = [s EXCEPT !.queue[q] = [@ EXCEPT !.head = s.queue[r].head,
                                              !.tail = s.queue[r].tail],
                       !.queue[r] = [@ EXCEPT !.head = Null, !.tail = Null]]
  PROVE  Holding(t, [items EXCEPT ![q] = items[r], ![r] = <<>>], wrong \cup {q, r})
<1>1. PICK chain : Chained(s, chain) /\ Holds(s, chain, items) /\ Counted(s, chain, wrong)
  BY DEF Holding
<1>2. PICK p : p = Exchange(q, r)
  OBVIOUS
<1>3. /\ p \in [Queues -> Queues] /\ p[q] = r /\ p[r] = q
      /\ \A x \in Queues : p[p[x]] = x /\ (x # q /\ x # r => p[x] = x)
  BY <1>2 DEF Exchange
<1>4. /\ t.node = s.node /\ HasQueues(t)
      /\ t.queue[q].head = s.queue[r].head /\ t.queue[q].tail = s.queue[r].tail
      /\ t.queue[r].head = Null /\ t.queue[r].tail = Null
      /\ \A x \in Queues : x # q /\ x # r => t.queue[x] = s.queue[x]
  <2>. DEFINE Queue == [head : Nodes \cup {Null}, tail : Nodes \cup {Null}, size : Nat]
              a == [s.queue[q] EXCEPT !.head = s.queue[r].head, !.tail = s.queue[r].tail]
              b == [s.queue[r] EXCEPT !.head = Null, !.tail = Null]
  <2>1. s.queue \in [Queues -> Queue]
    BY DEF Holding, IsHeap, HasQueues
  <2>2. /\ a \in Queue /\ a.head = s.queue[r].head /\ a.tail = s.queue[r].tail
        /\ b \in Queue /\ b.head = Null /\ b.tail = Null
    BY <2>1
  <2>3. t.node = s.node /\ t.queue = [s.queue EXCEPT ![q] = a, ![r] = b]
    BY <2>1
  <2>. HIDE DEF a, b
  <2>4. t.queue \in [Queues -> Queue]
    <3>1. PICK c : c = [s.queue EXCEPT ![q] = a]
      OBVIOUS
    <3>2. c \in [Queues -> Queue]
      BY <2>1, <2>2, <3>1
    <3>3. t.queue = [c EXCEPT ![r] = b]
      BY <2>1, <2>3, <3>1
    <3>. QED
      BY <2>2, <3>2, <3>3
  <2>5. t.queue[q] = a /\ t.queue[r] = b /\ \A x \in Queues : x # q /\ x # r => t.queue[x] = s.queue[x]
    BY <2>1, <2>3
  <2>. QED
    BY <2>2, <2>3, <2>4, <2>5 DEF HasQueues
<1>5. s.queue[q].head = Null /\ s.queue[q].tail = Null
  BY DEF NewQueue
<1>6. \A x \in Queues : /\ t.queue[x].head = s.queue[p[x]].head
                        /\ t.queue[x].tail = s.queue[p[x]].tail
  BY <1>3, <1>4, <1>5
<1>7. /\ Chained(t, [x \in Queues |-> chain[p[x]]])
      /\ Holds(t, [x \in Queues |-> chain[p[x]]], [x \in Queues |-> items[p[x]]])
  <2>1. Exchanged(t, s, p)
    BY <1>3, <1>4, <1>6 DEF Exchanged
  <2>. QED
    BY <1>1, <2>1, ExchangedLists
<1>8. [x \in Queues |-> items[p[x]]] = [items EXCEPT ![q] = items[r], ![r] = <<>>]
  <2>1. items \in [Queues -> Seq(Items)]
    BY <1>1 DEF Holds
  <2>2. items[q] = <<>>
    <3>1. Len(chain[q]) = 0
      BY <1>1, <1>5, HeadIs
    <3>2. items[q] \in Seq(Items) /\ Len(items[q]) = 0
      BY <1>1, <2>1, <3>1 DEF Holds
    <3>. QED
      BY <3>2, EmptySeq
  <2>. QED
    BY <1>3, <2>1, <2>2
<1>9. Counted(t, [x \in Queues |-> chain[p[x]]], wrong \cup {q, r})
  BY <1>1, <1>3, <1>4 DEF Counted
<1>10. IsHeap(t)
  BY <1>4 DEF Holding, IsHeap
<1>. QED
  BY <1>7, <1>8, <1>9, <1>10 DEF Holding

Miscounted(q, r, wrong) ==
  {x \in Queues : (IF x = q THEN r ELSE IF x = r THEN q ELSE x) \in wrong}

LEMMA MoveAssignKeeps ==
  ASSUME NEW s, NEW items, NEW wrong, Holding(s, items, wrong),
         NEW q \in Queues, NEW r \in Queues,
         NEW t, t = [s EXCEPT !.queue[q] = s.queue[r], !.queue[r] = s.queue[q]]
  PROVE  Holding(t, [items EXCEPT ![q] = items[r], ![r] = items[q]], Miscounted(q, r, wrong))
<1>1. PICK chain : Chained(s, chain) /\ Holds(s, chain, items) /\ Counted(s, chain, wrong)
  BY DEF Holding
<1>2. PICK p : p = Exchange(q, r)
  OBVIOUS
<1>3. /\ p \in [Queues -> Queues] /\ p[q] = r /\ p[r] = q
      /\ \A x \in Queues : p[p[x]] = x /\ (x # q /\ x # r => p[x] = x)
      /\ \A x \in Queues : p[x] = IF x = q THEN r ELSE IF x = r THEN q ELSE x
  BY <1>2 DEF Exchange
<1>4. /\ t.node = s.node /\ HasQueues(t)
      /\ \A x \in Queues : t.queue[x] = s.queue[p[x]]
  <2>1. HasQueues(s)
    BY DEF Holding, IsHeap
  <2>2. t.queue = [s.queue EXCEPT ![q] = s.queue[r], ![r] = s.queue[q]] /\ t.node = s.node
    OBVIOUS
  <2>3. \A x \in Queues : t.queue[x] = s.queue[p[x]]
    BY <1>3, <2>1, <2>2 DEF HasQueues
  <2>4. HasQueues(t)
    BY <2>1, <2>2 DEF HasQueues
  <2>. QED
    BY <2>2, <2>3, <2>4
<1>5. /\ Chained(t, [x \in Queues |-> chain[p[x]]])
      /\ Holds(t, [x \in Queues |-> chain[p[x]]], [x \in Queues |-> items[p[x]]])
  <2>1. Exchanged(t, s, p)
    BY <1>3, <1>4 DEF Exchanged
  <2>. QED
    BY <1>1, <2>1, ExchangedLists
<1>6. [x \in Queues |-> items[p[x]]] = [items EXCEPT ![q] = items[r], ![r] = items[q]]
  <2>1. items \in [Queues -> Seq(Items)]
    BY <1>1 DEF Holds
  <2>. QED
    BY <1>3, <2>1
<1>7. Counted(t, [x \in Queues |-> chain[p[x]]], Miscounted(q, r, wrong))
  <2>1. ASSUME NEW x \in Queues, p[x] \notin wrong
        PROVE  t.queue[x].size = Len(chain[p[x]])
    BY <1>1, <1>3, <1>4, <2>1 DEF Counted
  <2>. QED
    BY <1>3, <2>1 DEF Counted, Miscounted
<1>8. IsHeap(t)
  BY <1>4 DEF Holding, IsHeap
<1>. QED
  BY <1>5, <1>6, <1>7, <1>8 DEF Holding

(* The heaps that a copy of the items v goes through.                       *)
IsCopying(f, s, q, v, n) ==
  f = [k \in 0..n |-> IF k = 0 THEN s ELSE Pushed(f[k - 1], q, v[k])]

LEMMA CopyingExists ==
  ASSUME NEW s, NEW q, NEW v
  PROVE  \A n \in Nat : \E f : IsCopying(f, s, q, v, n)
<1>1. SUFFICES ASSUME ~ \A n \in Nat : \E f : IsCopying(f, s, q, v, n)
               PROVE  FALSE
  OBVIOUS
<1>2. PICK n \in Nat : /\ ~ \E f : IsCopying(f, s, q, v, n)
                       /\ \A k \in Nat : k < n => \E f : IsCopying(f, s, q, v, k)
  <2>. DEFINE T == {k \in Nat : ~ \E f : IsCopying(f, s, q, v, k)}
  <2>1. T \in SUBSET Nat /\ T # {}
    BY <1>1
  <2>2. PICK n \in T : \A k \in T : n <= k
    BY <2>1, LeastElement
  <2>3. n \in Nat /\ ~ \E f : IsCopying(f, s, q, v, n)
    BY <2>2
  <2>4. ASSUME NEW k \in Nat, k < n PROVE \E f : IsCopying(f, s, q, v, k)
    BY <2>2, <2>3, <2>4
  <2>. QED
    BY <2>3, <2>4
<1>3. CASE n = 0
  <2>1. IsCopying([k \in 0..0 |-> s], s, q, v, 0)
    BY DEF IsCopying
  <2>. QED
    BY <1>2, <1>3, <2>1
<1>4. CASE n # 0
  <2>1. PICK f : IsCopying(f, s, q, v, n - 1)
    BY <1>2, <1>4
  <2>. DEFINE g == [k \in 0..n |-> IF k = 0 THEN s ELSE Pushed(f[k - 1], q, v[k])]
  <2>2. \A k \in 0..(n - 1) : g[k] = f[k]
    <3>1. \A k \in 0..(n - 1) : f[k] = IF k = 0 THEN s ELSE Pushed(f[k - 1], q, v[k])
      BY <2>1 DEF IsCopying
    <3>. QED
      BY <1>2, <3>1
  <2>3. \A k \in 0..n : k # 0 => g[k - 1] = f[k - 1]
    <3>1. \A k \in 0..n : k # 0 => k - 1 \in 0..(n - 1)
      BY <1>2
    <3>. QED
      BY <2>2, <3>1
  <2>4. IsCopying(g, s, q, v, n)
    BY <2>3 DEF IsCopying
  <2>. QED
    BY <1>2, <2>4
<1>. QED
  BY <1>3, <1>4

(* The first k items of v.                                                  *)
First(v, k) == [i \in 1..k |-> v[i]]

LEMMA FirstIs ==
  ASSUME NEW S, NEW v \in Seq(S)
  PROVE  /\ First(v, 0) = <<>>
         /\ First(v, Len(v)) = v
         /\ \A k \in 0..(Len(v) - 1) : /\ First(v, k) \in Seq(S)
                                       /\ v[k + 1] \in S
                                       /\ Append(First(v, k), v[k + 1]) = First(v, k + 1)
<1>. PICK n \in Nat : n = Len(v) /\ v \in [1..n -> S]
  OBVIOUS
<1>1. First(v, 0) = <<>>
  BY DEF First
<1>2. First(v, n) = v
  BY DEF First
<1>3. ASSUME NEW k \in 0..(n - 1)
      PROVE  /\ First(v, k) \in Seq(S)
             /\ v[k + 1] \in S
             /\ Append(First(v, k), v[k + 1]) = First(v, k + 1)
  <2>1. /\ k \in Nat /\ k + 1 \in 1..n
        /\ \A i \in 1..k : v[i] \in S
    OBVIOUS
  <2>2. First(v, k) \in [1..k -> S] /\ First(v, k) \in Seq(S) /\ Len(First(v, k)) = k
    BY <2>1 DEF First
  <2>3. v[k + 1] \in S
    BY <2>1
  <2>4. Append(First(v, k), v[k + 1]) = [i \in 1..(k + 1) |-> IF i \in 1..k THEN First(v, k)[i] ELSE v[k + 1]]
    BY <2>1, <2>2, <2>3
  <2>5. \A i \in 1..(k + 1) : i \in 1..k \/ i = k + 1
    BY <2>1
  <2>6. \A i \in 1..k : First(v, k)[i] = v[i]
    BY DEF First
  <2>7. First(v, k + 1) = [i \in 1..(k + 1) |-> v[i]]
    BY DEF First
  <2>. QED
    BY <2>2, <2>3, <2>4, <2>5, <2>6, <2>7
<1>. QED
  BY <1>1, <1>2, <1>3

LEMMA CopyKeeps ==
  ASSUME NEW s, NEW items, NEW wrong, Holding(s, items, wrong),
         NEW q \in Queues, NEW r \in Queues, items[q] = <<>>, Room(s, Len(items[r]))
  PROVE  Holding(Copied(s, q, r), [items EXCEPT ![q] = items[r]], wrong)
<1>. PICK v : v = items[r]
  OBVIOUS
<1>0. items \in [Queues -> Seq(Items)] /\ v \in Seq(Items)
  BY DEF Holding, Holds
<1>. PICK n \in Nat : n = Len(v)
  BY <1>0
<1>1. Data(s, r) = v
  BY DataIs DEF Holding
<1>2. PICK f : IsCopying(f, s, q, v, n) /\ Copied(s, q, r) = f[n]
  <2>1. Copied(s, q, r) = (CHOOSE f : IsCopying(f, s, q, v, n))[n]
    BY <1>1, Zenon DEF Copied, IsCopying
  <2>2. \E f : IsCopying(f, s, q, v, n)
    BY CopyingExists
  <2>. QED
    BY <2>1, <2>2, Zenon
<1>3. /\ f[0] = s
      /\ \A k \in 0..(n - 1) : f[k + 1] = Pushed(f[k], q, v[k + 1])
  <2>1. \A k \in 0..n : f[k] = IF k = 0 THEN s ELSE Pushed(f[k - 1], q, v[k])
    BY <1>2 DEF IsCopying
  <2>2. \A k \in 0..(n - 1) : k + 1 \in 0..n /\ k + 1 # 0 /\ (k + 1) - 1 = k
    OBVIOUS
  <2>. QED
    BY <2>1, <2>2
<1>. DEFINE At(k) == /\ Holding(f[k], [items EXCEPT ![q] = First(v, k)], wrong)
                     /\ Room(f[k], n - k)
<1>4. At(0)
  <2>1. [items EXCEPT ![q] = First(v, 0)] = items
    BY <1>0, FirstIs
  <2>2. Room(f[0], n - 0)
    BY <1>3
  <2>. QED
    BY <1>3, <2>1, <2>2
<1>5. ASSUME NEW k \in 0..(n - 1), At(k)
      PROVE  At(k + 1)
  <2>1. /\ (n - (k + 1)) \in Nat /\ (n - (k + 1)) + 1 = n - k
        /\ k \in 0..(Len(v) - 1)
    OBVIOUS
  <2>2. PICK now : now = [items EXCEPT ![q] = First(v, k)]
    OBVIOUS
  <2>3. /\ First(v, k) \in Seq(Items) /\ v[k + 1] \in Items
        /\ Append(First(v, k), v[k + 1]) = First(v, k + 1)
    <3>1. \A j \in 0..(Len(v) - 1) : /\ First(v, j) \in Seq(Items)
                                     /\ v[j + 1] \in Items
                                     /\ Append(First(v, j), v[j + 1]) = First(v, j + 1)
      BY <1>0, FirstIs
    <3>. QED
      BY <2>1, <3>1
  <2>4. [now EXCEPT ![q] = Append(@, v[k + 1])] = [items EXCEPT ![q] = First(v, k + 1)]
    BY <1>0, <2>2, <2>3
  <2>5. Holding(f[k], now, wrong) /\ Room(f[k], (n - (k + 1)) + 1)
    BY <1>5, <2>1, <2>2
  <2>6. /\ Holding(Pushed(f[k], q, v[k + 1]), [now EXCEPT ![q] = Append(@, v[k + 1])], wrong)
        /\ Room(Pushed(f[k], q, v[k + 1]), n - (k + 1))
    BY <2>1, <2>3, <2>5, PushKeeps
  <2>. QED
    BY <1>3, <2>4, <2>6
<1>. HIDE DEF At
<1>6. At(n)
  <2>1. SUFFICES ASSUME ~ At(n) PROVE FALSE
    OBVIOUS
  <2>. DEFINE T == {k \in 0..n : ~ At(k)}
  <2>2. T \in SUBSET Nat /\ n \in T
    BY <2>1
  <2>3. PICK k \in T : \A j \in T : k <= j
    BY <2>2, LeastElement
  <2>4. k \in 0..n /\ ~ At(k)
    BY <2>3
  <2>5. k # 0
    BY <1>4, <2>4
  <2>6. k - 1 \in 0..(n - 1) /\ (k - 1) + 1 = k
    BY <2>4, <2>5
  <2>7. At(k - 1)
    BY <2>3, <2>4, <2>6
  <2>. QED
    BY <1>5, <2>4, <2>6, <2>7
<1>7. Holding(f[n], [items EXCEPT ![q] = First(v, n)], wrong)
  BY <1>6 DEF At
<1>8. First(v, n) = v
  BY <1>0, FirstIs
<1>. QED
  BY <1>2, <1>7, <1>8

QueueInv == Holding(heap, contents, miscounted)

LEMMA QueueInvInit == QueueInit => QueueInv
<1>. SUFFICES ASSUME QueueInit PROVE QueueInv
  OBVIOUS
<1>. DEFINE chain == [q \in Queues |-> <<>>]
<1>1. /\ heap.queue = [q \in Queues |-> NewQueue] /\ heap.node = [n \in {} |-> Null]
      /\ contents = [q \in Queues |-> <<>>]
  BY DEF QueueInit
<1>2. /\ DOMAIN heap.node = {}
      /\ heap.node \in [DOMAIN heap.node -> [data : Items, next : Nodes \cup {Null}]]
  BY <1>1
<1>3. IsHeap(heap)
  BY <1>1, <1>2 DEF IsHeap, HasQueues, NewQueue
<1>4. \A q \in Queues : chain[q] = <<>> /\ contents[q] = <<>> /\ heap.queue[q] = NewQueue
  BY <1>1
<1>5. chain \in [Queues -> Seq(Nodes)] /\ contents \in [Queues -> Seq(Items)]
  BY <1>1
<1>. HIDE DEF chain
<1>6. ASSUME NEW q \in Queues PROVE \A n : ~ Has(chain[q], n)
  BY <1>4 DEF Has
<1>7. ASSUME NEW q \in Queues
      PROVE  Listed(heap, chain[q], heap.queue[q].head, heap.queue[q].tail)
  BY <1>4 DEF Listed, Links, NewQueue
<1>8. Chained(heap, chain)
  BY <1>2, <1>5, <1>6, <1>7 DEF Chained
<1>9. Holds(heap, chain, contents)
  BY <1>4, <1>5 DEF Holds
<1>10. Counted(heap, chain, miscounted)
  BY <1>4 DEF Counted, NewQueue
<1>. QED
  BY <1>3, <1>8, <1>9, <1>10 DEF QueueInv, Holding

LEMMA QueueStepKeeps ==
  ASSUME QueueInv, QueueNext
  PROVE  QueueInv'
<1>. USE DEF QueueInv
<1>1. ASSUME NEW q \in Queues, Pop(q) PROVE QueueInv'
  BY <1>1, PopKeeps DEF Pop
<1>2. ASSUME NEW q \in Queues, Clear(q) PROVE QueueInv'
  BY <1>2, ClearKeeps DEF Clear
<1>3. ASSUME NEW q \in Queues, NEW v \in Items, Push(q, v) PROVE QueueInv'
  <2>1. Room(heap, 0 + 1)
    BY <1>3 DEF Push
  <2>. QED
    BY <1>3, <2>1, PushKeeps DEF Push
<1>4. ASSUME NEW q \in Queues, NEW r \in Queues, CopyAssign(q, r) PROVE QueueInv'
  <2>1. PICK items : items = [contents EXCEPT ![q] = <<>>]
    OBVIOUS
  <2>2. PICK s : s = Cleared(heap, q)
    OBVIOUS
  <2>3. Holding(s, items, miscounted \ {q}) /\ contents \in [Queues -> Seq(Items)]
    BY <2>1, <2>2, ClearKeeps
  <2>4. items[q] = <<>> /\ items[r] = contents[r]
    BY <1>4, <2>1, <2>3 DEF CopyAssign
  <2>5. Len(Chain(heap, r)) = Len(contents[r])
    <3>1. PICK chain : Chained(heap, chain) /\ Holds(heap, chain, contents)
      BY DEF Holding
    <3>. QED
      BY <3>1, ChainIs DEF Holds
  <2>6. Room(s, Len(items[r]))
    BY <1>4, <2>2, <2>4, <2>5 DEF CopyAssign
  <2>7. Holding(Copied(s, q, r), [items EXCEPT ![q] = items[r]], miscounted \ {q})
    BY <2>3, <2>4, <2>6, CopyKeeps
  <2>8. [items EXCEPT ![q] = items[r]] = [contents EXCEPT ![q] = contents[r]]
    BY <2>1, <2>3, <2>4
  <2>. QED
    BY <1>4, <2>2, <2>7, <2>8 DEF CopyAssign
<1>5. ASSUME NEW q \in Queues, NEW r \in Queues, MoveConstruct(q, r) PROVE QueueInv'
  <2>1. PICK t : t = heap'
    OBVIOUS
  <2>2. /\ q # r /\ heap.queue[q] = NewQueue
        /\ t = [heap EXCEPT !.queue[q] = [@ EXCEPT !.head = heap.queue[r].head,
                                                  !.tail = heap.queue[r].tail],
                           !.queue[r] = [@ EXCEPT !.head = Null, !.tail = Null]]
    BY <1>5, <2>1, Zenon DEF MoveConstruct
  <2>3. Holding(t, [contents EXCEPT ![q] = contents[r], ![r] = <<>>], miscounted \cup {q, r})
    BY <2>2, MoveConstructKeeps, Zenon
  <2>. QED
    BY <1>5, <2>1, <2>3, Zenon DEF MoveConstruct
<1>6. ASSUME NEW q \in Queues, NEW r \in Queues, MoveAssign(q, r) PROVE QueueInv'
  <2>1. PICK t : t = heap'
    OBVIOUS
  <2>2. t = [heap EXCEPT !.queue[q] = heap.queue[r], !.queue[r] = heap.queue[q]]
    BY <1>6, <2>1, Zenon DEF MoveAssign
  <2>3. Holding(t, [contents EXCEPT ![q] = contents[r], ![r] = contents[q]],
                Miscounted(q, r, miscounted))
    BY <2>2, MoveAssignKeeps, Zenon
  <2>4. miscounted' = Miscounted(q, r, miscounted)
    BY <1>6, Zenon DEF MoveAssign, Miscounted
  <2>. QED
    BY <1>6, <2>1, <2>3, <2>4, Zenon DEF MoveAssign
<1>. QED
  BY <1>1, <1>2, <1>3, <1>4, <1>5, <1>6 DEF QueueNext

LEMMA QueueInvIntact == QueueInv => QueuesIntact
<1>. SUFFICES ASSUME QueueInv PROVE QueuesIntact
  OBVIOUS
<1>1. PICK chain : /\ Chained(heap, chain) /\ Holds(heap, chain, contents)
                   /\ Counted(heap, chain, miscounted)
  BY DEF QueueInv, Holding
<1>2. ASSUME NEW q \in Queues
      PROVE  /\ Chain(heap, q) = chain[q]
             /\ \A n : n \in ToSet(chain[q]) <=> Has(chain[q], n)
             /\ ToSet(chain[q]) \subseteq Allocated(heap)
  <2>1. Chain(heap, q) = chain[q]
    BY <1>1, ChainIs
  <2>2. DOMAIN chain[q] = 1..Len(chain[q])
    BY <1>1, ChainNodes
  <2>3. \A i \in 1..Len(chain[q]) : chain[q][i] \in DOMAIN heap.node
    BY <1>1, ChainNodes
  <2>4. \A n : n \in ToSet(chain[q]) <=> Has(chain[q], n)
    BY <2>2, Zenon DEF ToSet, Has
  <2>. QED
    BY <2>1, <2>3, <2>4 DEF Has, Allocated
<1>3. ASSUME NEW q \in Queues
      PROVE  LET c == Chain(heap, q) IN
               /\ ToSet(c) \subseteq Allocated(heap)
               /\ Data(heap, q) = contents[q]
               /\ heap.queue[q].tail = IF c = <<>> THEN Null ELSE c[Len(c)]
               /\ q \notin miscounted => heap.queue[q].size = Len(c)
  <2>1. Data(heap, q) = contents[q]
    BY <1>1, DataIs
  <2>2. heap.queue[q].tail = IF chain[q] = <<>> THEN Null ELSE chain[q][Len(chain[q])]
    BY <1>1 DEF Chained, Listed
  <2>. QED
    BY <1>1, <1>2, <2>1, <2>2 DEF Counted
<1>4. ASSUME NEW n \in Allocated(heap)
      PROVE  Cardinality({q \in Queues : n \in ToSet(Chain(heap, q))}) = 1
  <2>1. n \in Nodes /\ n \in DOMAIN heap.node
    BY DEF QueueInv, Holding, IsHeap, Allocated
  <2>2. PICK q \in Queues : Has(chain[q], n)
    BY <1>1, <2>1 DEF Chained
  <2>3. \A r \in Queues : Has(chain[r], n) => r = q
    BY <1>1, <2>1, <2>2 DEF Chained
  <2>4. \A r \in Queues : n \in ToSet(Chain(heap, r)) <=> r = q
    BY <1>2, <2>2, <2>3
  <2>5. {r \in Queues : n \in ToSet(Chain(heap, r))} = {q}
    BY <2>2, <2>4
  <2>. QED
    BY <2>5, FS_Singleton
<1>. QED
  BY <1>3, <1>4 DEF QueuesIntact

LEMMA QueueInvariance == Spec => []QueueInv
<1>1. Init => QueueInv
  BY QueueInvInit DEF Init
<1>2. QueueInv /\ [Next]_vars => QueueInv'
  <2> SUFFICES ASSUME QueueInv, [Next]_vars PROVE QueueInv'
    OBVIOUS
  <2>1. CASE QueueNext
    BY <2>1, QueueStepKeeps
  <2>2. CASE UNCHANGED queueVars
    <3>1. heap' = heap /\ contents' = contents /\ miscounted' = miscounted
      BY <2>2 DEF queueVars
    <3>. QED
      BY <3>1 DEF QueueInv
  <2>. QED
    BY <2>1, <2>2, PartSteps
<1>. QED
  BY <1>1, <1>2, PTL DEF Spec

(* A Queue holds what its users pushed and did not pop, in order, in nodes  *)
(* that are its own; no node is lost or deleted twice, whatever is moved,   *)
(* copied or cleared; and _size is right for every queue that no transfer   *)
(* with the size left behind has touched.                                   *)
THEOREM QueuesKeepItems == Spec => []QueuesIntact
<1>1. QueueInv => QueuesIntact
  BY QueueInvIntact
<1>. QED
  BY <1>1, QueueInvariance, PTL

-----------------------------------------------------------------------------
(* FlatMap.                                                                 *)

(* The states of the search that the loop goes through.                     *)
Begun(c) == [low |-> 0, high |-> Len(c) - 1, mid |-> 0, found |-> FALSE]

IsSearch(f, c, key, n) ==
  f = [k \in 0..n |-> IF k = 0 THEN Begun(c) ELSE Halved(c, key, f[k - 1])]

LEMMA SearchesExist ==
  ASSUME NEW c, NEW key
  PROVE  \A n \in Nat : \E f : IsSearch(f, c, key, n)
<1>1. SUFFICES ASSUME ~ \A n \in Nat : \E f : IsSearch(f, c, key, n)
               PROVE  FALSE
  OBVIOUS
<1>2. PICK n \in Nat : /\ ~ \E f : IsSearch(f, c, key, n)
                       /\ \A k \in Nat : k < n => \E f : IsSearch(f, c, key, k)
  <2>. DEFINE T == {k \in Nat : ~ \E f : IsSearch(f, c, key, k)}
  <2>1. T \in SUBSET Nat /\ T # {}
    BY <1>1
  <2>2. PICK n \in T : \A k \in T : n <= k
    BY <2>1, LeastElement
  <2>3. n \in Nat /\ ~ \E f : IsSearch(f, c, key, n)
    BY <2>2
  <2>4. ASSUME NEW k \in Nat, k < n PROVE \E f : IsSearch(f, c, key, k)
    BY <2>2, <2>3, <2>4
  <2>. QED
    BY <2>3, <2>4
<1>3. CASE n = 0
  <2>1. IsSearch([k \in 0..0 |-> Begun(c)], c, key, 0)
    BY DEF IsSearch
  <2>. QED
    BY <1>2, <1>3, <2>1
<1>4. CASE n # 0
  <2>1. PICK f : IsSearch(f, c, key, n - 1)
    BY <1>2, <1>4
  <2>. DEFINE g == [k \in 0..n |-> IF k = 0 THEN Begun(c) ELSE Halved(c, key, f[k - 1])]
  <2>2. \A k \in 0..(n - 1) : g[k] = f[k]
    <3>1. \A k \in 0..(n - 1) : f[k] = IF k = 0 THEN Begun(c) ELSE Halved(c, key, f[k - 1])
      BY <2>1 DEF IsSearch
    <3>. QED
      BY <1>2, <3>1
  <2>3. \A k \in 0..n : k # 0 => g[k - 1] = f[k - 1]
    <3>1. \A k \in 0..n : k # 0 => k - 1 \in 0..(n - 1)
      BY <1>2
    <3>. QED
      BY <2>2, <3>1
  <2>4. IsSearch(g, c, key, n)
    BY <2>3 DEF IsSearch
  <2>. QED
    BY <1>2, <2>4
<1>. QED
  BY <1>3, <1>4

(* A vector of entries.                                                     *)
Entries == Seq(Keys \X MapValues)

LEMMA EntriesAre ==
  ASSUME NEW c \in Entries
  PROVE  /\ Len(c) \in Nat
         /\ DOMAIN c = 1..Len(c)
         /\ \A i \in 1..Len(c) : c[i][1] \in Keys /\ c[i][1] \in Int
         /\ \A i \in 0..(Len(c) - 1) : Key(c, i) = c[i + 1][1] /\ Key(c, i) \in Int
<1>1. Len(c) \in Nat /\ DOMAIN c = 1..Len(c)
  BY DEF Entries
<1>2. \A i \in 1..Len(c) : c[i] \in Keys \X MapValues
  BY DEF Entries
<1>3. \A i \in 1..Len(c) : c[i][1] \in Keys /\ c[i][1] \in Int
  BY <1>2, FlatMapAssumption
<1>4. PICK n \in Nat : n = Len(c)
  BY <1>1
<1>5. \A i \in 0..(n - 1) : i + 1 \in 1..n
  BY <1>4
<1>6. \A i \in 0..(Len(c) - 1) : i + 1 \in 1..Len(c)
  BY <1>4, <1>5
<1>. QED
  BY <1>1, <1>3, <1>6 DEF Key

(* What holds of the search between two turns: where the entries stand in   *)
(* order, those below low are smaller and those above high are larger; the  *)
(* entry last looked at is the one before low when the loop has ended, or   *)
(* the one at low.                                                          *)
Narrowed(c, key, s) ==
  /\ s.low \in 0..Len(c) /\ s.high \in 0..(Len(c) - 1) /\ s.mid \in 0..(Len(c) - 1)
  /\ s.found \in BOOLEAN
  /\ s.low <= s.high + 1
  /\ s.found => Key(c, s.mid) = key
  /\ s.low > s.high => s.mid \in {s.low - 1, s.low}
  /\ InOrder(c) => /\ \A i \in 0..(s.low - 1) : Key(c, i) < key
                   /\ \A i \in (s.high + 1)..(Len(c) - 1) : Key(c, i) > key

(* The number of entries that are left to search in.                        *)
Left(s) == IF s.found THEN 0 ELSE (s.high + 1) - s.low

LEMMA BegunIs ==
  ASSUME NEW c \in Entries, c # <<>>, NEW key \in Keys
  PROVE  Narrowed(c, key, Begun(c)) /\ Left(Begun(c)) = Len(c)
<1>1. PICK n \in Nat : n = Len(c)
  BY EntriesAre
<1>2. n # 0
  BY <1>1, EmptySeq DEF Entries
<1>3. n \in Nat /\ n # 0
  BY <1>1, <1>2
<1>4. PICK s : s = Begun(c)
  OBVIOUS
<1>5. s.low = 0 /\ s.high = n - 1 /\ s.mid = 0 /\ ~ s.found /\ s.found = FALSE
  BY <1>1, <1>4 DEF Begun
<1>6. s.low \in 0..n /\ s.high \in 0..(n - 1) /\ s.mid \in 0..(n - 1) /\ s.low <= s.high + 1
      /\ ~ (s.low > s.high) /\ 0..(s.low - 1) = {} /\ (s.high + 1)..(n - 1) = {}
      /\ (s.high + 1) - s.low = n
  BY <1>3, <1>5
<1>. QED
  BY <1>1, <1>4, <1>5, <1>6 DEF Narrowed, Left

LEMMA HalvedIs ==
  ASSUME NEW c \in Entries, NEW key \in Keys, key >= Key(c, 0),
         NEW s, Narrowed(c, key, s)
  PROVE  LET t == Halved(c, key, s) IN
           /\ Narrowed(c, key, t)
           /\ Left(s) <= 0 => Left(t) <= 0
           /\ Left(s) > 0 => Left(t) < Left(s)
<1>. DEFINE t == Halved(c, key, s)
<1>1. PICK n \in Nat : n = Len(c)
  BY EntriesAre
<1>2. PICK low, high, mid : low = s.low /\ high = s.high /\ mid = s.mid
  OBVIOUS
<1>3. /\ n \in Nat /\ low \in 0..n /\ high \in 0..(n - 1) /\ mid \in 0..(n - 1)
      /\ low <= high + 1 /\ s.found \in BOOLEAN
  BY <1>1, <1>2 DEF Narrowed
<1>4. /\ key \in Int
      /\ \A i \in 0..(n - 1) : Key(c, i) = c[i + 1][1] /\ Key(c, i) \in Int
  BY <1>1, EntriesAre, FlatMapAssumption
<1>5. high # -1
  BY <1>3
<1>6. CASE s.found \/ low > high
  <2>1. t = s
    BY <1>2, <1>5, <1>6 DEF Halved
  <2>2. Left(s) <= 0
    BY <1>2, <1>3, <1>6 DEF Left
  <2>3. Left(s) \in Int
    BY <1>2, <1>3 DEF Left
  <2>. QED
    BY <2>1, <2>2, <2>3
<1>7. CASE ~ s.found /\ low <= high
  <2>. PICK m : m = low + (high - low) \div 2
    OBVIOUS
  <2>0. /\ s.low + (s.high - s.low) \div 2 = m /\ s.high # -1
        /\ ~ (s.found \/ s.low > s.high)
    BY <1>2, <1>3, <1>5, <1>7
  <2>1. m \in Int /\ low <= m /\ m <= high
    BY <1>3, <1>7
  <2>2. m \in 0..(n - 1) /\ Key(c, m) \in Int
    BY <1>3, <1>4, <2>1
  <2>3. Left(s) = (high + 1) - low /\ Left(s) \in Int /\ Left(s) > 0
    BY <1>2, <1>3, <1>7 DEF Left
  <2>4. CASE Key(c, m) = key
    <3>1. PICK t1 : t1 = [low |-> low, high |-> high, mid |-> m, found |-> TRUE]
      OBVIOUS
    <3>2. t = t1
      BY <1>2, <2>0, <2>4, <3>1, Zenon DEF Halved
    <3>3. t1.low = low /\ t1.high = high /\ t1.mid = m /\ t1.found = TRUE
      BY <3>1
    <3>4. Narrowed(c, key, t1)
      <4>1. /\ t1.low \in 0..n /\ t1.high \in 0..(n - 1) /\ t1.mid \in 0..(n - 1)
            /\ t1.low <= t1.high + 1 /\ ~ (t1.low > t1.high)
        BY <1>3, <1>7, <2>2, <3>3
      <4>2. t1.found \in BOOLEAN
        BY <3>3
      <4>3. InOrder(c) => /\ \A i \in 0..(low - 1) : Key(c, i) < key
                          /\ \A i \in (high + 1)..(n - 1) : Key(c, i) > key
        BY <1>1, <1>2 DEF Narrowed
      <4>. QED
        BY <1>1, <2>4, <3>3, <4>1, <4>2, <4>3 DEF Narrowed
    <3>5. Left(t1) = 0
      BY <3>3 DEF Left
    <3>. QED
      BY <2>3, <3>2, <3>4, <3>5
  <2>5. CASE Key(c, m) < key
    <3>1. PICK t1 : t1 = [low |-> m + 1, high |-> high, mid |-> m, found |-> FALSE]
      OBVIOUS
    <3>2. Key(c, m) # key
      BY <1>4, <2>2, <2>5
    <3>3. t = t1
      BY <1>2, <2>0, <2>5, <3>1, <3>2, Zenon DEF Halved
    <3>4. t1.low = m + 1 /\ t1.high = high /\ t1.mid = m /\ t1.found = FALSE
      BY <3>1
    <3>5. ASSUME InOrder(c)
          PROVE  \A i \in 0..m : Key(c, i) < key
      <4>. TAKE i \in 0..m
      <4>1. i + 1 \in 1..n /\ m + 1 \in 1..n /\ i \in 0..(n - 1) /\ (i = m \/ i + 1 < m + 1)
        BY <1>3, <2>2
      <4>2. DOMAIN c = 1..n
        BY <1>1, EntriesAre
      <4>3. i = m \/ c[i + 1][1] < c[m + 1][1]
        BY <3>5, <4>1, <4>2 DEF InOrder
      <4>4. Key(c, i) = c[i + 1][1] /\ Key(c, i) \in Int /\ Key(c, m) = c[m + 1][1]
        BY <1>4, <2>2, <4>1
      <4>. QED
        BY <1>4, <2>2, <2>5, <4>3, <4>4
    <3>6. Narrowed(c, key, t1)
      <4>1. /\ t1.low \in 0..n /\ t1.high \in 0..(n - 1) /\ t1.mid \in 0..(n - 1)
            /\ t1.low <= t1.high + 1 /\ t1.mid = t1.low - 1 /\ t1.low - 1 = m
        BY <1>3, <2>1, <2>2, <3>4
      <4>3. t1.found \in BOOLEAN /\ ~ t1.found
        BY <3>4
      <4>2. InOrder(c) => \A i \in (high + 1)..(n - 1) : Key(c, i) > key
        BY <1>1, <1>2 DEF Narrowed
      <4>. QED
        BY <1>1, <3>4, <3>5, <4>1, <4>2, <4>3 DEF Narrowed
    <3>7. Left(t1) = (high + 1) - (m + 1)
      BY <3>4 DEF Left
    <3>. QED
      BY <1>3, <2>1, <2>3, <3>3, <3>6, <3>7
  <2>6. CASE Key(c, m) > key
    <3>1. PICK t1 : t1 = [low |-> low, high |-> m - 1, mid |-> m, found |-> FALSE]
      OBVIOUS
    <3>2. Key(c, m) # key /\ ~ (Key(c, m) < key)
      BY <1>4, <2>2, <2>6
    <3>3. t = t1
      BY <1>2, <2>0, <3>1, <3>2, Zenon DEF Halved
    <3>4. t1.low = low /\ t1.high = m - 1 /\ t1.mid = m /\ t1.found = FALSE
      BY <3>1
    <3>5. m # 0
      BY <1>4, <2>2, <2>6
    <3>6. ASSUME InOrder(c)
          PROVE  \A i \in m..(n - 1) : Key(c, i) > key
      <4>. TAKE i \in m..(n - 1)
      <4>1. i + 1 \in 1..n /\ m + 1 \in 1..n /\ i \in 0..(n - 1) /\ (i = m \/ m + 1 < i + 1)
        BY <1>3, <2>2
      <4>2. DOMAIN c = 1..n
        BY <1>1, EntriesAre
      <4>3. i = m \/ c[m + 1][1] < c[i + 1][1]
        BY <3>6, <4>1, <4>2 DEF InOrder
      <4>4. Key(c, i) = c[i + 1][1] /\ Key(c, i) \in Int /\ Key(c, m) = c[m + 1][1]
        BY <1>4, <2>2, <4>1
      <4>. QED
        BY <1>4, <2>2, <2>6, <4>3, <4>4
    <3>7. Narrowed(c, key, t1)
      <4>1. /\ t1.low \in 0..n /\ t1.high \in 0..(n - 1) /\ t1.mid \in 0..(n - 1)
            /\ t1.low <= t1.high + 1 /\ t1.high + 1 = m
            /\ (t1.low > t1.high => t1.mid = t1.low)
        BY <1>3, <2>1, <2>2, <3>4, <3>5
      <4>3. t1.found \in BOOLEAN /\ ~ t1.found
        BY <3>4
      <4>2. InOrder(c) => \A i \in 0..(low - 1) : Key(c, i) < key
        BY <1>1, <1>2 DEF Narrowed
      <4>. QED
        BY <1>1, <3>4, <3>6, <4>1, <4>2, <4>3 DEF Narrowed
    <3>8. Left(t1) = ((m - 1) + 1) - low
      BY <3>4 DEF Left
    <3>. QED
      BY <1>3, <2>1, <2>3, <3>3, <3>7, <3>8
  <2>. QED
    BY <1>4, <2>2, <2>4, <2>5, <2>6
<1>. QED
  BY <1>3, <1>6, <1>7

(* The search ends, in a state that the narrowing allows.                   *)
LEMMA SearchEnds ==
  ASSUME NEW c \in Entries, c # <<>>, NEW key \in Keys, key >= Key(c, 0)
  PROVE  \E s : /\ Narrowed(c, key, s) /\ Left(s) <= 0
                /\ Search(c, key).found = s.found
                /\ Search(c, key).index = s.mid
<1>. PICK n \in Nat : n = Len(c)
  BY EntriesAre
<1>1. PICK f : /\ IsSearch(f, c, key, n + 1)
               /\ Search(c, key) = [found |-> f[n + 1].found, index |-> f[n + 1].mid]
  <2>1. PICK f : f = CHOOSE g : IsSearch(g, c, key, n + 1)
    OBVIOUS
  <2>2. Search(c, key) = [found |-> f[n + 1].found, index |-> f[n + 1].mid]
    BY <2>1, Zenon DEF Search, IsSearch, Begun
  <2>3. \E g : IsSearch(g, c, key, n + 1)
    BY SearchesExist
  <2>. QED
    BY <2>1, <2>2, <2>3, Zenon
<1>2. /\ f[0] = Begun(c)
      /\ \A k \in 0..n : f[k + 1] = Halved(c, key, f[k])
  <2>1. \A k \in 0..(n + 1) : f[k] = IF k = 0 THEN Begun(c) ELSE Halved(c, key, f[k - 1])
    BY <1>1 DEF IsSearch
  <2>2. \A k \in 0..n : k + 1 \in 0..(n + 1) /\ k + 1 # 0 /\ (k + 1) - 1 = k
    OBVIOUS
  <2>. QED
    BY <2>1, <2>2
<1>. DEFINE At(k) == Narrowed(c, key, f[k]) /\ (Left(f[k]) <= 0 \/ Left(f[k]) <= n - k)
<1>3. At(0)
  BY <1>2, BegunIs
<1>4. ASSUME NEW k \in 0..n, At(k)
      PROVE  At(k + 1)
  <2>1. PICK s, t : s = f[k] /\ t = f[k + 1]
    OBVIOUS
  <2>2. Narrowed(c, key, s) /\ t = Halved(c, key, s)
    BY <1>2, <1>4, <2>1
  <2>3. /\ Narrowed(c, key, t)
        /\ Left(s) <= 0 => Left(t) <= 0
        /\ Left(s) > 0 => Left(t) < Left(s)
    BY <2>2, HalvedIs
  <2>4. Left(s) \in Int /\ Left(t) \in Int
    BY <2>2, <2>3, SMTT(90) DEF Left, Narrowed
  <2>5. Left(s) <= 0 \/ Left(s) <= n - k
    BY <1>4, <2>1
  <2>6. Left(t) <= 0 \/ Left(t) <= n - (k + 1)
    BY <2>3, <2>4, <2>5
  <2>. QED
    BY <2>1, <2>3, <2>6
<1>. HIDE DEF At
<1>5. At(n + 1)
  <2>1. SUFFICES ASSUME ~ At(n + 1) PROVE FALSE
    OBVIOUS
  <2>. DEFINE T == {k \in 0..(n + 1) : ~ At(k)}
  <2>2. T \in SUBSET Nat /\ n + 1 \in T
    BY <2>1
  <2>3. PICK k \in T : \A j \in T : k <= j
    BY <2>2, LeastElement
  <2>4. k \in 0..(n + 1) /\ ~ At(k)
    BY <2>3
  <2>5. k # 0
    BY <1>3, <2>4
  <2>6. k - 1 \in 0..n /\ (k - 1) + 1 = k
    BY <2>4, <2>5
  <2>7. At(k - 1)
    BY <2>3, <2>4, <2>6
  <2>. QED
    BY <1>4, <2>4, <2>6, <2>7
<1>6. PICK s : s = f[n + 1]
  OBVIOUS
<1>7. Narrowed(c, key, s) /\ (Left(s) <= 0 \/ Left(s) <= n - (n + 1))
  BY <1>5, <1>6 DEF At
<1>8. Left(s) <= 0
  BY <1>7 DEF Left, Narrowed
<1>9. Search(c, key).found = s.found /\ Search(c, key).index = s.mid
  BY <1>1, <1>6
<1>. QED
  BY <1>7, <1>8, <1>9

(* The indices (from 1) of the entries with a smaller key.                  *)
Smaller(c, key) == {i \in DOMAIN c : c[i][1] < key}

LEMMA BinarySearchIs ==
  ASSUME NEW c \in Entries, NEW key \in Keys
  PROVE  LET res == binary_search(c, key) IN
           /\ res.index \in 0..Len(c)
           /\ res.found => res.index < Len(c) /\ Key(c, res.index) = key
           /\ c # <<>> => res.index < Len(c)
           /\ InOrder(c) =>
                /\ res.found <=> \E i \in DOMAIN c : c[i][1] = key
                /\ \E low \in 0..Len(c) : /\ Smaller(c, key) = 1..low
                                          /\ low - res.index \in {0, 1}
<1>. DEFINE res == binary_search(c, key)
<1>. PICK n \in Nat : n = Len(c)
  BY EntriesAre
<1>1. /\ key \in Int /\ DOMAIN c = 1..n
      /\ \A i \in 1..n : c[i][1] \in Int
      /\ \A i \in 0..(n - 1) : Key(c, i) = c[i + 1][1] /\ Key(c, i) \in Int
  BY EntriesAre, FlatMapAssumption
<1>2. \A i \in 1..n : i - 1 \in 0..(n - 1) /\ (i - 1) + 1 = i /\ Key(c, i - 1) = c[i][1]
  <2>1. \A i \in 1..n : i - 1 \in 0..(n - 1) /\ (i - 1) + 1 = i
    OBVIOUS
  <2>. QED
    BY <1>1, <2>1
<1>3. c # <<>> => n \in Nat \ {0}
  BY EmptySeq DEF Entries
<1>4. CASE c = <<>>
  <2>1. res.index = 0 /\ res.found = FALSE
    BY <1>4 DEF binary_search
  <2>2. n = 0 /\ DOMAIN c = {} /\ Smaller(c, key) = {} /\ 1..0 = {} /\ 0 - 0 = 0
    BY <1>1, <1>4 DEF Smaller
  <2>3. 0 \in 0..n
    OBVIOUS
  <2>. QED
    BY <1>4, <2>1, <2>2, <2>3
<1>5. CASE c # <<>> /\ key < Key(c, 0)
  <2>1. res.index = 0 /\ res.found = FALSE
    BY <1>5 DEF binary_search
  <2>2. 0 \in 0..n /\ 0 < n /\ 1..0 = {} /\ 0 - 0 = 0 /\ 1 \in 1..n /\ 0 \in 0..(n - 1) /\ 0 + 1 = 1
    BY <1>3, <1>5
  <2>3. ASSUME InOrder(c)
        PROVE  \A i \in 1..n : c[i][1] > key
    <3>. TAKE i \in 1..n
    <3>1. c[1][1] > key /\ c[1][1] \in Int
      BY <1>1, <1>5, <2>2
    <3>2. i = 1 \/ c[1][1] < c[i][1]
      <4>1. i = 1 \/ 1 < i
        OBVIOUS
      <4>. QED
        BY <1>1, <2>2, <2>3, <4>1 DEF InOrder
    <3>. QED
      BY <1>1, <3>1, <3>2
  <2>4. ASSUME InOrder(c)
        PROVE  Smaller(c, key) = {} /\ ~ \E i \in DOMAIN c : c[i][1] = key
    BY <1>1, <2>3, <2>4 DEF Smaller
  <2>. QED
    BY <2>1, <2>2, <2>4
<1>6. CASE c # <<>> /\ key >= Key(c, 0)
  <2>0. ~ (key < Key(c, 0))
    <3>1. 0 \in 0..(n - 1)
      BY <1>3, <1>6
    <3>. QED
      BY <1>1, <1>6, <3>1
  <2>1. PICK s : /\ Narrowed(c, key, s) /\ Left(s) <= 0
                 /\ Search(c, key).found = s.found
                 /\ Search(c, key).index = s.mid
    BY <1>6, SearchEnds
  <2>2. res.found = s.found /\ res.index = s.mid
    BY <1>6, <2>0, <2>1, Zenon DEF binary_search
  <2>3. PICK low, high, mid : low = s.low /\ high = s.high /\ mid = s.mid
    OBVIOUS
  <2>4. /\ low \in 0..n /\ high \in 0..(n - 1) /\ mid \in 0..(n - 1) /\ low <= high + 1
        /\ s.found \in BOOLEAN
        /\ s.found => Key(c, mid) = key
        /\ low > high => mid \in {low - 1, low}
        /\ InOrder(c) => /\ \A i \in 0..(low - 1) : Key(c, i) < key
                         /\ \A i \in (high + 1)..(n - 1) : Key(c, i) > key
    BY <2>1, <2>3 DEF Narrowed
  <2>5. mid \in 0..n /\ mid < n
    BY <2>4
  <2>6. ASSUME InOrder(c)
        PROVE  /\ res.found <=> \E i \in DOMAIN c : c[i][1] = key
               /\ \E k \in 0..n : Smaller(c, key) = 1..k /\ k - mid \in {0, 1}
    <3>1. CASE s.found
      <4>1. mid + 1 \in 1..n /\ c[mid + 1][1] = key
        BY <1>1, <2>4, <3>1
      <4>2. \A i \in 1..n : c[i][1] < key <=> i \in 1..mid
        <5>. TAKE i \in 1..n
        <5>1. CASE i < mid + 1
          <6>1. c[i][1] < c[mid + 1][1]
            BY <1>1, <2>6, <4>1, <5>1 DEF InOrder
          <6>. QED
            BY <2>4, <4>1, <5>1, <6>1
        <5>2. CASE i = mid + 1
          BY <1>1, <2>4, <4>1, <5>2
        <5>3. CASE mid + 1 < i
          <6>1. c[mid + 1][1] < c[i][1]
            BY <1>1, <2>6, <4>1, <5>3 DEF InOrder
          <6>. QED
            BY <1>1, <2>4, <4>1, <5>3, <6>1
        <5>. QED
          BY <2>4, <5>1, <5>2, <5>3
      <4>3. \A i \in 1..mid : i \in 1..n
        BY <2>4
      <4>4. Smaller(c, key) = 1..mid
        BY <1>1, <4>2, <4>3 DEF Smaller
      <4>5. mid - mid = 0
        BY <2>4
      <4>. QED
        BY <1>1, <2>2, <2>5, <3>1, <4>1, <4>4, <4>5
    <3>2. CASE ~ s.found
      <4>1. low = high + 1
        BY <2>1, <2>3, <2>4, <3>2 DEF Left
      <4>2. \A i \in 1..n : i <= low \/ i > low
        BY <2>4
      <4>3. \A i \in 1..n : i <= low => c[i][1] < key
        <5>. TAKE i \in 1..n
        <5>1. i <= low => i - 1 \in 0..(low - 1)
          BY <2>4
        <5>. QED
          BY <1>2, <2>4, <2>6, <5>1
      <4>4. \A i \in 1..n : i > low => c[i][1] > key
        <5>. TAKE i \in 1..n
        <5>1. i > low => i - 1 \in (high + 1)..(n - 1)
          BY <2>4, <4>1
        <5>. QED
          BY <1>2, <2>4, <2>6, <5>1
      <4>5. \A i \in 1..n : c[i][1] < key <=> i \in 1..low
        BY <1>1, <2>4, <4>3, <4>4
      <4>6. \A i \in 1..low : i \in 1..n
        BY <2>4
      <4>7. Smaller(c, key) = 1..low
        BY <1>1, <4>5, <4>6 DEF Smaller
      <4>8. \A i \in 1..n : c[i][1] # key
        BY <1>1, <2>4, <4>3, <4>4
      <4>9. low - mid \in {0, 1}
        BY <2>4, <4>1
      <4>. QED
        BY <1>1, <2>2, <2>4, <3>2, <4>7, <4>8, <4>9
    <3>. QED
      BY <2>4, <3>1, <3>2
  <2>. QED
    BY <2>2, <2>3, <2>4, <2>5, <2>6
<1>7. c # <<>> => key < Key(c, 0) \/ key >= Key(c, 0)
  <2>1. c # <<>> => 0 \in 0..(n - 1)
    BY <1>3
  <2>. QED
    BY <1>1, <2>1
<1>. QED
  BY <1>4, <1>5, <1>6, <1>7

MapInv == container_ \in Entries

LEMMA InsertedAtIs ==
  ASSUME NEW c \in Entries, NEW i \in 0..Len(c), NEW e \in Keys \X MapValues
  PROVE  /\ InsertedAt(c, i, e) \in Entries
         /\ InsertedAt(c, i, e)[i + 1] = e
         /\ i + 1 \in 1..Len(InsertedAt(c, i, e))
<1>. DEFINE E == Keys \X MapValues
            front == SubSeq(c, 1, i)
            back == SubSeq(c, i + 1, Len(c))
<1>1. c \in Seq(E) /\ Len(c) \in Nat /\ i \in Nat
  BY DEF Entries
<1>2. front \in Seq(E) /\ back \in Seq(E) /\ Len(front) = i
  BY <1>1
<1>. HIDE DEF E, front, back
<1>3. PICK a \in Seq(E) : a = front /\ Len(a) = i
  BY <1>2
<1>4. PICK b \in Seq(E) : b = back
  BY <1>2
<1>5. e \in E
  BY DEF E
<1>6. PICK d : d = a \o <<e>>
  OBVIOUS
<1>7. d \in Seq(E) /\ Len(d) = i + 1 /\ d[i + 1] = e
  <2>1. d = Append(a, e)
    BY <1>3, <1>5, <1>6
  <2>. QED
    BY <1>3, <1>5, <2>1, AppendIs
<1>8. d \o b \in Seq(E) /\ (d \o b)[i + 1] = e /\ i + 1 \in 1..Len(d \o b)
  <2>1. PICK m \in Nat : m = Len(b)
    OBVIOUS
  <2>2. i + 1 \in 1..((i + 1) + m) /\ i + 1 <= i + 1
    BY <1>1
  <2>3. /\ d \o b \in Seq(E) /\ Len(d \o b) = Len(d) + Len(b)
        /\ \A j \in 1..(Len(d) + Len(b)) : (d \o b)[j] = IF j <= Len(d) THEN d[j] ELSE b[j - Len(d)]
    BY <1>7, ConcatProperties
  <2>4. Len(d \o b) = (i + 1) + m
    BY <1>7, <2>1, <2>3
  <2>. QED
    BY <1>7, <2>1, <2>2, <2>3, <2>4
<1>9. InsertedAt(c, i, e) = d \o b
  BY <1>3, <1>4, <1>6 DEF InsertedAt, front, back
<1>. QED
  BY <1>8, <1>9 DEF Entries, E

LEMMA RemovedAtIs ==
  ASSUME NEW c \in Entries, NEW i \in 0..(Len(c) - 1)
  PROVE  RemovedAt(c, i) \in Entries
<1>1. SubSeq(c, 1, i) \in Entries /\ SubSeq(c, i + 2, Len(c)) \in Entries
  BY DEF Entries
<1>. QED
  BY <1>1 DEF RemovedAt, Entries

(* Where the entry of a key is after an insertion, or was already.          *)
LEMMA InsertedIs ==
  ASSUME NEW c \in Entries, NEW key \in Keys, NEW value \in MapValues, NEW over \in BOOLEAN
  PROVE  /\ Inserted(c, key, value, over) \in Entries
         /\ binary_search(c, key).index + 1 \in 1..Len(Inserted(c, key, value, over))
         /\ Key(Inserted(c, key, value, over), binary_search(c, key).index) = key
<1>. PICK res : res = binary_search(c, key)
  OBVIOUS
<1>. PICK d : d = Inserted(c, key, value, over)
  OBVIOUS
<1>. PICK e : e = <<key, value>>
  OBVIOUS
<1>0. e \in Keys \X MapValues /\ e[1] = key
  OBVIOUS
<1>. PICK n \in Nat : n = Len(c)
  BY EntriesAre
<1>1. /\ res.index \in 0..n
      /\ res.found => res.index < n /\ Key(c, res.index) = key
  BY BinarySearchIs
<1>2. CASE ~ res.found
  <2>1. d = InsertedAt(c, res.index, e)
    BY <1>2, Zenon DEF Inserted
  <2>2. d \in Entries /\ d[res.index + 1] = e /\ res.index + 1 \in 1..Len(d)
    <3>1. PICK i \in 0..Len(c) : i = res.index
      BY <1>1
    <3>2. /\ InsertedAt(c, i, e) \in Entries
          /\ InsertedAt(c, i, e)[i + 1] = e
          /\ i + 1 \in 1..Len(InsertedAt(c, i, e))
      BY <1>0, InsertedAtIs
    <3>. QED
      BY <2>1, <3>1, <3>2
  <2>. QED
    BY <1>0, <2>2 DEF Key
<1>3. CASE res.found /\ over
  <2>1. d = [c EXCEPT ![res.index + 1] = e]
    BY <1>3, Zenon DEF Inserted
  <2>2. res.index + 1 \in 1..n
    BY <1>1, <1>3
  <2>3. d \in Entries /\ Len(d) = n /\ d[res.index + 1] = e
    BY <1>0, <2>1, <2>2 DEF Entries
  <2>. QED
    BY <1>0, <2>2, <2>3 DEF Key
<1>4. CASE res.found /\ ~ over
  <2>1. d = c
    BY <1>4, Zenon DEF Inserted
  <2>2. res.index + 1 \in 1..n
    BY <1>1, <1>4
  <2>. QED
    BY <1>1, <1>4, <2>1, <2>2
<1>. QED
  BY <1>2, <1>3, <1>4

LEMMA SubscriptedIs ==
  ASSUME NEW c \in Entries, NEW key \in Keys
  PROVE  /\ Subscripted(c, key) \in Entries
         /\ binary_search(c, key).index + 1 \in 1..Len(Subscripted(c, key))
         /\ Key(Subscripted(c, key), binary_search(c, key).index) = key
<1>. PICK res : res = binary_search(c, key)
  OBVIOUS
<1>1. CASE res.found
  <2>1. Subscripted(c, key) = c
    BY <1>1, Zenon DEF Subscripted
  <2>2. PICK n \in Nat : n = Len(c)
    BY EntriesAre
  <2>3. res.index \in 0..n /\ res.index < n /\ Key(c, res.index) = key
    BY <1>1, <2>2, BinarySearchIs
  <2>4. res.index + 1 \in 1..n
    BY <2>3
  <2>. QED
    BY <2>1, <2>2, <2>3, <2>4
<1>2. CASE ~ res.found
  <2>1. PICK over \in BOOLEAN : over = FALSE
    OBVIOUS
  <2>2. Subscripted(c, key) = Inserted(c, key, MapDefault, over)
    BY <1>2, <2>1, Zenon DEF Subscripted
  <2>3. PICK value \in MapValues : value = MapDefault
    BY FlatMapAssumption
  <2>. QED
    BY <2>2, <2>3, InsertedIs
<1>. QED
  BY <1>1, <1>2

LEMMA MapStepKeeps ==
  ASSUME MapInv, MapNext
  PROVE  MapInv'
<1>. PICK c \in Entries : c = container_
  BY DEF MapInv
<1>1. ASSUME NEW key \in Keys, RemoveKey(key) PROVE MapInv'
  <2>1. PICK n \in Nat : n = Len(c)
    BY EntriesAre
  <2>2. PICK i : i = binary_search(c, key).index
    OBVIOUS
  <2>3. binary_search(c, key).found /\ container_' = RemovedAt(c, i)
    BY <1>1, <2>2, Zenon DEF RemoveKey
  <2>4. i \in 0..n /\ i < n
    BY <2>1, <2>2, <2>3, BinarySearchIs
  <2>5. i \in 0..(Len(c) - 1)
    BY <2>1, <2>4
  <2>. QED
    BY <2>3, <2>5, RemovedAtIs DEF MapInv
<1>2. ASSUME NEW key \in Keys, NEW value \in MapValues, NEW o \in BOOLEAN, Insert(key, value, o)
      PROVE  MapInv'
  BY <1>2, InsertedIs DEF Insert, MapInv
<1>3. ASSUME NEW key \in Keys, NEW value \in MapValues, Subscript(key, value)
      PROVE  MapInv'
  <2>1. PICK d \in Entries : d = Subscripted(c, key)
    BY SubscriptedIs
  <2>2. PICK i \in 1..Len(d) : i = binary_search(c, key).index + 1
    BY <2>1, SubscriptedIs
  <2>3. container_' = [d EXCEPT ![i] = <<@[1], value>>]
    BY <1>3, <2>1, <2>2, Zenon DEF Subscript
  <2>4. d \in [1..Len(d) -> Keys \X MapValues] /\ d[i] \in Keys \X MapValues
    BY DEF Entries
  <2>5. <<d[i][1], value>> \in Keys \X MapValues
    BY <2>4
  <2>. QED
    BY <2>3, <2>5 DEF MapInv, Entries
<1>. QED
  BY <1>1, <1>2, <1>3 DEF MapNext

LEMMA MapInvEntry == MapInv => EntryOfKey
<1>. SUFFICES ASSUME MapInv, NEW key \in Keys
              PROVE  LET res == binary_search(container_, key)
                         smaller == {i \in DOMAIN container_ : container_[i][1] < key}
                     IN /\ res.index # Wild
                        /\ res.found => /\ res.index < Len(container_)
                                        /\ Key(container_, res.index) = key
                        /\ Key(Subscripted(container_, key), res.index) = key
                        /\ InOrder(container_) =>
                             /\ res.found <=> \E i \in DOMAIN container_ : container_[i][1] = key
                             /\ Cardinality(smaller) - res.index \in {0, 1}
  BY DEF EntryOfKey
<1>. PICK c \in Entries : c = container_
  BY DEF MapInv
<1>. PICK res : res = binary_search(c, key)
  OBVIOUS
<1>1. /\ res.index \in 0..Len(c)
      /\ res.found => res.index < Len(c) /\ Key(c, res.index) = key
      /\ InOrder(c) =>
           /\ res.found <=> \E i \in DOMAIN c : c[i][1] = key
           /\ \E low \in 0..Len(c) : Smaller(c, key) = 1..low /\ low - res.index \in {0, 1}
  BY BinarySearchIs
<1>2. res.index # Wild
  <2>1. res.index \in Nat
    BY <1>1, EntriesAre
  <2>. QED
    BY <2>1, FlatMapAssumption
<1>3. Key(Subscripted(c, key), res.index) = key
  BY SubscriptedIs
<1>4. ASSUME InOrder(c)
      PROVE  Cardinality(Smaller(c, key)) - res.index \in {0, 1}
  <2>1. PICK low \in 0..Len(c) : Smaller(c, key) = 1..low /\ low - res.index \in {0, 1}
    BY <1>1, <1>4
  <2>2. low \in Nat
    BY EntriesAre
  <2>3. Cardinality(1..low) = low
    BY <2>2, FS_Interval
  <2>. QED
    BY <2>1, <2>3
<1>. QED
  BY <1>1, <1>2, <1>3, <1>4 DEF Smaller

LEMMA MapInvariance == Spec => []MapInv
<1>1. Init => MapInv
  BY DEF Init, MapInit, MapInv, Entries
<1>2. MapInv /\ [Next]_vars => MapInv'
  <2> SUFFICES ASSUME MapInv, [Next]_vars PROVE MapInv'
    OBVIOUS
  <2>1. CASE MapNext
    BY <2>1, MapStepKeeps
  <2>2. CASE UNCHANGED container_
    BY <2>2 DEF MapInv
  <2>. QED
    BY <2>1, <2>2, PartSteps
<1>. QED
  BY <1>1, <1>2, PTL DEF Spec

(* FlatMap's binary search ends on an index of the array or one past it,    *)
(* never reads an uninitialized mid, finds the key if and only if a sorted  *)
(* array has it, and operator[] returns the entry of the key it was given.  *)
THEOREM SearchFindsEntry == Spec => []EntryOfKey
<1>1. MapInv => EntryOfKey
  BY MapInvEntry
<1>. QED
  BY <1>1, MapInvariance, PTL

-----------------------------------------------------------------------------
(* TypePack.                                                                *)

Packs == Seq(Types)

LEMMA PacksAre ==
  ASSUME NEW p \in Packs
  PROVE  /\ Len(p) \in Nat
         /\ DOMAIN p = 1..Len(p)
         /\ \A k \in 1..Len(p) : p[k] \in Types /\ sizeof(p[k]) \in Nat
<1>1. Len(p) \in Nat /\ DOMAIN p = 1..Len(p) /\ \A k \in 1..Len(p) : p[k] \in Types
  BY DEF Packs
<1>2. \A t \in Types : sizeof(t) \in Nat
  BY TypePackAssumption DEF Types, sizeof
<1>. QED
  BY <1>1, <1>2

(* The equations that define the recursions.                                *)
IsLast(f, p) == f = [n \in DOMAIN p |-> IF n = 1 THEN p[Len(p)] ELSE f[n - 1]]

IsPick(f, I, p) == f = [i \in 0..I |-> IF i = 0 THEN p[I + 1] ELSE f[i - 1]]

IsBest(f, Compare, p) ==
  f = [n \in DOMAIN p |-> IF n = 1 THEN p[1] ELSE Compare[<<f[n - 1], p[n]>>]]

IsMatch(f, Pred, p) ==
  f = [n \in 0..Len(p) |->
         IF n = 0 THEN not_found_t
         ELSE IF p[FirstOf(p, n)] \in Pred THEN p[FirstOf(p, n)]
         ELSE f[n - 1]]

IsCompliance(f, B, p) ==
  f = [n \in 0..Len(p) |->
         IF n = 0 THEN TRUE
         ELSE /\ \A l \in Later(p, n) : <<p[FirstOf(p, n)], p[l]>> \in B
              /\ f[n - 1]]

(* The last of a pack.                                                      *)
LEMMA LastIs ==
  ASSUME NEW p \in Packs, p # <<>>
  PROVE  pack_pick_last(p) = p[Len(p)]
<1>1. Len(p) \in Nat \ {0} /\ DOMAIN p = 1..Len(p)
  BY PacksAre DEF Packs
<1>2. ASSUME NEW f, IsLast(f, p) PROVE f[Len(p)] = p[Len(p)]
  <2>1. \A n \in 1..Len(p) : f[n] = IF n = 1 THEN p[Len(p)] ELSE f[n - 1]
    BY <1>1, <1>2 DEF IsLast
  <2>. DEFINE T == {n \in 1..Len(p) : f[n] # p[Len(p)]}
  <2>. SUFFICES ASSUME T # {} PROVE FALSE
    BY <1>1
  <2>2. PICK m \in T : \A n \in T : m <= n
    <3>1. T \in SUBSET Nat
      BY <1>1
    <3>. HIDE DEF T
    <3>. QED
      BY <3>1, LeastElement
  <2>3. m # 1
    BY <2>1, <2>2
  <2>4. m - 1 \in 1..Len(p) /\ m - 1 \notin T
    BY <1>1, <2>2, <2>3
  <2>. QED
    BY <2>1, <2>2, <2>3, <2>4
<1>. DEFINE g == CHOOSE h : IsLast(h, p)
<1>3. IsLast(g, p)
  <2>. DEFINE e == [n \in DOMAIN p |-> p[Len(p)]]
  <2>1. IsLast(e, p)
    BY <1>1 DEF IsLast
  <2>. QED
    BY <2>1
<1>4. pack_pick_last(p) = g[Len(p)]
  BY DEF pack_pick_last, IsLast, g
<1>. HIDE DEF g
<1>. QED
  BY <1>2, <1>3, <1>4

LEMMA PickIs ==
  ASSUME NEW p, NEW I \in Nat
  PROVE  pack_pick_idx(I, p) = p[I + 1]
<1>1. ASSUME NEW f, IsPick(f, I, p) PROVE f[I] = p[I + 1]
  <2>1. \A i \in 0..I : f[i] = IF i = 0 THEN p[I + 1] ELSE f[i - 1]
    BY <1>1 DEF IsPick
  <2>. DEFINE T == {i \in 0..I : f[i] # p[I + 1]}
  <2>. SUFFICES ASSUME T # {} PROVE FALSE
    OBVIOUS
  <2>2. PICK m \in T : \A i \in T : m <= i
    <3>1. T \in SUBSET Nat
      OBVIOUS
    <3>. HIDE DEF T
    <3>. QED
      BY <3>1, LeastElement
  <2>3. m # 0
    BY <2>1, <2>2
  <2>4. m - 1 \in 0..I /\ m - 1 \notin T
    BY <2>2, <2>3
  <2>. QED
    BY <2>1, <2>2, <2>3, <2>4
<1>. DEFINE g == CHOOSE h : IsPick(h, I, p)
<1>2. IsPick(g, I, p)
  <2>. DEFINE e == [i \in 0..I |-> p[I + 1]]
  <2>1. IsPick(e, I, p)
    BY DEF IsPick
  <2>. QED
    BY <2>1
<1>3. pack_pick_idx(I, p) = g[I]
  BY DEF pack_pick_idx, IsPick, g
<1>. HIDE DEF g
<1>. QED
  BY <1>1, <1>2, <1>3

-----------------------------------------------------------------------------
(* The first of the largest of the first n types.                           *)
BestOf(p, n, k) ==
  /\ k \in 1..n
  /\ \A l \in 1..n : sizeof(p[k]) >= sizeof(p[l])
  /\ \A l \in 1..(k - 1) : sizeof(p[l]) < sizeof(p[k])

LEMMA BestNext ==
  ASSUME NEW p \in Packs, NEW n \in 2..Len(p), NEW k, BestOf(p, n - 1, k)
  PROVE  \E j : BestOf(p, n, j) /\ max_size_type(p[k], p[n]) = p[j]
<1>1. Len(p) \in Nat /\ k \in 1..(n - 1) /\ \A l \in 1..Len(p) : sizeof(p[l]) \in Nat
  BY PacksAre DEF BestOf
<1>2. CASE sizeof(p[k]) >= sizeof(p[n])
  <2>1. BestOf(p, n, k)
    BY <1>1, <1>2 DEF BestOf
  <2>2. max_size_type(p[k], p[n]) = p[k]
    BY <1>2 DEF max_size_type
  <2>. QED
    BY <2>1, <2>2
<1>3. CASE ~ (sizeof(p[k]) >= sizeof(p[n]))
  <2>1. sizeof(p[k]) < sizeof(p[n])
    BY <1>1, <1>3
  <2>2. \A l \in 1..(n - 1) : sizeof(p[l]) < sizeof(p[n])
    BY <1>1, <2>1 DEF BestOf
  <2>3. BestOf(p, n, n)
    BY <1>1, <2>2 DEF BestOf
  <2>4. max_size_type(p[k], p[n]) = p[n]
    BY <1>3 DEF max_size_type
  <2>. QED
    BY <2>3, <2>4
<1>. QED
  BY <1>2, <1>3

LEMMA BestUnique ==
  ASSUME NEW p \in Packs, NEW n \in 1..Len(p), NEW k, NEW j, BestOf(p, n, k), BestOf(p, n, j)
  PROVE  k = j
<1>1. Len(p) \in Nat /\ \A l \in 1..Len(p) : sizeof(p[l]) \in Nat
  BY PacksAre
<1>. QED
  BY <1>1 DEF BestOf

LEMMA BestExists ==
  ASSUME NEW p \in Packs
  PROVE  \A n \in 1..Len(p) : \E k : BestOf(p, n, k)
<1>1. Len(p) \in Nat /\ \A l \in 1..Len(p) : sizeof(p[l]) \in Nat
  BY PacksAre
<1>. DEFINE T == {n \in 1..Len(p) : ~ \E k : BestOf(p, n, k)}
<1>. SUFFICES ASSUME T # {} PROVE FALSE
  OBVIOUS
<1>2. PICK m \in T : \A n \in T : m <= n
  <2>1. T \in SUBSET Nat
    BY <1>1
  <2>. HIDE DEF T
  <2>. QED
    BY <2>1, LeastElement
<1>3. m # 1
  <2>1. 1 \in 1..Len(p) => BestOf(p, 1, 1)
    BY <1>1 DEF BestOf
  <2>. QED
    BY <1>2, <2>1
<1>4. m \in 2..Len(p) /\ m - 1 \in 1..Len(p) /\ m - 1 \notin T
  BY <1>1, <1>2, <1>3, SMTT(90)
<1>5. PICK k : BestOf(p, m - 1, k)
  BY <1>4
<1>6. \E j : BestOf(p, m, j)
  BY <1>4, <1>5, BestNext
<1>. QED
  BY <1>2, <1>6

(* The pack's first type of the largest size.                               *)
LEMMA MaxSizeIs ==
  ASSUME NEW p \in Packs, p # <<>>
  PROVE  \E k : BestOf(p, Len(p), k) /\ pack_pick_max_size(p) = p[k]
<1>1. /\ Len(p) \in Nat \ {0} /\ DOMAIN p = 1..Len(p)
      /\ \A l \in 1..Len(p) : p[l] \in Types
  BY PacksAre DEF Packs
<1>. DEFINE Compare == [r \in Types \X Types |-> max_size_type(r[1], r[2])]
            Best(n) == CHOOSE k : BestOf(p, n, k)
            e == [n \in DOMAIN p |-> p[Best(n)]]
<1>2. \A n \in 1..Len(p) : BestOf(p, n, Best(n))
  BY BestExists
<1>. HIDE DEF Best
<1>3. \A n \in 1..Len(p) : Best(n) \in 1..n
  BY <1>2 DEF BestOf
<1>4. \A n \in 2..Len(p) : Compare[<<p[Best(n - 1)], p[n]>>] = p[Best(n)]
  <2>. TAKE n \in 2..Len(p)
  <2>1. n - 1 \in 1..Len(p) /\ n \in 1..Len(p)
    BY <1>1
  <2>2. Best(n - 1) \in 1..Len(p)
    BY <1>1, <1>3, <2>1
  <2>3. Compare[<<p[Best(n - 1)], p[n]>>] = max_size_type(p[Best(n - 1)], p[n])
    <3>1. \A A, B \in Types : Compare[<<A, B>>] = max_size_type(A, B)
      OBVIOUS
    <3>2. p[Best(n - 1)] \in Types /\ p[n] \in Types
      BY <1>1, <2>1, <2>2
    <3>. HIDE DEF Compare
    <3>. QED
      BY <3>1, <3>2
  <2>4. PICK j : BestOf(p, n, j) /\ max_size_type(p[Best(n - 1)], p[n]) = p[j]
    BY <1>2, <2>1, BestNext
  <2>5. j = Best(n)
    BY <1>2, <2>1, <2>4, BestUnique
  <2>. QED
    <3>. HIDE DEF Compare
    <3>. QED
      BY <2>3, <2>4, <2>5, Zenon
<1>. HIDE DEF Compare
<1>5. IsBest(e, Compare, p)
  <2>1. Best(1) = 1
    BY <1>1, <1>3
  <2>2. \A n \in 1..Len(p) : e[n] = IF n = 1 THEN p[1] ELSE Compare[<<e[n - 1], p[n]>>]
    <3>. TAKE n \in 1..Len(p)
    <3>1. CASE n = 1
      BY <1>1, <2>1, <3>1
    <3>2. CASE n # 1
      <4>1. n \in 2..Len(p) /\ n - 1 \in 1..Len(p)
        BY <1>1, <3>2
      <4>2. e[n] = p[Best(n)] /\ e[n - 1] = p[Best(n - 1)]
        BY <1>1, <4>1
      <4>. QED
        BY <1>4, <3>2, <4>1, <4>2
    <3>. QED
      BY <3>1, <3>2
  <2>3. e = [n \in DOMAIN p |-> e[n]]
    OBVIOUS
  <2>. HIDE DEF e
  <2>. QED
    BY <1>1, <2>2, <2>3 DEF IsBest
<1>6. ASSUME NEW f, IsBest(f, Compare, p) PROVE f[Len(p)] = p[Best(Len(p))]
  <2>1. \A n \in 1..Len(p) : f[n] = IF n = 1 THEN p[1] ELSE Compare[<<f[n - 1], p[n]>>]
    BY <1>1, <1>6 DEF IsBest
  <2>. DEFINE T == {n \in 1..Len(p) : f[n] # p[Best(n)]}
  <2>. SUFFICES ASSUME T # {} PROVE FALSE
    BY <1>1
  <2>2. PICK m \in T : \A n \in T : m <= n
    <3>1. T \in SUBSET Nat
      BY <1>1
    <3>. HIDE DEF T
    <3>. QED
      BY <3>1, LeastElement
  <2>3. m # 1
    <3>1. Best(1) = 1
      BY <1>1, <1>3
    <3>. QED
      BY <2>1, <2>2, <3>1
  <2>4. m \in 2..Len(p) /\ m - 1 \in 1..Len(p) /\ m - 1 \notin T
    BY <1>1, <2>2, <2>3
  <2>5. f[m] = Compare[<<p[Best(m - 1)], p[m]>>]
    BY <2>1, <2>2, <2>3, <2>4
  <2>. QED
    BY <1>4, <2>2, <2>4, <2>5
<1>. DEFINE g == CHOOSE h : IsBest(h, Compare, p)
<1>7. IsBest(g, Compare, p)
  BY <1>5
<1>8. pack_pick_max_size(p) = g[Len(p)]
  BY DEF pack_pick_max_size, pack_pick_best, IsBest, g, Compare
<1>. HIDE DEF g
<1>. QED
  BY <1>1, <1>2, <1>6, <1>7, <1>8

-----------------------------------------------------------------------------
(* The first of a set of types in a pack.                                   *)
FirstAt(p, S, k) == k \in 1..Len(p) /\ p[k] \in S /\ \A l \in 1..(k - 1) : p[l] \notin S

IndexOf(p, S) == CHOOSE k \in DOMAIN p : p[k] \in S /\ \A l \in 1..(k - 1) : p[l] \notin S

LEMMA IndexIs ==
  ASSUME NEW p \in Packs, NEW S, NEW k, FirstAt(p, S, k)
  PROVE  IndexOf(p, S) = k
<1>1. Len(p) \in Nat /\ DOMAIN p = 1..Len(p)
  BY PacksAre
<1>. DEFINE j == IndexOf(p, S)
<1>2. j \in 1..Len(p) /\ p[j] \in S /\ \A l \in 1..(j - 1) : p[l] \notin S
  BY <1>1 DEF IndexOf, FirstAt
<1>. HIDE DEF j
<1>3. ~ (j < k) /\ ~ (k < j)
  BY <1>1, <1>2 DEF FirstAt
<1>4. j = k
  BY <1>1, <1>2, <1>3 DEF FirstAt
<1>. QED
  BY <1>4 DEF j

(* The places among the last n types whose type matches.                    *)
Hits(p, Pred, n) == {k \in FirstOf(p, n)..Len(p) : p[k] \in Pred}

LeastHit(p, Pred, n) == CHOOSE m \in Hits(p, Pred, n) : \A k \in Hits(p, Pred, n) : m <= k

FirstHit(p, Pred, n) ==
  IF Hits(p, Pred, n) = {} THEN not_found_t ELSE p[LeastHit(p, Pred, n)]

LEMMA LeastHitIs ==
  ASSUME NEW p \in Packs, NEW Pred, NEW n \in 0..Len(p), Hits(p, Pred, n) # {}
  PROVE  /\ LeastHit(p, Pred, n) \in Hits(p, Pred, n)
         /\ \A k \in Hits(p, Pred, n) : LeastHit(p, Pred, n) <= k
<1>1. Len(p) \in Nat
  BY PacksAre
<1>2. Hits(p, Pred, n) \in SUBSET Nat
  BY <1>1 DEF Hits, FirstOf
<1>3. \E m \in Hits(p, Pred, n) : \A k \in Hits(p, Pred, n) : m <= k
  BY <1>2, LeastElement
<1>. QED
  BY <1>3 DEF LeastHit

LEMMA FirstHitNext ==
  ASSUME NEW p \in Packs, NEW Pred, NEW n \in 1..Len(p)
  PROVE  FirstHit(p, Pred, n) = IF p[FirstOf(p, n)] \in Pred THEN p[FirstOf(p, n)]
                                ELSE FirstHit(p, Pred, n - 1)
<1>1. Len(p) \in Nat /\ FirstOf(p, n) \in 1..Len(p) /\ FirstOf(p, n - 1) = FirstOf(p, n) + 1
  BY PacksAre DEF FirstOf
<1>2. CASE p[FirstOf(p, n)] \in Pred
  <2>1. FirstOf(p, n) \in Hits(p, Pred, n)
    BY <1>1, <1>2 DEF Hits
  <2>2. \A k \in Hits(p, Pred, n) : k \in Int /\ FirstOf(p, n) <= k
    BY <1>1 DEF Hits
  <2>3. /\ LeastHit(p, Pred, n) \in Hits(p, Pred, n)
        /\ LeastHit(p, Pred, n) <= FirstOf(p, n)
    BY <1>1, <2>1, LeastHitIs
  <2>4. LeastHit(p, Pred, n) = FirstOf(p, n)
    BY <1>1, <2>2, <2>3
  <2>. QED
    BY <1>2, <2>1, <2>4 DEF FirstHit
<1>3. CASE p[FirstOf(p, n)] \notin Pred
  <2>1. \A k : k \in Hits(p, Pred, n) <=> k \in Hits(p, Pred, n - 1)
    BY <1>1, <1>3 DEF Hits
  <2>2. Hits(p, Pred, n) = Hits(p, Pred, n - 1)
    BY <2>1
  <2>. QED
    BY <1>3, <2>2 DEF FirstHit, LeastHit
<1>. QED
  BY <1>2, <1>3

LEMMA MatchIs ==
  ASSUME NEW p \in Packs, NEW Pred
  PROVE  pack_find_match(Pred, p) = FirstHit(p, Pred, Len(p))
<1>1. Len(p) \in Nat
  BY PacksAre
<1>. DEFINE e == [n \in 0..Len(p) |-> FirstHit(p, Pred, n)]
<1>2. FirstHit(p, Pred, 0) = not_found_t
  <2>1. Hits(p, Pred, 0) = {}
    BY <1>1 DEF Hits, FirstOf
  <2>. QED
    BY <2>1 DEF FirstHit
<1>3. IsMatch(e, Pred, p)
  <2>1. \A n \in 0..Len(p) :
          e[n] = IF n = 0 THEN not_found_t
                 ELSE IF p[FirstOf(p, n)] \in Pred THEN p[FirstOf(p, n)]
                 ELSE e[n - 1]
    <3>. TAKE n \in 0..Len(p)
    <3>1. CASE n = 0
      BY <1>1, <1>2, <3>1
    <3>2. CASE n # 0
      <4>1. n \in 1..Len(p) /\ n - 1 \in 0..Len(p)
        BY <1>1, <3>2
      <4>2. e[n] = FirstHit(p, Pred, n) /\ e[n - 1] = FirstHit(p, Pred, n - 1)
        BY <4>1
      <4>. HIDE DEF e
      <4>. QED
        BY <3>2, <4>1, <4>2, FirstHitNext
    <3>. QED
      BY <3>1, <3>2
  <2>2. e = [n \in 0..Len(p) |-> e[n]]
    OBVIOUS
  <2>. HIDE DEF e
  <2>. QED
    BY <2>1, <2>2 DEF IsMatch
<1>4. ASSUME NEW f, IsMatch(f, Pred, p) PROVE f[Len(p)] = FirstHit(p, Pred, Len(p))
  <2>1. \A n \in 0..Len(p) :
          f[n] = IF n = 0 THEN not_found_t
                 ELSE IF p[FirstOf(p, n)] \in Pred THEN p[FirstOf(p, n)]
                 ELSE f[n - 1]
    BY <1>4 DEF IsMatch
  <2>. DEFINE T == {n \in 0..Len(p) : f[n] # FirstHit(p, Pred, n)}
  <2>. SUFFICES ASSUME T # {} PROVE FALSE
    BY <1>1
  <2>2. PICK m \in T : \A n \in T : m <= n
    <3>1. T \in SUBSET Nat
      BY <1>1
    <3>. HIDE DEF T
    <3>. QED
      BY <3>1, LeastElement
  <2>3. m # 0
    BY <1>2, <2>1, <2>2
  <2>4. m \in 1..Len(p) /\ m - 1 \in 0..Len(p) /\ m - 1 \notin T
    BY <1>1, <2>2, <2>3
  <2>. QED
    BY <2>1, <2>2, <2>3, <2>4, FirstHitNext
<1>. DEFINE g == CHOOSE h : IsMatch(h, Pred, p)
<1>5. IsMatch(g, Pred, p)
  BY <1>3
<1>6. pack_find_match(Pred, p) = g[Len(p)]
  BY DEF pack_find_match, IsMatch, g
<1>. HIDE DEF g
<1>. QED
  BY <1>4, <1>5, <1>6

(* The recursive search finds the first match, wherever it stands.          *)
LEMMA MatchIsFirst ==
  ASSUME NEW p \in Packs, NEW Pred
  PROVE  IF pack_has_match(Pred, p)
         THEN \E k : FirstAt(p, Pred, k) /\ pack_find_match(Pred, p) = p[k]
         ELSE pack_find_match(Pred, p) = not_found_t /\ Pred \cap ToSet(p) = {}
<1>1. Len(p) \in Nat /\ DOMAIN p = 1..Len(p)
  BY PacksAre
<1>. DEFINE H == Hits(p, Pred, Len(p))
            m == LeastHit(p, Pred, Len(p))
<1>2. \A k : k \in H <=> k \in 1..Len(p) /\ p[k] \in Pred
  BY <1>1 DEF Hits, FirstOf
<1>3. CASE pack_has_match(Pred, p)
  <2>1. H # {}
    BY <1>1, <1>2, <1>3 DEF pack_has_match
  <2>2. m \in H /\ \A k \in H : m <= k
    BY <1>1, <2>1, LeastHitIs
  <2>3. pack_find_match(Pred, p) = p[m]
    BY <2>1, MatchIs DEF FirstHit
  <2>. HIDE DEF H, m
  <2>4. FirstAt(p, Pred, m)
    BY <1>1, <1>2, <2>2 DEF FirstAt
  <2>. QED
    BY <1>3, <2>3, <2>4
<1>4. CASE ~ pack_has_match(Pred, p)
  <2>1. H = {}
    BY <1>1, <1>2, <1>4 DEF pack_has_match
  <2>2. pack_find_match(Pred, p) = not_found_t
    BY <2>1, MatchIs DEF FirstHit
  <2>3. Pred \cap ToSet(p) = {}
    BY <1>4 DEF pack_has_match, ToSet
  <2>. QED
    BY <1>4, <2>2, <2>3
<1>. QED
  BY <1>3, <1>4

-----------------------------------------------------------------------------
(* What a relation that complies holds between, among the last n types.     *)
Complies(p, B, n) ==
  \A k \in FirstOf(p, n)..Len(p) : \A l \in (k + 1)..Len(p) : <<p[k], p[l]>> \in B

Against(p, B, n) == \A l \in Later(p, n) : <<p[FirstOf(p, n)], p[l]>> \in B

LEMMA CompliesNext ==
  ASSUME NEW p \in Packs, NEW B, NEW n \in 1..Len(p)
  PROVE  Complies(p, B, n) = (Against(p, B, n) /\ Complies(p, B, n - 1))
<1>1. /\ Len(p) \in Nat /\ FirstOf(p, n) \in 1..Len(p) /\ FirstOf(p, n - 1) = FirstOf(p, n) + 1
      /\ Later(p, n) = (FirstOf(p, n) + 1)..Len(p)
  BY PacksAre DEF FirstOf, Later
<1>2. \A k : k \in FirstOf(p, n)..Len(p) <=> k = FirstOf(p, n) \/ k \in FirstOf(p, n - 1)..Len(p)
  BY <1>1
<1>. QED
  BY <1>1, <1>2, Zenon DEF Complies, Against

LEMMA ComplianceIs ==
  ASSUME NEW p \in Packs, NEW B
  PROVE  pack_commutative_binary_compliance(B, p) = Complies(p, B, Len(p))
<1>1. Len(p) \in Nat
  BY PacksAre
<1>2. Complies(p, B, 0) = TRUE
  BY <1>1 DEF Complies, FirstOf
<1>. DEFINE e == [n \in 0..Len(p) |-> Complies(p, B, n)]
<1>3. IsCompliance(e, B, p)
  <2>1. \A n \in 0..Len(p) :
          e[n] = IF n = 0 THEN TRUE ELSE Against(p, B, n) /\ e[n - 1]
    <3>. TAKE n \in 0..Len(p)
    <3>1. CASE n = 0
      BY <1>1, <1>2, <3>1
    <3>2. CASE n # 0
      <4>1. n \in 1..Len(p) /\ n - 1 \in 0..Len(p)
        BY <1>1, <3>2
      <4>2. e[n] = Complies(p, B, n) /\ e[n - 1] = Complies(p, B, n - 1)
        BY <4>1
      <4>. HIDE DEF e
      <4>. QED
        BY <3>2, <4>1, <4>2, CompliesNext, Zenon
    <3>. QED
      BY <3>1, <3>2
  <2>2. e = [n \in 0..Len(p) |-> e[n]]
    OBVIOUS
  <2>. HIDE DEF e
  <2>. QED
    BY <2>1, <2>2, Zenon DEF IsCompliance, Against
<1>4. ASSUME NEW f, IsCompliance(f, B, p) PROVE f[Len(p)] = Complies(p, B, Len(p))
  <2>1. \A n \in 0..Len(p) : f[n] = IF n = 0 THEN TRUE ELSE Against(p, B, n) /\ f[n - 1]
    BY <1>4, Zenon DEF IsCompliance, Against
  <2>. DEFINE T == {n \in 0..Len(p) : f[n] # Complies(p, B, n)}
  <2>. SUFFICES ASSUME T # {} PROVE FALSE
    BY <1>1
  <2>2. PICK m \in T : \A n \in T : m <= n
    <3>1. T \in SUBSET Nat
      BY <1>1
    <3>. HIDE DEF T
    <3>. QED
      BY <3>1, LeastElement
  <2>3. m # 0
    <3>1. 0 \in 0..Len(p)
      BY <1>1
    <3>2. f[0] = Complies(p, B, 0)
      BY <1>2, <2>1, <3>1, Zenon
    <3>. QED
      BY <2>2, <3>2
  <2>4. m \in 1..Len(p) /\ m - 1 \in 0..Len(p) /\ m - 1 \notin T
    BY <1>1, <2>2, <2>3
  <2>5. m \in 0..Len(p) /\ f[m - 1] = Complies(p, B, m - 1) /\ f[m] # Complies(p, B, m)
    BY <2>2, <2>4
  <2>6. f[m] = (Against(p, B, m) /\ f[m - 1])
    BY <2>1, <2>3, <2>5, Zenon
  <2>. QED
    BY <2>4, <2>5, <2>6, CompliesNext, Zenon
<1>. DEFINE g == CHOOSE h : IsCompliance(h, B, p)
<1>5. IsCompliance(g, B, p)
  BY <1>3
<1>6. pack_commutative_binary_compliance(B, p) = g[Len(p)]
  BY DEF pack_commutative_binary_compliance, IsCompliance, g
<1>. HIDE DEF g
<1>. QED
  BY <1>4, <1>5, <1>6

(* The recursion meets every two types of the pack, in order.               *)
LEMMA ComplianceBetween ==
  ASSUME NEW p \in Packs, NEW B
  PROVE  pack_commutative_binary_compliance(B, p) <=>
           \A k, l \in 1..Len(p) : k < l => <<p[k], p[l]>> \in B
<1>1. Len(p) \in Nat
  BY PacksAre
<1>2. FirstOf(p, Len(p)) = 1
  BY <1>1 DEF FirstOf
<1>3. Complies(p, B, Len(p)) <=> \A k, l \in 1..Len(p) : k < l => <<p[k], p[l]>> \in B
  <2>1. \A k \in 1..Len(p) : \A l : l \in (k + 1)..Len(p) <=> l \in 1..Len(p) /\ k < l
    BY <1>1
  <2>. QED
    BY <1>2, <2>1, Zenon DEF Complies
<1>. QED
  BY <1>3, ComplianceIs, Zenon

(* No two types are the same exactly if there are as many as places.        *)
LEMMA UniqueIs ==
  ASSUME NEW p \in Packs
  PROVE  pack_is_unique(p) <=> Cardinality(ToSet(p)) = Len(p)
<1>1. /\ Len(p) \in Nat /\ DOMAIN p = 1..Len(p)
      /\ \A k \in 1..Len(p) : p[k] \in Types
  BY PacksAre
<1>2. pack_is_unique(p) <=> \A k, l \in 1..Len(p) : k < l => p[k] # p[l]
  <2>. DEFINE B == {r \in Types \X Types : r[1] # r[2]}
  <2>1. \A k, l \in 1..Len(p) : <<p[k], p[l]>> \in B <=> p[k] # p[l]
    BY <1>1
  <2>2. pack_is_unique(p) <=> pack_commutative_binary_compliance(B, p)
    BY DEF pack_is_unique
  <2>. HIDE DEF B
  <2>3. pack_commutative_binary_compliance(B, p) <=>
          \A k, l \in 1..Len(p) : k < l => <<p[k], p[l]>> \in B
    BY ComplianceBetween
  <2>. QED
    BY <2>1, <2>2, <2>3
<1>3. p \in Surjection(1..Len(p), ToSet(p))
  <2>1. p \in [1..Len(p) -> ToSet(p)]
    BY <1>1 DEF Packs, ToSet
  <2>2. \A t \in ToSet(p) : \E k \in 1..Len(p) : p[k] = t
    BY <1>1 DEF ToSet
  <2>. QED
    BY <2>1, <2>2 DEF Surjection
<1>4. IsFiniteSet(1..Len(p)) /\ Cardinality(1..Len(p)) = Len(p)
  BY <1>1, FS_Interval
<1>5. Cardinality(ToSet(p)) = Len(p) <=> p \in Injection(1..Len(p), ToSet(p))
  BY <1>3, <1>4, FS_Surjection
<1>6. p \in Injection(1..Len(p), ToSet(p)) <=> \A k, l \in 1..Len(p) : p[k] = p[l] => k = l
  BY <1>3 DEF Injection, IsInjective, Surjection
<1>7. (\A k, l \in 1..Len(p) : p[k] = p[l] => k = l) <=>
      (\A k, l \in 1..Len(p) : k < l => p[k] # p[l])
  BY <1>1
<1>. QED
  BY <1>2, <1>5, <1>6, <1>7

-----------------------------------------------------------------------------
(* The pack that the program names is one.                                 *)
PackInv == pack_ \in Packs

LEMMA PackInvExact ==
  ASSUME PackInv
  PROVE  PackSearchesExact
<1>. USE DEF PackInv
<1>1. /\ Len(pack_) \in Nat /\ DOMAIN pack_ = 1..Len(pack_)
      /\ \A k \in 1..Len(pack_) : pack_[k] \in Types /\ sizeof(pack_[k]) \in Nat
  BY PacksAre
<1>. DEFINE Largest == {t \in Types : \A k \in DOMAIN pack_ : sizeof(t) >= sizeof(pack_[k])}
            SameSize == {r \in Types \X Types : sizeof(r[1]) = sizeof(r[2])}
<1>2. ASSUME pack_ # <<>>
      PROVE  /\ pack_pick_first(pack_) = pack_pick_idx(0, pack_)
             /\ pack_pick_last(pack_) = pack_pick_idx(Len(pack_) - 1, pack_)
             /\ pack_pick_max_size(pack_) = pack_[IndexOf(pack_, Largest)]
  <2>1. Len(pack_) - 1 \in Nat /\ (Len(pack_) - 1) + 1 = Len(pack_)
    BY <1>1, <1>2 DEF Packs
  <2>2. pack_pick_first(pack_) = pack_pick_idx(0, pack_)
    BY <1>2, PickIs DEF pack_pick_first, Packs
  <2>3. pack_pick_last(pack_) = pack_pick_idx(Len(pack_) - 1, pack_)
    BY <1>2, <2>1, LastIs, PickIs
  <2>4. PICK k : BestOf(pack_, Len(pack_), k) /\ pack_pick_max_size(pack_) = pack_[k]
    BY <1>2, MaxSizeIs
  <2>5. FirstAt(pack_, Largest, k)
    <3>1. k \in 1..Len(pack_) /\ pack_[k] \in Largest
      BY <1>1, <2>4 DEF BestOf
    <3>2. ASSUME NEW l \in 1..(k - 1) PROVE pack_[l] \notin Largest
      BY <1>1, <2>4, <3>1, <3>2 DEF BestOf
    <3>. QED
      BY <3>1, <3>2 DEF FirstAt
  <2>6. IndexOf(pack_, Largest) = k
    BY <2>5, IndexIs
  <2>. QED
    BY <2>2, <2>3, <2>4, <2>6
<1>3. ASSUME NEW Pred \in SUBSET Types
      PROVE  IF pack_has_match(Pred, pack_)
             THEN pack_find_match(Pred, pack_) = pack_[IndexOf(pack_, Pred)]
             ELSE pack_find_match(Pred, pack_) = not_found_t /\ Pred \cap ToSet(pack_) = {}
  BY MatchIsFirst, IndexIs
<1>4. pack_commutative_binary_compliance(SameSize, pack_) <=>
        \A k, l \in DOMAIN pack_ : sizeof(pack_[k]) = sizeof(pack_[l])
  <2>1. \A k, l \in 1..Len(pack_) :
          <<pack_[k], pack_[l]>> \in SameSize <=> sizeof(pack_[k]) = sizeof(pack_[l])
    BY <1>1
  <2>. HIDE DEF SameSize
  <2>2. pack_commutative_binary_compliance(SameSize, pack_) <=>
          \A k, l \in 1..Len(pack_) : k < l => <<pack_[k], pack_[l]>> \in SameSize
    BY ComplianceBetween
  <2>3. (\A k, l \in 1..Len(pack_) : k < l => sizeof(pack_[k]) = sizeof(pack_[l])) <=>
        (\A k, l \in 1..Len(pack_) : sizeof(pack_[k]) = sizeof(pack_[l]))
    BY <1>1
  <2>. QED
    BY <1>1, <2>1, <2>2, <2>3
<1>5. \A t \in Types : pack_does_contain(t, pack_) <=> t \in ToSet(pack_)
  BY DEF pack_does_contain, pack_has_match, ToSet
<1>6. pack_is_unique(pack_) <=> Cardinality(ToSet(pack_)) = Len(pack_)
  BY UniqueIs
<1>. QED
  BY <1>2, <1>3, <1>4, <1>5, <1>6 DEF PackSearchesExact, IndexOf

LEMMA PackStepKeeps ==
  ASSUME PackInv, [PackNext]_pack_
  PROVE  PackInv'
<1>1. CASE Rest
  BY <1>1 DEF Rest, PackInv, Packs
<1>2. ASSUME NEW t \in Types, Extend(t) PROVE PackInv'
  <2>1. <<t>> \in Seq(Types)
    OBVIOUS
  <2>. QED
    BY <1>2, <2>1 DEF Extend, PackInv, Packs
<1>3. CASE UNCHANGED pack_
  BY <1>3 DEF PackInv
<1>. QED
  BY <1>1, <1>2, <1>3 DEF PackNext

LEMMA PackInvariance == Spec => []PackInv
<1>1. Init => PackInv
  BY DEF Init, PackInit, PackInv, Packs
<1>2. PackInv /\ [Next]_vars => PackInv'
  BY PartSteps, PackStepKeeps
<1>. QED
  BY <1>1, <1>2, PTL DEF Spec

(* Each search that recurses over a pack of types finds what it is for,     *)
(* whatever the pack: see the comment of PackSearchesExact.                 *)
THEOREM SearchesAreExact == Spec => []PackSearchesExact
<1>1. PackInv => PackSearchesExact
  BY PackInvExact
<1>. QED
  BY <1>1, PackInvariance, PTL

-----------------------------------------------------------------------------
(* DynamicSquareMatrix.                                                     *)

(* Squares; what follows needs no more of a product than this.              *)
Sq(n) == n * n

LEMMA SqNext ==
  ASSUME NEW n \in Nat
  PROVE  Sq(n) \in Nat /\ Sq(n + 1) = Sq(n) + 2 * n + 1
BY DEF Sq

LEMMA SqUp ==
  ASSUME NEW n \in Nat, NEW m \in Nat, n <= m
  PROVE  Sq(n) <= Sq(m)
BY DEF Sq

LEMMA SqAbove ==
  ASSUME NEW n \in Nat
  PROVE  n <= Sq(n)
BY DEF Sq

(* The shell of a place of the vector: the larger of row and column.        *)
LEMMA ShellUnique ==
  ASSUME NEW k \in Nat, NEW n \in Nat, NEW m \in Nat,
         Sq(n) <= k, k < Sq(n + 1), Sq(m) <= k, k < Sq(m + 1)
  PROVE  n = m
<1>1. ASSUME NEW a \in Nat, NEW b \in Nat, a < b, Sq(b) <= k, k < Sq(a + 1) PROVE FALSE
  <2>1. Sq(a + 1) <= Sq(b)
    BY <1>1, SqUp
  <2>. QED
    BY <1>1, <2>1, SqNext
<1>. QED
  BY <1>1

LEMMA RootIs ==
  ASSUME NEW k \in Nat, NEW n \in Nat, Sq(n) <= k, k < Sq(n + 1)
  PROVE  Root(k) = n
<1>1. n \in 0..k
  <2>1. n <= Sq(n) /\ Sq(n) \in Nat
    BY SqAbove, SqNext
  <2>. QED
    BY <2>1
<1>. DEFINE P(m) == m * m <= k /\ k < (m + 1) * (m + 1)
            r == CHOOSE m \in 0..k : P(m)
<1>2. P(n)
  BY DEF Sq
<1>. HIDE DEF P
<1>3. r \in 0..k /\ P(r)
  BY <1>1, <1>2
<1>4. r = n
  <2>1. Sq(r) <= k /\ k < Sq(r + 1)
    BY <1>3 DEF Sq, P
  <2>. HIDE DEF r
  <2>. QED
    BY <1>3, <2>1, ShellUnique
<1>. QED
  BY <1>4 DEF Root, P

LEMMA ShellExists ==
  ASSUME NEW k \in Nat
  PROVE  \E n \in Nat : Sq(n) <= k /\ k < Sq(n + 1)
<1>. DEFINE T == {n \in Nat : k < Sq(n + 1)}
<1>1. k \in T
  <2>1. k + 1 <= Sq(k + 1)
    BY SqAbove
  <2>2. Sq(k + 1) \in Nat
    BY SqNext
  <2>. QED
    BY <2>1, <2>2
<1>2. PICK n \in T : \A m \in T : n <= m
  <2>1. T \in SUBSET Nat
    OBVIOUS
  <2>. HIDE DEF T
  <2>. QED
    BY <1>1, <2>1, LeastElement
<1>3. CASE n = 0
  BY <1>2, <1>3 DEF Sq
<1>4. CASE n # 0
  <2>1. n - 1 \in Nat /\ n - 1 \notin T /\ (n - 1) + 1 = n
    BY <1>2, <1>4
  <2>2. Sq(n) <= k
    BY <2>1, SqNext
  <2>. QED
    BY <1>2, <2>2
<1>. QED
  BY <1>3, <1>4

(* A cell's place is in the shell of its number.                            *)
LEMMA IndexIn ==
  ASSUME NEW n \in Nat, NEW m \in Nat
  PROVE  /\ index(n, m) \in Nat
         /\ n >= m => index(n, m) = Sq(n) + n + m
         /\ n < m => index(n, m) = Sq(m) + n
         /\ Larger(n, m) \in Nat
         /\ Larger(n, m) = (IF n >= m THEN n ELSE m)
         /\ Sq(Larger(n, m)) <= index(n, m)
         /\ index(n, m) < Sq(Larger(n, m) + 1)
<1>1. Larger(n, m) = (IF n >= m THEN n ELSE m) /\ Larger(n, m) \in Nat
  BY DEF Larger
<1>2. index(n, m) = Sq(Larger(n, m)) + (IF Larger(n, m) = n THEN m ELSE 0) + n
  BY DEF index, Sq
<1>3. Sq(n) \in Nat /\ Sq(m) \in Nat /\ Sq(n + 1) = Sq(n) + 2 * n + 1 /\ Sq(m + 1) = Sq(m) + 2 * m + 1
  BY SqNext
<1>4. CASE n >= m
  BY <1>1, <1>2, <1>3, <1>4
<1>5. CASE n < m
  BY <1>1, <1>2, <1>3, <1>5
<1>. QED
  BY <1>4, <1>5

LEMMA Quotient ==
  ASSUME NEW a \in Nat, NEW b \in Nat \ {0}
  PROVE  (a \div b # 0) <=> a >= b
OBVIOUS

LEMMA PlaceIn ==
  ASSUME NEW n \in Nat, NEW m \in Nat, NEW s \in Nat
  PROVE  index(n, m) < Sq(s) <=> n < s /\ m < s
<1>1. /\ index(n, m) \in Nat /\ Larger(n, m) \in Nat
      /\ Larger(n, m) = (IF n >= m THEN n ELSE m)
      /\ Sq(Larger(n, m)) <= index(n, m) /\ index(n, m) < Sq(Larger(n, m) + 1)
  BY IndexIn
<1>2. Sq(s) \in Nat /\ Sq(Larger(n, m)) \in Nat /\ Sq(Larger(n, m) + 1) \in Nat
  BY <1>1, SqNext, SMTT(90)
<1>3. CASE Larger(n, m) < s
  <2>1. Sq(Larger(n, m) + 1) <= Sq(s)
    BY <1>1, <1>3, SqUp
  <2>. QED
    BY <1>1, <1>2, <1>3, <2>1
<1>4. CASE s <= Larger(n, m)
  <2>1. Sq(s) <= Sq(Larger(n, m))
    BY <1>1, <1>4, SqUp
  <2>. QED
    BY <1>1, <1>2, <1>4, <2>1
<1>. QED
  BY <1>1, <1>3, <1>4

LEMMA ReverseIs ==
  ASSUME NEW k \in Nat, NEW r \in Nat, Sq(r) <= k, k < Sq(r + 1)
  PROVE  reverse_index(k) = IF k - Sq(r) >= r THEN <<r, (k - Sq(r)) - r>> ELSE <<k - Sq(r), r>>
<1>1. Root(k) = r
  BY RootIs
<1>2. Sq(r) \in Nat /\ k - Sq(r) \in Nat
  BY SqNext, SMTT(90)
<1>3. ((k - Sq(r)) + 1) \div (r + 1) # 0 <=> k - Sq(r) >= r
  <2>1. (k - Sq(r)) + 1 \in Nat /\ r + 1 \in Nat \ {0}
    BY <1>2
  <2>2. ((k - Sq(r)) + 1) \div (r + 1) # 0 <=> (k - Sq(r)) + 1 >= r + 1
    BY <2>1, Quotient
  <2>. QED
    BY <1>2, <2>2
<1>4. reverse_index(k) = IF ((k - Sq(r)) + 1) \div (r + 1) # 0
                         THEN <<r, (k - Sq(r)) - r>> ELSE <<k - Sq(r), r>>
  BY <1>1 DEF reverse_index, Sq
<1>. QED
  BY <1>3, <1>4

LEMMA ReverseOfIndex ==
  ASSUME NEW n \in Nat, NEW m \in Nat
  PROVE  reverse_index(index(n, m)) = <<n, m>>
<1>1. /\ index(n, m) \in Nat
      /\ n >= m => index(n, m) = Sq(n) + n + m
      /\ n < m => index(n, m) = Sq(m) + n
      /\ Larger(n, m) = (IF n >= m THEN n ELSE m)
      /\ Sq(Larger(n, m)) <= index(n, m) /\ index(n, m) < Sq(Larger(n, m) + 1)
  BY IndexIn
<1>2. Sq(n) \in Nat /\ Sq(m) \in Nat
  BY SqNext
<1>3. CASE n >= m
  <2>1. reverse_index(index(n, m)) =
          IF index(n, m) - Sq(n) >= n THEN <<n, (index(n, m) - Sq(n)) - n>>
          ELSE <<index(n, m) - Sq(n), n>>
    BY <1>1, <1>3, ReverseIs
  <2>2. index(n, m) - Sq(n) >= n /\ (index(n, m) - Sq(n)) - n = m
    BY <1>1, <1>2, <1>3
  <2>. QED
    BY <2>1, <2>2
<1>4. CASE n < m
  <2>1. reverse_index(index(n, m)) =
          IF index(n, m) - Sq(m) >= m THEN <<m, (index(n, m) - Sq(m)) - m>>
          ELSE <<index(n, m) - Sq(m), m>>
    BY <1>1, <1>4, ReverseIs
  <2>2. ~ (index(n, m) - Sq(m) >= m) /\ index(n, m) - Sq(m) = n
    BY <1>1, <1>2, <1>4
  <2>. QED
    BY <2>1, <2>2
<1>. QED
  BY <1>3, <1>4

LEMMA IndexOfReverse ==
  ASSUME NEW k \in Nat
  PROVE  /\ reverse_index(k)[1] \in Nat /\ reverse_index(k)[2] \in Nat
         /\ index(reverse_index(k)[1], reverse_index(k)[2]) = k
<1>1. PICK r \in Nat : Sq(r) <= k /\ k < Sq(r + 1)
  BY ShellExists
<1>2. Sq(r) \in Nat /\ Sq(r + 1) = Sq(r) + 2 * r + 1
  BY SqNext
<1>3. reverse_index(k) = IF k - Sq(r) >= r THEN <<r, (k - Sq(r)) - r>> ELSE <<k - Sq(r), r>>
  BY <1>1, ReverseIs
<1>4. CASE k - Sq(r) >= r
  <2>1. reverse_index(k)[1] = r /\ reverse_index(k)[2] = (k - Sq(r)) - r
    BY <1>3, <1>4
  <2>2. (k - Sq(r)) - r \in Nat /\ r >= (k - Sq(r)) - r
    BY <1>1, <1>2, <1>4
  <2>3. index(r, (k - Sq(r)) - r) = Sq(r) + r + ((k - Sq(r)) - r)
    BY <2>2, IndexIn
  <2>. QED
    BY <1>2, <2>1, <2>2, <2>3
<1>5. CASE ~ (k - Sq(r) >= r)
  <2>1. reverse_index(k)[1] = k - Sq(r) /\ reverse_index(k)[2] = r
    BY <1>3, <1>5
  <2>2. k - Sq(r) \in Nat /\ k - Sq(r) < r
    BY <1>1, <1>2, <1>5
  <2>3. index(k - Sq(r), r) = Sq(r) + (k - Sq(r))
    BY <2>2, IndexIn
  <2>. QED
    BY <1>2, <2>1, <2>2, <2>3
<1>. QED
  BY <1>4, <1>5

LEMMA CellsAre ==
  ASSUME NEW n \in 0..MaxSize
  PROVE  \A k : k \in Cells(n * n) <=> k \in Nat /\ k < Sq(n)
<1>1. MaxSize \in Nat /\ n \in Nat /\ n <= MaxSize
  BY SquareAssumption
<1>2. Sq(n) <= Sq(MaxSize) /\ Sq(n) \in Nat /\ Sq(MaxSize) \in Nat
  BY <1>1, SqUp, SqNext
<1>3. Cells(n * n) = {i \in 0..Sq(MaxSize) : i < Sq(n)}
  BY DEF Cells, Sq
<1>. QED
  BY <1>2, <1>3

LEMMA BelowAre ==
  ASSUME NEW n \in 0..MaxSize
  PROVE  \A i : i \in Below(n) <=> i \in Nat /\ i < n
BY SquareAssumption DEF Below

-----------------------------------------------------------------------------
(* Where pop_rowcol(x) takes the cell from that ends at the place k.        *)
Src(k, x) ==
  LET r == Root(k)
      rem == k - Sq(r)
  IN IF r < x THEN k ELSE Sq(r + 1) + rem + Flag(rem >= x) + Flag(rem >= r + x)

(* Where a row or a column was before pop_rowcol(x).                        *)
Earlier(i, x) == i + Flag(i >= x)

LEMMA SrcIs ==
  ASSUME NEW k \in Nat, NEW x \in Nat, NEW r \in Nat, Sq(r) <= k, k < Sq(r + 1)
  PROVE  /\ k - Sq(r) \in Nat
         /\ Sq(r + 1) = Sq(r) + 2 * r + 1
         /\ r < x => Src(k, x) = k
         /\ r >= x => Src(k, x) = Sq(r + 1) + (k - Sq(r)) + (IF k - Sq(r) >= x THEN 1 ELSE 0)
                                   + (IF k - Sq(r) >= r + x THEN 1 ELSE 0)
<1>1. Root(k) = r
  BY RootIs
<1>2. Sq(r) \in Nat /\ Sq(r + 1) = Sq(r) + 2 * r + 1
  BY SqNext
<1>. QED
  BY <1>1, <1>2 DEF Src, Flag

(* It is where the row and the column were.                                 *)
LEMMA SrcOfIndex ==
  ASSUME NEW i \in Nat, NEW j \in Nat, NEW x \in Nat
  PROVE  Src(index(i, j), x) = index(Earlier(i, x), Earlier(j, x))
<1>1. /\ Earlier(i, x) = (IF i >= x THEN i + 1 ELSE i) /\ Earlier(i, x) \in Nat
      /\ Earlier(j, x) = (IF j >= x THEN j + 1 ELSE j) /\ Earlier(j, x) \in Nat
  BY DEF Earlier, Flag
<1>2. CASE i >= j
  <2>1. /\ index(i, j) = Sq(i) + i + j /\ index(i, j) \in Nat
        /\ Sq(i) <= index(i, j) /\ index(i, j) < Sq(i + 1)
    BY <1>2, IndexIn
  <2>2. Sq(i) \in Nat /\ index(i, j) - Sq(i) = i + j
    BY <2>1, SqNext
  <2>3. CASE i < x
    <3>1. Src(index(i, j), x) = index(i, j)
      BY <2>1, <2>3, SrcIs
    <3>2. Earlier(i, x) = i /\ Earlier(j, x) = j
      BY <1>1, <1>2, <2>3
    <3>. QED
      BY <3>1, <3>2
  <2>4. CASE i >= x
    <3>1. Src(index(i, j), x) = Sq(i + 1) + (i + j) + (IF i + j >= x THEN 1 ELSE 0)
                                  + (IF i + j >= i + x THEN 1 ELSE 0)
      BY <2>1, <2>2, <2>4, SrcIs
    <3>2. Earlier(i, x) = i + 1 /\ Earlier(i, x) >= Earlier(j, x)
      BY <1>1, <1>2, <2>4
    <3>3. index(Earlier(i, x), Earlier(j, x)) = Sq(i + 1) + (i + 1) + Earlier(j, x)
      <4>1. index(Earlier(i, x), Earlier(j, x)) =
              Sq(Earlier(i, x)) + Earlier(i, x) + Earlier(j, x)
        BY <1>1, <3>2, IndexIn
      <4>. QED
        BY <3>2, <4>1
    <3>4. Sq(i + 1) \in Nat
      BY SqNext
    <3>. QED
      BY <1>1, <2>4, <3>1, <3>3, <3>4
  <2>. QED
    BY <2>3, <2>4
<1>3. CASE i < j
  <2>1. /\ index(i, j) = Sq(j) + i /\ index(i, j) \in Nat
        /\ Sq(j) <= index(i, j) /\ index(i, j) < Sq(j + 1)
    BY <1>3, IndexIn
  <2>2. Sq(j) \in Nat /\ index(i, j) - Sq(j) = i
    BY <2>1, SqNext
  <2>3. CASE j < x
    <3>1. Src(index(i, j), x) = index(i, j)
      BY <2>1, <2>3, SrcIs
    <3>2. Earlier(i, x) = i /\ Earlier(j, x) = j
      BY <1>1, <1>3, <2>3
    <3>. QED
      BY <3>1, <3>2
  <2>4. CASE j >= x
    <3>1. Src(index(i, j), x) = Sq(j + 1) + i + (IF i >= x THEN 1 ELSE 0)
                                  + (IF i >= j + x THEN 1 ELSE 0)
      BY <2>1, <2>2, <2>4, SrcIs
    <3>2. Earlier(j, x) = j + 1 /\ Earlier(i, x) < Earlier(j, x)
      BY <1>1, <1>3, <2>4
    <3>3. index(Earlier(i, x), Earlier(j, x)) = Sq(j + 1) + Earlier(i, x)
      <4>1. index(Earlier(i, x), Earlier(j, x)) = Sq(Earlier(j, x)) + Earlier(i, x)
        BY <1>1, <3>2, IndexIn
      <4>. QED
        BY <3>2, <4>1
    <3>4. Sq(j + 1) \in Nat
      BY SqNext
    <3>. QED
      BY <1>1, <1>3, <2>4, <3>1, <3>3, <3>4
  <2>. QED
    BY <2>3, <2>4
<1>. QED
  BY <1>2, <1>3

-----------------------------------------------------------------------------
(* What the loop has in srcidx before the turn for the place d.             *)
At(d, x) == IF d = Sq(x) THEN (Sq(x + 1) - 1) + Flag(x = 0) ELSE Src(d - 1, x)

Skipped(next, n, x) == next + Flag(next = Sq(n) + x \/ next = Sq(n) + n + x)

(* A turn takes the next place, or the one after it where that is in the    *)
(* row or the column that goes; it is above all that the loop has been to.  *)
LEMMA SrcNext ==
  ASSUME NEW x \in Nat, NEW d \in Nat, NEW r \in Nat, Sq(r) <= d, d < Sq(r + 1), x <= r
  PROVE  /\ Skipped(At(d, x) + 1, r + 1, x) = Src(d, x)
         /\ Src(d, x) \in Nat /\ At(d, x) \in Nat
         /\ At(d, x) < Src(d, x) /\ d < Src(d, x) /\ Src(d, x) < Sq(r + 2)
<1>. DEFINE q == Sq(r)
            rem == d - q
<1>1. q \in Nat /\ Sq(r + 1) = q + 2 * r + 1 /\ Sq(r + 2) = q + 4 * r + 4
  <2>1. r + 1 \in Nat /\ r + 2 = (r + 1) + 1
    OBVIOUS
  <2>. QED
    BY <2>1, SqNext
<1>2. rem \in Nat /\ rem <= 2 * r /\ d = q + rem
  BY <1>1
<1>3. Src(d, x) = Sq(r + 1) + rem + (IF rem >= x THEN 1 ELSE 0) + (IF rem >= r + x THEN 1 ELSE 0)
  BY SrcIs
<1>. HIDE DEF rem, q
<1>4. /\ At(d, x) \in Nat
      /\ At(d, x) < Src(d, x)
      /\ Skipped(At(d, x) + 1, r + 1, x) = Src(d, x)
  <2>1. CASE d = Sq(x)
    <3>1. r = x /\ rem = 0
      <4>1. Sq(x) <= d /\ d < Sq(x + 1)
        BY <2>1, SqNext, SMTT(90)
      <4>2. r = x
        BY <4>1, ShellUnique
      <4>. QED
        BY <2>1, <4>2 DEF rem, q
    <3>2. At(d, x) = (Sq(r + 1) - 1) + (IF x = 0 THEN 1 ELSE 0)
      BY <2>1, <3>1 DEF At, Flag
    <3>. QED
      BY <1>1, <1>2, <1>3, <3>1, <3>2 DEF Skipped, Flag
  <2>2. CASE d # Sq(x) /\ rem # 0
    <3>1. d - 1 \in Nat /\ Sq(r) <= d - 1 /\ d - 1 < Sq(r + 1) /\ (d - 1) - Sq(r) = rem - 1
      BY <1>1, <1>2, <2>2 DEF q
    <3>2. Src(d - 1, x) = Sq(r + 1) + (rem - 1) + (IF rem - 1 >= x THEN 1 ELSE 0)
                            + (IF rem - 1 >= r + x THEN 1 ELSE 0)
      BY <3>1, SrcIs
    <3>3. At(d, x) = Src(d - 1, x)
      BY <2>2 DEF At
    <3>. QED
      BY <1>1, <1>2, <1>3, <2>2, <3>2, <3>3 DEF Skipped, Flag
  <2>3. CASE d # Sq(x) /\ rem = 0
    <3>1. r # x
      BY <1>1, <1>2, <2>3 DEF q
    <3>2. r - 1 \in Nat /\ x <= r - 1 /\ (r - 1) + 1 = r
      BY <3>1
    <3>3. Sq(r - 1) \in Nat /\ q = Sq(r - 1) + 2 * (r - 1) + 1
      BY <3>2, SqNext DEF q
    <3>4. d - 1 \in Nat /\ Sq(r - 1) <= d - 1 /\ d - 1 < Sq((r - 1) + 1)
          /\ (d - 1) - Sq(r - 1) = 2 * (r - 1)
      BY <1>1, <1>2, <2>3, <3>2, <3>3 DEF q
    <3>5. Src(d - 1, x) = Sq((r - 1) + 1) + 2 * (r - 1) + (IF 2 * (r - 1) >= x THEN 1 ELSE 0)
                            + (IF 2 * (r - 1) >= (r - 1) + x THEN 1 ELSE 0)
      BY <3>2, <3>4, SrcIs
    <3>6. Src(d - 1, x) = q + 2 * r
      BY <1>1, <3>2, <3>5 DEF q
    <3>7. At(d, x) = q + 2 * r
      BY <2>3, <3>6 DEF At
    <3>. QED
      BY <1>1, <1>2, <1>3, <2>3, <3>2, <3>7 DEF Skipped, Flag
  <2>. QED
    BY <2>1, <2>2, <2>3
<1>. QED
  BY <1>1, <1>2, <1>3, <1>4

(* What holds before the turn for the place d: n and srcidx are where the   *)
(* loop has them; the places before d have what they should get, and those  *)
(* after srcidx what they had.                                              *)
Popping(s, vec, x, d, C) ==
  /\ s.n = (IF d = Sq(x) THEN x ELSE Root(d - 1) + 1)
  /\ s.src = At(d, x)
  /\ s.vec = [k \in C |-> s.vec[k]]
  /\ \A k \in C :
       /\ k < Sq(x) => s.vec[k] = vec[k]
       /\ Sq(x) <= k /\ k < d => s.vec[k] = vec[Src(k, x)]
       /\ k > At(d, x) => s.vec[k] = vec[k]

Start(vec, x) == [n |-> x, src |-> (x + 1) * (x + 1) - 1 + Flag(x = 0), vec |-> vec]

LEMMA TurnRow ==
  ASSUME NEW x \in Nat, NEW d \in Nat, NEW r \in Nat, Sq(r) <= d, d < Sq(r + 1), x <= r,
         NEW n, n = (IF d = Sq(x) THEN x ELSE Root(d - 1) + 1)
  PROVE  n + Flag(d >= n * n) = r + 1
<1>1. Sq(r) \in Nat /\ Sq(r + 1) = Sq(r) + 2 * r + 1 /\ Sq(x) \in Nat /\ Sq(x) < Sq(x + 1)
  BY SqNext, SMTT(90)
<1>2. n \in Nat => n + Flag(d >= n * n) = IF d >= Sq(n) THEN n + 1 ELSE n
  BY DEF Flag, Sq
<1>3. CASE d = Sq(x)
  <2>1. r = x
    BY <1>1, <1>3, ShellUnique
  <2>. QED
    BY <1>2, <1>3, <2>1
<1>4. CASE d # Sq(x) /\ d = Sq(r)
  <2>1. r - 1 \in Nat /\ (r - 1) + 1 = r
    BY <1>4
  <2>2. Sq(r - 1) \in Nat /\ Sq(r) = Sq(r - 1) + 2 * (r - 1) + 1
    BY <2>1, SqNext
  <2>3. d - 1 \in Nat /\ Sq(r - 1) <= d - 1 /\ d - 1 < Sq((r - 1) + 1)
    BY <1>4, <2>1, <2>2
  <2>4. n = r
    BY <1>4, <2>1, <2>3, RootIs
  <2>. QED
    BY <1>1, <1>2, <1>4, <2>4
<1>5. CASE d # Sq(x) /\ d # Sq(r)
  <2>1. d - 1 \in Nat /\ Sq(r) <= d - 1 /\ d - 1 < Sq(r + 1)
    BY <1>1, <1>5
  <2>2. n = r + 1
    BY <1>5, <2>1, RootIs
  <2>. QED
    BY <1>1, <1>2, <2>2
<1>. QED
  BY <1>3, <1>4, <1>5

LEMMA PopTurnKeeps ==
  ASSUME NEW size \in 1..MaxSize, NEW x \in 0..(size - 1), NEW vec,
         NEW d \in Nat, Sq(x) <= d, d < Sq(size - 1),
         NEW s, Popping(s, vec, x, d, Cells(size * size))
  PROVE  Popping(PopTurn(s, d, x), vec, x, d + 1, Cells(size * size))
<1>. DEFINE C == Cells(size * size)
<1>1. /\ size \in Nat /\ size - 1 \in Nat /\ x \in Nat /\ x <= size - 1 /\ size = (size - 1) + 1
      /\ size \in 0..MaxSize
  BY SquareAssumption
<1>2. \A k : k \in C <=> k \in Nat /\ k < Sq(size)
  BY <1>1, CellsAre
<1>. HIDE DEF C
<1>3. PICK r \in Nat : Sq(r) <= d /\ d < Sq(r + 1)
  BY ShellExists
<1>4. Sq(r) \in Nat /\ Sq(r + 1) \in Nat /\ Sq(x) \in Nat /\ Sq(size - 1) \in Nat
  BY <1>1, SqNext, SMTT(90)
<1>5. x <= r
  <2>1. r + 1 <= x => Sq(r + 1) <= Sq(x)
    BY <1>1, SqUp
  <2>. QED
    BY <1>1, <1>3, <1>4, <2>1
<1>6. r + 2 <= size
  <2>1. size - 1 <= r => Sq(size - 1) <= Sq(r)
    BY <1>1, SqUp
  <2>. QED
    BY <1>1, <1>3, <1>4, <2>1
<1>. DEFINE src == Src(d, x)
<1>7. /\ Skipped(At(d, x) + 1, r + 1, x) = src
      /\ src \in Nat /\ At(d, x) \in Nat
      /\ At(d, x) < src /\ d < src /\ src < Sq(r + 2)
  BY <1>1, <1>3, <1>5, SrcNext
<1>8. d \in C /\ src \in C
  <2>1. Sq(r + 2) <= Sq(size)
    BY <1>1, <1>6, SqUp
  <2>2. Sq(size) \in Nat /\ Sq(r + 2) \in Nat
    BY <1>1, SqNext, SMTT(90)
  <2>. QED
    BY <1>2, <1>7, <2>1, <2>2
<1>9. At(d + 1, x) = src
  BY <1>4 DEF At
<1>. HIDE DEF src
<1>. DEFINE t == PopTurn(s, d, x)
<1>10. t = [n |-> r + 1, src |-> src,
            vec |-> [s.vec EXCEPT ![d] = s.vec[src], ![src] = Moved]]
  <2>1. s.n + Flag(d >= s.n * s.n) = r + 1
    <3>1. s.n = (IF d = Sq(x) THEN x ELSE Root(d - 1) + 1)
      BY DEF Popping
    <3>. QED
      BY <1>1, <1>3, <1>5, <3>1, TurnRow
  <2>2. /\ s.src = At(d, x)
        /\ \A next, n : Skipped(next, n, x) =
                 next + Flag(next = n * n + x \/ next = n * n + n + x)
    BY DEF Popping, Skipped, Sq
  <2>. QED
    BY <1>7, <2>1, <2>2 DEF PopTurn
<1>. HIDE DEF t
<1>11. t.n = r + 1 /\ t.src = src
  BY <1>10
<1>12. t.vec = [k \in C |-> IF k = src THEN Moved ELSE IF k = d THEN s.vec[src] ELSE s.vec[k]]
  <2>1. s.vec = [k \in C |-> s.vec[k]]
    BY DEF Popping, C
  <2>2. t.vec = [s.vec EXCEPT ![d] = s.vec[src], ![src] = Moved]
    BY <1>10
  <2>. QED
    BY <1>7, <1>8, <2>1, <2>2
<1>13. \A k \in C :
         /\ k < Sq(x) => s.vec[k] = vec[k]
         /\ Sq(x) <= k /\ k < d => s.vec[k] = vec[Src(k, x)]
         /\ k > At(d, x) => s.vec[k] = vec[k]
  BY DEF Popping, C
<1>14. ASSUME NEW k \in C
       PROVE  /\ k < Sq(x) => t.vec[k] = vec[k]
              /\ Sq(x) <= k /\ k < d + 1 => t.vec[k] = vec[Src(k, x)]
              /\ k > src => t.vec[k] = vec[k]
  <2>1. k \in Nat
    BY <1>2
  <2>2. t.vec[k] = IF k = src THEN Moved ELSE IF k = d THEN s.vec[src] ELSE s.vec[k]
    BY <1>12
  <2>3. k < Sq(x) => t.vec[k] = vec[k]
    BY <1>4, <1>7, <1>13, <2>1, <2>2
  <2>4. Sq(x) <= k /\ k < d => t.vec[k] = vec[Src(k, x)]
    BY <1>7, <1>13, <2>1, <2>2
  <2>5. t.vec[d] = vec[Src(d, x)]
    <3>1. s.vec[src] = vec[src]
      BY <1>7, <1>8, <1>13
    <3>2. t.vec[d] = s.vec[src]
      BY <1>7, <1>8, <1>12
    <3>. QED
      BY <3>1, <3>2 DEF src
  <2>6. k > src => t.vec[k] = vec[k]
    BY <1>7, <1>13, <2>1, <2>2
  <2>7. k < d + 1 => k < d \/ k = d
    BY <2>1
  <2>. QED
    BY <2>3, <2>4, <2>5, <2>6, <2>7
<1>15. t.n = (IF d + 1 = Sq(x) THEN x ELSE Root((d + 1) - 1) + 1)
  <2>1. Root(d) = r
    BY <1>3, RootIs
  <2>2. d + 1 # Sq(x) /\ (d + 1) - 1 = d
    BY <1>4
  <2>. QED
    BY <1>11, <2>1, <2>2
<1>16. t.vec = [k \in C |-> t.vec[k]]
  BY <1>12
<1>. QED
  BY <1>9, <1>11, <1>14, <1>15, <1>16 DEF Popping, C, t

(* The equation that defines the loop, up to the place n.                   *)
IsPopLoop(f, vec, x, n) ==
  f = [d \in Sq(x)..n |-> IF d = Sq(x) THEN Start(vec, x) ELSE PopTurn(f[d - 1], d - 1, x)]

LEMMA PopLoopExists ==
  ASSUME NEW vec, NEW x \in Nat
  PROVE  \A n \in Nat : \E f : IsPopLoop(f, vec, x, Sq(x) + n)
<1>. DEFINE b == Sq(x)
            Exists(n) == \E f : IsPopLoop(f, vec, x, b + n)
<1>1. b \in Nat
  BY SqNext
<1>2. Exists(0)
  <2>1. b..(b + 0) = {b}
    BY <1>1
  <2>2. IsPopLoop([d \in b..(b + 0) |-> Start(vec, x)], vec, x, b + 0)
    BY <2>1 DEF IsPopLoop
  <2>. QED
    BY <2>2
<1>3. ASSUME NEW n \in Nat \ {0}, Exists(n - 1) PROVE Exists(n)
  <2>1. PICK f : IsPopLoop(f, vec, x, b + (n - 1))
    BY <1>3
  <2>. DEFINE g == [d \in b..(b + n) |-> IF d = b THEN Start(vec, x) ELSE PopTurn(f[d - 1], d - 1, x)]
  <2>. HIDE DEF b
  <2>2. \A d \in b..(b + (n - 1)) : g[d] = f[d]
    <3>1. \A d \in b..(b + (n - 1)) :
            f[d] = IF d = b THEN Start(vec, x) ELSE PopTurn(f[d - 1], d - 1, x)
      BY <2>1 DEF IsPopLoop, b
    <3>2. \A d \in b..(b + (n - 1)) : d \in b..(b + n)
      BY <1>1
    <3>. QED
      BY <3>1, <3>2
  <2>3. \A d \in b..(b + n) : d # b => g[d - 1] = f[d - 1]
    <3>1. \A d \in b..(b + n) : d # b => d - 1 \in b..(b + (n - 1))
      BY <1>1
    <3>. QED
      BY <2>2, <3>1
  <2>4. IsPopLoop(g, vec, x, b + n)
    BY <2>3 DEF IsPopLoop, b
  <2>. QED
    BY <2>4
<1>. HIDE DEF Exists
<1>. SUFFICES ASSUME NEW n \in Nat, ~ Exists(n) PROVE FALSE
  BY DEF Exists
<1>. DEFINE T == {k \in Nat : ~ Exists(k)}
<1>4. PICK m \in T : \A k \in T : m <= k
  <2>1. T \in SUBSET Nat /\ n \in T
    OBVIOUS
  <2>. HIDE DEF T
  <2>. QED
    BY <2>1, LeastElement
<1>5. m \in Nat \ {0} /\ m - 1 \in Nat /\ m - 1 \notin T
  BY <1>2, <1>4
<1>. QED
  BY <1>3, <1>4, <1>5

(* pop_rowcol gives each place of the smaller matrix the cell it should get. *)
LEMMA PoppedIs ==
  ASSUME NEW size \in 1..MaxSize, NEW x \in 0..(size - 1), NEW vec \in [Cells(size * size) -> CellValues]
  PROVE  PoppedRowcol(vec, size, x) = [k \in Cells((size - 1) * (size - 1)) |-> vec[Src(k, x)]]
<1>. DEFINE C == Cells(size * size)
            b == Sq(x)
            end == Sq(size - 1)
            f == CHOOSE h : IsPopLoop(h, vec, x, end)
<1>1. /\ size \in Nat /\ size - 1 \in Nat /\ x \in Nat /\ x <= size - 1 /\ size = (size - 1) + 1
      /\ size \in 0..MaxSize /\ size - 1 \in 0..MaxSize
  BY SquareAssumption
<1>2. b \in Nat /\ end \in Nat /\ b <= end /\ Sq(size) = end + 2 * (size - 1) + 1 /\ Sq(x + 1) \in Nat
  <2>1. Sq((size - 1) + 1) = Sq(size - 1) + 2 * (size - 1) + 1 /\ Sq(size - 1) \in Nat
    BY <1>1, SqNext
  <2>2. Sq(x) <= Sq(size - 1)
    BY <1>1, SqUp
  <2>3. Sq(x) \in Nat /\ Sq(x + 1) \in Nat
    BY <1>1, SqNext, SMTT(90)
  <2>. QED
    BY <1>1, <2>1, <2>2, <2>3
<1>3. \A k : k \in C <=> k \in Nat /\ k < Sq(size)
  BY <1>1, CellsAre
<1>4. IsPopLoop(f, vec, x, end)
  <2>1. end - b \in Nat /\ b + (end - b) = end
    BY <1>2
  <2>2. \E h : IsPopLoop(h, vec, x, b + (end - b))
    BY <1>1, <2>1, PopLoopExists
  <2>. QED
    BY <2>1, <2>2
<1>5. PoppedRowcol(vec, size, x) = ResizedTo(f[end].vec, size - 1, CellDefault)
  <2>1. size * size - ((2 * x + 1) + 2 * (size - (x + 1))) = end
    <3>1. Sq(size) - ((2 * x + 1) + 2 * (size - (x + 1))) = end
      BY <1>1, <1>2
    <3>. QED
      BY <3>1 DEF Sq
  <2>. HIDE DEF end
  <2>2. f = CHOOSE h : h = [d \in (x * x)..end |->
              IF d = x * x THEN Start(vec, x) ELSE PopTurn(h[d - 1], d - 1, x)]
    BY DEF IsPopLoop, Sq
  <2>. HIDE DEF f
  <2>. QED
    BY <2>1, <2>2 DEF PoppedRowcol, Start
<1>. HIDE DEF f, C
<1>6. \A d \in b..end : f[d] = IF d = b THEN Start(vec, x) ELSE PopTurn(f[d - 1], d - 1, x)
  BY <1>4 DEF IsPopLoop
<1>. HIDE DEF b, end
<1>7. Popping(Start(vec, x), vec, x, b, C)
  <2>1. Start(vec, x).n = x /\ Start(vec, x).vec = vec
    BY DEF Start
  <2>2. Start(vec, x).src = At(b, x)
    BY DEF Start, At, b, Sq
  <2>3. vec = [k \in C |-> vec[k]]
    BY DEF C
  <2>4. \A k \in C : ~ (Sq(x) <= k /\ k < b)
    BY <1>2, <1>3 DEF b
  <2>. QED
    BY <2>1, <2>2, <2>3, <2>4 DEF Popping, b
<1>8. \A d \in b..end : Popping(f[d], vec, x, d, C)
  <2>. DEFINE T == {d \in b..end : ~ Popping(f[d], vec, x, d, C)}
  <2>. SUFFICES ASSUME T # {} PROVE FALSE
    OBVIOUS
  <2>1. PICK m \in T : \A d \in T : m <= d
    <3>1. T \in SUBSET Nat
      BY <1>2
    <3>. HIDE DEF T
    <3>. QED
      BY <3>1, LeastElement
  <2>2. m # b
    BY <1>2, <1>6, <1>7, <2>1
  <2>3. m - 1 \in b..end /\ m - 1 \notin T /\ (m - 1) + 1 = m /\ m - 1 \in Nat /\ m - 1 < end
    BY <1>2, <2>1, <2>2
  <2>4. Popping(PopTurn(f[m - 1], m - 1, x), vec, x, (m - 1) + 1, C)
    BY <2>3, PopTurnKeeps DEF b, end, C
  <2>. QED
    BY <1>6, <2>1, <2>2, <2>3, <2>4
<1>9. Popping(f[end], vec, x, end, C)
  BY <1>2, <1>8
<1>. DEFINE D == Cells((size - 1) * (size - 1))
<1>10. \A k : k \in D <=> k \in Nat /\ k < end
  BY <1>1, CellsAre DEF end
<1>. HIDE DEF D
<1>11. ASSUME NEW k \in D
       PROVE  k \in DOMAIN f[end].vec /\ f[end].vec[k] = vec[Src(k, x)]
  <2>1. k \in Nat /\ k < end /\ k \in C
    BY <1>1, <1>2, <1>3, <1>10
  <2>2. k \in DOMAIN f[end].vec
    BY <1>9, <2>1 DEF Popping
  <2>3. CASE k < b
    <3>1. PICK r \in Nat : Sq(r) <= k /\ k < Sq(r + 1)
      BY <2>1, ShellExists
    <3>2. r < x
      <4>1. x <= r => Sq(x) <= Sq(r)
        BY <1>1, SqUp
      <4>2. Sq(r) \in Nat
        BY SqNext
      <4>. QED
        BY <1>1, <1>2, <2>1, <2>3, <3>1, <4>1, <4>2 DEF b
    <3>3. Src(k, x) = k
      BY <1>1, <2>1, <3>1, <3>2, SrcIs
    <3>. QED
      BY <1>9, <2>1, <2>2, <2>3, <3>3 DEF Popping, b
  <2>4. CASE b <= k
    BY <1>9, <2>1, <2>2, <2>4 DEF Popping, b
  <2>. QED
    BY <1>2, <2>1, <2>3, <2>4
<1>. QED
  BY <1>5, <1>11 DEF ResizedTo, D

-----------------------------------------------------------------------------
(* The vector has the cells of a square of the size, each a value.          *)
SquareInv ==
  /\ size_ \in 0..MaxSize
  /\ vec_ \in [Cells(size_ * size_) -> CellValues]

LEMMA SrcInside ==
  ASSUME NEW size \in 1..MaxSize, NEW x \in 0..(size - 1),
         NEW k \in Cells((size - 1) * (size - 1))
  PROVE  Src(k, x) \in Cells(size * size)
<1>1. /\ size \in Nat /\ size - 1 \in Nat /\ x \in Nat
      /\ size \in 0..MaxSize /\ size - 1 \in 0..MaxSize
  BY SquareAssumption
<1>2. k \in Nat /\ k < Sq(size - 1)
  BY <1>1, CellsAre
<1>. DEFINE i == reverse_index(k)[1]
            j == reverse_index(k)[2]
<1>3. i \in Nat /\ j \in Nat /\ index(i, j) = k
  BY <1>2, IndexOfReverse
<1>. HIDE DEF i, j
<1>4. i < size - 1 /\ j < size - 1
  BY <1>1, <1>2, <1>3, PlaceIn
<1>5. /\ Earlier(i, x) \in Nat /\ Earlier(i, x) < size
      /\ Earlier(j, x) \in Nat /\ Earlier(j, x) < size
  BY <1>1, <1>3, <1>4 DEF Earlier, Flag
<1>6. index(Earlier(i, x), Earlier(j, x)) < Sq(size) /\ index(Earlier(i, x), Earlier(j, x)) \in Nat
  BY <1>1, <1>5, PlaceIn, IndexIn
<1>7. Src(k, x) = index(Earlier(i, x), Earlier(j, x))
  BY <1>1, <1>3, SrcOfIndex
<1>. QED
  BY <1>1, <1>6, <1>7, CellsAre

LEMMA SquareStepKeeps ==
  ASSUME SquareInv, [SquareNext]_squareVars
  PROVE  SquareInv'
<1>1. ASSUME NEW n \in 0..MaxSize, NEW v \in CellValues, Resize(n, v) PROVE SquareInv'
  BY <1>1 DEF SquareInv, Resize, ResizedTo
<1>2. ASSUME NEW n, NEW m, NEW v \in CellValues, Assign(n, m, v) PROVE SquareInv'
  BY <1>2 DEF SquareInv, Assign
<1>3. ASSUME NEW x \in Below(size_), PopRowcol(x) PROVE SquareInv'
  <2>1. size_ \in 1..MaxSize /\ x \in 0..(size_ - 1) /\ size_ - 1 \in 0..MaxSize
    BY BelowAre, SquareAssumption DEF SquareInv
  <2>2. vec_' = [k \in Cells((size_ - 1) * (size_ - 1)) |-> vec_[Src(k, x)]] /\ size_' = size_ - 1
    BY <1>3, <2>1, PoppedIs DEF PopRowcol, SquareInv
  <2>3. \A k \in Cells((size_ - 1) * (size_ - 1)) : vec_[Src(k, x)] \in CellValues
    BY <2>1, SrcInside DEF SquareInv
  <2>. QED
    BY <2>1, <2>2, <2>3 DEF SquareInv
<1>4. CASE UNCHANGED squareVars
  BY <1>4 DEF SquareInv, squareVars
<1>. QED
  BY <1>1, <1>2, <1>3, <1>4 DEF SquareNext

LEMMA SquareInvLayout == SquareInv => LayoutExact
<1>. SUFFICES ASSUME SquareInv PROVE LayoutExact
  OBVIOUS
<1>1. size_ \in 0..MaxSize /\ size_ \in Nat /\ DOMAIN vec_ = Cells(size_ * size_)
  BY SquareAssumption DEF SquareInv
<1>2. ASSUME NEW n \in Below(size_), NEW m \in Below(size_)
      PROVE  index(n, m) \in DOMAIN vec_ /\ reverse_index(index(n, m)) = <<n, m>>
  <2>1. n \in Nat /\ m \in Nat /\ n < size_ /\ m < size_
    BY <1>1, BelowAre
  <2>2. index(n, m) \in Nat /\ index(n, m) < Sq(size_)
    BY <1>1, <2>1, PlaceIn, IndexIn
  <2>. QED
    BY <1>1, <2>1, <2>2, CellsAre, ReverseOfIndex
<1>3. ASSUME NEW k \in DOMAIN vec_
      PROVE  /\ index(reverse_index(k)[1], reverse_index(k)[2]) = k
             /\ vec_[k] \in CellValues
  <2>1. k \in Nat
    BY <1>1, CellsAre
  <2>. QED
    BY <2>1, IndexOfReverse DEF SquareInv
<1>. QED
  BY <1>1, <1>2, <1>3 DEF LayoutExact

LEMMA SquareInvCells == SquareInv => CellsKept
<1>. SUFFICES ASSUME SquareInv PROVE CellsKept
  OBVIOUS
<1>1. size_ \in 0..MaxSize /\ size_ \in Nat /\ vec_ \in [Cells(size_ * size_) -> CellValues]
  BY SquareAssumption DEF SquareInv
<1>. DEFINE matrix == AsMatrix(vec_, size_)
<1>2. /\ DOMAIN matrix = Below(size_) \X Below(size_)
      /\ \A i, j \in Below(size_) : matrix[<<i, j>>] = vec_[index(i, j)]
  BY DEF AsMatrix
<1>. HIDE DEF matrix
<1>3. ASSUME NEW n \in 0..MaxSize, NEW v \in CellValues
      PROVE  AsMatrix(ResizedTo(vec_, n, v), n) =
               [p \in Below(n) \X Below(n) |-> IF p \in DOMAIN matrix THEN matrix[p] ELSE v]
  <2>1. ASSUME NEW i \in Below(n), NEW j \in Below(n)
        PROVE  ResizedTo(vec_, n, v)[index(i, j)] =
                 IF <<i, j>> \in DOMAIN matrix THEN matrix[<<i, j>>] ELSE v
    <3>1. i \in Nat /\ j \in Nat /\ i < n /\ j < n /\ n \in Nat
      BY SquareAssumption, BelowAre
    <3>2. index(i, j) \in Nat /\ index(i, j) < Sq(n)
      BY <3>1, PlaceIn, IndexIn
    <3>3. index(i, j) \in Cells(n * n)
      BY <3>2, CellsAre
    <3>4. index(i, j) \in DOMAIN vec_ <=> i \in Below(size_) /\ j \in Below(size_)
      BY <1>1, <3>1, <3>2, CellsAre, PlaceIn, BelowAre
    <3>5. ResizedTo(vec_, n, v)[index(i, j)] =
            IF index(i, j) \in DOMAIN vec_ THEN vec_[index(i, j)] ELSE v
      BY <3>3 DEF ResizedTo
    <3>. QED
      BY <1>2, <3>4, <3>5
  <2>2. \A p \in Below(n) \X Below(n) :
          ResizedTo(vec_, n, v)[index(p[1], p[2])] = IF p \in DOMAIN matrix THEN matrix[p] ELSE v
    BY <2>1
  <2>. QED
    BY <2>2 DEF AsMatrix
<1>4. ASSUME NEW x \in Below(size_)
      PROVE  AsMatrix(PoppedRowcol(vec_, size_, x), size_ - 1) =
               [p \in Below(size_ - 1) \X Below(size_ - 1) |->
                  matrix[<<Earlier(p[1], x), Earlier(p[2], x)>>]]
  <2>1. size_ \in 1..MaxSize /\ x \in 0..(size_ - 1) /\ size_ - 1 \in 0..MaxSize /\ x \in Nat
    BY <1>1, BelowAre, SquareAssumption
  <2>. DEFINE popped == PoppedRowcol(vec_, size_, x)
  <2>2. popped = [k \in Cells((size_ - 1) * (size_ - 1)) |-> vec_[Src(k, x)]]
    BY <1>1, <2>1, PoppedIs
  <2>. HIDE DEF popped
  <2>3. ASSUME NEW i \in Below(size_ - 1), NEW j \in Below(size_ - 1)
        PROVE  popped[index(i, j)] = matrix[<<Earlier(i, x), Earlier(j, x)>>]
    <3>1. i \in Nat /\ j \in Nat /\ i < size_ - 1 /\ j < size_ - 1 /\ size_ - 1 \in Nat
      BY <2>1, BelowAre
    <3>2. index(i, j) \in Nat /\ index(i, j) < Sq(size_ - 1)
      BY <3>1, PlaceIn, IndexIn
    <3>3. index(i, j) \in Cells((size_ - 1) * (size_ - 1))
      BY <2>1, <3>2, CellsAre
    <3>4. popped[index(i, j)] = vec_[index(Earlier(i, x), Earlier(j, x))]
      BY <2>1, <2>2, <3>1, <3>3, SrcOfIndex
    <3>5. /\ Earlier(i, x) \in Nat /\ Earlier(i, x) < size_
          /\ Earlier(j, x) \in Nat /\ Earlier(j, x) < size_
      BY <1>1, <2>1, <3>1 DEF Earlier, Flag
    <3>6. Earlier(i, x) \in Below(size_) /\ Earlier(j, x) \in Below(size_)
      BY <1>1, <3>5, BelowAre
    <3>. QED
      BY <1>2, <3>4, <3>6
  <2>4. \A p \in Below(size_ - 1) \X Below(size_ - 1) :
          popped[index(p[1], p[2])] = matrix[<<Earlier(p[1], x), Earlier(p[2], x)>>]
    BY <2>3
  <2>5. AsMatrix(popped, size_ - 1) =
          [p \in Below(size_ - 1) \X Below(size_ - 1) |->
             matrix[<<Earlier(p[1], x), Earlier(p[2], x)>>]]
    BY <2>4 DEF AsMatrix
  <2>. QED
    BY <2>5 DEF popped
<1>. QED
  BY <1>3, <1>4 DEF CellsKept, Earlier, matrix

LEMMA SquareInvariance == Spec => []SquareInv
<1>1. Init => SquareInv
  <2> SUFFICES ASSUME Init PROVE SquareInv
    OBVIOUS
  <2>1. size_ = 0 /\ vec_ = [k \in {} |-> CellDefault] /\ 0 \in 0..MaxSize
    BY SquareAssumption DEF Init, SquareInit
  <2>2. Cells(0 * 0) = {}
    <3>1. \A k : k \in Cells(0 * 0) <=> k \in Nat /\ k < Sq(0)
      BY <2>1, CellsAre
    <3>2. Sq(0) = 0
      BY DEF Sq
    <3>. QED
      BY <3>1, <3>2
  <2>. QED
    BY <2>1, <2>2 DEF SquareInv
<1>2. SquareInv /\ [Next]_vars => SquareInv'
  BY PartSteps, SquareStepKeeps
<1>. QED
  BY <1>1, <1>2, PTL DEF Spec

(* A matrix of any size keeps every cell at its place: index and            *)
(* reverse_index are inverse, resize and add_rowcol lose nothing that still *)
(* has a place, and pop_rowcol takes out one row and one column; every      *)
(* other cell keeps its value, and none is what a move left behind.         *)
THEOREM CellsStayInPlace == Spec => []SquareIntact
<1>1. SquareInv => SquareIntact
  BY SquareInvLayout, SquareInvCells DEF SquareIntact
<1>. QED
  BY <1>1, SquareInvariance, PTL
=============================================================================
