----------------------------- MODULE Containers -----------------------------
(***************************************************************************)
(* The parts of the library that know no threads, checked together.  They   *)
(* share nothing, so a behaviour uses one of them and leaves the others as  *)
(* they were.                                                               *)
(***************************************************************************)
EXTENDS Queue, FlatMap, DynamicSquareMatrix, Range, Curry, TypePack, Span

VARIABLE used   (* the part that the behaviour uses                         *)

Parts == {"Queue", "FlatMap", "DynamicSquareMatrix", "Range", "Curry", "TypePack",
          "Span"}

vars == <<used, queueVars, container_, squareVars, range_, curryVars, pack_,
          spanVars>>

Init ==
  /\ used \in Parts
  /\ QueueInit
  /\ MapInit
  /\ SquareInit
  /\ RangeInit
  /\ CurryInit
  /\ PackInit
  /\ SpanInit

(* The variables of the parts that are not used.                            *)
Others(part) ==
  /\ UNCHANGED used
  /\ part # "Queue" => UNCHANGED queueVars
  /\ part # "FlatMap" => UNCHANGED container_
  /\ part # "DynamicSquareMatrix" => UNCHANGED squareVars
  /\ part # "Range" => UNCHANGED range_
  /\ part # "Curry" => UNCHANGED curryVars
  /\ part # "TypePack" => UNCHANGED pack_
  /\ part # "Span" => UNCHANGED spanVars

Next ==
  \/ used = "Queue" /\ QueueNext /\ Others("Queue")
  \/ used = "FlatMap" /\ MapNext /\ Others("FlatMap")
  \/ used = "DynamicSquareMatrix" /\ SquareNext /\ Others("DynamicSquareMatrix")
  \/ used = "Range" /\ RangeNext /\ Others("Range")
  \/ used = "Curry" /\ CurryNext /\ Others("Curry")
  \/ used = "TypePack" /\ PackNext /\ Others("TypePack")
  \/ used = "Span" /\ SpanNext /\ Others("Span")

Spec == Init /\ [][Next]_vars
=============================================================================
