-------------------------------- MODULE Range --------------------------------
(***************************************************************************)
(* tpp::Range and its iterator (include/toypp/range.hpp) with the clamp of  *)
(* include/toypp/math.hpp.  clamp has the parameters min, max, value; the   *)
(* iterator calls it with the value first.                                  *)
(***************************************************************************)
EXTENDS Integers, Sequences, SequencesExt

CONSTANTS
  MaxNumber,   (* bound: the numbers that ranges are made of                *)
  MaxTurns     (* bound: after so many turns a loop is taken for endless    *)

ASSUME RangeAssumption == MaxNumber \in Nat /\ MaxTurns \in Nat /\ MaxTurns > 2 * MaxNumber

VARIABLE range_   (* the Range that the program has                         *)

RangeInit == range_ = [start |-> 0, end |-> 0, step |-> 0]

clamp(min, max, value) ==
  IF value >= max THEN max ELSE IF value <= min THEN min ELSE value

(* A plausible bug: the iterator starts where it is told to, as in a range  *)
(* of any other library.                                                    *)
Placed_AtInit(init, start, end, step) == init

(* Where the constructor places the iterator.                               *)
Placed(init, start, end, step) ==
  IF start >= end \/ clamp(init + step, start, end) = start THEN end ELSE init

RangeIterator(init, end, step) ==
  LET low == IF step < 0 THEN end ELSE init
      high == IF step < 0 THEN init ELSE end
  IN [iter |-> Placed(init, low, high, step), start |-> low, end |-> high, step |-> step]

(* ++ and --, by the step and by minus the step.                            *)
Advanced(it, by) == [it EXCEPT !.iter = clamp(@ + by, it.start, it.end)]

Begin(r) == RangeIterator(r.start, r.end, r.step)
End(r) == RangeIterator(r.end, r.end, r.step)

(* A turn of a loop, unless its iterator is at the last.                    *)
Turned(s, last, by) ==
  IF s.it.iter = last.iter THEN s
  ELSE [it |-> Advanced(s.it, by), seen |-> Append(s.seen, s.it.iter)]

(* The numbers that the body of a loop from one iterator to another sees.   *)
Loop(first, last, by) ==
  LET turn[k \in 0..MaxTurns] ==
        IF k = 0 THEN [it |-> first, seen |-> <<>>]
        ELSE Turned(turn[k - 1], last, by)
  IN turn[MaxTurns].seen

Forward(r) == Loop(Begin(r), End(r), r.step)
Backward(r) == Loop(End(r), Begin(r), -r.step)

Construct(start, end, step) ==
  range_' = [start |-> start, end |-> end, step |-> step]

RangeNext == \E start, end, step \in -MaxNumber..MaxNumber : Construct(start, end, step)

-----------------------------------------------------------------------------
(* What is checked.                                                         *)

(* A range-for over a range whose step is not away from its end comes to an *)
(* end, after at most as many turns as there are numbers between, and its   *)
(* body sees none twice and none outside; going back from end() to begin()  *)
(* ends where the step is not negative.  Nothing but the clamp stops an     *)
(* iterator, and an iterator that misses end() goes on for ever.  A range   *)
(* with a negative step and its end above its start does so in the code.    *)
RangeLoopsEnd ==
  LET s == Forward(range_)
      low == Min({range_.start, range_.end})
      high == Max({range_.start, range_.end})
  IN /\ range_.step >= 0 \/ range_.start > range_.end =>
          /\ Len(s) <= high - low
          /\ IsInjective(s)
          /\ ToSet(s) \subseteq low..high
     /\ range_.step >= 0 => Len(Backward(range_)) <= high - low

=============================================================================
