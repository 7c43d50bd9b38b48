---------------------------- MODULE ImmutableText ----------------------------
(***************************************************************************)
(* Strings as values: what ImmutableString.tla promises its users, whoever  *)
(* shares whose memory.  A variable holds a text, or nothing anybody may    *)
(* look at while an assignment to it is under way.                          *)
(***************************************************************************)
EXTENDS Naturals, Sequences, FiniteSetsExt

CONSTANTS
  Strings,    (* the variables                                              *)
  Literals,   (* the texts given as character strings                       *)
  Sizes,      (* the offsets and sizes that substr is called with           *)
  Unset

VARIABLE text

vars == text

Init == text = [h \in Strings |-> <<>>]

(* ImmutableString::substr, as its comment has it: an offset or a size that *)
(* is too large is clamped.                                                 *)
SubText(t, offset, size) ==
  LET o == Min({offset, Len(t)})
      n == Min({size, Len(t) - o})
  IN SubSeq(t, o + 1, o + n)

(* What a call may make of the texts there are.                             *)
Shown == {text[g] : g \in Strings} \ {Unset}

Results ==
  {<<>>} \cup Literals \cup Shown
  \cup {SubText(t, o, n) : t \in Shown, o \in Sizes, n \in Sizes}
  \cup {t \o l : t \in Shown, l \in Literals}
  \cup {l \o t : t \in Shown, l \in Literals}

Changes(S) == \A g \in Strings \ S : text'[g] = text[g]

(* An assignment to h begins, or a call gives h its text.                   *)
Set(h) == Changes({h}) /\ text'[h] \in {Unset} \cup Results

Move(h, g) ==
  /\ Changes({h, g})
  /\ text[g] # Unset
  /\ text'[h] = text[g]
  /\ text'[g] = <<>>

Next == \E h \in Strings : Set(h) \/ \E g \in Strings : Move(h, g)

Spec == Init /\ [][Next]_vars
=============================================================================
