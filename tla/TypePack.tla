------------------------------ MODULE TypePack ------------------------------
(***************************************************************************)
(* The searches in packs of types of include/toypp/tmputils.hpp, which the  *)
(* compiler evaluates. A type stands for its name and its sizeof; a pack is *)
(* a sequence of types; a predicate is the set of the types it holds of,    *)
(* and a relation the set of its pairs. What recurses on the rest of a pack *)
(* in the code is a function of how many types are left. type_pack_mix of   *)
(* two packs, and pack_filter and the zips with it, are ill-formed when     *)
(* they are used. type_pack::count and expand_into leave out the first type *)
(* of their pack (lines 85 to 91); no search uses them, and nothing here    *)
(* does.                                                                    *)
(***************************************************************************)
EXTENDS Integers, Sequences, SequencesExt

CONSTANTS
  TypeNames,
  TypeSizes,
  not_found_t,
  MaxPack       (* bound: the length of a pack                              *)

ASSUME TypePackAssumption == TypeSizes \subseteq Nat /\ MaxPack \in Nat

Types == TypeNames \X TypeSizes
sizeof(t) == t[2]

VARIABLE pack_   (* the pack that the program names                         *)

PackInit == pack_ = <<>>

pack_pick_first(p) == Head(p)

(* The specialization for one type ends the recursion.                      *)
pack_pick_last(p) ==
  LET of[n \in DOMAIN p] == IF n = 1 THEN p[Len(p)] ELSE of[n - 1]
  IN of[Len(p)]

(* I - 1 with the rest, until I is 0: by then I types are gone.             *)
pack_pick_idx(I, p) ==
  LET of[i \in 0..I] == IF i = 0 THEN p[I + 1] ELSE of[i - 1]
  IN of[I]

(* The best so far of the first n types.                                    *)
pack_pick_best(Compare, p) ==
  LET best_sofar[n \in DOMAIN p] == IF n = 1 THEN p[1] ELSE Compare[<<best_sofar[n - 1], p[n]>>]
  IN best_sofar[Len(p)]

(* A plausible bug: the later of two types of one size.                     *)
max_size_type_Later(A, B) == IF sizeof(A) > sizeof(B) THEN A ELSE B

max_size_type(A, B) == IF sizeof(A) >= sizeof(B) THEN A ELSE B

pack_pick_max_size(p) == pack_pick_best([r \in Types \X Types |-> max_size_type(r[1], r[2])], p)

(* The first of the last n types, and what comes after it.                  *)
FirstOf(p, n) == Len(p) + 1 - n
Later(p, n) == (Len(p) + 2 - n)..Len(p)

(* The first type if it matches, or else what the rest gives.               *)
pack_find_match(Pred, p) ==
  LET of[n \in 0..Len(p)] ==
        IF n = 0 THEN not_found_t
        ELSE IF p[FirstOf(p, n)] \in Pred THEN p[FirstOf(p, n)]
        ELSE of[n - 1]
  IN of[Len(p)]

(* The first type against each later one, and the same for the rest.        *)
pack_commutative_binary_compliance(BinaryPred, p) ==
  LET of[n \in 0..Len(p)] ==
        IF n = 0 THEN TRUE
        ELSE /\ \A l \in Later(p, n) : <<p[FirstOf(p, n)], p[l]>> \in BinaryPred
             /\ of[n - 1]
  IN of[Len(p)]

pack_is_unique(p) ==
  pack_commutative_binary_compliance({r \in Types \X Types : r[1] # r[2]}, p)

pack_has_match(Pred, p) == \E k \in DOMAIN p : p[k] \in Pred

pack_does_contain(A, p) == pack_has_match({A}, p)

(* A pack with one more type in front, and type_pack::rest.                 *)
Extend(t) == Len(pack_) < MaxPack /\ pack_' = <<t>> \o pack_
Rest == pack_ # <<>> /\ pack_' = Tail(pack_)

PackNext == Rest \/ \E t \in Types : Extend(t)

-----------------------------------------------------------------------------
(* What is checked.                                                         *)

(* The searches by recursion give what a direct description of their        *)
(* results does: the place of a type from either end; among the types of    *)
(* the largest size the first; the first match, for every predicate, and    *)
(* not_found_t exactly where there is none; a symmetric relation holds      *)
(* between any two types, and types are unique when a set has as many.      *)
PackSearchesExact ==
  LET Index(S) == CHOOSE k \in DOMAIN pack_ :
                    pack_[k] \in S /\ \A l \in 1..(k - 1) : pack_[l] \notin S
      Largest == {t \in Types : \A k \in DOMAIN pack_ : sizeof(t) >= sizeof(pack_[k])}
      SameSize == {r \in Types \X Types : sizeof(r[1]) = sizeof(r[2])}
  IN /\ pack_ # <<>> =>
          /\ pack_pick_first(pack_) = pack_pick_idx(0, pack_)
          /\ pack_pick_last(pack_) = pack_pick_idx(Len(pack_) - 1, pack_)
          /\ pack_pick_max_size(pack_) = pack_[Index(Largest)]
     /\ \A Pred \in SUBSET Types :
          LET match == pack_find_match(Pred, pack_)
          IN IF pack_has_match(Pred, pack_) THEN match = pack_[Index(Pred)]
             ELSE match = not_found_t /\ Pred \cap ToSet(pack_) = {}
     /\ pack_commutative_binary_compliance(SameSize, pack_) <=>
          \A k, l \in DOMAIN pack_ : sizeof(pack_[k]) = sizeof(pack_[l])
     /\ pack_is_unique(pack_) <=> Cardinality(ToSet(pack_)) = Len(pack_)
     /\ \A t \in Types : pack_does_contain(t, pack_) <=> t \in ToSet(pack_)

=============================================================================
