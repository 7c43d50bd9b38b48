------------------------------- MODULE FlatMap -------------------------------
(***************************************************************************)
(* tpp::FlatMap (include/toypp/flatmap.hpp): entries of key and value in a  *)
(* vector, found by a binary search.  Indices count from 0, as in the code. *)
(***************************************************************************)
EXTENDS Integers, Sequences, FiniteSets

CONSTANTS
  Keys,        (* a set of numbers, compared by <                           *)
  MapValues,
  MapDefault,  (* Value{}                                                   *)
  Wild,        (* what is read past the end of the vector                   *)
  MaxEntries   (* bound: the length of the vector                           *)

ASSUME FlatMapAssumption ==
  /\ Keys \subseteq Int
  /\ MapDefault \in MapValues
  /\ Wild \notin Nat
  /\ MaxEntries \in Nat

VARIABLE container_

MapInit == container_ = <<>>

Key(c, i) == c[i + 1][1]

(* One turn of the loop of binary_search, unless the loop has ended.  An    *)
(* index below 0 wraps around to the largest std::size_t, and the next read *)
(* is past the end.                                                         *)
Halved(c, key, s) ==
  LET m == s.low + (s.high - s.low) \div 2 IN
    IF s.high = -1 THEN [low |-> s.low, high |-> -1, mid |-> Wild, found |-> FALSE]
    ELSE IF s.found \/ s.low > s.high THEN s
    ELSE IF Key(c, m) = key THEN [low |-> s.low, high |-> s.high, mid |-> m, found |-> TRUE]
    ELSE IF Key(c, m) < key THEN [low |-> m + 1, high |-> s.high, mid |-> m, found |-> FALSE]
    ELSE [low |-> s.low, high |-> m - 1, mid |-> m, found |-> FALSE]

(* The loop has ended after a turn for each entry; one more shows a read    *)
(* past the end.                                                            *)
Search(c, key) ==
  LET n == Len(c)
      turn[k \in 0..(n + 1)] ==
        IF k = 0 THEN [low |-> 0, high |-> n - 1, mid |-> 0, found |-> FALSE]
        ELSE Halved(c, key, turn[k - 1])
  IN [found |-> turn[n + 1].found, index |-> turn[n + 1].mid]

(* A plausible bug: without the test that the comment in binary_search is   *)
(* about.                                                                   *)
binary_search_Unguarded(c, key) ==
  IF c = <<>> THEN [found |-> FALSE, index |-> 0] ELSE Search(c, key)

binary_search(c, key) ==
  IF c = <<>> \/ key < Key(c, 0) THEN [found |-> FALSE, index |-> 0] ELSE Search(c, key)

(* emplace_back and the rotation to the right.                              *)
InsertedAt(c, i, entry) == SubSeq(c, 1, i) \o <<entry>> \o SubSeq(c, i + 1, Len(c))

(* The rotation to the left and pop_back.                                   *)
RemovedAt(c, i) == SubSeq(c, 1, i) \o SubSeq(c, i + 2, Len(c))

(* insert, and insert_or_assign, which can override.                        *)
Inserted(c, key, value, can_override) ==
  LET res == binary_search(c, key) IN
    IF ~ res.found THEN InsertedAt(c, res.index, <<key, value>>)
    ELSE IF can_override THEN [c EXCEPT ![res.index + 1] = <<key, value>>]
    ELSE c

Insert(key, value, can_override) ==
  /\ Len(container_) < MaxEntries
  /\ container_' = Inserted(container_, key, value, can_override)

RemoveKey(key) ==
  LET res == binary_search(container_, key) IN
    /\ res.found
    /\ container_' = RemovedAt(container_, res.index)

(* operator[], whose result is the entry at the index of the first search.  *)
Subscripted(c, key) ==
  IF binary_search(c, key).found THEN c ELSE Inserted(c, key, MapDefault, FALSE)

Subscript(key, value) ==
  /\ Len(container_) < MaxEntries
  /\ container_' = [Subscripted(container_, key) EXCEPT
                      ![binary_search(container_, key).index + 1] = <<@[1], value>>]

MapNext ==
  \E key \in Keys :
    \/ RemoveKey(key)
    \/ \E value \in MapValues :
         Subscript(key, value) \/ \E o \in BOOLEAN : Insert(key, value, o)

-----------------------------------------------------------------------------
(* What is checked.                                                         *)

(* A search reads inside the vector only and finds no other key than the    *)
(* one it was called for, and the entry that operator[] refers to has the   *)
(* key, in whatever order the entries came to stand.  While they stand in   *)
(* order no key is missed; and binary_search gives insert the place where   *)
(* the key belongs or the one before, so they need not stay in order.       *)
InOrder(c) == \A i, j \in DOMAIN c : i < j => c[i][1] < c[j][1]

EntryOfKey ==
  \A key \in Keys :
    LET res == binary_search(container_, key)
        smaller == {i \in DOMAIN container_ : container_[i][1] < key}
    IN /\ res.index # Wild
       /\ res.found => res.index < Len(container_) /\ Key(container_, res.index) = key
       /\ Key(Subscripted(container_, key), res.index) = key
       /\ InOrder(container_) =>
            /\ res.found <=> \E i \in DOMAIN container_ : container_[i][1] = key
            /\ Cardinality(smaller) - res.index \in {0, 1}

=============================================================================
