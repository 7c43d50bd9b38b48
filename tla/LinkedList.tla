----------------------------- MODULE LinkedList -----------------------------
(***************************************************************************)
(* Singly linked nodes in memory: what a walk along their `next` members    *)
(* finds.  MTQueue and PubSubQueue say what their lists hold with it.       *)
(***************************************************************************)
EXTENDS Naturals, Sequences, FiniteSets

CONSTANTS
  Nodes,      (* addresses of nodes                                         *)
  Null        (* no node                                                    *)

ASSUME ListAssumption ==
  /\ Null \notin Nodes
  /\ IsFiniteSet(Nodes)

(* The nodes from n on, for succ[x] the node after x; a walk that has met as *)
(* many nodes as there are goes no further.                                  *)
Along(succ, n) ==
  LET Walk[k \in 0..Cardinality(Nodes)] ==
        [x \in Nodes \cup {Null} |->
           IF k = 0 \/ x = Null THEN <<>> ELSE <<x>> \o Walk[k - 1][succ[x]]]
  IN  Walk[Cardinality(Nodes)][n]
=============================================================================
