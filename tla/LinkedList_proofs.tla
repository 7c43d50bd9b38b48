-------------------------- MODULE LinkedList_proofs --------------------------
(***************************************************************************)
(* Lemmas about walks, for any finite set of addresses.                     *)
(*                                                                          *)
(* Along is defined by recursion, so what it finds is proved by induction:  *)
(* from the first place at which it would find something else, which exists *)
(* because every nonempty set of numbers has a least element.               *)
(***************************************************************************)
EXTENDS LinkedList, FiniteSetTheorems, SequenceTheorems, WellFoundedInduction, TLAPS

USE ListAssumption

(* A list written out: n different nodes, each linked to the next, the last *)
(* to none.                                                                 *)
Links(succ, p, n) ==
  /\ \A i, j \in 1..n : p[i] = p[j] => i = j
  /\ \A i \in 1..(n - 1) : succ[p[i]] = p[i + 1]
  /\ n # 0 => succ[p[n]] = Null

(* The order of the numbers as the library's relation.                      *)
LEMMA LessThanWellFounded == \E R : IsWellFoundedOn(R, Nat) /\ \A a, b \in Nat : (<<a, b>> \in R) <=> (a < b)
<1>1. \A a, b \in Nat : (<<a, b>> \in OpToRel(<, Nat)) <=> (a < b)
  BY DEF OpToRel
<1>. QED
  BY NatLessThanWellFounded, <1>1, Zenon

(* Every nonempty set of numbers has a least one: an induction is an argument*)
(* about the first number at which a statement would fail.                  *)
LEMMA LeastElement ==
  ASSUME NEW T \in SUBSET Nat, T # {}
  PROVE  \E m \in T : \A k \in T : m <= k
<1>1. PICK R : IsWellFoundedOn(R, Nat) /\ \A a, b \in Nat : (<<a, b>> \in R) <=> (a < b)
  BY LessThanWellFounded
<1>2. T \subseteq Nat
  OBVIOUS
<1>3. PICK m \in T : \A k \in T : ~(<<k, m>> \in R)
  <2>1. IsWellFoundedOn(R, Nat)
    BY <1>1
  <2>. QED
    BY <2>1, <1>2, WFMin, Zenon
<1>4. \A k \in T : m <= k
  <2>. TAKE k \in T
  <2>1. ~(k < m)
    BY <1>1, <1>2, <1>3, Zenon
  <2>. QED
    BY <2>1, <1>2
<1>. QED
  BY <1>4

(* The equation that defines the walk of Along, up to K steps.               *)
IsWalk(succ, f, K) ==
  f = [k \in 0..K |->
         [n \in Nodes \cup {Null} |->
            IF k = 0 \/ n = Null THEN <<>> ELSE <<n>> \o f[k - 1][succ[n]]]]

(* A function that walks K steps is extended to K + 1 steps ...             *)
LEMMA LongerWalk ==
  ASSUME NEW succ, NEW K \in Nat, NEW f, IsWalk(succ, f, K)
  PROVE  \E g : IsWalk(succ, g, K + 1)
<1>. DEFINE g == [k \in 0..(K + 1) |->
                    [n \in Nodes \cup {Null} |->
                       IF k = 0 \/ n = Null THEN <<>> ELSE <<n>> \o f[k - 1][succ[n]]]]
<1>1. ASSUME NEW k \in 0..K
      PROVE  g[k] = f[k]
  <2>1. f[k] = [n \in Nodes \cup {Null} |->
                  IF k = 0 \/ n = Null THEN <<>> ELSE <<n>> \o f[k - 1][succ[n]]]
    BY DEF IsWalk
  <2>2. g[k] = [n \in Nodes \cup {Null} |->
                  IF k = 0 \/ n = Null THEN <<>> ELSE <<n>> \o f[k - 1][succ[n]]]
    OBVIOUS
  <2>. QED
    BY <2>1, <2>2
<1>2. \A k \in 0..(K + 1) : k = 0 \/ g[k - 1] = f[k - 1]
  <2>. TAKE k \in 0..(K + 1)
  <2>1. CASE k # 0
    <3>1. PICK j \in 0..K : j = k - 1
      BY <2>1
    <3>. QED
      BY <1>1, <3>1
  <2>. QED
    BY <2>1
<1>3. g = [k \in 0..(K + 1) |->
             [n \in Nodes \cup {Null} |->
                IF k = 0 \/ n = Null THEN <<>> ELSE <<n>> \o g[k - 1][succ[n]]]]
  <2>. DEFINE h == [k \in 0..(K + 1) |->
                     [n \in Nodes \cup {Null} |->
                        IF k = 0 \/ n = Null THEN <<>> ELSE <<n>> \o g[k - 1][succ[n]]]]
  <2>1. ASSUME NEW k \in 0..(K + 1)
        PROVE  g[k] = h[k]
    <3>1. CASE k = 0
      BY <3>1
    <3>2. CASE k # 0
      <4>1. g[k - 1] = f[k - 1]
        BY <1>2, <3>2
      <4>. QED
        BY <3>2, <4>1, Zenon
    <3>. QED
      BY <3>1, <3>2
  <2>. QED
    BY <2>1, Zenon
<1>. QED
  BY <1>3, Zenon DEF IsWalk

(* ... so there is one for every number of steps ...                        *)
LEMMA WalksExist ==
  ASSUME NEW succ
  PROVE  \A K \in Nat : \E f : IsWalk(succ, f, K)
<1>. DEFINE Missing == {K \in Nat : ~ \E f : IsWalk(succ, f, K)}
<1>1. Missing = {}
  <2>. SUFFICES ASSUME Missing # {}
                PROVE  FALSE
    OBVIOUS
  <2>1. PICK m \in Missing : \A k \in Missing : m <= k
    BY LeastElement
  <2>2. m # 0
    <3>. DEFINE zero == [k \in 0..0 |-> [n \in Nodes \cup {Null} |-> <<>>]]
    <3>1. \A k \in 0..0 : zero[k] = [n \in Nodes \cup {Null} |->
                             IF k = 0 \/ n = Null THEN <<>> ELSE <<n>> \o zero[k - 1][succ[n]]]
      <4>. TAKE k \in 0..0
      <4>1. k = 0
        OBVIOUS
      <4>. QED
        BY <4>1
    <3>2. IsWalk(succ, zero, 0)
      BY <3>1, Zenon DEF IsWalk
    <3>. QED
      BY <3>2
  <2>3. m - 1 \in Nat /\ m - 1 \notin Missing /\ (m - 1) + 1 = m
    BY <2>1, <2>2
  <2>4. PICK f : IsWalk(succ, f, m - 1)
    BY <2>3
  <2>5. \E g : IsWalk(succ, g, m)
    BY <2>3, <2>4, LongerWalk
  <2>. QED
    BY <2>5
<1>. QED
  BY <1>1

(* ... and that of Along, which is chosen to be one, is one.                *)
LEMMA WalkEquation ==
  ASSUME NEW succ
  PROVE  \E W : /\ IsWalk(succ, W, Cardinality(Nodes))
                /\ \A n : Along(succ, n) = W[Cardinality(Nodes)][n]
<1>. DEFINE W == CHOOSE f : IsWalk(succ, f, Cardinality(Nodes))
<1>1. \A n : Along(succ, n) = W[Cardinality(Nodes)][n]
  BY Zenon DEF Along, IsWalk
<1>2. \E f : IsWalk(succ, f, Cardinality(Nodes))
  BY FS_CardinalityType, WalksExist
<1>3. IsWalk(succ, W, Cardinality(Nodes))
  BY <1>2, Zenon
<1>. QED
  BY <1>1, <1>3

(* A list of different nodes is no longer than there are nodes.             *)
LEMMA LinksFit ==
  ASSUME NEW succ, NEW n \in Nat, NEW p \in [1..n -> Nodes], Links(succ, p, n)
  PROVE  Cardinality(Nodes) \in Nat /\ n <= Cardinality(Nodes)
<1>1. p \in Injection(1..n, Nodes)
  BY DEF Links, Injection, IsInjective
<1>2. Cardinality(1..n) <= Cardinality(Nodes)
  BY <1>1, FS_Injection
<1>3. Cardinality(1..n) = n
  BY FS_Interval
<1>. QED
  BY <1>2, <1>3, FS_CardinalityType

(* The last j nodes of p.                                                   *)
Ending(p, n, j) == [i \in 1..j |-> p[(n - j) + i]]

(* The last j + 1 nodes are one node and the last j.                        *)
LEMMA LongerEnding ==
  ASSUME NEW n \in Nat, NEW p \in [1..n -> Nodes], NEW j \in 1..n
  PROVE  /\ Ending(p, n, j - 1) \in Seq(Nodes)
         /\ Ending(p, n, j) = <<p[(n - j) + 1]>> \o Ending(p, n, j - 1)
<1>. DEFINE s == Ending(p, n, j - 1)
<1>. DEFINE e == p[(n - j) + 1]
<1>1. s \in [1..(j - 1) -> Nodes] /\ j - 1 \in Nat
  BY DEF Ending
<1>2. s \in Seq(Nodes) /\ Len(s) = j - 1
  BY <1>1
<1>3. e \in Nodes
  OBVIOUS
<1>4. <<e>> \in Seq(Nodes) /\ Len(<<e>>) = 1 /\ <<e>>[1] = e
  BY <1>3
<1>5. /\ <<e>> \o s \in Seq(Nodes)
      /\ Len(<<e>> \o s) = j
      /\ \A i \in 1..j : (<<e>> \o s)[i] = IF i <= 1 THEN e ELSE s[i - 1]
  <2>. HIDE DEF s, e
  <2>1. 1 + (j - 1) = j
    OBVIOUS
  <2>. QED
    BY <1>2, <1>4, <2>1, ConcatProperties
<1>6. Ending(p, n, j) \in Seq(Nodes) /\ Len(Ending(p, n, j)) = j
  BY DEF Ending
<1>7. ASSUME NEW i \in 1..j
      PROVE  Ending(p, n, j)[i] = (<<e>> \o s)[i]
  <2>1. Ending(p, n, j)[i] = p[(n - j) + i]
    BY DEF Ending
  <2>2. CASE i = 1
    BY <1>5, <2>1, <2>2
  <2>3. CASE i # 1
    <3>1. PICK k \in 1..(j - 1) : k = i - 1
      BY <2>3
    <3>2. s[k] = p[(n - (j - 1)) + k]
      BY DEF Ending
    <3>3. (n - (j - 1)) + k = (n - j) + i
      BY <3>1
    <3>4. (<<e>> \o s)[i] = s[k]
      BY <1>5, <2>3, <3>1
    <3>. QED
      BY <2>1, <3>2, <3>3, <3>4
  <2>. QED
    BY <2>2, <2>3
<1>. QED
  BY <1>2, <1>5, <1>6, <1>7, SeqEqual

(* Walking from the node with j nodes left, itself included, finds the last j.*)
LEMMA WalkFollows ==
  ASSUME NEW succ, NEW W, IsWalk(succ, W, Cardinality(Nodes)),
         NEW n \in Nat, NEW p \in [1..n -> Nodes], Links(succ, p, n)
  PROVE  \A j \in 0..n : \A k \in j..Cardinality(Nodes) :
            W[k][IF j = 0 THEN Null ELSE p[(n - j) + 1]] = Ending(p, n, j)
<1>. DEFINE Start(j) == IF j = 0 THEN Null ELSE p[(n - j) + 1]
<1>. DEFINE Fails == {j \in 0..n : \E k \in j..Cardinality(Nodes) : W[k][Start(j)] # Ending(p, n, j)}
<1>1. \A k \in 0..Cardinality(Nodes), x \in Nodes \cup {Null} :
        W[k][x] = IF k = 0 \/ x = Null THEN <<>> ELSE <<x>> \o W[k - 1][succ[x]]
  <2>. TAKE k \in 0..Cardinality(Nodes), x \in Nodes \cup {Null}
  <2>1. W = [i \in 0..Cardinality(Nodes) |->
                  [y \in Nodes \cup {Null} |->
                     IF i = 0 \/ y = Null THEN <<>> ELSE <<y>> \o W[i - 1][succ[y]]]]
    BY Zenon DEF IsWalk
  <2>2. W[k] = [y \in Nodes \cup {Null} |->
                     IF k = 0 \/ y = Null THEN <<>> ELSE <<y>> \o W[k - 1][succ[y]]]
    BY <2>1, Zenon
  <2>. QED
    BY <2>2, Zenon
<1>2. Fails = {}
  <2>. SUFFICES ASSUME Fails # {}
                PROVE  FALSE
    OBVIOUS
  <2>1. PICK j \in Fails : \A i \in Fails : j <= i
    <3>1. Fails \in SUBSET Nat
      OBVIOUS
    <3>. HIDE DEF Fails
    <3>. QED
      BY <3>1, LeastElement
  <2>2. PICK k \in j..Cardinality(Nodes) : W[k][Start(j)] # Ending(p, n, j)
    BY <2>1
  <2>3. Cardinality(Nodes) \in Nat /\ j \in 0..n /\ k \in 0..Cardinality(Nodes)
    BY LinksFit, <2>2
  <2>4. j # 0
    <3>. SUFFICES ASSUME j = 0
                  PROVE  FALSE
      OBVIOUS
    <3>1. W[k][Null] = <<>>
      BY <1>1, <2>3
    <3>2. Ending(p, n, 0) = <<>>
      BY DEF Ending
    <3>. QED
      BY <2>2, <3>1, <3>2
  <2>5. PICK x \in Nodes : x = Start(j) /\ x = p[(n - j) + 1]
    BY <2>3, <2>4, SMTT(90)
  <2>6. succ[x] = Start(j - 1)
    <3>1. CASE j = 1
      BY <2>5, <3>1 DEF Links
    <3>2. CASE j # 1
      <4>1. PICK i \in 1..(n - 1) : i = (n - j) + 1
        BY <2>3, <2>4, <3>2
      <4>2. succ[p[i]] = p[i + 1]
        BY DEF Links
      <4>3. i + 1 = (n - (j - 1)) + 1 /\ j - 1 # 0
        BY <2>3, <3>2, <4>1
      <4>. QED
        BY <2>5, <4>1, <4>2, <4>3
    <3>. QED
      BY <3>1, <3>2
  <2>7. PICK i \in 0..n : i = j - 1 /\ i \notin Fails
    BY <2>1, <2>3, <2>4, SMTT(60)
  <2>8. W[k - 1][succ[x]] = Ending(p, n, j - 1)
    <3>1. k - 1 \in i..Cardinality(Nodes)
      BY <2>2, <2>3, <2>7
    <3>. QED
      BY <2>6, <2>7, <3>1
  <2>9. W[k][x] = <<x>> \o Ending(p, n, j - 1)
    <3>1. k # 0 /\ x # Null
      BY <2>2, <2>3, <2>4
    <3>2. W[k][x] = <<x>> \o W[k - 1][succ[x]]
      BY <1>1, <2>3, <3>1, Zenon
    <3>. QED
      BY <2>8, <3>2
  <2>10. j \in 1..n
    BY <2>3, <2>4
  <2>. QED
    BY <2>2, <2>5, <2>9, <2>10, LongerEnding
<1>. QED
  BY <1>2

(* What a walk finds is the list written out, from its first node ...       *)
LEMMA AlongIs ==
  ASSUME NEW succ, NEW n \in Nat, NEW p \in [1..n -> Nodes], Links(succ, p, n)
  PROVE  Along(succ, IF n = 0 THEN Null ELSE p[1]) = p
<1>1. PICK W : /\ IsWalk(succ, W, Cardinality(Nodes))
               /\ \A x : Along(succ, x) = W[Cardinality(Nodes)][x]
  BY WalkEquation
<1>2. n \in 0..n /\ Cardinality(Nodes) \in n..Cardinality(Nodes)
  BY LinksFit
<1>3. W[Cardinality(Nodes)][IF n = 0 THEN Null ELSE p[(n - n) + 1]] = Ending(p, n, n)
  BY <1>1, <1>2, WalkFollows
<1>4. Ending(p, n, n) = p
  BY DEF Ending
<1>5. (n - n) + 1 = 1
  OBVIOUS
<1>. QED
  BY <1>1, <1>3, <1>4, <1>5

(* ... and from any node on.                                                *)
LEMMA AlongFrom ==
  ASSUME NEW succ, NEW n \in Nat, NEW p \in [1..n -> Nodes], Links(succ, p, n),
         NEW i \in 1..n
  PROVE  Along(succ, p[i]) = Ending(p, n, (n - i) + 1)
<1>. DEFINE m == (n - i) + 1
            q == [k \in 1..m |-> p[(i - 1) + k]]
<1>1. m \in Nat /\ m # 0 /\ q \in [1..m -> Nodes] /\ q[1] = p[i]
  OBVIOUS
<1>2. Links(succ, q, m)
  <2>1. \A j, k \in 1..m : q[j] = q[k] => j = k
    BY DEF Links
  <2>2. ASSUME NEW k \in 1..(m - 1)
        PROVE  succ[q[k]] = q[k + 1]
    <3>1. PICK j \in 1..(n - 1) : j = (i - 1) + k
      OBVIOUS
    <3>2. succ[p[j]] = p[j + 1]
      BY DEF Links
    <3>3. q[k] = p[j] /\ q[k + 1] = p[j + 1]
      BY <3>1
    <3>. QED
      BY <3>2, <3>3
  <2>3. succ[q[m]] = Null
    BY DEF Links
  <2>. HIDE DEF q, m
  <2>. QED
    BY <2>1, <2>2, <2>3 DEF Links
<1>. HIDE DEF q, m
<1>3. Along(succ, q[1]) = q
  BY <1>1, <1>2, AlongIs
<1>. QED
  BY <1>1, <1>3 DEF q, m, Ending
=============================================================================
