------------------------ MODULE ImmutableString_proofs ------------------------
(***************************************************************************)
(* Proofs about ImmutableString, for any finite sets of threads and of      *)
(* strings, any blocks, texts and bounds.                                   *)
(*                                                                          *)
(* A step gives a string a value (Constructs) or is one of an assignment or *)
(* a destruction (Assigns).  Each adds one holder to one block, drops one,  *)
(* or lets one take over from another, and moves the count alike.  What     *)
(* makes the invariant inductive is that a call may count on its strings    *)
(* (CallInv) and that whoever frees a block is alone with it (BlockInv):    *)
(* then a string that somebody may read is counted, so its block stays, and *)
(* memory that changes is memory nobody sees.                               *)
(***************************************************************************)
EXTENDS ImmutableString, FiniteSetTheorems, SequenceTheorems, TLAPS

(* What may stand in a string or in a block.                                *)
Held == Characters \cup {Null}

IsShortValue(v) ==
  /\ ~ IsLong(v)
  /\ v.bytes \in Seq(Held)
  /\ v = Shorter(v.bytes)
  /\ v.size \in 0..MaxLength

IsLongValue(v) ==
  /\ IsLong(v)
  /\ v = Longer(v.size, v.offset, v.ptr)
  /\ v.ptr \in Blocks
  /\ v.size \in 0..MaxLength
  /\ v.offset \in 0..MaxLength

DataInv ==
  /\ DOMAIN value = Strings
  /\ \A h \in Strings : IsShortValue(value[h]) \/ IsLongValue(value[h])
  /\ memory \in [Blocks -> Seq(Held)]
  /\ \A b \in Blocks : Len(memory[b]) <= MaxLength

(* Which strings a call may count on: its own, as nobody else has them, and *)
(* the argument of a copy, as others may read it but not change it.         *)
CallInv ==
  /\ \A th \in Threads :
       /\ op[th] = "idle" <=> pc[th] = "idle"
       /\ IF op[th] = "idle" THEN dst[th] = Null /\ src[th] = Null ELSE dst[th] \in Strings
       /\ op[th] \in {"copy", "move"} => src[th] \in Strings /\ src[th] # dst[th]
       /\ op[th] = "destruct" => src[th] = Null
       /\ pc[th] \in {"dec", "free"} => IsLong(value[dst[th]])
       /\ pc[th] = "end" => ~ IsLong(value[dst[th]])
  /\ \A th, u \in Threads :
       th # u => /\ op[th] # "idle" => dst[th] # dst[u] /\ dst[th] # src[u]
                 /\ op[th] = "move" => src[th] # dst[u] /\ src[th] # src[u]

(* Whoever frees a block is alone with it.                                  *)
Frees(th, b) == pc[th] = "free" /\ value[dst[th]].ptr = b

BlockInv ==
  /\ \A b \in Blocks \ allocated : refcount[b] = 0
  /\ \A th \in Threads, b \in Blocks :
       Frees(th, b) => refcount[b] = 0 /\ \A u \in Threads : u # th => ~ Frees(u, b)

IInv == RefcountExact /\ DataInv /\ CallInv /\ BlockInv /\ NoUseAfterFree

USE StringAssumption

-----------------------------------------------------------------------------
(* Holders, and their number.                                               *)

Holds(h, b) ==
  /\ IsLong(value[h])
  /\ value[h].ptr = b
  /\ \A th \in Threads : pc[th] = "free" => dst[th] # h

Awaits(th, b) == op[th] = "copy" /\ IsLong(value[src[th]]) /\ value[src[th]].ptr = b

LEMMA HoldersAre ==
  ASSUME NEW b
  PROVE  /\ Holders(b) = {h \in Strings : Holds(h, b)} \cup {th \in Threads : Awaits(th, b)}
         /\ Holders(b)' = {h \in Strings : Holds(h, b)'} \cup {th \in Threads : Awaits(th, b)'}
BY DEF Holders, Holds, Awaits

LEMMA HoldersFinite ==
  \A b : IsFiniteSet(Holders(b))
<1>. TAKE b
<1>1. Holders(b) \subseteq Strings \cup Threads
  BY DEF Holders
<1>. QED
  BY <1>1, FS_Union, FS_Subset

(* S, but with y for x.                                                     *)
TakenOver(x, y, S) == IF x \in S THEN (S \ {x}) \cup {y} ELSE S

LEMMA TakenOverCardinality ==
  ASSUME NEW S, IsFiniteSet(S), NEW x, NEW y, y \notin S
  PROVE  Cardinality(TakenOver(x, y, S)) = Cardinality(S)
<1>1. IsFiniteSet(S \ {x}) /\ Cardinality(S \ {x}) = IF x \in S THEN Cardinality(S) - 1 ELSE Cardinality(S)
  BY FS_RemoveElement
<1>2. Cardinality((S \ {x}) \cup {y}) = Cardinality(S \ {x}) + 1
  BY <1>1, FS_AddElement
<1>. QED
  BY <1>1, <1>2, FS_CardinalityType DEF TakenOver

-----------------------------------------------------------------------------
(* The kinds of step.                                                       *)

(* A new string with a value that needs no block.                           *)
GivesShort(th, h, t) ==
  /\ Construct(th, h)
  /\ t \in Seq(Held)
  /\ Len(t) <= ShortMax /\ Len(t) <= MaxLength
  /\ value' = [value EXCEPT ![h] = Shorter(t)]
  /\ UNCHANGED blockVars

(* A new string with a new block.                                           *)
GivesBlock(th, h, t, b) ==
  /\ Construct(th, h)
  /\ t \in Seq(Held)
  /\ Len(t) > ShortMax /\ Len(t) <= MaxLength
  /\ b \notin allocated
  /\ value' = [value EXCEPT ![h] = Longer(Len(t), 0, b)]
  /\ allocated' = allocated \cup {b}
  /\ memory' = [memory EXCEPT ![b] = t]
  /\ refcount' = [refcount EXCEPT ![b] = 1]
  /\ UNCHANGED extra

(* A new string with a part of the block of g.                              *)
GivesShare(th, h, g, n, o) ==
  /\ Construct(th, h)
  /\ Reads(th, g)
  /\ IsLong(value[g])
  /\ n > ShortMax /\ n <= MaxLength /\ o <= MaxLength
  /\ o + n <= Len(memory[value[g].ptr])
  /\ AddRef(value[g])
  /\ value' = [value EXCEPT ![h] = Longer(n, o, value[g].ptr)]
  /\ UNCHANGED <<allocated, memory, extra>>

(* A new string with what g had.                                            *)
Moves(th, h, g) ==
  /\ h # g
  /\ Construct(th, h)
  /\ Writes(th, g)
  /\ value' = [value EXCEPT ![h] = value[g], ![g] = Empty]
  /\ UNCHANGED blockVars

Constructs(th) ==
  \/ \E h \in Strings, t \in Seq(Held) : GivesShort(th, h, t)
  \/ \E h \in Strings, t \in Seq(Held), b \in Blocks : GivesBlock(th, h, t, b)
  \/ \E h \in Strings, g \in Strings, n \in Nat, o \in Nat : GivesShare(th, h, g, n, o)
  \/ \E h \in Strings, g \in Strings : Moves(th, h, g)

Assigns(th) ==
  CopyAssign(th) \/ MoveAssign(th) \/ Destruct(th) \/ DecRef(th) \/ FreeBlock(th) \/ End(th)

-----------------------------------------------------------------------------
(* What each kind of step does to the holders of a block.                   *)

LEMMA GivesShortHolders ==
  ASSUME TypeOK, DataInv, CallInv,
         NEW th \in Threads, NEW h \in Strings, NEW t, GivesShort(th, h, t), NEW b \in Blocks
  PROVE  Holders(b)' = Holders(b)
BY DEF TypeOK, DataInv, CallInv, GivesShort, Construct, Writes, callVars, Holders, IsLong, Shorter, Empty

LEMMA NobodyHoldsFree ==
  ASSUME RefcountExact, BlockInv, NEW b \in Blocks, b \notin allocated
  PROVE  Holders(b) = {} /\ extra[b] = 0
<1>1. /\ refcount[b] = 0 /\ refcount[b] = Cardinality(Holders(b)) + extra[b]
      /\ Cardinality(Holders(b)) \in Nat /\ extra[b] \in Nat
  BY HoldersFinite, FS_CardinalityType DEF RefcountExact, TypeOK, BlockInv
<1>2. Cardinality(Holders(b)) = 0 /\ extra[b] = 0
  BY <1>1
<1>. QED
  BY <1>2, HoldersFinite, FS_EmptySet

LEMMA GivesBlockHolders ==
  ASSUME TypeOK, DataInv, CallInv, BlockInv, NoUseAfterFree,
         NEW th \in Threads, NEW h \in Strings, NEW t, NEW c \in Blocks, GivesBlock(th, h, t, c),
         NEW b \in Blocks
  PROVE  Holders(b)' = IF b = c THEN Holders(b) \cup {h} ELSE Holders(b)
BY DEF TypeOK, DataInv, CallInv, NoUseAfterFree, GivesBlock, Construct, Writes, callVars,
       Holders, IsLong, Longer, Shorter, Empty

LEMMA GivesShareHolders ==
  ASSUME TypeOK, DataInv, CallInv,
         NEW th \in Threads, NEW h \in Strings, NEW g \in Strings, NEW n \in Nat, NEW o \in Nat,
         GivesShare(th, h, g, n, o), NEW b \in Blocks
  PROVE  /\ h \notin Holders(b)
         /\ Holders(b)' = IF b = value[g].ptr THEN Holders(b) \cup {h} ELSE Holders(b)
BY DEF TypeOK, DataInv, CallInv, GivesShare, Construct, Writes, callVars,
       Holders, IsLong, Longer, Shorter, Empty

LEMMA MovesHolders ==
  ASSUME TypeOK, DataInv, CallInv,
         NEW th \in Threads, NEW h \in Strings, NEW g \in Strings, Moves(th, h, g), NEW b \in Blocks
  PROVE  /\ h \notin Holders(b)
         /\ Holders(b)' = TakenOver(g, h, Holders(b))
<1>0. /\ Holders(b) = {x \in Strings : Holds(x, b)} \cup {u \in Threads : Awaits(u, b)}
      /\ Holders(b)' = {x \in Strings : Holds(x, b)'} \cup {u \in Threads : Awaits(u, b)'}
  BY HoldersAre
<1>. USE DEF TypeOK, DataInv, CallInv, Moves, Construct, Writes, callVars
<1>1. ~ IsLong(value[h]) /\ \A u \in Threads : dst[u] \notin {h, g} /\ src[u] \notin {h, g}
  BY DEF IsLong, Shorter, Empty
<1>2. ~ IsLong(Empty) /\ value'[h] = value[g] /\ value'[g] = Empty
      /\ \A x \in Strings \ {h, g} : value'[x] = value[x]
  BY <1>1 DEF IsLong, Shorter, Empty
<1>3. /\ ~ Holds(h, b) /\ (Holds(h, b)' <=> Holds(g, b)) /\ ~ Holds(g, b)'
      /\ \A x \in Strings \ {h, g} : Holds(x, b)' <=> Holds(x, b)
  BY <1>1, <1>2 DEF Holds
<1>4. \A u \in Threads : Awaits(u, b)' <=> Awaits(u, b)
  BY <1>1, <1>2 DEF Awaits
<1>. HIDE DEF TypeOK, DataInv, CallInv, Moves, Construct, Writes, callVars
<1>. QED
  BY <1>0, <1>3, <1>4 DEF TakenOver

LEMMA BeginsHolders ==
  ASSUME TypeOK, DataInv, CallInv,
         NEW th \in Threads, NEW h \in Strings, NEW g, NEW name \in {"move", "destruct"},
         Begin(th, name, h, g), NEW b \in Blocks
  PROVE  Holders(b)' = Holders(b)
BY DEF TypeOK, DataInv, CallInv, Begin, Writes, Holders, IsLong

LEMMA BeginsCopyHolders ==
  ASSUME TypeOK, DataInv, CallInv,
         NEW th \in Threads, NEW h \in Strings, NEW g \in Strings,
         Begin(th, "copy", h, g), NEW b \in Blocks
  PROVE  /\ th \notin Holders(b)
         /\ Holders(b)' = IF IsLong(value[g]) /\ b = value[g].ptr THEN Holders(b) \cup {th} ELSE Holders(b)
<1>0. /\ Holders(b) = {x \in Strings : Holds(x, b)} \cup {u \in Threads : Awaits(u, b)}
      /\ Holders(b)' = {x \in Strings : Holds(x, b)'} \cup {u \in Threads : Awaits(u, b)'}
  BY HoldersAre
<1>. USE DEF TypeOK, DataInv, CallInv, Begin, Writes
<1>1. \A x \in Strings : Holds(x, b)' <=> Holds(x, b)
  BY DEF Holds
<1>2. /\ ~ Awaits(th, b)
      /\ Awaits(th, b)' <=> IsLong(value[g]) /\ value[g].ptr = b
      /\ \A u \in Threads \ {th} : Awaits(u, b)' <=> Awaits(u, b)
  BY DEF Awaits
<1>. HIDE DEF TypeOK, DataInv, CallInv, Begin, Writes
<1>. QED
  BY <1>0, <1>1, <1>2

LEMMA DecRefHolders ==
  ASSUME TypeOK, DataInv, CallInv,
         NEW th \in Threads, DecRef(th), NEW b \in Blocks
  PROVE  /\ dst[th] \in Holders(value[dst[th]].ptr)
         /\ Holders(b)' = IF b = value[dst[th]].ptr THEN Holders(b) \ {dst[th]} ELSE Holders(b)
<1>0. /\ Holders(b) = {x \in Strings : Holds(x, b)} \cup {u \in Threads : Awaits(u, b)}
      /\ Holders(b)' = {x \in Strings : Holds(x, b)'} \cup {u \in Threads : Awaits(u, b)'}
  BY HoldersAre
<1>. USE DEF TypeOK, DataInv, CallInv, DecRef
<1>. PICK h, c : h = dst[th] /\ c = value[h].ptr
  OBVIOUS
<1>1. /\ h \in Strings /\ IsLong(value[h])
      /\ \A u \in Threads : u # th => dst[u] # h /\ src[u] # h
      /\ \A u \in Threads : op[u] = "copy" => src[u] \in Strings \ {h}
      /\ UNCHANGED <<op, dst, src>>
  OBVIOUS
<1>2. /\ value' = value \/ value' = [value EXCEPT ![h] = Empty]
      /\ ~ IsLong(Empty)
      /\ value' = value => pc'[th] = "free"
      /\ \A x \in Strings \ {h} : value'[x] = value[x]
      /\ \A u \in Threads \ {th} : pc'[u] = pc[u]
  BY <1>1 DEF IsLong, Shorter, Empty
<1>3. /\ Holds(h, c) /\ ~ Holds(h, b)' /\ (Holds(h, b) => b = c)
      /\ \A x \in Strings \ {h} : Holds(x, b)' <=> Holds(x, b)
  BY <1>1, <1>2 DEF Holds
<1>. HIDE DEF TypeOK, DataInv, CallInv, DecRef
<1>4. \A u \in Threads : Awaits(u, b)' <=> Awaits(u, b)
  BY <1>1, <1>2 DEF Awaits
<1>5. h \in Holders(c)
  BY <1>1, <1>3, HoldersAre
<1>. QED
  BY <1>0, <1>1, <1>3, <1>4, <1>5

LEMMA FreeBlockHolders ==
  ASSUME TypeOK, DataInv, CallInv,
         NEW th \in Threads, FreeBlock(th), NEW b \in Blocks
  PROVE  Holders(b)' = Holders(b)
BY DEF TypeOK, DataInv, CallInv, FreeBlock, Holders, IsLong, Shorter, Empty

LEMMA EndHolders ==
  ASSUME TypeOK, DataInv, CallInv,
         NEW th \in Threads, End(th), NEW b \in Blocks
  PROVE  /\ dst[th] \notin Holders(b)
         /\ Holders(b)' = CASE op[th] = "copy" -> TakenOver(th, dst[th], Holders(b))
                            [] op[th] = "move" -> TakenOver(src[th], dst[th], Holders(b))
                            [] op[th] = "destruct" -> Holders(b)
<1>0. /\ Holders(b) = {x \in Strings : Holds(x, b)} \cup {u \in Threads : Awaits(u, b)}
      /\ Holders(b)' = {x \in Strings : Holds(x, b)'} \cup {u \in Threads : Awaits(u, b)'}
  BY HoldersAre
<1>. USE DEF TypeOK, DataInv, CallInv, End
<1>. PICK h, g : h = dst[th] /\ g = src[th]
  OBVIOUS
<1>1. /\ h \in Strings /\ ~ IsLong(value[h])
      /\ \A u \in Threads : u # th => dst[u] # h /\ src[u] # h
      /\ op[th] \in {"copy", "move"} => g \in Strings /\ g # h /\ \A u \in Threads : dst[u] # g
      /\ op[th] = "move" => \A u \in Threads : u # th => src[u] # g
      /\ op[th] \in {"copy", "move", "destruct"}
  OBVIOUS
<1>2. /\ ~ IsLong(Empty)
      /\ value'[h] = IF op[th] = "destruct" THEN Empty ELSE value[g]
      /\ op[th] = "move" => value'[g] = Empty
      /\ \A x \in Strings : x # h /\ (op[th] = "move" => x # g) => value'[x] = value[x]
      /\ op'[th] = "idle" /\ pc'[th] = "idle" /\ pc[th] = "end"
      /\ \A u \in Threads : u # th => /\ op'[u] = op[u] /\ pc'[u] = pc[u]
                                      /\ dst'[u] = dst[u] /\ src'[u] = src[u]
      /\ \A u \in Threads : op[u] = "copy" => src[u] \in Strings
  BY <1>1 DEF IsLong, Shorter, Empty
<1>. HIDE DEF TypeOK, DataInv, CallInv, End
<1>3. /\ ~ Holds(h, b)
      /\ Holds(h, b)' <=> op[th] # "destruct" /\ IsLong(value[g]) /\ value[g].ptr = b
      /\ op[th] = "move" => ~ Holds(g, b)' /\ (Holds(g, b) <=> IsLong(value[g]) /\ value[g].ptr = b)
      /\ \A x \in Strings : x # h /\ (op[th] = "move" => x # g) => (Holds(x, b)' <=> Holds(x, b))
  BY <1>1, <1>2 DEF Holds
<1>4. /\ ~ Awaits(th, b)'
      /\ Awaits(th, b) <=> op[th] = "copy" /\ IsLong(value[g]) /\ value[g].ptr = b
      /\ \A u \in Threads : u # th => (Awaits(u, b)' <=> Awaits(u, b))
  BY <1>1, <1>2 DEF Awaits
<1>5. CASE op[th] = "copy"
  BY <1>0, <1>1, <1>3, <1>4, <1>5 DEF TakenOver
<1>6. CASE op[th] = "move"
  BY <1>0, <1>1, <1>3, <1>4, <1>6 DEF TakenOver
<1>7. CASE op[th] = "destruct"
  BY <1>0, <1>1, <1>3, <1>4, <1>7
<1>. QED
  BY <1>0, <1>1, <1>5, <1>6, <1>7
-----------------------------------------------------------------------------
(* The parts of the invariant, one by one.                                  *)

LEMMA ValuesGiven ==
  /\ \A t \in Seq(Held) : Len(t) <= ShortMax /\ Len(t) <= MaxLength => IsShortValue(Shorter(t))
  /\ \A n, o \in Nat, b \in Blocks :
       ShortMax < n /\ n <= MaxLength /\ o <= MaxLength => IsLongValue(Longer(n, o, b))
  /\ IsShortValue(Empty)
BY DEF IsShortValue, IsLongValue, IsLong, Shorter, Longer, Empty

LEMMA NextDataInv ==
  ASSUME IInv, NEW th \in Threads, Constructs(th) \/ Assigns(th)
  PROVE  DataInv'
<1>. DEFINE Given(v) == IsShortValue(v) \/ IsLongValue(v)
<1>0. TypeOK /\ DataInv /\ CallInv
  BY DEF IInv, RefcountExact
<1>1. ASSUME NEW h \in Strings, NEW t \in Seq(Held), GivesShort(th, h, t)
      PROVE  DataInv'
  <2>1. Given(Shorter(t))
    BY <1>1, ValuesGiven DEF GivesShort
  <2>. QED
    BY <1>0, <1>1, <2>1 DEF DataInv, GivesShort, blockVars
<1>2. ASSUME NEW h \in Strings, NEW t \in Seq(Held), NEW b \in Blocks, GivesBlock(th, h, t, b)
      PROVE  DataInv'
  <2>1. Given(Longer(Len(t), 0, b))
    BY <1>2, ValuesGiven DEF GivesBlock
  <2>. QED
    BY <1>0, <1>2, <2>1 DEF DataInv, GivesBlock
<1>3. ASSUME NEW h \in Strings, NEW g \in Strings, NEW n \in Nat, NEW o \in Nat,
             GivesShare(th, h, g, n, o)
      PROVE  DataInv'
  <2>1. value[g].ptr \in Blocks
    BY <1>0, <1>3 DEF DataInv, GivesShare, IsShortValue, IsLongValue
  <2>2. Given(Longer(n, o, value[g].ptr))
    BY <1>3, <2>1, ValuesGiven DEF GivesShare
  <2>. QED
    BY <1>0, <1>3, <2>2 DEF DataInv, GivesShare
<1>4. ASSUME NEW h \in Strings, NEW g \in Strings, Moves(th, h, g)
      PROVE  DataInv'
  BY <1>0, <1>4, ValuesGiven DEF DataInv, Moves, blockVars
<1>5. CASE CopyAssign(th) \/ MoveAssign(th) \/ Destruct(th)
  BY <1>0, <1>5 DEF DataInv, CopyAssign, MoveAssign, Destruct, Begin
<1>6. CASE DecRef(th)
  BY <1>0, <1>6, ValuesGiven DEF DataInv, DecRef, CallInv, TypeOK
<1>7. CASE FreeBlock(th)
  <2>1. Unknown \in Seq(Held) /\ Len(Unknown) = MaxLength
    BY DEF Unknown, Held
  <2>. QED
    BY <1>0, <1>7, <2>1, ValuesGiven DEF DataInv, FreeBlock, CallInv, TypeOK
<1>8. CASE End(th)
  <2>1. dst[th] \in Strings /\ (op[th] \in {"copy", "move"} => src[th] \in Strings)
        /\ op[th] \in {"copy", "move", "destruct"}
    BY <1>0, <1>8 DEF End, CallInv, TypeOK
  <2>. QED
    BY <1>0, <1>8, <2>1, ValuesGiven DEF DataInv, End, blockVars
<1>. QED
  BY <1>1, <1>2, <1>3, <1>4, <1>5, <1>6, <1>7, <1>8 DEF Constructs, Assigns

LEMMA NextCallInv ==
  ASSUME IInv, NEW th \in Threads, Constructs(th) \/ Assigns(th)
  PROVE  CallInv'
<1>0. TypeOK /\ DataInv /\ CallInv
  BY DEF IInv, RefcountExact
<1>1. ~ IsLong(Empty)
  BY ValuesGiven DEF IsShortValue
<1>2. CASE Constructs(th)
  <2>1. PICK h \in Strings, g \in Strings :
          /\ UNCHANGED callVars /\ op[th] = "idle" /\ Writes(th, h) /\ Writes(th, g)
          /\ DOMAIN value' = Strings
          /\ \A x \in Strings \ {h, g} : value'[x] = value[x]
    BY <1>0, <1>2 DEF DataInv, Constructs, GivesShort, GivesBlock, GivesShare, Moves, Construct
  <2>2. \A u \in Threads : op[u] # "idle" => dst[u] \in Strings \ {h, g}
    BY <1>0, <2>1 DEF CallInv, Writes
  <2>. QED
    BY <1>0, <2>1, <2>2 DEF CallInv, callVars, IsLong
<1>3. CASE CopyAssign(th)
  BY <1>0, <1>3 DEF TypeOK, CallInv, CopyAssign, Begin, Reads, Writes, IsLong
<1>4. CASE MoveAssign(th)
  BY <1>0, <1>4 DEF TypeOK, CallInv, MoveAssign, Begin, Writes, IsLong
<1>5. CASE Destruct(th)
  BY <1>0, <1>5 DEF TypeOK, CallInv, Destruct, Begin, Writes, IsLong
<1>6. CASE DecRef(th)
  BY <1>0, <1>1, <1>6 DEF TypeOK, DataInv, CallInv, DecRef, IsLong
<1>7. CASE FreeBlock(th)
  BY <1>0, <1>1, <1>7 DEF TypeOK, DataInv, CallInv, FreeBlock, IsLong
<1>8. CASE End(th)
  BY <1>0, <1>8 DEF TypeOK, DataInv, CallInv, End, IsLong
<1>. QED
  BY <1>2, <1>3, <1>4, <1>5, <1>6, <1>7, <1>8 DEF Assigns
-----------------------------------------------------------------------------
(* The counters.                                                            *)

CountsMatch == \A b \in Blocks : refcount[b] = Cardinality(Holders(b)) + extra[b]

CountTypes == refcount \in [Blocks -> 0..MaxRefcount] /\ extra \in [Blocks -> Nat]

LEMMA Counted ==
  ASSUME IInv, NEW b \in Blocks, NEW x \in Holders(b)
  PROVE  refcount[b] > 0
<1>1. /\ refcount[b] = Cardinality(Holders(b)) + extra[b]
      /\ Cardinality(Holders(b)) \in Nat \ {0}
      /\ extra[b] \in Nat
  BY HoldersFinite, FS_EmptySet, FS_CardinalityType DEF IInv, RefcountExact, TypeOK
<1>. QED
  BY <1>1

LEMMA NextCountTypes ==
  ASSUME IInv, NEW th \in Threads, Constructs(th) \/ Assigns(th)
  PROVE  CountTypes'
<1>0. /\ TypeOK /\ DataInv /\ CallInv /\ CountTypes
  BY DEF IInv, RefcountExact, TypeOK, CountTypes
<1>1. ASSUME NEW v, AddRef(v)
      PROVE  refcount' \in [Blocks -> 0..MaxRefcount]
  BY <1>0, <1>1 DEF AddRef, CountTypes
<1>2. CASE Constructs(th)
  <2>1. /\ extra' = extra
        /\ \/ refcount' = refcount
           \/ \E b \in Blocks : refcount' = [refcount EXCEPT ![b] = 1]
           \/ \E v : AddRef(v)
    BY <1>2 DEF Constructs, GivesShort, GivesBlock, GivesShare, Moves, blockVars
  <2>. QED
    BY <1>0, <1>1, <2>1 DEF CountTypes
<1>3. CASE CopyAssign(th) \/ MoveAssign(th) \/ Destruct(th)
  <2>1. /\ extra' = extra \/ \E c : extra' = [extra EXCEPT ![c] = @ + 1]
        /\ refcount' = refcount \/ \E v : AddRef(v)
    BY <1>3 DEF CopyAssign, MoveAssign, Destruct
  <2>. QED
    BY <1>0, <1>1, <2>1 DEF CountTypes
<1>4. CASE DecRef(th)
  <2>1. PICK c \in Blocks : c = value[dst[th]].ptr
    BY <1>0, <1>4 DEF DecRef, CallInv, TypeOK
  <2>2. refcount[c] > 0
    BY <1>0, <1>4, <2>1, DecRefHolders, Counted
  <2>3. refcount' = [refcount EXCEPT ![c] = @ - 1] /\ extra' = extra
    BY <1>4, <2>1 DEF DecRef
  <2>. QED
    BY <1>0, <2>2, <2>3 DEF CountTypes
<1>5. CASE FreeBlock(th) \/ End(th)
  BY <1>0, <1>5 DEF FreeBlock, End, blockVars, CountTypes
<1>. QED
  BY <1>2, <1>3, <1>4, <1>5 DEF Assigns

LEMMA NextCountsMatch ==
  ASSUME IInv, NEW th \in Threads, Constructs(th) \/ Assigns(th)
  PROVE  CountsMatch'
<1>. SUFFICES ASSUME NEW b \in Blocks
              PROVE  refcount'[b] = Cardinality(Holders(b)') + extra'[b]
  BY DEF CountsMatch
<1>. PICK S : S = Holders(b)
  OBVIOUS
<1>0. /\ TypeOK /\ DataInv /\ CallInv /\ BlockInv /\ NoUseAfterFree /\ RefcountExact
      /\ CountTypes
      /\ IsFiniteSet(S) /\ Cardinality(S) \in Nat
      /\ refcount[b] = Cardinality(S) + extra[b]
  BY HoldersFinite, FS_CardinalityType DEF IInv, RefcountExact, TypeOK, CountTypes
<1>1. ASSUME NEW h \in Strings, NEW t \in Seq(Held), GivesShort(th, h, t)
      PROVE  refcount'[b] = Cardinality(Holders(b)') + extra'[b]
  <2>1. Holders(b)' = S
    BY <1>0, <1>1, GivesShortHolders
  <2>. QED
    BY <1>0, <1>1, <2>1 DEF GivesShort, blockVars, CountTypes
<1>2. ASSUME NEW h \in Strings, NEW t \in Seq(Held), NEW c \in Blocks, GivesBlock(th, h, t, c)
      PROVE  refcount'[b] = Cardinality(Holders(b)') + extra'[b]
  <2>1. Holders(b)' = IF b = c THEN S \cup {h} ELSE S
    BY <1>0, <1>2, GivesBlockHolders
  <2>2. b = c => S = {} /\ extra[b] = 0
    BY <1>0, <1>2, NobodyHoldsFree DEF GivesBlock
  <2>3. b = c => Cardinality(Holders(b)') = 1
    BY <2>1, <2>2, FS_Singleton
  <2>4. extra' = extra /\ refcount' = [refcount EXCEPT ![c] = 1]
    BY <1>2 DEF GivesBlock
  <2>. QED
    BY <1>0, <2>1, <2>2, <2>3, <2>4 DEF CountTypes
<1>3. ASSUME NEW h \in Strings, NEW g \in Strings, NEW n \in Nat, NEW o \in Nat,
             GivesShare(th, h, g, n, o)
      PROVE  refcount'[b] = Cardinality(Holders(b)') + extra'[b]
  <2>1. h \notin S /\ Holders(b)' = IF b = value[g].ptr THEN S \cup {h} ELSE S
    BY <1>0, <1>3, GivesShareHolders
  <2>2. h \notin S => Cardinality(S \cup {h}) = Cardinality(S) + 1
    BY <1>0, FS_AddElement
  <2>3. /\ extra' = extra
        /\ refcount[value[g].ptr] < MaxRefcount
        /\ refcount' = [refcount EXCEPT ![value[g].ptr] = @ + 1]
    BY <1>3 DEF GivesShare, AddRef
  <2>. QED
    BY <1>0, <2>1, <2>2, <2>3 DEF CountTypes
<1>4. ASSUME NEW h \in Strings, NEW g \in Strings, Moves(th, h, g)
      PROVE  refcount'[b] = Cardinality(Holders(b)') + extra'[b]
  <2>1. h \notin S /\ Holders(b)' = TakenOver(g, h, S)
    BY <1>0, <1>4, MovesHolders
  <2>2. Cardinality(Holders(b)') = Cardinality(S)
    BY <1>0, <2>1, TakenOverCardinality
  <2>. QED
    BY <1>0, <1>4, <2>2 DEF Moves, blockVars, CountTypes
<1>5. CASE CopyAssign(th)
  <2>1. PICK h \in Strings, g \in Strings :
          Begin(th, "copy", h, g) /\ AddRef(value[g]) /\ extra' = extra
    BY <1>5 DEF CopyAssign
  <2>2. /\ th \notin S
        /\ Holders(b)' = IF IsLong(value[g]) /\ b = value[g].ptr THEN S \cup {th} ELSE S
    BY <1>0, <2>1, BeginsCopyHolders
  <2>3. th \notin S => Cardinality(S \cup {th}) = Cardinality(S) + 1
    BY <1>0, FS_AddElement
  <2>. QED
    BY <1>0, <2>1, <2>2, <2>3 DEF AddRef, CountTypes
<1>6. CASE MoveAssign(th)
  <2>1. PICK h \in Strings, g \in Strings :
          /\ Begin(th, "move", h, g) /\ AddRef(value[g])
          /\ extra' = IF IsLong(value[g]) THEN [extra EXCEPT ![value[g].ptr] = @ + 1] ELSE extra
    BY <1>6 DEF MoveAssign
  <2>2. Holders(b)' = S
    BY <1>0, <2>1, BeginsHolders
  <2>. QED
    BY <1>0, <2>1, <2>2 DEF AddRef, CountTypes
<1>7. CASE Destruct(th)
  <2>1. PICK h \in Strings : Begin(th, "destruct", h, Null) /\ UNCHANGED <<refcount, extra>>
    BY <1>7 DEF Destruct
  <2>2. Holders(b)' = S
    BY <1>0, <2>1, BeginsHolders
  <2>. QED
    BY <1>0, <2>1, <2>2 DEF CountTypes
<1>8. CASE DecRef(th)
  <2>1. /\ dst[th] \in Holders(value[dst[th]].ptr)
        /\ Holders(b)' = IF b = value[dst[th]].ptr THEN S \ {dst[th]} ELSE S
    BY <1>0, <1>8, DecRefHolders
  <2>2. /\ extra' = extra
        /\ refcount' = [refcount EXCEPT ![value[dst[th]].ptr] = @ - 1]
    BY <1>8 DEF DecRef
  <2>3. Cardinality(S \ {dst[th]}) = IF dst[th] \in S THEN Cardinality(S) - 1 ELSE Cardinality(S)
    BY <1>0, FS_RemoveElement
  <2>. QED
    BY <1>0, <2>1, <2>2, <2>3 DEF CountTypes
<1>9. CASE FreeBlock(th)
  <2>1. Holders(b)' = S
    BY <1>0, <1>9, FreeBlockHolders
  <2>2. b = value[dst[th]].ptr => refcount[b] = 0
    BY <1>0, <1>9 DEF FreeBlock, BlockInv, Frees
  <2>. QED
    BY <1>0, <1>9, <2>1, <2>2 DEF FreeBlock, CountTypes
<1>10. CASE End(th)
  <2>1. /\ dst[th] \notin S
        /\ Holders(b)' = CASE op[th] = "copy" -> TakenOver(th, dst[th], S)
                           [] op[th] = "move" -> TakenOver(src[th], dst[th], S)
                           [] op[th] = "destruct" -> S
    BY <1>0, <1>10, EndHolders
  <2>2. op[th] \in {"copy", "move", "destruct"}
    BY <1>0, <1>10 DEF End, CallInv, TypeOK
  <2>3. Cardinality(Holders(b)') = Cardinality(S)
    BY <1>0, <2>1, <2>2, TakenOverCardinality
  <2>. QED
    BY <1>0, <1>10, <2>3 DEF End, blockVars, CountTypes
<1>. QED
  BY <1>1, <1>2, <1>3, <1>4, <1>5, <1>6, <1>7, <1>8, <1>9, <1>10 DEF Constructs, Assigns
-----------------------------------------------------------------------------
(* The blocks.                                                              *)

(* A string that somebody may read is counted: its block is not being freed.*)
LEMMA ReadIsCounted ==
  ASSUME IInv, NEW g \in Strings, IsLong(value[g]), \A u \in Threads : dst[u] # g
  PROVE  /\ value[g].ptr \in allocated
         /\ value[g].ptr \in Blocks
         /\ refcount[value[g].ptr] > 0
         /\ \A u \in Threads : ~ Frees(u, value[g].ptr)
<1>1. value[g].ptr \in allocated /\ value[g].ptr \in Blocks
  BY DEF IInv, NoUseAfterFree, RefcountExact, TypeOK
<1>2. g \in Holders(value[g].ptr)
  BY DEF Holders
<1>3. refcount[value[g].ptr] > 0
  BY <1>1, <1>2, Counted
<1>. QED
  BY <1>1, <1>3 DEF IInv, BlockInv

(* While a block is freed, the string that had it last is the only one left.*)
LEMMA FreerIsAlone ==
  ASSUME IInv, NEW th \in Threads, NEW b \in Blocks, Frees(th, b)
  PROVE  /\ b \in allocated
         /\ \A x \in Strings : IsLong(value[x]) /\ value[x].ptr = b => x = dst[th]
<1>1. b \in allocated
  BY DEF IInv, Frees, CallInv, NoUseAfterFree, RefcountExact, TypeOK
<1>2. ASSUME NEW x \in Strings, IsLong(value[x]), value[x].ptr = b, x # dst[th]
      PROVE  FALSE
  <2>1. refcount[b] = 0 /\ refcount[b] \in Nat
    BY DEF IInv, BlockInv, RefcountExact, TypeOK
  <2>2. x \notin Holders(b)
    BY <2>1, Counted
  <2>3. PICK u \in Threads : pc[u] = "free" /\ dst[u] = x
    BY <1>2, <2>2 DEF Holders
  <2>4. u # th /\ Frees(u, b)
    BY <1>2, <2>3 DEF Frees
  <2>. QED
    BY <2>4 DEF IInv, BlockInv
<1>. QED
  BY <1>1, <1>2

LEMMA FreesKept ==
  ASSUME IInv, NEW th \in Threads,
         Constructs(th) \/ CopyAssign(th) \/ MoveAssign(th) \/ Destruct(th) \/ End(th)
  PROVE  \A u \in Threads, b \in Blocks : Frees(u, b)' <=> Frees(u, b)
<1>0. TypeOK /\ DataInv /\ CallInv
  BY DEF IInv, RefcountExact
<1>1. CASE Constructs(th)
  <2>1. PICK h \in Strings, g \in Strings :
          /\ UNCHANGED callVars /\ op[th] = "idle" /\ Writes(th, h) /\ Writes(th, g)
          /\ \A x \in Strings \ {h, g} : value'[x] = value[x]
    BY <1>0, <1>1 DEF DataInv, Constructs, GivesShort, GivesBlock, GivesShare, Moves, Construct
  <2>2. \A u \in Threads : op[u] # "idle" => dst[u] \in Strings \ {h, g}
    BY <1>0, <2>1 DEF CallInv, Writes
  <2>. QED
    BY <1>0, <2>1, <2>2 DEF CallInv, callVars, Frees
<1>2. CASE CopyAssign(th) \/ MoveAssign(th) \/ Destruct(th)
  <2>1. PICK name, h, g : Begin(th, name, h, g)
    BY <1>2 DEF CopyAssign, MoveAssign, Destruct
  <2>. QED
    BY <1>0, <2>1 DEF TypeOK, CallInv, Begin, Frees
<1>3. CASE End(th)
  BY <1>0, <1>3 DEF TypeOK, CallInv, End, Frees
<1>. QED
  BY <1>1, <1>2, <1>3

(* What the steps of the other two kinds do to who frees what.              *)
LEMMA DecRefFrees ==
  ASSUME IInv, NEW th \in Threads, DecRef(th), NEW c, c = value[dst[th]].ptr
  PROVE  /\ c \in Blocks /\ c \in allocated /\ refcount[c] > 0
         /\ \A u \in Threads : ~ Frees(u, c)
         /\ \A u \in Threads, b \in Blocks :
              Frees(u, b)' <=> Frees(u, b) \/ (u = th /\ b = c /\ refcount[c] = 1)
<1>0. TypeOK /\ DataInv /\ CallInv /\ NoUseAfterFree /\ BlockInv
  BY DEF IInv, RefcountExact
<1>1. c \in Blocks /\ c \in allocated
  BY <1>0 DEF DecRef, CallInv, NoUseAfterFree, TypeOK
<1>2. refcount[c] > 0
  BY <1>0, <1>1, DecRefHolders, Counted
<1>3. \A u \in Threads : ~ Frees(u, c)
  BY <1>0, <1>1, <1>2 DEF BlockInv
<1>4. \A u \in Threads \ {th}, b \in Blocks : Frees(u, b)' <=> Frees(u, b)
  BY <1>0 DEF TypeOK, DataInv, CallInv, DecRef, Frees
<1>5. \A b \in Blocks : ~ Frees(th, b) /\ (Frees(th, b)' <=> b = c /\ refcount[c] = 1)
  BY <1>0 DEF TypeOK, DecRef, Frees
<1>. QED
  BY <1>1, <1>2, <1>3, <1>4, <1>5

LEMMA FreeBlockFrees ==
  ASSUME IInv, NEW th \in Threads, FreeBlock(th), NEW c, c = value[dst[th]].ptr
  PROVE  /\ c \in Blocks /\ Frees(th, c)
         /\ \A u \in Threads, b \in Blocks : Frees(u, b)' <=> Frees(u, b) /\ u # th
<1>0. TypeOK /\ DataInv /\ CallInv
  BY DEF IInv, RefcountExact
<1>1. c \in Blocks /\ Frees(th, c)
  BY <1>0 DEF FreeBlock, CallInv, TypeOK, Frees
<1>2. \A u \in Threads \ {th}, b \in Blocks : Frees(u, b)' <=> Frees(u, b)
  BY <1>0 DEF TypeOK, DataInv, CallInv, FreeBlock, Frees
<1>3. \A b \in Blocks : ~ Frees(th, b)'
  BY <1>0 DEF TypeOK, FreeBlock, Frees
<1>. QED
  BY <1>1, <1>2, <1>3
(* A block without a count is being freed.                                  *)
ZeroIsFreed ==
  \A b \in Blocks : b \in allocated /\ refcount[b] = 0 => \E th \in Threads : Frees(th, b)

(* The counts that a step other than the two of a release may change.       *)
LEMMA CountsGrow ==
  ASSUME IInv, NEW th \in Threads,
         Constructs(th) \/ CopyAssign(th) \/ MoveAssign(th) \/ Destruct(th) \/ End(th),
         NEW b \in Blocks
  PROVE  \/ /\ refcount'[b] = refcount[b]
            /\ b \in allocated' <=> b \in allocated
         \/ /\ refcount'[b] > 0
            /\ b \in allocated'
            /\ \A u \in Threads : ~ Frees(u, b)
<1>0. TypeOK /\ DataInv /\ CallInv /\ NoUseAfterFree
  BY DEF IInv, RefcountExact
<1>. DEFINE Same == refcount'[b] = refcount[b] /\ (b \in allocated' <=> b \in allocated)
            Counts == /\ refcount'[b] > 0
                      /\ b \in allocated'
                      /\ \A u \in Threads : ~ Frees(u, b)
<1>1. ASSUME NEW g \in Strings, Reads(th, g), op[th] = "idle", AddRef(value[g]),
             allocated' = allocated
      PROVE  Same \/ Counts
  <2>1. \A u \in Threads : dst[u] # g
    BY <1>0, <1>1 DEF CallInv, Reads
  <2>2. CASE IsLong(value[g])
    <3>1. /\ value[g].ptr \in allocated
          /\ value[g].ptr \in Blocks
          /\ refcount[value[g].ptr] > 0
          /\ \A u \in Threads : ~ Frees(u, value[g].ptr)
      BY <2>1, <2>2, ReadIsCounted
    <3>2. refcount' = [refcount EXCEPT ![value[g].ptr] = @ + 1]
      BY <1>1, <2>2 DEF AddRef
    <3>. QED
      BY <1>0, <1>1, <3>1, <3>2 DEF TypeOK
  <2>3. CASE ~ IsLong(value[g])
    BY <1>1, <2>3 DEF AddRef
  <2>. QED
    BY <2>2, <2>3
<1>2. ASSUME NEW h \in Strings, NEW t \in Seq(Held), GivesShort(th, h, t)
      PROVE  Same
  BY <1>2 DEF GivesShort, blockVars
<1>3. ASSUME NEW h \in Strings, NEW t \in Seq(Held), NEW c \in Blocks, GivesBlock(th, h, t, c)
      PROVE  Same \/ Counts
  <2>1. \A u \in Threads : ~ Frees(u, c)
    BY <1>3, FreerIsAlone DEF GivesBlock
  <2>. QED
    BY <1>0, <1>3, <2>1 DEF GivesBlock, TypeOK
<1>4. ASSUME NEW h \in Strings, NEW g \in Strings, NEW n \in Nat, NEW o \in Nat,
             GivesShare(th, h, g, n, o)
      PROVE  Same \/ Counts
  BY <1>1, <1>4 DEF GivesShare, Construct
<1>5. ASSUME NEW h \in Strings, NEW g \in Strings, Moves(th, h, g)
      PROVE  Same
  BY <1>5 DEF Moves, blockVars
<1>6. CASE CopyAssign(th)
  BY <1>1, <1>6 DEF CopyAssign, Begin
<1>7. CASE MoveAssign(th)
  <2>1. PICK h \in Strings, g \in Strings :
          Writes(th, g) /\ Begin(th, "move", h, g) /\ AddRef(value[g])
    BY <1>7 DEF MoveAssign
  <2>. QED
    BY <1>1, <2>1 DEF Begin, Reads, Writes
<1>8. CASE Destruct(th) \/ End(th)
  BY <1>8 DEF Destruct, Begin, End, blockVars
<1>. QED
  BY <1>2, <1>3, <1>4, <1>5, <1>6, <1>7, <1>8 DEF Constructs

LEMMA NextBlockInv ==
  ASSUME IInv, NEW th \in Threads, Constructs(th) \/ Assigns(th)
  PROVE  BlockInv' /\ ZeroIsFreed'
<1>0. TypeOK /\ BlockInv /\ ZeroIsFreed
  BY DEF IInv, RefcountExact, ZeroIsFreed, Frees
<1>1. CASE Constructs(th) \/ CopyAssign(th) \/ MoveAssign(th) \/ Destruct(th) \/ End(th)
  <2>1. \A u \in Threads, b \in Blocks : Frees(u, b)' <=> Frees(u, b)
    BY <1>1, FreesKept
  <2>2. \A b \in Blocks : \/ /\ refcount'[b] = refcount[b]
                             /\ b \in allocated' <=> b \in allocated
                          \/ /\ refcount'[b] > 0
                             /\ b \in allocated'
                             /\ \A u \in Threads : ~ Frees(u, b)
    BY <1>1, CountsGrow
  <2>3. BlockInv'
    BY <1>0, <2>1, <2>2 DEF BlockInv
  <2>4. ZeroIsFreed'
    BY <1>0, <2>1, <2>2 DEF ZeroIsFreed
  <2>. QED
    BY <2>3, <2>4
<1>2. CASE DecRef(th)
  <2>1. PICK c : c = value[dst[th]].ptr
    OBVIOUS
  <2>2. /\ c \in Blocks /\ c \in allocated /\ refcount[c] > 0
        /\ \A u \in Threads : ~ Frees(u, c)
        /\ \A u \in Threads, b \in Blocks :
             Frees(u, b)' <=> Frees(u, b) \/ (u = th /\ b = c /\ refcount[c] = 1)
    BY <1>2, <2>1, DecRefFrees
  <2>3. /\ allocated' = allocated
        /\ \A b \in Blocks : refcount'[b] = IF b = c THEN refcount[b] - 1 ELSE refcount[b]
        /\ \A b \in Blocks : refcount[b] \in Nat
    BY <1>0, <1>2, <2>1 DEF DecRef, TypeOK
  <2>4. BlockInv'
    BY <1>0, <2>2, <2>3 DEF BlockInv
  <2>5. ZeroIsFreed'
    BY <1>0, <2>2, <2>3 DEF ZeroIsFreed
  <2>. QED
    BY <2>4, <2>5
<1>3. CASE FreeBlock(th)
  <2>1. PICK c : c = value[dst[th]].ptr
    OBVIOUS
  <2>2. /\ c \in Blocks /\ Frees(th, c)
        /\ \A u \in Threads, b \in Blocks : Frees(u, b)' <=> Frees(u, b) /\ u # th
    BY <1>3, <2>1, FreeBlockFrees
  <2>3. allocated' = allocated \ {c} /\ refcount' = refcount
    BY <1>3, <2>1 DEF FreeBlock
  <2>4. \A b \in Blocks : Frees(th, b) => b = c
    BY <2>1 DEF Frees
  <2>5. BlockInv'
    BY <1>0, <2>2, <2>3 DEF BlockInv
  <2>6. ZeroIsFreed'
    BY <1>0, <2>2, <2>3, <2>4 DEF ZeroIsFreed
  <2>. QED
    BY <2>5, <2>6
<1>. QED
  BY <1>1, <1>2, <1>3 DEF Assigns

LEMMA NextNoUseAfterFree ==
  ASSUME IInv, NEW th \in Threads, Constructs(th) \/ Assigns(th)
  PROVE  NoUseAfterFree'
<1>0. TypeOK /\ DataInv /\ CallInv /\ NoUseAfterFree
  BY DEF IInv, RefcountExact
<1>1. ~ IsLong(Empty)
  BY ValuesGiven DEF IsShortValue
<1>2. ASSUME NEW h \in Strings, NEW t \in Seq(Held), GivesShort(th, h, t)
      PROVE  NoUseAfterFree'
  <2>1. ~ IsLong(Shorter(t))
    BY <1>2 DEF GivesShort, IsLong, Shorter
  <2>. QED
    BY <1>0, <1>2, <2>1 DEF DataInv, NoUseAfterFree, GivesShort, blockVars
<1>3. ASSUME NEW h \in Strings, NEW t \in Seq(Held), NEW b \in Blocks, GivesBlock(th, h, t, b)
      PROVE  NoUseAfterFree'
  <2>1. value' = [value EXCEPT ![h] = Longer(Len(t), 0, b)] /\ memory' = [memory EXCEPT ![b] = t]
        /\ allocated' = allocated \cup {b} /\ b \notin allocated
    BY <1>3 DEF GivesBlock
  <2>2. Longer(Len(t), 0, b).ptr = b /\ Longer(Len(t), 0, b).offset + Longer(Len(t), 0, b).size = Len(t)
    BY DEF Longer
  <2>. QED
    BY <1>0, <2>1, <2>2 DEF DataInv, NoUseAfterFree
<1>4. ASSUME NEW h \in Strings, NEW g \in Strings, NEW n \in Nat, NEW o \in Nat,
             GivesShare(th, h, g, n, o)
      PROVE  NoUseAfterFree'
  <2>1. Longer(n, o, value[g].ptr).ptr = value[g].ptr
        /\ Longer(n, o, value[g].ptr).offset + Longer(n, o, value[g].ptr).size = o + n
    BY DEF Longer
  <2>. QED
    BY <1>0, <1>4, <2>1 DEF DataInv, NoUseAfterFree, GivesShare
<1>5. ASSUME NEW h \in Strings, NEW g \in Strings, Moves(th, h, g)
      PROVE  NoUseAfterFree'
  BY <1>0, <1>1, <1>5 DEF DataInv, NoUseAfterFree, Moves, blockVars
<1>6. CASE CopyAssign(th) \/ MoveAssign(th) \/ Destruct(th)
  BY <1>0, <1>6 DEF NoUseAfterFree, CopyAssign, MoveAssign, Destruct, Begin
<1>7. CASE DecRef(th)
  BY <1>0, <1>1, <1>7 DEF DataInv, NoUseAfterFree, DecRef
<1>8. CASE FreeBlock(th)
  <2>1. PICK c : c = value[dst[th]].ptr
    OBVIOUS
  <2>2. /\ c \in Blocks
        /\ \A x \in Strings : IsLong(value[x]) /\ value[x].ptr = c => x = dst[th]
    BY <1>8, <2>1, FreeBlockFrees, FreerIsAlone
  <2>. QED
    BY <1>0, <1>1, <1>8, <2>1, <2>2 DEF DataInv, NoUseAfterFree, FreeBlock
<1>9. CASE End(th)
  <2>1. dst[th] \in Strings /\ (op[th] # "destruct" => src[th] \in Strings)
    BY <1>0, <1>9 DEF End, CallInv, TypeOK
  <2>. QED
    BY <1>0, <1>1, <1>9, <2>1 DEF NoUseAfterFree, End, blockVars
<1>. QED
  BY <1>2, <1>3, <1>4, <1>5, <1>6, <1>7, <1>8, <1>9 DEF Constructs, Assigns

LEMMA NextTypeOK ==
  ASSUME IInv, NEW th \in Threads, Constructs(th) \/ Assigns(th)
  PROVE  TypeOK'
<1>0. TypeOK /\ DataInv /\ CallInv
  BY DEF IInv, RefcountExact
<1>1. DataInv' /\ CountTypes'
  BY NextDataInv, NextCountTypes
<1>2. \A h \in Strings :
        /\ value'[h].size \in 0..MaxLength
        /\ IF IsLong(value'[h])
           THEN value'[h].ptr \in Blocks /\ value'[h].offset \in 0..MaxLength
           ELSE value'[h] = Shorter(value'[h].bytes)
  BY <1>1 DEF DataInv, IsShortValue, IsLongValue
<1>3. allocated' \subseteq Blocks
  <2>1. allocated' \subseteq allocated \/ \E b \in Blocks : allocated' = allocated \cup {b}
    BY DEF Constructs, Assigns, GivesShort, GivesBlock, GivesShare, Moves, CopyAssign, MoveAssign,
           Destruct, Begin, DecRef, FreeBlock, End, blockVars
  <2>. QED
    BY <1>0, <2>1 DEF TypeOK
<1>4. /\ op' \in [Threads -> {"idle", "copy", "move", "destruct"}]
      /\ pc' \in [Threads -> {"idle", "dec", "free", "end"}]
      /\ dst' \in [Threads -> Strings \cup {Null}]
      /\ src' \in [Threads -> Strings \cup {Null}]
  <2>1. CASE Constructs(th)
    BY <1>0, <2>1 DEF TypeOK, Constructs, GivesShort, GivesBlock, GivesShare, Moves, Construct, callVars
  <2>2. CASE CopyAssign(th) \/ MoveAssign(th) \/ Destruct(th)
    <3>1. PICK name \in {"copy", "move", "destruct"}, h \in Strings, g \in Strings \cup {Null} :
            Begin(th, name, h, g)
      BY <2>2 DEF CopyAssign, MoveAssign, Destruct
    <3>. QED
      BY <1>0, <3>1 DEF TypeOK, Begin
  <2>3. CASE DecRef(th) \/ FreeBlock(th) \/ End(th)
    BY <1>0, <2>3 DEF TypeOK, DecRef, FreeBlock, End
  <2>. QED
    BY <2>1, <2>2, <2>3 DEF Assigns
<1>. QED
  BY <1>1, <1>2, <1>3, <1>4 DEF TypeOK, DataInv, CountTypes
-----------------------------------------------------------------------------
(* Texts, and the kinds of the steps.                                       *)

LEMMA MinOfTwo ==
  ASSUME NEW a \in Nat, NEW b \in Nat
  PROVE  Min({a, b}) = IF a <= b THEN a ELSE b
<1>. DEFINE Least(x) == x \in {a, b} /\ \A y \in {a, b} : x <= y
<1>1. Least(IF a <= b THEN a ELSE b)
  OBVIOUS
<1>2. Least(CHOOSE x : Least(x))
  BY <1>1
<1>3. Min({a, b}) = CHOOSE x : Least(x)
  BY DEF Min
<1>. QED
  BY <1>2, <1>3

LEMMA TextIs ==
  ASSUME DataInv, NoUseAfterFree, NEW g \in Strings
  PROVE  /\ value[g].size \in 0..MaxLength
         /\ Text(value[g]) \in Seq(Held)
         /\ Len(Text(value[g])) = value[g].size
<1>1. CASE IsLong(value[g])
  <2>1. PICK v : v = value[g]
    OBVIOUS
  <2>2. /\ IsLongValue(v)
        /\ v.size \in 0..MaxLength /\ v.offset \in Nat /\ v.ptr \in Blocks
        /\ v.offset + v.size <= Len(memory[v.ptr])
        /\ memory[v.ptr] \in Seq(Held)
    BY <1>1, <2>1 DEF DataInv, IsShortValue, IsLongValue, NoUseAfterFree
  <2>3. PICK m \in Seq(Held) : m = memory[v.ptr]
    BY <2>2
  <2>4. SubSeq(m, v.offset + 1, v.offset + v.size) \in Seq(Held)
        /\ Len(SubSeq(m, v.offset + 1, v.offset + v.size)) = v.size
    BY <2>2, <2>3, SubSeqProperties
  <2>. QED
    BY <1>1, <2>1, <2>2, <2>3, <2>4 DEF Text
<1>2. CASE ~ IsLong(value[g])
  BY <1>2 DEF DataInv, IsShortValue, IsLongValue, Text, Shorter
<1>. QED
  BY <1>1, <1>2

(* What substr makes of a string: k and n are the clamped offset and size.  *)
LEMMA SubValueIs ==
  ASSUME DataInv, NoUseAfterFree, NEW g \in Strings, NEW offset \in Nat, NEW size \in Nat
  PROVE  \E k, n \in Nat :
           /\ k = Min({offset, value[g].size})
           /\ n = Min({size, value[g].size - k})
           /\ k + n <= value[g].size
           /\ SubSeq(Text(value[g]), k + 1, k + n) \in Seq(Held)
           /\ Len(SubSeq(Text(value[g]), k + 1, k + n)) = n
           /\ SubValue(value[g], offset, size) =
                IF n <= ShortMax THEN Shorter(SubSeq(Text(value[g]), k + 1, k + n))
                                 ELSE Longer(n, k, value[g].ptr)
<1>1. value[g].size \in Nat /\ Text(value[g]) \in Seq(Held) /\ Len(Text(value[g])) = value[g].size
  BY TextIs
<1>2. PICK k \in Nat : k = Min({offset, value[g].size}) /\ k <= value[g].size
  BY <1>1, MinOfTwo
<1>3. PICK rest \in Nat : rest = value[g].size - k
  BY <1>1, <1>2
<1>4. PICK n \in Nat : n = Min({size, rest}) /\ n <= rest
  BY MinOfTwo
<1>5. PICK t \in Seq(Held) : t = Text(value[g])
  BY <1>1
<1>6. k + n <= value[g].size
  BY <1>1, <1>2, <1>3, <1>4
<1>7. SubSeq(t, k + 1, k + n) \in Seq(Held) /\ Len(SubSeq(t, k + 1, k + n)) = n
  <2>1. PICK first \in Int, last \in Int : first = k + 1 /\ last = k + n
    BY <1>2, <1>4
  <2>2. \A i \in first..last : t[i] \in Held
    BY <1>1, <1>2, <1>4, <1>5, <1>6, <2>1, SMTT(60)
  <2>3. /\ SubSeq(t, first, last) \in Seq(Held)
        /\ Len(SubSeq(t, first, last)) = IF first <= last THEN last - first + 1 ELSE 0
    BY <2>2, SubSeqProperties
  <2>4. n = IF first <= last THEN last - first + 1 ELSE 0
    BY <2>1
  <2>. QED
    BY <2>1, <2>3, <2>4
<1>8. SubValue(value[g], offset, size) =
        IF n <= ShortMax THEN Shorter(SubSeq(Text(value[g]), k + 1, k + n))
                         ELSE Longer(n, k, value[g].ptr)
  BY <1>2, <1>3, <1>4 DEF SubValue
<1>. QED
  BY <1>2, <1>3, <1>4, <1>5, <1>6, <1>7, <1>8

LEMMA FillKinds ==
  ASSUME NEW th \in Threads, NEW h \in Strings, NEW t \in Seq(Held), Construct(th, h), Fill(h, t)
  PROVE  Constructs(th)
BY DEF Fill, Constructs, GivesShort, GivesBlock

LEMMA StepKinds ==
  ASSUME IInv, Next
  PROVE  \E th \in Threads : Constructs(th) \/ Assigns(th)
<1>0. DataInv /\ NoUseAfterFree
  BY DEF IInv
<1>1. PICK th \in Threads :
        \/ FromLiteral(th) \/ Concat(th) \/ CopyConstruct(th) \/ MoveConstruct(th) \/ Substr(th)
        \/ Assigns(th)
  BY DEF Next, Assigns
<1>2. Literals \subseteq Seq(Held)
  BY DEF Held
<1>3. CASE FromLiteral(th)
  BY <1>2, <1>3, FillKinds DEF FromLiteral
<1>4. CASE Concat(th)
  <2>1. PICK h \in Strings, g \in Strings, t \in Literals :
          Construct(th, h) /\ (Fill(h, Text(value[g]) \o t) \/ Fill(h, t \o Text(value[g])))
    BY <1>4 DEF Concat
  <2>2. Text(value[g]) \in Seq(Held) /\ t \in Seq(Held)
    BY <1>0, <1>2, TextIs
  <2>3. Text(value[g]) \o t \in Seq(Held) /\ t \o Text(value[g]) \in Seq(Held)
    BY <2>2, ConcatProperties
  <2>. QED
    BY <2>1, <2>3, FillKinds
<1>5. CASE CopyConstruct(th)
  <2>1. PICK h \in Strings, g \in Strings :
          /\ Construct(th, h) /\ Reads(th, g) /\ AddRef(value[g])
          /\ value' = [value EXCEPT ![h] = value[g]]
          /\ UNCHANGED <<allocated, memory, extra>>
    BY <1>5 DEF CopyConstruct
  <2>2. CASE IsLong(value[g])
    <3>1. PICK n \in Nat, o \in Nat : n = value[g].size /\ o = value[g].offset
      BY <1>0, <2>2 DEF DataInv, IsShortValue, IsLongValue
    <3>2. /\ value[g] = Longer(n, o, value[g].ptr)
          /\ n > ShortMax /\ n <= MaxLength /\ o <= MaxLength
          /\ o + n <= Len(memory[value[g].ptr])
      BY <1>0, <2>2, <3>1 DEF DataInv, IsShortValue, IsLongValue, IsLong, NoUseAfterFree
    <3>3. GivesShare(th, h, g, n, o)
      BY <2>1, <2>2, <3>2 DEF GivesShare
    <3>. QED
      BY <3>3 DEF Constructs
  <2>3. CASE ~ IsLong(value[g])
    <3>1. PICK t \in Seq(Held) : t = value[g].bytes
      BY <1>0, <2>3 DEF DataInv, IsShortValue, IsLongValue
    <3>2. value[g] = Shorter(t) /\ Len(t) <= ShortMax /\ Len(t) <= MaxLength
      BY <1>0, <2>3, <3>1 DEF DataInv, IsShortValue, IsLongValue, IsLong, Shorter
    <3>3. GivesShort(th, h, t)
      BY <2>1, <2>3, <3>1, <3>2 DEF GivesShort, AddRef, blockVars
    <3>. QED
      BY <3>1, <3>3 DEF Constructs
  <2>. QED
    BY <2>2, <2>3
<1>6. CASE MoveConstruct(th)
  BY <1>6 DEF MoveConstruct, Constructs, Moves
<1>7. CASE Substr(th)
  <2>1. PICK h \in Strings, g \in Strings, o \in Nat, s \in Nat :
          /\ Construct(th, h) /\ Reads(th, g)
          /\ AddRef(SubValue(value[g], o, s))
          /\ value' = [value EXCEPT ![h] = SubValue(value[g], o, s)]
          /\ UNCHANGED <<allocated, memory, extra>>
    BY <1>7 DEF Substr
  <2>2. PICK k \in Nat, n \in Nat :
          /\ k = Min({o, value[g].size})
          /\ n = Min({s, value[g].size - k})
          /\ k + n <= value[g].size
          /\ SubSeq(Text(value[g]), k + 1, k + n) \in Seq(Held)
          /\ Len(SubSeq(Text(value[g]), k + 1, k + n)) = n
          /\ SubValue(value[g], o, s) =
               IF n <= ShortMax THEN Shorter(SubSeq(Text(value[g]), k + 1, k + n))
                                ELSE Longer(n, k, value[g].ptr)
    BY <1>0, SubValueIs, ZenonT(60)
  <2>3. PICK t \in Seq(Held) : t = SubSeq(Text(value[g]), k + 1, k + n)
    BY <2>2
  <2>4. /\ Len(t) = n /\ k + n <= value[g].size
        /\ SubValue(value[g], o, s) =
             IF n <= ShortMax THEN Shorter(t) ELSE Longer(n, k, value[g].ptr)
    BY <2>2, <2>3
  <2>5. value[g].size \in 0..MaxLength
    BY <1>0, TextIs
  <2>6. CASE n <= ShortMax
    <3>1. SubValue(value[g], o, s) = Shorter(t) /\ ~ IsLong(Shorter(t))
      BY <2>4, <2>6 DEF IsLong, Shorter
    <3>2. GivesShort(th, h, t)
      BY <2>1, <2>4, <2>5, <2>6, <3>1 DEF GivesShort, AddRef, blockVars
    <3>. QED
      BY <2>4, <3>2 DEF Constructs
  <2>7. CASE ~ (n <= ShortMax)
    <3>1. /\ SubValue(value[g], o, s) = Longer(n, k, value[g].ptr)
          /\ IsLong(Longer(n, k, value[g].ptr)) /\ IsLong(value[g])
          /\ Longer(n, k, value[g].ptr).ptr = value[g].ptr
      BY <2>4, <2>5, <2>7 DEF IsLong, Longer
    <3>2. k + n <= Len(memory[value[g].ptr])
      <4>1. /\ value[g].offset \in Nat
            /\ value[g].offset + value[g].size <= Len(memory[value[g].ptr])
            /\ Len(memory[value[g].ptr]) \in Nat
        BY <1>0, <3>1 DEF DataInv, IsShortValue, IsLongValue, NoUseAfterFree
      <4>. QED
        BY <2>4, <2>5, <4>1, SMTT(60)
    <3>3. AddRef(value[g])
      BY <2>1, <3>1 DEF AddRef
    <3>4. GivesShare(th, h, g, n, k)
      BY <2>1, <2>4, <2>5, <2>7, <3>1, <3>2, <3>3 DEF GivesShare
    <3>. QED
      BY <2>4, <3>4 DEF Constructs
  <2>. QED
    BY <2>6, <2>7
<1>. QED
  BY <1>1, <1>3, <1>4, <1>5, <1>6, <1>7

-----------------------------------------------------------------------------
LEMMA Invariance == Spec => []IInv
<1>1. Init => IInv
  <2> SUFFICES ASSUME Init PROVE IInv
    OBVIOUS
  <2>1. \A b \in Blocks : Holders(b) = {}
    BY DEF Init, Holders, Empty, Shorter, IsLong
  <2>2. DataInv
    BY ValuesGiven DEF Init, DataInv, Unknown, Held
  <2>3. TypeOK
    BY <2>2 DEF Init, DataInv, TypeOK, IsShortValue, IsLongValue
  <2>4. RefcountExact
    <3>1. \A b \in Blocks : Cardinality(Holders(b)) = 0
      BY <2>1, FS_EmptySet
    <3>. QED
      BY <2>3, <3>1 DEF Init, RefcountExact
  <2>5. CallInv /\ BlockInv
    BY DEF Init, CallInv, BlockInv, Frees
  <2>6. NoUseAfterFree
    BY DEF Init, NoUseAfterFree, Empty, Shorter, IsLong
  <2>. QED
    BY <2>2, <2>4, <2>5, <2>6 DEF IInv
<1>2. IInv /\ [Next]_vars => IInv'
  <2>1. ASSUME IInv, Next PROVE IInv'
    <3>1. PICK th \in Threads : Constructs(th) \/ Assigns(th)
      BY <2>1, StepKinds
    <3>2. /\ DataInv' /\ CallInv' /\ CountsMatch' /\ BlockInv' /\ ZeroIsFreed'
          /\ NoUseAfterFree' /\ TypeOK'
      BY <2>1, <3>1, NextDataInv, NextCallInv, NextCountsMatch, NextBlockInv, NextNoUseAfterFree,
         NextTypeOK
    <3>. QED
      BY <3>2 DEF IInv, RefcountExact, CountsMatch, ZeroIsFreed, Frees
  <2>2. ASSUME IInv, UNCHANGED vars PROVE IInv'
    <3>. USE <2>2 DEF vars, blockVars, callVars
    <3>1. TypeOK' /\ DataInv'
      BY DEF IInv, RefcountExact, TypeOK, DataInv
    <3>2. \A b \in Blocks : Holders(b)' = Holders(b)
      BY DEF Holders
    <3>3. RefcountExact'
      BY <3>1, <3>2 DEF IInv, RefcountExact
    <3>4. CallInv' /\ BlockInv'
      BY DEF IInv, CallInv, BlockInv, Frees
    <3>5. NoUseAfterFree'
      BY DEF IInv, NoUseAfterFree
    <3>. QED
      BY <3>1, <3>3, <3>4, <3>5 DEF IInv
  <2>. QED
    BY <2>1, <2>2
<1>. QED
  BY <1>1, <1>2, PTL DEF Spec

(* The reference count of a block is the number of its holders and of the   *)
(* counts that move assignments added for nobody, whatever calls run at     *)
(* once; and a block whose count is 0 is being freed.                       *)
THEOREM RefcountsExact == Spec => []RefcountExact
BY Invariance, PTL DEF IInv

(* No string is ever left with a block that was freed or with a region that *)
(* reaches past the end of its block, even where substr is called on a      *)
(* string that does not begin where its block begins.                       *)
THEOREM NeverUsedAfterFree == Spec => []NoUseAfterFree
BY Invariance, PTL DEF IInv
-----------------------------------------------------------------------------
(* Texts: what the calls make of them.                                      *)

(* What a user sees of a string: text[h] of ImmutableText.                  *)
Busy(h) == \E th \in Threads : dst[th] = h
Seen(h) == IF Busy(h) THEN Unset ELSE Text(value[h])

(* A text does not change with the memory of other strings.                 *)
LEMMA TextKept ==
  ASSUME NEW x \in Strings, value'[x] = value[x],
         IsLong(value[x]) => memory'[value[x].ptr] = memory[value[x].ptr]
  PROVE  Text(value[x])' = Text(value[x])
BY DEF Text, IsLong

LEMMA SeenTexts ==
  ASSUME IInv, NEW g \in Strings, ~ Busy(g)
  PROVE  Seen(g) = Text(value[g]) /\ Seen(g) # Unset /\ Seen(g) \in Seq(Held)
<1>1. Text(value[g]) \in Seq(Held)
  BY TextIs DEF IInv
<1>. QED
  BY <1>1 DEF Seen, Held

LEMMA IdleSees ==
  ASSUME IInv, NEW th \in Threads, op[th] = "idle", NEW g \in Strings
  PROVE  Reads(th, g) => ~ Busy(g)
BY DEF IInv, CallInv, Reads, Busy

FromStart(g) == value[g].offset = 0

LEMMA SubstrOfStart ==
  ASSUME IInv, NEW g \in Strings, FromStart(g),
         NEW o \in Nat, NEW s \in Nat
  PROVE  Text(SubValue(value[g], o, s)) = Abstract!SubText(Text(value[g]), o, s)
<1>0. DataInv /\ NoUseAfterFree
  BY DEF IInv
<1>1. PICK k \in Nat, n \in Nat :
        /\ k = Min({o, value[g].size})
        /\ n = Min({s, value[g].size - k})
        /\ k + n <= value[g].size
        /\ SubSeq(Text(value[g]), k + 1, k + n) \in Seq(Held)
        /\ Len(SubSeq(Text(value[g]), k + 1, k + n)) = n
        /\ SubValue(value[g], o, s) =
             IF n <= ShortMax THEN Shorter(SubSeq(Text(value[g]), k + 1, k + n))
                              ELSE Longer(n, k, value[g].ptr)
  BY <1>0, SubValueIs, ZenonT(60)
<1>2. PICK t \in Seq(Held) : t = Text(value[g]) /\ Len(t) = value[g].size
  BY <1>0, TextIs
<1>3. Abstract!SubText(t, o, s) = SubSeq(t, k + 1, k + n)
  <2>1. k = Min({o, Len(t)}) /\ n = Min({s, Len(t) - k})
    BY <1>1, <1>2
  <2>2. \A S : Abstract!Min(S) = Min(S)
    BY DEF Abstract!Min, Min
  <2>. QED
    BY <2>1, <2>2 DEF Abstract!SubText
<1>4. /\ n <= ShortMax => SubValue(value[g], o, s) = Shorter(SubSeq(t, k + 1, k + n))
      /\ n > ShortMax => SubValue(value[g], o, s) = Longer(n, k, value[g].ptr)
  BY <1>1, <1>2
<1>5. Len(SubSeq(t, k + 1, k + n)) = n
  BY <1>1, <1>2
<1>6. k + n <= Len(t)
  BY <1>1, <1>2
<1>7. CASE n <= ShortMax
  <2>1. PICK u : u = SubSeq(t, k + 1, k + n) /\ Len(u) <= ShortMax
    BY <1>5, <1>7
  <2>2. Text(Shorter(u)) = u
    BY <2>1 DEF Text, Shorter, IsLong
  <2>. QED
    BY <1>2, <1>3, <1>4, <1>7, <2>1, <2>2
<1>8. CASE n > ShortMax
  <2>1. IsLong(value[g])
    BY <1>2, <1>6, <1>8 DEF IsLong
  <2>2. PICK m \in Seq(Held) : m = memory[value[g].ptr] /\ value[g].size <= Len(m)
    BY <1>0, <2>1 DEF DataInv, IsShortValue, IsLongValue, NoUseAfterFree
  <2>3. t = SubSeq(m, 1, Len(t))
    BY <1>2, <2>1, <2>2 DEF Text, FromStart
  <2>4. Text(Longer(n, k, value[g].ptr)) = SubSeq(m, k + 1, k + n)
    BY <1>8, <2>2 DEF Text, Longer, IsLong
  <2>5. SubSeq(SubSeq(m, 1, Len(t)), k + 1, k + n) = SubSeq(m, k + 1, k + n)
    <3>1. PICK last \in 1..Len(m) : last = Len(t) /\ 1 \in 1..Len(m)
      BY <1>2, <1>6, <1>8, <2>2
    <3>2. PICK a \in 1..last - 1 + 1, b \in 1..last - 1 + 1 : a = k + 1 /\ b = k + n
      BY <1>6, <1>8, <3>1
    <3>3. SubSeq(SubSeq(m, 1, last), a, b) = SubSeq(m, 1 + a - 1, 1 + b - 1)
      BY <3>1, SubSeqOfSubSeq
    <3>4. 1 + a - 1 = k + 1 /\ 1 + b - 1 = k + n
      BY <3>2
    <3>. QED
      BY <3>1, <3>2, <3>3, <3>4
  <2>6. SubSeq(t, k + 1, k + n) = SubSeq(m, k + 1, k + n)
    BY <2>3, <2>5
  <2>. QED
    BY <1>2, <1>3, <1>4, <1>8, <2>4, <2>6
<1>. QED
  BY <1>7, <1>8

(* substr of a string that begins where its block begins returns the region *)
(* it was asked for, clamped as its comment says.                           *)
THEOREM SubstrOfWhole ==
  ASSUME ~ NestedSubstr
  PROVE  Spec => []SubstrExact
<1>1. IInv => SubstrExact
  BY SubstrOfStart DEF SubstrExact, FromStart
<1>. QED
  BY <1>1, Invariance, PTL
-----------------------------------------------------------------------------
(* Every step is one of ImmutableText, or changes no text.                  *)

Others(S) == \A x \in Strings \ S : Seen(x)' = Seen(x)

LEMMA ResultsAre ==
  /\ <<>> \in Abstract!Results
  /\ \A t \in Literals : t \in Abstract!Results
  /\ \A g \in Strings : Seen(g) # Unset =>
       /\ Seen(g) \in Abstract!Results
       /\ \A o, n \in Sizes : Abstract!SubText(Seen(g), o, n) \in Abstract!Results
       /\ \A t \in Literals : Seen(g) \o t \in Abstract!Results /\ t \o Seen(g) \in Abstract!Results
<1>1. \A g \in Strings : Seen(g) # Unset => Seen(g) \in Abstract!Shown
  BY DEF Abstract!Shown, Seen, Busy
<1>2. \A t \in Abstract!Shown, o, n \in Sizes : Abstract!SubText(t, o, n) \in Abstract!Results
  BY DEF Abstract!Results
<1>3. \A t \in Abstract!Shown, l \in Literals :
        t \o l \in Abstract!Results /\ l \o t \in Abstract!Results
  BY SMTT(60) DEF Abstract!Results
<1>4. /\ <<>> \in Abstract!Results
      /\ \A t \in Literals : t \in Abstract!Results
      /\ \A t \in Abstract!Shown : t \in Abstract!Results
  BY DEF Abstract!Results
<1>. QED
  BY <1>1, <1>2, <1>3, <1>4

LEMMA SetStep ==
  ASSUME NEW h \in Strings, Others({h}), Seen(h)' \in {Unset} \cup Abstract!Results
  PROVE  Abstract!Next
<1>1. Abstract!Set(h)
  BY DEF Abstract!Set, Abstract!Changes, Others, Seen, Busy
<1>. QED
  BY <1>1 DEF Abstract!Next

LEMMA MoveStep ==
  ASSUME NEW h \in Strings, NEW g \in Strings, Others({h, g}), Seen(g) # Unset,
         Seen(h)' = Seen(g), Seen(g)' = <<>>
  PROVE  Abstract!Next
<1>1. Abstract!Move(h, g)
  BY DEF Abstract!Move, Abstract!Changes, Others, Seen, Busy
<1>. QED
  BY <1>1 DEF Abstract!Next

LEMMA StutterStep ==
  ASSUME Others({})
  PROVE  UNCHANGED Abstract!vars
BY DEF Abstract!vars, Others, Seen, Busy

(* A step that changes only the value of h and memory that no other string  *)
(* uses changes no other text.                                              *)
LEMMA OthersKept ==
  ASSUME NEW S,
         \A x \in Strings \ S : /\ Busy(x)' <=> Busy(x)
                                /\ value'[x] = value[x]
                                /\ IsLong(value[x]) => memory'[value[x].ptr] = memory[value[x].ptr]
  PROVE  Others(S)
BY DEF Others, Seen, Text, IsLong

LEMMA FillSees ==
  ASSUME IInv, NEW th \in Threads, NEW h \in Strings, NEW t \in Seq(Held),
         Construct(th, h), Fill(h, t)
  PROVE  Others({h}) /\ Seen(h)' = t
<1>0. DataInv /\ NoUseAfterFree /\ ~ Busy(h)
  BY IdleSees DEF IInv, Construct, Reads, Writes
<1>1. \A x \in Strings : Busy(x)' <=> Busy(x)
  BY DEF Construct, callVars, Busy
<1>2. CASE Len(t) <= ShortMax
  <2>1. value' = [value EXCEPT ![h] = Shorter(t)] /\ memory' = memory
    BY <1>2 DEF Fill, blockVars
  <2>2. Others({h})
    BY <1>0, <1>1, <2>1, OthersKept DEF DataInv
  <2>3. value'[h] = Shorter(t)
    BY <1>0, <2>1 DEF DataInv
  <2>4. Seen(h)' = t
    BY <1>0, <1>1, <1>2, <2>3 DEF Seen, Text, Shorter, IsLong
  <2>. QED
    BY <2>2, <2>4
<1>3. CASE ~ (Len(t) <= ShortMax)
  <2>1. PICK b \in Blocks \ allocated :
          /\ value' = [value EXCEPT ![h] = Longer(Len(t), 0, b)]
          /\ memory' = [memory EXCEPT ![b] = t]
    BY <1>3 DEF Fill
  <2>2. \A x \in Strings : IsLong(value[x]) => value[x].ptr # b
    BY <1>0, <2>1 DEF NoUseAfterFree
  <2>3. Others({h})
    BY <1>0, <1>1, <2>1, <2>2, OthersKept DEF DataInv
  <2>4. value'[h] = Longer(Len(t), 0, b) /\ memory'[b] = t
    BY <1>0, <2>1 DEF DataInv
  <2>5. SubSeq(t, 0 + 1, 0 + Len(t)) = t
    BY SubSeqFull
  <2>6. Seen(h)' = t
    BY <1>0, <1>1, <1>3, <2>4, <2>5 DEF Seen, Text, Longer, IsLong
  <2>. QED
    BY <2>3, <2>6
<1>. QED
  BY <1>2, <1>3

LEMMA ConstructSteps ==
  ASSUME IInv, ~ NestedSubstr, NEW th \in Threads,
         FromLiteral(th) \/ Concat(th) \/ CopyConstruct(th) \/ MoveConstruct(th) \/ Substr(th)
  PROVE  Abstract!Next
<1>0. DataInv /\ NoUseAfterFree /\ DOMAIN value = Strings
  BY DEF IInv, DataInv
<1>1. Literals \subseteq Seq(Held)
  BY DEF Held
<1>2. ASSUME NEW h \in Strings, Construct(th, h)
      PROVE  /\ op[th] = "idle" /\ ~ Busy(h)
             /\ \A x \in Strings : Busy(x)' <=> Busy(x)
  BY <1>2, IdleSees DEF Construct, Reads, Writes, callVars, Busy
<1>3. CASE FromLiteral(th)
  <2>1. PICK h \in Strings, t \in Literals : Construct(th, h) /\ Fill(h, t)
    BY <1>3 DEF FromLiteral
  <2>2. Others({h}) /\ Seen(h)' = t
    BY <1>1, <2>1, FillSees
  <2>. QED
    BY <2>2, ResultsAre, SetStep
<1>4. CASE Concat(th)
  <2>1. PICK h \in Strings, g \in Strings, t \in Literals :
          /\ Construct(th, h) /\ Reads(th, g)
          /\ Fill(h, Text(value[g]) \o t) \/ Fill(h, t \o Text(value[g]))
    BY <1>4 DEF Concat
  <2>2. Seen(g) = Text(value[g]) /\ Seen(g) # Unset /\ Seen(g) \in Seq(Held) /\ t \in Seq(Held)
    BY <1>1, <1>2, <2>1, IdleSees, SeenTexts
  <2>3. Seen(g) \o t \in Seq(Held) /\ t \o Seen(g) \in Seq(Held)
    BY <2>2, ConcatProperties
  <2>4. Seen(g) \o t \in Abstract!Results /\ t \o Seen(g) \in Abstract!Results
    BY <2>2, ResultsAre
  <2>5. Others({h}) /\ (Seen(h)' = Seen(g) \o t \/ Seen(h)' = t \o Seen(g))
    BY <2>1, <2>2, <2>3, FillSees
  <2>. QED
    BY <2>4, <2>5, SetStep
<1>5. CASE CopyConstruct(th)
  <2>1. PICK h \in Strings, g \in Strings :
          /\ Construct(th, h) /\ Reads(th, g)
          /\ value' = [value EXCEPT ![h] = value[g]]
          /\ memory' = memory
    BY <1>5 DEF CopyConstruct
  <2>2. Seen(g) = Text(value[g]) /\ Seen(g) # Unset
    BY <1>2, <2>1, IdleSees, SeenTexts
  <2>3. Others({h})
    BY <1>0, <1>2, <2>1, OthersKept
  <2>4. Seen(h)' = Text(value[g])
    BY <1>0, <1>2, <2>1 DEF Seen, Text
  <2>. QED
    BY <2>2, <2>3, <2>4, ResultsAre, SetStep
<1>6. CASE MoveConstruct(th)
  <2>1. PICK h \in Strings, g \in Strings :
          /\ h # g /\ Construct(th, h) /\ Writes(th, g)
          /\ value' = [value EXCEPT ![h] = value[g], ![g] = Empty]
          /\ memory' = memory
    BY <1>6 DEF MoveConstruct, blockVars
  <2>2. ~ Busy(g)
    BY <1>2, <2>1, IdleSees DEF Reads, Writes
  <2>3. Seen(g) = Text(value[g]) /\ Seen(g) # Unset
    BY <2>2, SeenTexts
  <2>4. Others({h, g})
    BY <1>0, <1>2, <2>1, OthersKept
  <2>5. value'[h] = value[g] /\ value'[g] = Empty
    BY <1>0, <2>1
  <2>6. Seen(h)' = Text(value[g])
    BY <1>2, <2>1, <2>5 DEF Seen, Text
  <2>7. Seen(g)' = <<>>
    BY <1>2, <2>1, <2>2, <2>5 DEF Seen, Text, Empty, Shorter, IsLong
  <2>. QED
    BY <2>3, <2>4, <2>6, <2>7, MoveStep
<1>7. CASE Substr(th)
  <2>1. PICK h \in Strings, g \in Strings, o \in Sizes, n \in Sizes :
          /\ Construct(th, h) /\ Reads(th, g) /\ FromStart(g)
          /\ value' = [value EXCEPT ![h] = SubValue(value[g], o, n)]
          /\ memory' = memory
    BY <1>7 DEF Substr, FromStart
  <2>2. Seen(g) = Text(value[g]) /\ Seen(g) # Unset
    BY <1>2, <2>1, IdleSees, SeenTexts
  <2>3. Others({h})
    BY <1>0, <1>2, <2>1, OthersKept
  <2>4. PICK v : v = SubValue(value[g], o, n)
    OBVIOUS
  <2>5. Seen(h)' = Text(v)
    BY <1>0, <1>2, <2>1, <2>4 DEF Seen, Text
  <2>6. o \in Nat /\ n \in Nat
    OBVIOUS
  <2>7. Text(v) = Abstract!SubText(Text(value[g]), o, n)
    BY <2>1, <2>4, <2>6, SubstrOfStart
  <2>. QED
    BY <2>2, <2>3, <2>5, <2>7, ResultsAre, SetStep
<1>. QED
  BY <1>3, <1>4, <1>5, <1>6, <1>7

LEMMA AssignSteps ==
  ASSUME IInv, NEW th \in Threads, Assigns(th)
  PROVE  [Abstract!Next]_(Abstract!vars)
<1>0. TypeOK /\ DataInv /\ CallInv /\ DOMAIN value = Strings
  BY DEF IInv, RefcountExact, DataInv
<1>1. ASSUME Others({}) PROVE [Abstract!Next]_(Abstract!vars)
  BY <1>1, StutterStep
<1>2. CASE CopyAssign(th) \/ MoveAssign(th) \/ Destruct(th)
  <2>1. PICK name \in {"copy", "move", "destruct"}, h \in Strings, g \in Strings \cup {Null} :
          Begin(th, name, h, g)
    BY <1>2 DEF CopyAssign, MoveAssign, Destruct
  <2>2. /\ \A x \in Strings \ {h} : Busy(x)' <=> Busy(x)
        /\ Busy(h)'
        /\ UNCHANGED <<value, memory>>
    BY <1>0, <2>1 DEF Begin, CallInv, TypeOK, Busy
  <2>3. Others({h}) /\ Seen(h)' = Unset
    BY <2>2, OthersKept DEF Seen
  <2>. QED
    BY <2>3, SetStep
<1>3. CASE DecRef(th)
  <2>1. /\ \A x \in Strings \ {dst[th]} : value'[x] = value[x]
        /\ dst' = dst /\ memory' = memory
    BY <1>0, <1>3 DEF DecRef
  <2>2. \A x \in Strings : (Busy(x)' <=> Busy(x)) /\ (x = dst[th] => Busy(x))
    BY <2>1 DEF Busy
  <2>3. Others({})
    <3>1. Others({dst[th]})
      BY <2>1, <2>2, OthersKept
    <3>2. dst[th] \in Strings => Seen(dst[th])' = Seen(dst[th])
      BY <2>1, <2>2 DEF Seen
    <3>. QED
      BY <3>1, <3>2, <2>1 DEF Others
  <2>. QED
    BY <1>1, <2>3
<1>4. CASE FreeBlock(th)
  <2>1. PICK h, c : h = dst[th] /\ c = value[h].ptr
    OBVIOUS
  <2>2. /\ c \in Blocks
        /\ \A x \in Strings : IsLong(value[x]) /\ value[x].ptr = c => x = h
    BY <1>4, <2>1, FreeBlockFrees, FreerIsAlone
  <2>3. /\ value' = [value EXCEPT ![h] = Empty] /\ memory' = [memory EXCEPT ![c] = Unknown]
        /\ dst' = dst
    BY <1>4, <2>1 DEF FreeBlock
  <2>4. \A x \in Strings : (Busy(x)' <=> Busy(x)) /\ (x = h => Busy(x))
    BY <2>1, <2>3 DEF Busy
  <2>5. \A x \in Strings \ {h} : IsLong(value[x]) => value[x].ptr # c /\ value[x].ptr \in Blocks
    BY <1>0, <2>2 DEF TypeOK
  <2>6. \A x \in Strings \ {h} :
          /\ value'[x] = value[x]
          /\ IsLong(value[x]) => memory'[value[x].ptr] = memory[value[x].ptr]
    BY <1>0, <2>3, <2>5 DEF DataInv
  <2>7. Others({h})
    BY <2>4, <2>6, OthersKept
  <2>8. h \in Strings => Seen(h)' = Seen(h)
    BY <2>4 DEF Seen
  <2>. QED
    BY <1>1, <2>7, <2>8 DEF Others
<1>5. CASE End(th)
  <2>. PICK g : g = src[th]
    OBVIOUS
  <2>1. PICK h \in Strings : h = dst[th] /\ g = src[th]
    BY <1>0, <1>5 DEF End, CallInv, TypeOK
  <2>2. /\ op[th] \in {"copy", "move", "destruct"}
        /\ op[th] # "destruct" => g \in Strings /\ g # h /\ ~ Busy(g)
        /\ \A u \in Threads : u # th => dst[u] # h
    BY <1>0, <1>5, <2>1 DEF End, CallInv, TypeOK, Busy
  <2>3. /\ \A x \in Strings \ {h} : Busy(x)' <=> Busy(x)
        /\ ~ Busy(h)'
    BY <1>0, <1>5, <2>1, <2>2 DEF End, TypeOK, Busy
  <2>4. /\ \A x \in Strings : value'[x] =
             IF x = h /\ op[th] # "destruct" THEN value[g]
             ELSE IF x = h \/ (op[th] = "move" /\ x = g) THEN Empty
             ELSE value[x]
        /\ memory' = memory
    BY <1>5, <2>1 DEF End, blockVars
  <2>5. CASE op[th] = "destruct"
    <3>1. Others({h})
      BY <2>3, <2>4, <2>5, OthersKept
    <3>2. Seen(h)' = <<>>
      BY <2>3, <2>4, <2>5 DEF Seen, Text, Empty, Shorter, IsLong
    <3>. QED
      BY <3>1, <3>2, ResultsAre, SetStep
  <2>6. op[th] # "destruct" => Seen(g) = Text(value[g]) /\ Seen(g) # Unset
    BY <2>2, SeenTexts
  <2>7. op[th] # "destruct" => Seen(h)' = Text(value[g])
    BY <2>3, <2>4 DEF Seen, Text
  <2>8. CASE op[th] = "copy"
    <3>1. Others({h})
      BY <2>3, <2>4, <2>8, OthersKept
    <3>. QED
      BY <2>2, <2>6, <2>7, <2>8, <3>1, ResultsAre, SetStep
  <2>9. CASE op[th] = "move"
    <3>1. Others({h, g})
      BY <2>3, <2>4, <2>9, OthersKept
    <3>2. Seen(g)' = <<>>
      BY <2>2, <2>3, <2>4, <2>9 DEF Seen, Text, Empty, Shorter, IsLong
    <3>. QED
      BY <2>2, <2>6, <2>7, <2>9, <3>1, <3>2, MoveStep
  <2>. QED
    BY <2>2, <2>5, <2>8, <2>9
<1>. QED
  BY <1>2, <1>3, <1>4, <1>5 DEF Assigns

(* ImmutableString implements ImmutableText: whatever blocks strings share  *)
(* and however the steps of calls interleave, each call gives its string    *)
(* the text that a call on texts gives it and changes no other, as long as  *)
(* substr is called on strings that begin where their block begins.         *)
THEOREM ImplementsText ==
  ASSUME ~ NestedSubstr
  PROVE  Spec => TextSpec
<1>1. Init => Abstract!Init
  BY DEF Init, Abstract!Init, Text, Empty, Shorter, IsLong
<1>2. IInv /\ [Next]_vars => [Abstract!Next]_(Abstract!vars)
  <2>1. ASSUME IInv, Next PROVE [Abstract!Next]_(Abstract!vars)
    <3>1. PICK th \in Threads :
            \/ FromLiteral(th) \/ Concat(th) \/ CopyConstruct(th) \/ MoveConstruct(th) \/ Substr(th)
            \/ Assigns(th)
      BY <2>1 DEF Next, Assigns
    <3>. QED
      BY <2>1, <3>1, ConstructSteps, AssignSteps
  <2>2. ASSUME UNCHANGED vars PROVE UNCHANGED Abstract!vars
    BY <2>2 DEF vars, blockVars, callVars, Abstract!vars, Text
  <2>. QED
    BY <2>1, <2>2
<1>. QED
  BY <1>1, <1>2, Invariance, PTL DEF Spec, TextSpec, Abstract!Spec
=============================================================================
