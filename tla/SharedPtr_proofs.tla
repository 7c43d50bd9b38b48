--------------------------- MODULE SharedPtr_proofs ---------------------------
(***************************************************************************)
(* Proofs about SharedPtr, for any finite sets of threads and of handles    *)
(* and any blocks.                                                          *)
(*                                                                          *)
(* A step of a call moves a thread or a handle into or out of the holders   *)
(* of one block, or exchanges a thread and a handle; lemmas say which, and  *)
(* everything else follows from the two sets of holders.  What makes the    *)
(* invariant inductive is what a call knows of its block: as long as it     *)
(* reads its argument the argument keeps the block (CallInv), and whoever   *)
(* runs a deleter or deletes a block is alone with it (BlockInv).           *)
(***************************************************************************)
EXTENDS SharedPtr, FiniteSetTheorems, TLAPS

(* The steps at which a call still relies on its argument.                  *)
Reading == {"inc_ptr", "inc_shared", "load", "cas"}

CallInv ==
  /\ \A th \in Threads :
       /\ IF pc[th] = "idle" THEN temp[th] = Null ELSE dst[th] \in Handles
       /\ pc[th] \in {"inc_ptr", "load", "cas", "dec_ptr", "deleter"} => dst[th] \in Strong
       /\ pc[th] \notin {"idle", "swap", "return"} => temp[th] \in Blocks
       /\ pc[th] = "cas" => refcount[th] # 0
       /\ pc[th] \in Reading => src[th] \in Handles /\ shared[src[th]] = temp[th]
       /\ pc[th] = "inc_ptr" => src[th] \in Strong
  /\ \A th, u \in Threads :
       th # u /\ dst[th] \in Handles => dst[th] # dst[u] /\ dst[th] # src[u]

BlockInv ==
  /\ \A b \in Blocks :
       /\ b \in allocated <=> object[b] # "none"
       /\ object[b] = "alive" =>
            StrongHolders(b) # {} \/ \E th \in Threads : pc[th] = "deleter" /\ temp[th] = b
  /\ \A th \in Threads :
       /\ pc[th] = "deleter" => StrongHolders(temp[th]) = {} /\ object[temp[th]] = "alive"
       /\ pc[th] = "delete" => Holders(temp[th]) = {} /\ temp[th] \in allocated
  /\ \A th, u \in Threads :
       th # u /\ pc[th] \in {"deleter", "delete"} /\ pc[u] = pc[th] => temp[th] # temp[u]

IInv == CountsExact /\ CallInv /\ BlockInv /\ NoUseAfterFree

-----------------------------------------------------------------------------
(* The holders of a block.                                                  *)

(* The set S after k and l changed places.                                  *)
Swapped(k, l, S) == {IF j = k THEN l ELSE IF j = l THEN k ELSE j : j \in S}

USE SharedPtrAssumption DEF Handles

LEMMA HoldersFinite ==
  \A b : IsFiniteSet(StrongHolders(b)) /\ IsFiniteSet(Holders(b))
<1>. TAKE b
<1>1. StrongHolders(b) \subseteq Handles \cup Threads /\ Holders(b) \subseteq Handles \cup Threads
  BY DEF StrongHolders, Holders
<1>. QED
  BY <1>1, FS_Union, FS_Subset

(* Nobody is counted twice, and none is lost, when two change places.       *)
LEMMA SwapKeepsCardinality ==
  ASSUME NEW S, IsFiniteSet(S), NEW k, NEW l
  PROVE  Cardinality(Swapped(k, l, S)) = Cardinality(S)
<1>1. CASE k \in S <=> l \in S
  <2>1. Swapped(k, l, S) = S
    BY <1>1 DEF Swapped
  <2>. QED
    BY <2>1
<1>2. ASSUME NEW x \in S, NEW y, y \notin S, Swapped(k, l, S) = (S \ {x}) \cup {y}
      PROVE  Cardinality(Swapped(k, l, S)) = Cardinality(S)
  <2>1. IsFiniteSet(S \ {x}) /\ Cardinality(S \ {x}) = Cardinality(S) - 1
    BY FS_RemoveElement
  <2>2. Cardinality((S \ {x}) \cup {y}) = Cardinality(S \ {x}) + 1
    BY <1>2, <2>1, FS_AddElement
  <2>. QED
    BY <1>2, <2>1, <2>2, FS_CardinalityType
<1>3. CASE k \in S /\ l \notin S
  <2>1. Swapped(k, l, S) = (S \ {k}) \cup {l}
    BY <1>3 DEF Swapped
  <2>. QED
    BY <1>2, <1>3, <2>1
<1>4. CASE k \notin S /\ l \in S
  <2>1. Swapped(k, l, S) = (S \ {l}) \cup {k}
    BY <1>4 DEF Swapped
  <2>. QED
    BY <1>2, <1>4, <2>1
<1>. QED
  BY <1>1, <1>3, <1>4

-----------------------------------------------------------------------------
(* What each step does to the holders.                                      *)

(* A thread becomes an owner of its block.                                  *)
Shares(th) == IncPtr(th) \/ CasSucceeds(th)

LEMMA SharesHolders ==
  ASSUME TypeOK, CallInv, NEW th \in Threads, Shares(th), NEW b \in Blocks
  PROVE  /\ th \notin StrongHolders(temp[th])
         /\ StrongHolders(b)' = IF b = temp[th] THEN StrongHolders(b) \cup {th}
                                ELSE StrongHolders(b)
         /\ Holders(b)' = Holders(b)
BY DEF TypeOK, CallInv, Shares, IncPtr, CasSucceeds, Goto, handleVars, callVars, StrongHolders,
       Holders, OwnsObject, KeepsBlock

LEMMA IncSharedHolders ==
  ASSUME TypeOK, CallInv, NEW th \in Threads, IncShared(th), NEW b \in Blocks
  PROVE  /\ th \notin Holders(temp[th])
         /\ StrongHolders(b)' = StrongHolders(b)
         /\ Holders(b)' = IF b = temp[th] THEN Holders(b) \cup {th} ELSE Holders(b)
BY DEF TypeOK, CallInv, IncShared, Goto, handleVars, callVars, StrongHolders, Holders,
       OwnsObject, KeepsBlock

LEMMA DecPtrHolders ==
  ASSUME TypeOK, CallInv, NEW th \in Threads, DecPtr(th), NEW b \in Blocks
  PROVE  /\ th \in StrongHolders(temp[th])
         /\ StrongHolders(b)' = IF b = temp[th] THEN StrongHolders(b) \ {th}
                                ELSE StrongHolders(b)
         /\ Holders(b)' = Holders(b)
BY DEF TypeOK, CallInv, DecPtr, Goto, handleVars, callVars, StrongHolders, Holders,
       OwnsObject, KeepsBlock

LEMMA DecSharedHolders ==
  ASSUME TypeOK, CallInv, NEW th \in Threads, DecShared(th), NEW b \in Blocks
  PROVE  /\ th \in Holders(temp[th])
         /\ StrongHolders(b)' = StrongHolders(b)
         /\ Holders(b)' = IF b = temp[th] THEN Holders(b) \ {th} ELSE Holders(b)
BY DEF TypeOK, CallInv, DecShared, Goto, handleVars, callVars, StrongHolders, Holders,
       OwnsObject, KeepsBlock

(* A thread takes over what a handle held, and gives what it had.           *)
Exchanges(th) == Swap(th) \/ Move(th) \/ Destruct(th)

LEMMA ExchangesHolders ==
  ASSUME TypeOK, CallInv, NEW th \in Threads, Exchanges(th)
  PROVE  \E l \in Handles : \A b \in Blocks :
           /\ StrongHolders(b)' = Swapped(th, l, StrongHolders(b))
           /\ Holders(b)' = Swapped(th, l, Holders(b))
<1>. USE DEF TypeOK, CallInv, Goto, StrongHolders, Holders, OwnsObject, KeepsBlock, Swapped
<1>1. CASE Swap(th)
  <2>1. ASSUME NEW b \in Blocks
        PROVE  /\ StrongHolders(b)' = Swapped(th, dst[th], StrongHolders(b))
               /\ Holders(b)' = Swapped(th, dst[th], Holders(b))
    BY <1>1 DEF Swap, AfterSwap, blockVars, callVars
  <2>2. dst[th] \in Handles
    BY <1>1 DEF Swap
  <2>. QED
    BY <2>1, <2>2
<1>2. CASE Move(th)
  <2>1. PICK h \in Handles, g \in Handles : MoveFrom(th, h, g) /\ (h \in Strong <=> g \in Strong)
    BY <1>2 DEF Move
  <2>2. ASSUME NEW b \in Blocks
        PROVE  /\ StrongHolders(b)' = Swapped(th, g, StrongHolders(b))
               /\ Holders(b)' = Swapped(th, g, Holders(b))
    BY <2>1 DEF MoveFrom, Begin, blockVars
  <2>. QED
    BY <2>2
<1>3. CASE Destruct(th)
  <2>1. PICK h \in Handles :
          /\ Begin(th, h, Null, AfterSwap(h, shared[h]))
          /\ temp' = [temp EXCEPT ![th] = shared[h]]
          /\ shared' = [shared EXCEPT ![h] = Null]
    BY <1>3 DEF Destruct
  <2>2. ASSUME NEW b \in Blocks
        PROVE  /\ StrongHolders(b)' = Swapped(th, h, StrongHolders(b))
               /\ Holders(b)' = Swapped(th, h, Holders(b))
    BY <2>1 DEF Begin, AfterSwap
  <2>. QED
    BY <2>2
<1>. QED
  BY <1>1, <1>2, <1>3 DEF Exchanges

(* reset with a new block, which nobody holds as yet.                       *)
Makes(th, b) ==
  /\ b \notin allocated
  /\ \E h \in Strong : Begin(th, h, Null, "swap")
  /\ temp' = [temp EXCEPT ![th] = b]
  /\ allocated' = allocated \cup {b}
  /\ object' = [object EXCEPT ![b] = "alive"]
  /\ ptr_refcount' = [ptr_refcount EXCEPT ![b] = 1]
  /\ shared_refcount' = [shared_refcount EXCEPT ![b] = 1]
  /\ UNCHANGED <<shared, refcount>>

LEMMA NobodyHoldsFree ==
  ASSUME TypeOK, CallInv, BlockInv, NoUseAfterFree, NEW b \in Blocks, b \notin allocated
  PROVE  StrongHolders(b) = {} /\ Holders(b) = {}
BY DEF TypeOK, CallInv, BlockInv, NoUseAfterFree, StrongHolders, Holders, OwnsObject, KeepsBlock

LEMMA MakesHolders ==
  ASSUME TypeOK, CallInv, BlockInv, NoUseAfterFree,
         NEW th \in Threads, NEW a \in Blocks, Makes(th, a), NEW b \in Blocks
  PROVE  /\ StrongHolders(b)' = IF b = a THEN {th} ELSE StrongHolders(b)
         /\ Holders(b)' = IF b = a THEN {th} ELSE Holders(b)
BY NobodyHoldsFree
   DEF TypeOK, CallInv, Makes, Begin, Goto, StrongHolders, Holders, OwnsObject, KeepsBlock

(* The other steps.                                                         *)
Quiet(th) ==
  \/ Reset(th) /\ UNCHANGED blockVars
  \/ Copy(th) \/ Lock(th) \/ Load(th) \/ CasFails(th)
  \/ Deleter(th) \/ DeleteBlock(th) \/ Return(th)

LEMMA QuietHolders ==
  ASSUME TypeOK, CallInv, NEW th \in Threads, Quiet(th), NEW b \in Blocks
  PROVE  StrongHolders(b)' = StrongHolders(b) /\ Holders(b)' = Holders(b)
<1>. USE DEF TypeOK, CallInv, Goto, Begin, blockVars, StrongHolders, Holders, OwnsObject, KeepsBlock
<1>1. CASE Reset(th) /\ UNCHANGED blockVars
  BY <1>1 DEF Reset
<1>2. CASE Copy(th)
  BY <1>2 DEF Copy, CopyFrom
<1>3. CASE Lock(th)
  BY <1>3 DEF Lock
<1>4. CASE Load(th) \/ CasFails(th)
  BY <1>4 DEF Load, CasFails, Saw, callVars
<1>5. CASE Deleter(th) \/ DeleteBlock(th) \/ Return(th)
  BY <1>5 DEF Deleter, DeleteBlock, Return, handleVars, callVars
<1>. QED
  BY <1>1, <1>2, <1>3, <1>4, <1>5 DEF Quiet

LEMMA StepKinds ==
  ASSUME TypeOK, NEW th \in Threads, Call(th) \/ Step(th)
  PROVE  \/ Shares(th) \/ IncShared(th) \/ DecPtr(th) \/ DecShared(th)
         \/ Exchanges(th) \/ Quiet(th)
         \/ \E b \in Blocks : Makes(th, b)
<1>1. CASE Reset(th)
  <2>1. Quiet(th) \/ \E b \in Blocks : Makes(th, b)
    BY <1>1 DEF Reset, Quiet, Makes
  <2>. QED
    BY <2>1
<1>2. CASE ~ Reset(th)
  BY <1>2 DEF Call, Step, Shares, Exchanges, Quiet
<1>. QED
  BY <1>1, <1>2
-----------------------------------------------------------------------------
(* The counters.                                                            *)

LEMMA CountsAreOfHolders ==
  ASSUME CountsExact, NEW b \in Blocks
  PROVE  /\ StrongHolders(b) = {} <=> ptr_refcount[b] = 0
         /\ Holders(b) = {} <=> shared_refcount[b] = 0
BY HoldersFinite, FS_EmptySet DEF CountsExact

(* The conclusions about the numbers, for a step whose effect on the two    *)
(* sets is known.                                                           *)
CountsMatch ==
  \A b \in Blocks : /\ ptr_refcount[b] = Cardinality(StrongHolders(b))
                    /\ shared_refcount[b] = Cardinality(Holders(b))

LEMMA NextCountsMatch ==
  ASSUME IInv, NEW th \in Threads, Call(th) \/ Step(th)
  PROVE  CountsMatch'
<1>. SUFFICES ASSUME NEW b \in Blocks
              PROVE  /\ ptr_refcount'[b] = Cardinality(StrongHolders(b)')
                     /\ shared_refcount'[b] = Cardinality(Holders(b)')
  BY DEF CountsMatch
<1>. DEFINE S == StrongHolders(b)
            H == Holders(b)
<1>0. /\ TypeOK /\ CallInv /\ BlockInv /\ NoUseAfterFree
      /\ ptr_refcount[b] = Cardinality(S) /\ shared_refcount[b] = Cardinality(H)
      /\ IsFiniteSet(S) /\ IsFiniteSet(H)
  BY HoldersFinite DEF IInv, CountsExact
<1>1. CASE Shares(th)
  <2>1. temp[th] \in Blocks /\ th \notin StrongHolders(temp[th])
    BY <1>0, <1>1, SharesHolders DEF CallInv, Shares, IncPtr, CasSucceeds, Goto
  <2>2. /\ shared_refcount' = shared_refcount
        /\ ptr_refcount' = [ptr_refcount EXCEPT ![temp[th]] = @ + 1]
    BY <1>0, <1>1, <2>1 DEF Shares, IncPtr, CasSucceeds, TypeOK
  <2>3. Holders(b)' = H /\ StrongHolders(b)' = IF b = temp[th] THEN S \cup {th} ELSE S
    BY <1>0, <1>1, SharesHolders
  <2>4. th \notin S => Cardinality(S \cup {th}) = Cardinality(S) + 1
    BY <1>0, FS_AddElement
  <2>. QED
    BY <1>0, <2>1, <2>2, <2>3, <2>4 DEF TypeOK
<1>2. CASE IncShared(th)
  <2>1. temp[th] \in Blocks /\ th \notin Holders(temp[th])
    BY <1>0, <1>2, IncSharedHolders DEF CallInv, IncShared, Goto
  <2>2. /\ ptr_refcount' = ptr_refcount
        /\ shared_refcount' = [shared_refcount EXCEPT ![temp[th]] = @ + 1]
    BY <1>2 DEF IncShared
  <2>3. StrongHolders(b)' = S /\ Holders(b)' = IF b = temp[th] THEN H \cup {th} ELSE H
    BY <1>0, <1>2, IncSharedHolders
  <2>4. th \notin H => Cardinality(H \cup {th}) = Cardinality(H) + 1
    BY <1>0, FS_AddElement
  <2>. QED
    BY <1>0, <2>1, <2>2, <2>3, <2>4 DEF TypeOK
<1>3. CASE DecPtr(th)
  <2>1. temp[th] \in Blocks /\ th \in StrongHolders(temp[th])
    BY <1>0, <1>3, DecPtrHolders DEF CallInv, DecPtr, Goto
  <2>2. /\ shared_refcount' = shared_refcount
        /\ ptr_refcount' = [ptr_refcount EXCEPT ![temp[th]] = @ - 1]
    BY <1>3 DEF DecPtr
  <2>3. Holders(b)' = H /\ StrongHolders(b)' = IF b = temp[th] THEN S \ {th} ELSE S
    BY <1>0, <1>3, DecPtrHolders
  <2>4. th \in S => Cardinality(S \ {th}) = Cardinality(S) - 1
    BY <1>0, FS_RemoveElement
  <2>. QED
    BY <1>0, <2>1, <2>2, <2>3, <2>4 DEF TypeOK
<1>4. CASE DecShared(th)
  <2>1. temp[th] \in Blocks /\ th \in Holders(temp[th])
    BY <1>0, <1>4, DecSharedHolders DEF CallInv, DecShared, Goto
  <2>2. /\ ptr_refcount' = ptr_refcount
        /\ shared_refcount' = [shared_refcount EXCEPT ![temp[th]] = @ - 1]
    BY <1>4 DEF DecShared
  <2>3. StrongHolders(b)' = S /\ Holders(b)' = IF b = temp[th] THEN H \ {th} ELSE H
    BY <1>0, <1>4, DecSharedHolders
  <2>4. th \in H => Cardinality(H \ {th}) = Cardinality(H) - 1
    BY <1>0, FS_RemoveElement
  <2>. QED
    BY <1>0, <2>1, <2>2, <2>3, <2>4 DEF TypeOK
<1>5. CASE Exchanges(th)
  <2>1. UNCHANGED <<ptr_refcount, shared_refcount>>
    BY <1>5 DEF Exchanges, Swap, Move, MoveFrom, Destruct, blockVars
  <2>2. PICK l \in Handles : /\ StrongHolders(b)' = Swapped(th, l, S)
                             /\ Holders(b)' = Swapped(th, l, H)
    BY <1>0, <1>5, ExchangesHolders
  <2>. QED
    BY <1>0, <2>1, <2>2, SwapKeepsCardinality
<1>6. CASE Quiet(th)
  <2>1. UNCHANGED <<ptr_refcount, shared_refcount>>
    BY <1>6 DEF Quiet, Copy, CopyFrom, Lock, Load, CasFails, Saw, Deleter, DeleteBlock,
                Return, blockVars
  <2>2. StrongHolders(b)' = S /\ Holders(b)' = H
    BY <1>0, <1>6, QuietHolders
  <2>. QED
    BY <1>0, <2>1, <2>2
<1>7. ASSUME NEW a \in Blocks, Makes(th, a)
      PROVE  /\ ptr_refcount'[b] = Cardinality(StrongHolders(b)')
             /\ shared_refcount'[b] = Cardinality(Holders(b)')
  <2>1. /\ StrongHolders(b)' = IF b = a THEN {th} ELSE S
        /\ Holders(b)' = IF b = a THEN {th} ELSE H
    BY <1>0, <1>7, MakesHolders
  <2>2. Cardinality({th}) = 1
    BY FS_Singleton
  <2>. QED
    BY <1>0, <1>7, <2>1, <2>2 DEF Makes, TypeOK
<1>. QED
  BY <1>0, <1>1, <1>2, <1>3, <1>4, <1>5, <1>6, <1>7, StepKinds
-----------------------------------------------------------------------------
(* The other parts of the invariant.                                        *)

LEMMA NextTypeOK ==
  ASSUME IInv, NEW th \in Threads, Call(th) \/ Step(th)
  PROVE  TypeOK'
<1>. USE DEF TypeOK, Goto, blockVars, handleVars, callVars
<1>0. TypeOK /\ CallInv /\ CountsExact
  BY DEF IInv, CountsExact
<1>1. CASE Shares(th)
  BY <1>0, <1>1 DEF Shares, IncPtr, CasSucceeds, CallInv
<1>2. CASE IncShared(th)
  BY <1>0, <1>2 DEF IncShared, CallInv
<1>3. CASE DecPtr(th)
  <2>1. temp[th] \in Blocks /\ ptr_refcount[temp[th]] # 0
    BY <1>0, <1>3, DecPtrHolders, CountsAreOfHolders DEF DecPtr, CallInv
  <2>2. ptr_refcount[temp[th]] - 1 \in Nat
    BY <1>0, <2>1
  <2>. QED
    BY <1>0, <1>3, <2>1, <2>2 DEF DecPtr
<1>4. CASE DecShared(th)
  <2>1. temp[th] \in Blocks /\ shared_refcount[temp[th]] # 0
    BY <1>0, <1>4, DecSharedHolders, CountsAreOfHolders DEF DecShared, CallInv
  <2>2. shared_refcount[temp[th]] - 1 \in Nat
    BY <1>0, <2>1
  <2>. QED
    BY <1>0, <1>4, <2>1, <2>2 DEF DecShared
<1>5. CASE Swap(th)
  BY <1>0, <1>5 DEF Swap, AfterSwap, CallInv
<1>6. CASE Move(th)
  BY <1>0, <1>6 DEF Move, MoveFrom, Begin
<1>7. CASE Destruct(th)
  BY <1>0, <1>7 DEF Destruct, Begin, AfterSwap
<1>8. CASE Reset(th)
  BY <1>0, <1>8 DEF Reset, Begin
<1>9. CASE Copy(th)
  BY <1>0, <1>9 DEF Copy, CopyFrom, Begin
<1>10. CASE Lock(th)
  BY <1>0, <1>10 DEF Lock, Begin
<1>11. CASE Load(th) \/ CasFails(th)
  <2>1. temp[th] \in Blocks
    BY <1>0, <1>11 DEF Load, CasFails, CallInv
  <2>. QED
    BY <1>0, <1>11, <2>1 DEF Load, CasFails, Saw
<1>12. CASE Deleter(th) \/ DeleteBlock(th) \/ Return(th)
  BY <1>0, <1>12 DEF Deleter, DeleteBlock, Return
<1>. QED
  BY <1>1, <1>2, <1>3, <1>4, <1>5, <1>6, <1>7, <1>8, <1>9, <1>10, <1>11, <1>12
  DEF Call, Step, Shares

(* A call's argument keeps its block while the call reads it: only the call *)
(* that a handle is the target of changes it, and no other uses it then.    *)
LEMMA NextCallInv ==
  ASSUME IInv, NEW th \in Threads, Call(th) \/ Step(th)
  PROVE  CallInv'
<1>. USE DEF TypeOK, CallInv, Reading, Goto, Begin, Reads, Writes, blockVars, handleVars, callVars
<1>0. TypeOK /\ CallInv
  BY DEF IInv, CountsExact
<1>1. CASE Shares(th)
  BY <1>0, <1>1 DEF Shares, IncPtr, CasSucceeds
<1>2. CASE IncShared(th) \/ DecPtr(th) \/ DecShared(th)
  BY <1>0, <1>2 DEF IncShared, DecPtr, DecShared
<1>3. CASE Swap(th)
  BY <1>0, <1>3 DEF Swap, AfterSwap
<1>4. CASE Move(th)
  BY <1>0, <1>4 DEF Move, MoveFrom
<1>5. CASE Destruct(th)
  BY <1>0, <1>5 DEF Destruct, AfterSwap
<1>6. CASE Reset(th)
  BY <1>0, <1>6 DEF Reset
<1>7. CASE Copy(th)
  BY <1>0, <1>7 DEF Copy, CopyFrom
<1>8. CASE Lock(th)
  BY <1>0, <1>8 DEF Lock
<1>9. CASE Load(th) \/ CasFails(th)
  BY <1>0, <1>9 DEF Load, CasFails, Saw
<1>10. CASE Deleter(th) \/ DeleteBlock(th) \/ Return(th)
  BY <1>0, <1>10 DEF Deleter, DeleteBlock, Return
<1>. QED
  BY <1>1, <1>2, <1>3, <1>4, <1>5, <1>6, <1>7, <1>8, <1>9, <1>10 DEF Call, Step, Shares
-----------------------------------------------------------------------------
(* Blocks and objects.                                                      *)

(* A block without holders is in the hands of nobody but who deletes it.    *)
LEMMA HeldByNobody ==
  ASSUME TypeOK, CallInv, NEW b \in Blocks, Holders(b) = {}
  PROVE  /\ StrongHolders(b) = {}
         /\ \A h \in Handles : shared[h] # b
         /\ \A u \in Threads : temp[u] = b => pc[u] \in {"return", "delete"}
BY DEF TypeOK, CallInv, Reading, StrongHolders, Holders, OwnsObject, KeepsBlock

(* Who becomes an owner finds one there.                                    *)
LEMMA SharedByOwner ==
  ASSUME IInv, NEW th \in Threads, Shares(th)
  PROVE  StrongHolders(temp[th]) # {}
<1>0. TypeOK /\ CallInv /\ CountsExact
  BY DEF IInv, CountsExact
<1>1. CASE IncPtr(th)
  BY <1>0, <1>1 DEF TypeOK, CallInv, Reading, IncPtr, Goto, StrongHolders
<1>2. CASE CasSucceeds(th)
  <2>1. temp[th] \in Blocks /\ ptr_refcount[temp[th]] # 0
    BY <1>0, <1>2 DEF TypeOK, CallInv, CasSucceeds, Goto
  <2>. QED
    BY <1>0, <2>1, CountsAreOfHolders
<1>. QED
  BY <1>1, <1>2 DEF Shares

(* The last one to let go finds the count at 1, and nobody else does.       *)
LEMMA LastOwner ==
  ASSUME IInv, NEW th \in Threads, DecPtr(th)
  PROVE  ptr_refcount[temp[th]] = 1 <=> StrongHolders(temp[th]) = {th}
<1>1. temp[th] \in Blocks /\ th \in StrongHolders(temp[th])
  BY DecPtrHolders DEF IInv, CountsExact, CallInv, DecPtr, Goto
<1>2. ptr_refcount[temp[th]] = Cardinality(StrongHolders(temp[th]))
  BY <1>1 DEF IInv, CountsExact
<1>. QED
  BY <1>1, <1>2, HoldersFinite, FS_Singleton

LEMMA LastHolder ==
  ASSUME IInv, NEW th \in Threads, DecShared(th)
  PROVE  shared_refcount[temp[th]] = 1 <=> Holders(temp[th]) = {th}
<1>1. temp[th] \in Blocks /\ th \in Holders(temp[th])
  BY DecSharedHolders DEF IInv, CountsExact, CallInv, DecShared, Goto
<1>2. shared_refcount[temp[th]] = Cardinality(Holders(temp[th]))
  BY <1>1 DEF IInv, CountsExact
<1>. QED
  BY <1>1, <1>2, HoldersFinite, FS_Singleton

LEMMA SwapKeepsSome ==
  ASSUME NEW S, NEW k, NEW l
  PROVE  Swapped(k, l, S) = {} <=> S = {}
BY DEF Swapped

NoLeak ==
  \A b \in allocated : \/ Holders(b) # {}
                       \/ \E th \in Threads : pc[th] = "delete" /\ temp[th] = b

LEMMA NextObjects ==
  ASSUME IInv, NEW th \in Threads, Call(th) \/ Step(th)
  PROVE  NoUseAfterFree' /\ BlockInv' /\ NoLeak'
<1>0. TypeOK /\ CallInv /\ BlockInv /\ NoUseAfterFree /\ NoLeak
  BY DEF IInv, CountsExact, NoLeak, TypeOK
<1>. USE DEF Goto, TypeOK, CallInv, BlockInv, NoUseAfterFree, NoLeak, handleVars, callVars
<1>1. CASE Shares(th)
  <2>1. \A b \in Blocks :
          /\ StrongHolders(b)' = IF b = temp[th] THEN StrongHolders(b) \cup {th}
                                 ELSE StrongHolders(b)
          /\ Holders(b)' = Holders(b)
    BY <1>0, <1>1, SharesHolders
  <2>2. StrongHolders(temp[th]) # {} /\ temp[th] \in Blocks
    BY <1>0, <1>1, SharedByOwner DEF Shares, IncPtr, CasSucceeds
  <2>3. /\ UNCHANGED <<shared, temp, allocated, object>>
        /\ pc[th] \in {"inc_ptr", "cas"}
        /\ pc' = [pc EXCEPT ![th] = "inc_shared"]
    BY <1>1 DEF Shares, IncPtr, CasSucceeds
  <2>4. NoUseAfterFree'
    BY <1>0, <2>1, <2>2, <2>3
  <2>5. BlockInv'
    BY <1>0, <2>1, <2>2, <2>3
  <2>6. NoLeak'
    BY <1>0, <2>1, <2>3
  <2>. QED
    BY <2>4, <2>5, <2>6
<1>2. CASE IncShared(th)
  <2>1. \A b \in Blocks :
          /\ StrongHolders(b)' = StrongHolders(b)
          /\ Holders(b)' = IF b = temp[th] THEN Holders(b) \cup {th} ELSE Holders(b)
    BY <1>0, <1>2, IncSharedHolders
  <2>2. Holders(temp[th]) # {} /\ temp[th] \in Blocks
    BY <1>0, <1>2, HeldByNobody DEF IncShared
  <2>3. /\ UNCHANGED <<shared, temp, allocated, object>>
        /\ pc[th] = "inc_shared"
        /\ pc' = [pc EXCEPT ![th] = "swap"]
    BY <1>2 DEF IncShared
  <2>4. NoUseAfterFree'
    BY <1>0, <2>1, <2>2, <2>3
  <2>5. BlockInv'
    BY <1>0, <2>1, <2>2, <2>3
  <2>6. NoLeak'
    BY <1>0, <2>1, <2>3
  <2>. QED
    BY <2>4, <2>5, <2>6
<1>3. CASE DecPtr(th)
  <2>1. \A b \in Blocks :
          /\ StrongHolders(b)' = IF b = temp[th] THEN StrongHolders(b) \ {th}
                                 ELSE StrongHolders(b)
          /\ Holders(b)' = Holders(b)
    BY <1>0, <1>3, DecPtrHolders
  <2>2. th \in StrongHolders(temp[th]) /\ temp[th] \in Blocks
    BY <1>0, <1>3, DecPtrHolders DEF DecPtr
  <2>3. /\ UNCHANGED <<shared, temp, allocated, object>>
        /\ pc[th] = "dec_ptr"
        /\ pc' = [pc EXCEPT ![th] = IF StrongHolders(temp[th]) = {th} THEN "deleter"
                                    ELSE "dec_shared"]
    BY <1>3, LastOwner DEF DecPtr
  <2>4. NoUseAfterFree'
    BY <1>0, <2>1, <2>2, <2>3
  <2>5. BlockInv'
    BY <1>0, <2>1, <2>2, <2>3
  <2>6. NoLeak'
    BY <1>0, <2>1, <2>3
  <2>. QED
    BY <2>4, <2>5, <2>6
<1>4. CASE DecShared(th)
  <2>1. \A b \in Blocks :
          /\ StrongHolders(b)' = StrongHolders(b)
          /\ Holders(b)' = IF b = temp[th] THEN Holders(b) \ {th} ELSE Holders(b)
    BY <1>0, <1>4, DecSharedHolders
  <2>2. th \in Holders(temp[th]) /\ temp[th] \in Blocks
    BY <1>0, <1>4, DecSharedHolders DEF DecShared
  <2>3. /\ UNCHANGED <<shared, temp, allocated, object>>
        /\ pc[th] = "dec_shared"
        /\ pc' = [pc EXCEPT ![th] = IF Holders(temp[th]) = {th} THEN "delete" ELSE "return"]
    BY <1>4, LastHolder DEF DecShared
  <2>4. NoUseAfterFree'
    BY <1>0, <2>1, <2>2, <2>3
  <2>5. BlockInv'
    BY <1>0, <2>1, <2>2, <2>3
  <2>6. NoLeak'
    BY <1>0, <2>1, <2>2, <2>3
  <2>. QED
    BY <2>4, <2>5, <2>6
<1>5. CASE Exchanges(th)
  <2>1. PICK l \in Handles : \A b \in Blocks :
          /\ StrongHolders(b)' = Swapped(th, l, StrongHolders(b))
          /\ Holders(b)' = Swapped(th, l, Holders(b))
    BY <1>0, <1>5, ExchangesHolders
  <2>2. \A b \in Blocks : /\ StrongHolders(b)' = {} <=> StrongHolders(b) = {}
                          /\ Holders(b)' = {} <=> Holders(b) = {}
    BY <2>1, SwapKeepsSome
  <2>3. /\ UNCHANGED <<allocated, object>>
        /\ pc[th] \in {"idle", "swap"}
        /\ \E to \in {"swap", "return", "dec_ptr", "dec_shared"} : pc' = [pc EXCEPT ![th] = to]
    BY <1>5 DEF Exchanges, Swap, Move, MoveFrom, Destruct, Begin, AfterSwap, blockVars
  <2>4. /\ \A h \in Handles : shared'[h] \in allocated \cup {Null}
        /\ \A u \in Threads : u # th => temp'[u] = temp[u]
        /\ temp'[th] \in allocated \cup {Null}
    BY <1>0, <1>5 DEF Exchanges, Swap, Move, MoveFrom, Destruct, Begin
  <2>5. NoUseAfterFree'
    BY <1>0, <2>2, <2>3, <2>4
  <2>6. BlockInv'
    BY <1>0, <2>2, <2>3, <2>4
  <2>7. NoLeak'
    BY <1>0, <2>2, <2>3, <2>4
  <2>. QED
    BY <2>5, <2>6, <2>7
<1>6. CASE Quiet(th) /\ ~ Deleter(th) /\ ~ DeleteBlock(th)
  <2>1. \A b \in Blocks : StrongHolders(b)' = StrongHolders(b) /\ Holders(b)' = Holders(b)
    BY <1>0, <1>6, QuietHolders
  <2>2. /\ UNCHANGED <<shared, allocated, object>>
        /\ pc[th] \notin {"deleter", "delete"}
        /\ \E to \in {"idle", "swap", "inc_ptr", "inc_shared", "load", "cas"} :
             pc' = [pc EXCEPT ![th] = to]
        /\ \A u \in Threads : u # th => temp'[u] = temp[u]
    BY <1>0, <1>6
    DEF Quiet, Reset, Copy, CopyFrom, Lock, Load, CasFails, Saw, Return, Begin, blockVars
  <2>3. temp'[th] \in allocated \cup {Null}
    BY <1>0, <1>6
    DEF Quiet, Reset, Copy, CopyFrom, Lock, Load, CasFails, Saw, Return, Begin, blockVars
  <2>4. NoUseAfterFree'
    BY <1>0, <2>1, <2>2, <2>3
  <2>5. BlockInv'
    BY <1>0, <2>1, <2>2, <2>3
  <2>6. NoLeak'
    BY <1>0, <2>1, <2>2, <2>3
  <2>. QED
    BY <2>4, <2>5, <2>6
<1>7. CASE Deleter(th)
  <2>1. \A b \in Blocks : StrongHolders(b)' = StrongHolders(b) /\ Holders(b)' = Holders(b)
    BY <1>0, <1>7, QuietHolders DEF Quiet
  <2>2. /\ UNCHANGED <<shared, temp, allocated>>
        /\ pc[th] = "deleter"
        /\ pc' = [pc EXCEPT ![th] = "dec_shared"]
        /\ temp[th] \in Blocks
        /\ object' = [object EXCEPT ![temp[th]] = "deleted"]
    BY <1>0, <1>7 DEF Deleter
  <2>3. NoUseAfterFree'
    BY <1>0, <2>1, <2>2
  <2>4. BlockInv'
    BY <1>0, <2>1, <2>2
  <2>5. NoLeak'
    BY <1>0, <2>1, <2>2
  <2>. QED
    BY <2>3, <2>4, <2>5
<1>8. CASE DeleteBlock(th)
  <2>1. \A b \in Blocks : StrongHolders(b)' = StrongHolders(b) /\ Holders(b)' = Holders(b)
    BY <1>0, <1>8, QuietHolders DEF Quiet
  <2>2. /\ UNCHANGED <<shared, temp>>
        /\ pc[th] = "delete"
        /\ pc' = [pc EXCEPT ![th] = "return"]
        /\ temp[th] \in Blocks
        /\ allocated' = allocated \ {temp[th]}
        /\ object' = [object EXCEPT ![temp[th]] = "none"]
    BY <1>0, <1>8 DEF DeleteBlock
  <2>3. /\ Holders(temp[th]) = {}
        /\ StrongHolders(temp[th]) = {}
        /\ \A h \in Handles : shared[h] # temp[th]
        /\ \A u \in Threads : temp[u] = temp[th] => pc[u] \in {"return", "delete"}
    BY <1>0, <2>2, HeldByNobody
  <2>4. NoUseAfterFree'
    BY <1>0, <2>1, <2>2, <2>3
  <2>5. BlockInv'
    BY <1>0, <2>1, <2>2, <2>3
  <2>6. NoLeak'
    BY <1>0, <2>1, <2>2
  <2>. QED
    BY <2>4, <2>5, <2>6
<1>9. ASSUME NEW a \in Blocks, Makes(th, a)
      PROVE  NoUseAfterFree' /\ BlockInv' /\ NoLeak'
  <2>1. \A b \in Blocks :
          /\ StrongHolders(b)' = IF b = a THEN {th} ELSE StrongHolders(b)
          /\ Holders(b)' = IF b = a THEN {th} ELSE Holders(b)
    BY <1>0, <1>9, MakesHolders
  <2>2. /\ UNCHANGED shared
        /\ a \notin allocated
        /\ allocated' = allocated \cup {a}
        /\ pc'[th] = "swap" /\ temp'[th] = a
        /\ object'[a] = "alive"
        /\ \A b \in Blocks : b # a => object'[b] = object[b]
        /\ \A u \in Threads : u # th => pc'[u] = pc[u] /\ temp'[u] = temp[u]
    BY <1>0, <1>9 DEF Makes, Begin
  <2>3. /\ pc[th] = "idle"
        /\ \A u \in Threads : pc[u] \in {"deleter", "delete"} => temp[u] \in allocated
    BY <1>0, <1>9 DEF Makes, Begin
  <2>4. NoUseAfterFree'
    BY <1>0, <2>1, <2>2
  <2>5. BlockInv'
    <3>1. ASSUME NEW b \in Blocks
          PROVE  /\ b \in allocated' <=> object'[b] # "none"
                 /\ object'[b] = "alive" =>
                      StrongHolders(b)' # {} \/ \E u \in Threads : pc'[u] = "deleter" /\ temp'[u] = b
      <4>1. CASE b = a
        BY <2>1, <2>2, <4>1
      <4>2. CASE b # a
        <5>1. /\ StrongHolders(b)' = StrongHolders(b) /\ object'[b] = object[b]
              /\ b \in allocated' <=> b \in allocated
          BY <2>1, <2>2, <4>2
        <5>2. \A u \in Threads : pc[u] = "deleter" => pc'[u] = pc[u] /\ temp'[u] = temp[u]
          BY <2>2, <2>3
        <5>3. /\ b \in allocated <=> object[b] # "none"
              /\ object[b] = "alive" =>
                   StrongHolders(b) # {} \/ \E u \in Threads : pc[u] = "deleter" /\ temp[u] = b
          BY <1>0
        <5>. QED
          BY <5>1, <5>2, <5>3
      <4>. QED
        BY <4>1, <4>2
    <3>2. ASSUME NEW u \in Threads, pc'[u] \in {"deleter", "delete"}
          PROVE  /\ pc[u] = pc'[u] /\ temp[u] = temp'[u]
                 /\ temp[u] # a /\ temp[u] \in allocated /\ temp[u] \in Blocks
      BY <1>0, <2>2, <2>3, <3>2
    <3>3. ASSUME NEW u \in Threads, pc'[u] = "deleter"
          PROVE  (StrongHolders(temp[u]) = {} /\ object[temp[u]] = "alive")'
      <4>1. StrongHolders(temp[u]) = {} /\ object[temp[u]] = "alive"
        BY <1>0, <3>2, <3>3
      <4>2. PICK b \in Blocks : b = temp[u]
        BY <3>2, <3>3
      <4>3. StrongHolders(b)' = {} /\ object'[b] = "alive"
        BY <2>1, <2>2, <3>2, <3>3, <4>1, <4>2
      <4>. QED
        BY <3>2, <3>3, <4>2, <4>3
    <3>4. ASSUME NEW u \in Threads, pc'[u] = "delete"
          PROVE  (Holders(temp[u]) = {} /\ temp[u] \in allocated)'
      <4>1. Holders(temp[u]) = {} /\ temp[u] \in allocated
        BY <1>0, <3>2, <3>4
      <4>2. PICK b \in Blocks : b = temp[u]
        BY <3>2, <3>4
      <4>3. Holders(b)' = {} /\ b \in allocated'
        BY <2>1, <2>2, <3>2, <3>4, <4>1, <4>2
      <4>. QED
        BY <3>2, <3>4, <4>2, <4>3
    <3>5. \A t, u \in Threads :
            t # u /\ pc'[t] \in {"deleter", "delete"} /\ pc'[u] = pc'[t] => temp'[t] # temp'[u]
      BY <1>0, <3>2
    <3>. QED
      BY <3>1, <3>3, <3>4, <3>5
  <2>6. NoLeak'
    <3>. SUFFICES ASSUME NEW b \in allocated'
                  PROVE  Holders(b)' # {} \/ \E u \in Threads : pc'[u] = "delete" /\ temp'[u] = b
      OBVIOUS
    <3>1. CASE b = a
      BY <2>1, <3>1
    <3>2. CASE b # a
      <4>1. b \in allocated /\ Holders(b)' = Holders(b)
        BY <1>0, <2>1, <2>2, <3>2
      <4>. QED
        BY <1>0, <2>2, <2>3, <4>1
    <3>. QED
      BY <3>1, <3>2
  <2>. QED
    BY <2>4, <2>5, <2>6
<1>. QED
  BY <1>0, <1>1, <1>2, <1>3, <1>4, <1>5, <1>6, <1>7, <1>8, <1>9, StepKinds

-----------------------------------------------------------------------------
(* The invariant.                                                           *)

LEMMA InitIInv == Init => IInv
<1>. SUFFICES ASSUME Init PROVE IInv
  OBVIOUS
<1>1. ASSUME NEW b \in Blocks PROVE StrongHolders(b) = {} /\ Holders(b) = {}
  BY DEF Init, StrongHolders, Holders, OwnsObject, KeepsBlock
<1>2. TypeOK
  BY DEF Init, TypeOK
<1>3. CountsExact
  BY <1>1, <1>2, FS_EmptySet DEF Init, CountsExact
<1>4. CallInv
  BY DEF Init, CallInv, Reading
<1>5. BlockInv
  BY DEF Init, BlockInv
<1>6. NoUseAfterFree
  BY <1>1 DEF Init, NoUseAfterFree
<1>. QED
  BY <1>3, <1>4, <1>5, <1>6 DEF IInv

LEMMA NextIInv == IInv /\ [Next]_vars => IInv'
<1>1. ASSUME IInv, NEW th \in Threads, Call(th) \/ Step(th)
      PROVE  IInv'
  <2>1. TypeOK' /\ CountsMatch' /\ NoLeak'
    BY <1>1, NextTypeOK, NextCountsMatch, NextObjects
  <2>2. CountsExact'
    BY <2>1 DEF CountsExact, CountsMatch, NoLeak, TypeOK
  <2>. QED
    BY <1>1, <2>2, NextCallInv, NextObjects DEF IInv
<1>2. ASSUME IInv, UNCHANGED vars
      PROVE  IInv'
  <2>1. \A b : StrongHolders(b)' = StrongHolders(b) /\ Holders(b)' = Holders(b)
    BY <1>2 DEF vars, handleVars, StrongHolders, Holders, OwnsObject, KeepsBlock, callVars
  <2>2. UNCHANGED <<shared, temp, allocated, object, ptr_refcount, shared_refcount,
                    dst, src, pc, refcount>>
    BY <1>2 DEF vars, handleVars, blockVars, callVars
  <2>3. CountsExact'
    BY <1>2, <2>1, <2>2 DEF IInv, CountsExact, TypeOK
  <2>4. CallInv'
    BY <1>2, <2>2 DEF IInv, CallInv
  <2>5. BlockInv'
    BY <1>2, <2>1, <2>2 DEF IInv, BlockInv
  <2>6. NoUseAfterFree'
    BY <1>2, <2>1, <2>2 DEF IInv, NoUseAfterFree
  <2>. QED
    BY <2>3, <2>4, <2>5, <2>6 DEF IInv
<1>. QED
  BY <1>1, <1>2 DEF Next

LEMMA Invariance == Spec => []IInv
<1>. QED
  BY InitIInv, NextIInv, PTL DEF Spec

(* Both counters of a block are exact at every step of every interleaving   *)
(* of copies, moves, resets, locks and destructors by any number of         *)
(* threads, and no block is left behind.                                    *)
THEOREM CountersAreExact == Spec => []CountsExact
<1>1. IInv => CountsExact
  BY DEF IInv
<1>. QED
  BY <1>1, Invariance, PTL

(* No step touches a block that is gone, and the object of a SharedPtr is   *)
(* alive, whatever the destructors of other threads are doing.              *)
THEOREM NothingUsedAfterFree == Spec => []NoUseAfterFree
<1>1. IInv => NoUseAfterFree
  BY DEF IInv
<1>. QED
  BY <1>1, Invariance, PTL

-----------------------------------------------------------------------------
(* The abstract specification.                                              *)

LEMMA InitOwnership == Init => Abstract!Init
<1>. SUFFICES ASSUME Init PROVE Abstract!Init
  OBVIOUS
<1>1. \A b \in Blocks : StrongHolders(b) = {}
  BY DEF Init, StrongHolders, OwnsObject
<1>2. object = [b \in Blocks |-> "none"]
  BY DEF Init
<1>. QED
  BY <1>1, <1>2 DEF Abstract!Init

LEMMA StepOwnership ==
  ASSUME IInv, NEW th \in Threads, Call(th) \/ Step(th)
  PROVE  Abstract!Next \/ UNCHANGED Abstract!vars
<1>. DEFINE owners == [b \in Blocks |-> StrongHolders(b)]
<1>0. TypeOK /\ CallInv /\ BlockInv /\ NoUseAfterFree
  BY DEF IInv, CountsExact
<1>1. CASE Shares(th)
  <2>1. temp[th] \in Blocks
    BY <1>0, <1>1 DEF CallInv, Shares, IncPtr, CasSucceeds, Goto
  <2>2. StrongHolders(temp[th]) # {}
    BY <1>1, SharedByOwner
  <2>3. owners' = [owners EXCEPT ![temp[th]] = @ \cup {th}]
    BY <1>0, <1>1, <2>1, SharesHolders
  <2>4. UNCHANGED object
    BY <1>1 DEF Shares, IncPtr, CasSucceeds
  <2>5. Abstract!Share(temp[th], th)
    BY <2>1, <2>2, <2>3, <2>4 DEF Abstract!Share
  <2>. QED
    BY <2>1, <2>5 DEF Abstract!Next
<1>2. CASE DecPtr(th)
  <2>1. temp[th] \in Blocks
    BY <1>0, <1>2 DEF CallInv, DecPtr, Goto
  <2>2. th \in StrongHolders(temp[th])
    BY <1>0, <1>2, <2>1, DecPtrHolders
  <2>3. owners' = [owners EXCEPT ![temp[th]] = @ \ {th}]
    BY <1>0, <1>2, <2>1, DecPtrHolders
  <2>4. UNCHANGED object
    BY <1>2 DEF DecPtr
  <2>5. Abstract!Drop(temp[th], th)
    BY <2>1, <2>2, <2>3, <2>4 DEF Abstract!Drop
  <2>. QED
    BY <2>1, <2>5 DEF Abstract!Next
<1>3. CASE Exchanges(th)
  <2>1. PICK l \in Handles : \A b \in Blocks : StrongHolders(b)' = Swapped(th, l, StrongHolders(b))
    BY <1>0, <1>3, ExchangesHolders
  <2>2. owners' = [b \in Blocks |-> Swapped(th, l, owners[b])]
    BY <2>1
  <2>3. UNCHANGED object
    BY <1>3 DEF Exchanges, Swap, Move, MoveFrom, Destruct, blockVars
  <2>4. Abstract!Exchange(th, l)
    BY <2>2, <2>3 DEF Abstract!Exchange, Swapped
  <2>. QED
    BY <2>4 DEF Abstract!Next
<1>4. ASSUME NEW a \in Blocks, Makes(th, a)
      PROVE  Abstract!Next
  <2>1. object[a] = "none" /\ object' = [object EXCEPT ![a] = "alive"]
    BY <1>0, <1>4 DEF Makes, BlockInv, TypeOK
  <2>2. owners' = [owners EXCEPT ![a] = {th}]
    BY <1>0, <1>4, MakesHolders
  <2>3. Abstract!Create(a, th)
    BY <2>1, <2>2 DEF Abstract!Create
  <2>. QED
    BY <2>3 DEF Abstract!Next
<1>5. ASSUME IncShared(th) \/ DecShared(th) \/ Quiet(th)
      PROVE  owners' = owners
  BY <1>0, <1>5, IncSharedHolders, DecSharedHolders, QuietHolders
<1>6. CASE Deleter(th)
  <2>1. temp[th] \in Blocks /\ StrongHolders(temp[th]) = {} /\ object[temp[th]] = "alive"
    BY <1>0, <1>6 DEF CallInv, BlockInv, Deleter, Goto
  <2>2. object' = [object EXCEPT ![temp[th]] = "deleted"]
    BY <1>6 DEF Deleter
  <2>3. Abstract!Delete(temp[th])
    BY <1>5, <1>6, <2>1, <2>2 DEF Abstract!Delete, Quiet
  <2>. QED
    BY <2>1, <2>3 DEF Abstract!Next
<1>7. CASE DeleteBlock(th)
  <2>1. temp[th] \in Blocks /\ Holders(temp[th]) = {} /\ temp[th] \in allocated
    BY <1>0, <1>7 DEF CallInv, BlockInv, DeleteBlock, Goto
  <2>2. /\ StrongHolders(temp[th]) = {}
        /\ \A u \in Threads : temp[u] = temp[th] => pc[u] # "deleter"
    BY <1>0, <2>1, HeldByNobody
  <2>3. object[temp[th]] = "deleted"
    BY <1>0, <2>1, <2>2 DEF BlockInv, TypeOK
  <2>4. object' = [object EXCEPT ![temp[th]] = "none"]
    BY <1>7 DEF DeleteBlock
  <2>5. Abstract!Forget(temp[th])
    BY <1>5, <1>7, <2>3, <2>4 DEF Abstract!Forget, Quiet
  <2>. QED
    BY <2>1, <2>5 DEF Abstract!Next
<1>8. ASSUME \/ IncShared(th) \/ DecShared(th)
             \/ Quiet(th) /\ ~ Deleter(th) /\ ~ DeleteBlock(th)
      PROVE  UNCHANGED object
  BY <1>8
  DEF IncShared, DecShared, Quiet, Reset, Copy, CopyFrom, Lock, Load, CasFails, Saw, Return,
      blockVars
<1>. QED
  BY <1>0, <1>1, <1>2, <1>3, <1>4, <1>5, <1>6, <1>7, <1>8, StepKinds DEF Abstract!vars

(* SharedPtr and WeakPtr implement shared ownership: an object is deleted   *)
(* once, after its last SharedPtr let go, and lock() revives none.          *)
THEOREM ImplementsOwnership == Spec => OwnershipSpec
<1>1. IInv /\ [Next]_vars => [Abstract!Next]_(Abstract!vars)
  <2>1. ASSUME UNCHANGED vars
        PROVE  UNCHANGED Abstract!vars
    <3>1. \A b : StrongHolders(b)' = StrongHolders(b)
      BY <2>1 DEF vars, handleVars, callVars, StrongHolders, OwnsObject
    <3>2. UNCHANGED object
      BY <2>1 DEF vars, blockVars
    <3>. QED
      BY <3>1, <3>2 DEF Abstract!vars
  <2>. QED
    BY <2>1, StepOwnership DEF Next
<1>. QED
  BY <1>1, InitOwnership, Invariance, PTL DEF Spec, OwnershipSpec, Abstract!Spec
=============================================================================
