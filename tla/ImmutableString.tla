--------------------------- MODULE ImmutableString ---------------------------
(***************************************************************************)
(* tpp::ImmutableString (include/toypp/immutable_string.hpp).  A short text *)
(* is kept in the variable itself; a long one is a part of an allocated     *)
(* block with a reference count, shared by its copies and its substrings.   *)
(*                                                                          *)
(* Each access to a reference count is a step, and so is the release of a   *)
(* block; what else a call does touches what no other thread touches.  One  *)
(* string may be used by several threads as long as none of them changes    *)
(* it, and a call begins only where that is so.                             *)
(***************************************************************************)
EXTENDS Naturals, Sequences, FiniteSets, FiniteSetsExt

CONSTANTS
  Threads,
  Strings,       (* the variables of type ImmutableString                   *)
  Blocks,        (* addresses of blocks, used again after a free            *)
  Null,
  ShortMax,      (* k_short_max_size                                        *)
  Characters,    (* the values of char_type                                 *)
  Literals,      (* the texts given as character strings                    *)
  Sizes,         (* the offsets and sizes that substr is called with        *)
  Unset,
  NestedSubstr,  (* bound: whether substr is called on a string that does   *)
                 (* not begin where its block begins                        *)
  MaxLength,     (* bound: the longest text                                 *)
  MaxRefcount    (* bound: the largest reference count                      *)

ASSUME StringAssumption ==
  /\ IsFiniteSet(Threads) /\ IsFiniteSet(Strings)
  /\ Threads \cap Strings = {}
  /\ Null \notin Blocks \cup Strings
  /\ ShortMax \in Nat
  /\ Literals \subseteq Seq(Characters)
  /\ Unset \notin Seq(Characters \cup {Null})
  /\ Sizes \subseteq Nat
  /\ NestedSubstr \in BOOLEAN
  /\ MaxLength \in Nat
  /\ MaxRefcount \in Nat \ {0}

VARIABLES
  value,       (* _value of each string                                     *)
  allocated,   (* the blocks that exist                                     *)
  memory,      (* the text in a block                                       *)
  refcount,
  op, pc,      (* the call each thread is in and its next step              *)
  dst, src,    (* the strings of the call                                   *)
  extra        (* history: the counts of a block that move assignment took  *)
               (* from its argument and added all the same                  *)

blockVars == <<allocated, memory, refcount, extra>>
callVars  == <<op, pc, dst, src>>
vars == <<value, blockVars, callVars>>

(* The union _value, a shorter or a longer.                                 *)
Shorter(t) == [size |-> Len(t), bytes |-> t, offset |-> 0, ptr |-> Null]
Longer(n, o, b) == [size |-> n, bytes |-> <<>>, offset |-> o, ptr |-> b]
Empty == Shorter(<<>>)
IsLong(v) == v.size > ShortMax

(* What may be read in a block that does not exist.                         *)
Unknown == [i \in 1..MaxLength |-> Null]

(* The characters from data() on, size() of them.                           *)
Text(v) ==
  IF IsLong(v) THEN SubSeq(memory[v.ptr], v.offset + 1, v.offset + v.size) ELSE v.bytes

Init ==
  /\ value = [h \in Strings |-> Empty]
  /\ allocated = {}
  /\ memory = [b \in Blocks |-> Unknown]
  /\ refcount = [b \in Blocks |-> 0]
  /\ op = [th \in Threads |-> "idle"]
  /\ pc = [th \in Threads |-> "idle"]
  /\ dst = [th \in Threads |-> Null]
  /\ src = [th \in Threads |-> Null]
  /\ extra = [b \in Blocks |-> 0]

Reads(th, g) ==
  \A u \in Threads \ {th} : dst[u] # g /\ ~ (op[u] = "move" /\ src[u] = g)
Writes(th, h) == \A u \in Threads \ {th} : h \notin {dst[u], src[u]}

-----------------------------------------------------------------------------
(* Construction.  A string is constructed where there is none, or where the *)
(* destructor of the one before has nothing to do.                          *)
Construct(th, h) ==
  /\ op[th] = "idle"
  /\ Writes(th, h)
  /\ value[h] = Empty
  /\ UNCHANGED callVars

(* A plausible bug: a text of just the longest short size gets a block that *)
(* nobody will look for.                                                    *)
Fill_OffByOne(h, t) ==
  /\ Len(t) <= MaxLength
  /\ \/ /\ Len(t) < ShortMax
        /\ value' = [value EXCEPT ![h] = Shorter(t)]
        /\ UNCHANGED blockVars
     \/ /\ Len(t) >= ShortMax
        /\ \E b \in Blocks \ allocated :
             /\ value' = [value EXCEPT ![h] = Longer(Len(t), 0, b)]
             /\ allocated' = allocated \cup {b}
             /\ memory' = [memory EXCEPT ![b] = t]
             /\ refcount' = [refcount EXCEPT ![b] = 1]
             /\ UNCHANGED extra

(* ImmutableString(str): a long text gets a new block with one reference.   *)
Fill(h, t) ==
  /\ Len(t) <= MaxLength
  /\ \/ /\ Len(t) <= ShortMax
        /\ value' = [value EXCEPT ![h] = Shorter(t)]
        /\ UNCHANGED blockVars
     \/ /\ Len(t) > ShortMax
        /\ \E b \in Blocks \ allocated :
             /\ value' = [value EXCEPT ![h] = Longer(Len(t), 0, b)]
             /\ allocated' = allocated \cup {b}
             /\ memory' = [memory EXCEPT ![b] = t]
             /\ refcount' = [refcount EXCEPT ![b] = 1]
             /\ UNCHANGED extra

FromLiteral(th) ==
  \E h \in Strings, t \in Literals : Construct(th, h) /\ Fill(h, t)

(* append and prepend, of a text that is not held as an ImmutableString or  *)
(* of one that is: both pass its characters on.                             *)
Concat(th) ==
  \E h, g \in Strings, t \in Literals :
    /\ Construct(th, h)
    /\ Reads(th, g)
    /\ Fill(h, Text(value[g]) \o t) \/ Fill(h, t \o Text(value[g]))

(* refcount.fetch_add(1) for one more string with the value v.              *)
AddRef(v) ==
  IF IsLong(v) THEN /\ refcount[v.ptr] < MaxRefcount
                    /\ refcount' = [refcount EXCEPT ![v.ptr] = @ + 1]
               ELSE UNCHANGED refcount

CopyConstruct(th) ==
  \E h, g \in Strings :
    /\ Construct(th, h)
    /\ Reads(th, g)
    /\ AddRef(value[g])
    /\ value' = [value EXCEPT ![h] = value[g]]
    /\ UNCHANGED <<allocated, memory, extra>>

(* A plausible bug: the count that move assignment adds, added here too.    *)
MoveConstruct_Counts(th) ==
  \E h, g \in Strings :
    /\ h # g
    /\ Construct(th, h)
    /\ Writes(th, g)
    /\ AddRef(value[g])
    /\ value' = [value EXCEPT ![h] = value[g], ![g] = Empty]
    /\ UNCHANGED <<allocated, memory, extra>>

(* The argument keeps nothing but the size 0.                               *)
MoveConstruct(th) ==
  \E h, g \in Strings :
    /\ h # g
    /\ Construct(th, h)
    /\ Writes(th, g)
    /\ value' = [value EXCEPT ![h] = value[g], ![g] = Empty]
    /\ UNCHANGED blockVars

(* A plausible bug: the short copy starts where the whole string does.      *)
SubValue_ShortFromStart(v, offset, size) ==
  LET o == Min({offset, v.size})
      n == Min({size, v.size - o})
  IN IF n <= ShortMax THEN Shorter(SubSeq(Text(v), 1, n))
                      ELSE Longer(n, o, v.ptr)

(* A plausible bug: the size is clamped, but not to what the offset leaves. *)
SubValue_ReachesPastEnd(v, offset, size) ==
  LET o == Min({offset, v.size})
      n == Min({size, v.size})
  IN IF n <= ShortMax THEN Shorter(SubSeq(Text(v), o + 1, Min({o + n, v.size})))
                      ELSE Longer(n, o, v.ptr)

(* What substr(offset, size) of a string with the value v returns: nothing, *)
(* a short copy, or a share of v's block, at the offset it was asked for    *)
(* whatever the offset of v.                                                *)
SubValue(v, offset, size) ==
  LET o == Min({offset, v.size})
      n == Min({size, v.size - o})
  IN IF n <= ShortMax THEN Shorter(SubSeq(Text(v), o + 1, o + n))
                      ELSE Longer(n, o, v.ptr)

Substr(th) ==
  \E h, g \in Strings, o, n \in Sizes :
    /\ Construct(th, h)
    /\ Reads(th, g)
    /\ NestedSubstr \/ value[g].offset = 0
    /\ LET v == SubValue(value[g], o, n) IN
         /\ AddRef(v)
         /\ value' = [value EXCEPT ![h] = v]
    /\ UNCHANGED <<allocated, memory, extra>>

-----------------------------------------------------------------------------
(* Assignment and destruction.                                              *)

Begin(th, name, h, g) ==
  /\ op[th] = "idle"
  /\ Writes(th, h)
  /\ op' = [op EXCEPT ![th] = name]
  /\ pc' = [pc EXCEPT ![th] = IF IsLong(value[h]) THEN "dec" ELSE "end"]
  /\ dst' = [dst EXCEPT ![th] = h]
  /\ src' = [src EXCEPT ![th] = g]
  /\ UNCHANGED <<value, allocated, memory>>

(* A plausible bug: the memcpy of the value alone makes the copy.           *)
CopyAssign_Uncounted(th) ==
  \E h, g \in Strings :
    /\ h # g
    /\ Reads(th, g)
    /\ Begin(th, "copy", h, g)
    /\ UNCHANGED <<refcount, extra>>

(* Assignment to itself returns at once and is not a call here.             *)
CopyAssign(th) ==
  \E h, g \in Strings :
    /\ h # g
    /\ Reads(th, g)
    /\ Begin(th, "copy", h, g)
    /\ AddRef(value[g])
    /\ UNCHANGED extra

(* Counts one more string, as if the argument were still going to be one.   *)
MoveAssign(th) ==
  \E h, g \in Strings :
    /\ h # g
    /\ Writes(th, g)
    /\ Begin(th, "move", h, g)
    /\ AddRef(value[g])
    /\ extra' = IF IsLong(value[g]) THEN [extra EXCEPT ![value[g].ptr] = @ + 1] ELSE extra

Destruct(th) ==
  \E h \in Strings : Begin(th, "destruct", h, Null) /\ UNCHANGED <<refcount, extra>>

(* destroy(): refcount.fetch_sub(1), by the last string with the block ...  *)
DecRef(th) ==
  /\ pc[th] = "dec"
  /\ LET h == dst[th]
         b == value[h].ptr
     IN /\ refcount' = [refcount EXCEPT ![b] = @ - 1]
        /\ IF refcount[b] = 1
           THEN pc' = [pc EXCEPT ![th] = "free"] /\ UNCHANGED value
           ELSE pc' = [pc EXCEPT ![th] = "end"] /\ value' = [value EXCEPT ![h] = Empty]
  /\ UNCHANGED <<allocated, memory, extra, op, dst, src>>

(* ... and std::free.                                                       *)
FreeBlock(th) ==
  /\ pc[th] = "free"
  /\ LET b == value[dst[th]].ptr IN
       /\ allocated' = allocated \ {b}
       /\ memory' = [memory EXCEPT ![b] = Unknown]
       /\ extra' = [extra EXCEPT ![b] = 0]
  /\ value' = [value EXCEPT ![dst[th]] = Empty]
  /\ pc' = [pc EXCEPT ![th] = "end"]
  /\ UNCHANGED <<refcount, op, dst, src>>

(* The memcpy of _value, and the end of the call.                           *)
End(th) ==
  /\ pc[th] = "end"
  /\ value' = [h \in Strings |->
                 IF h = dst[th] /\ op[th] # "destruct" THEN value[src[th]]
                 ELSE IF h = dst[th] \/ (op[th] = "move" /\ h = src[th]) THEN Empty
                 ELSE value[h]]
  /\ op' = [op EXCEPT ![th] = "idle"]
  /\ pc' = [pc EXCEPT ![th] = "idle"]
  /\ dst' = [dst EXCEPT ![th] = Null]
  /\ src' = [src EXCEPT ![th] = Null]
  /\ UNCHANGED blockVars

Next ==
  \E th \in Threads :
    \/ FromLiteral(th) \/ Concat(th) \/ CopyConstruct(th) \/ MoveConstruct(th) \/ Substr(th)
    \/ CopyAssign(th) \/ MoveAssign(th) \/ Destruct(th)
    \/ DecRef(th) \/ FreeBlock(th) \/ End(th)

Spec == Init /\ [][Next]_vars

-----------------------------------------------------------------------------
(* What is checked.                                                         *)

(* The types; a string is long if and only if it has a block.               *)
TypeOK ==
  /\ \A h \in Strings :
       /\ value[h].size \in 0..MaxLength
       /\ IF IsLong(value[h])
          THEN value[h].ptr \in Blocks /\ value[h].offset \in 0..MaxLength
          ELSE value[h] = Shorter(value[h].bytes)
  /\ allocated \subseteq Blocks
  /\ \A b \in Blocks : Len(memory[b]) <= MaxLength
  /\ refcount \in [Blocks -> 0..MaxRefcount]
  /\ extra \in [Blocks -> Nat]
  /\ op \in [Threads -> {"idle", "copy", "move", "destruct"}]
  /\ pc \in [Threads -> {"idle", "dec", "free", "end"}]
  /\ dst \in [Threads -> Strings \cup {Null}]
  /\ src \in [Threads -> Strings \cup {Null}]

(* Who holds a block: the strings with it, but for one that is giving it up *)
(* as the last, and the assignments that counted a string to come.          *)
Holders(b) ==
  {h \in Strings : /\ IsLong(value[h])
                   /\ value[h].ptr = b
                   /\ \A th \in Threads : pc[th] = "free" => dst[th] # h}
  \cup {th \in Threads : op[th] = "copy" /\ IsLong(value[src[th]]) /\ value[src[th]].ptr = b}

(* The reference count of a block is the number of its holders and of the   *)
(* counts that move assignments added for nobody: what leaks leaks there    *)
(* and nowhere else, and a block that never was moved by assignment is      *)
(* freed with its last string.                                              *)
RefcountExact ==
  /\ TypeOK
  /\ \A b \in Blocks :
       /\ refcount[b] = Cardinality(Holders(b)) + extra[b]
       /\ (b \in allocated /\ refcount[b] = 0) =>
            \E th \in Threads : pc[th] = "free" /\ value[dst[th]].ptr = b

(* A block is not freed under a string that somebody may read, and a string *)
(* does not reach past the end of its block.                                *)
NoUseAfterFree ==
  \A h \in Strings :
    IsLong(value[h]) => /\ value[h].ptr \in allocated
                        /\ value[h].offset + value[h].size <= Len(memory[value[h].ptr])

(* Sharing is not seen: every call gives its string the text that a call on *)
(* texts gives it, and changes no other string, however many share a block. *)
Abstract == INSTANCE ImmutableText WITH
  text <- [h \in Strings |->
             IF \E th \in Threads : dst[th] = h THEN Unset ELSE Text(value[h])]

TextSpec == Abstract!Spec

(* substr returns the region it was asked for, with offset and size clamped *)
(* as its comment says, of what the string shows and not of its block.      *)
SubstrExact ==
  \A g \in Strings :
    (\A th \in Threads : dst[th] # g) /\ (NestedSubstr \/ value[g].offset = 0) =>
      \A o, n \in Sizes :
        Text(SubValue(value[g], o, n)) = Abstract!SubText(Text(value[g]), o, n)

=============================================================================
