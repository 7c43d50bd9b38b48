-------------------------------- MODULE Curry --------------------------------
(***************************************************************************)
(* tpp::curry (include/toypp/curry.hpp).  A Curry keeps a tuple of what it  *)
(* was given so far: a value for an argument that was a temporary, a        *)
(* reference for one that was a variable.                                   *)
(***************************************************************************)
EXTENDS Integers, Sequences, SequencesExt

CONSTANTS
  Curries,     (* variables of a Curry type                                 *)
  Locals,      (* variables of the program that are given as arguments      *)
  ArgValues,
  MovedFrom,   (* what std::move leaves of a value                          *)
  Arity        (* the number of parameters of the function                  *)

ASSUME CurryAssumption == MovedFrom \notin ArgValues /\ Arity \in Nat

VARIABLES
  args_,       (* args_ of each Curry there is                              *)
  local_,      (* the values of the variables                               *)
  given        (* history: what each Curry was given, for those that were   *)
               (* not moved from                                            *)

curryVars == <<args_, local_, given>>

Temporary(v) == [kind |-> "value", of |-> v]
Variable(x) == [kind |-> "reference", of |-> x]
Arguments == {Temporary(v) : v \in ArgValues} \cup {Variable(x) : x \in Locals}

CurryInit ==
  /\ args_ = [c \in {} |-> <<>>]
  /\ given = [c \in {} |-> <<>>]
  /\ local_ = [x \in Locals |-> CHOOSE v \in ArgValues : TRUE]

With(f, c, v) == [d \in DOMAIN f \cup {c} |-> IF d = c THEN v ELSE f[d]]

ValueOf(arg) == IF arg.kind = "value" THEN arg.of ELSE local_[arg.of]

(* A plausible bug: what comes now is put before what came earlier.         *)
Supplied_InFront(args, more) == more \o args

(* std::tuple_cat(args_, std::forward_as_tuple(more...)).                   *)
Supplied(args, more) == args \o more

(* What the function is called with, and its result stands for: std::apply  *)
(* on what was kept and the rest.                                           *)
Applied(args, rest) == [k \in 1..Arity |-> ValueOf(Supplied(args, rest)[k])]

-----------------------------------------------------------------------------
MakeCurry(c) ==
  /\ args_' = With(args_, c, <<>>)
  /\ given' = With(given, c, <<>>)
  /\ UNCHANGED local_

Fits(c, more) == Len(args_[c]) + Len(more) <= Arity

(* operator() of an lvalue, or of any const: the new Curry d gets copies.   *)
(* (Where the last arguments have the parameters' own types the overload    *)
(* that calls the function is chosen; where they are converted it is this   *)
(* one, and a call with nothing more follows.)                              *)
Supply(c, d, more) ==
  /\ Fits(c, more)
  /\ args_' = With(args_, d, Supplied(args_[c], more))
  /\ given' = With(given, d, given[c] \o more)
  /\ UNCHANGED local_

(* operator() of an rvalue: what c kept by value is moved to d.             *)
SupplyMoved(c, d, more) ==
  LET left == [k \in DOMAIN args_[c] |->
                 IF args_[c][k].kind = "value" THEN Temporary(MovedFrom) ELSE args_[c][k]]
  IN /\ c # d
     /\ Fits(c, more)
     /\ args_' = With(With(args_, d, Supplied(args_[c], more)), c, left)
     /\ given' = [e \in (DOMAIN given \cup {d}) \ {c} |->
                    IF e = d THEN given[c] \o more ELSE given[e]]
     /\ UNCHANGED local_

(* The program assigns to one of its variables.                             *)
Change(x, v) ==
  /\ local_' = [local_ EXCEPT ![x] = v]
  /\ UNCHANGED <<args_, given>>

CurryNext ==
  \/ \E c \in Curries : MakeCurry(c)
  \/ \E c \in DOMAIN given, d \in Curries, n \in 1..Arity : \E more \in [1..n -> Arguments] :
       Supply(c, d, more) \/ SupplyMoved(c, d, more)
  \/ \E x \in Locals, v \in ArgValues : Change(x, v)

-----------------------------------------------------------------------------
(* What is checked.                                                         *)

Lists(n) == [1..n -> {Temporary(v) : v \in ArgValues}]

(* However the arguments are spread over calls, through whatever copies and *)
(* moves of Curries, and however often one Curry is used: called with the   *)
(* rest at once or in two parts, a Curry that was not moved from calls the  *)
(* function with what it was given, in order, and a variable with the value *)
(* it has by then.                                                          *)
AppliedAsGiven ==
  \A c \in DOMAIN given : \A rest \in Lists(Arity - Len(given[c])) :
    LET expected == [k \in 1..Arity |-> ValueOf((given[c] \o rest)[k])]
    IN \A k \in 0..Len(rest) :
         Applied(Supplied(args_[c], SubSeq(rest, 1, k)), SubSeq(rest, k + 1, Len(rest)))
           = expected

=============================================================================
