------------------------- MODULE DynamicSquareMatrix -------------------------
(***************************************************************************)
(* tpp::DynamicSquareMatrix (include/toypp/dynamic_square_matrix.hpp): the  *)
(* cells are kept in one vector, ordered by the larger of row and column,   *)
(* so that a matrix is a prefix of any larger one.                          *)
(***************************************************************************)
EXTENDS Naturals

CONSTANTS
  CellValues,
  CellDefault,  (* T()                                                      *)
  Moved,        (* what std::move leaves behind                             *)
  MaxSize       (* bound: the largest size                                  *)

ASSUME SquareAssumption ==
  /\ CellDefault \in CellValues
  /\ Moved \notin CellValues
  /\ MaxSize \in Nat

VARIABLES vec_, size_   (* vec_ is a function on 0..(its size - 1)          *)

squareVars == <<vec_, size_>>

Cells(n) == {i \in 0..(MaxSize * MaxSize) : i < n}

SquareInit == vec_ = [k \in {} |-> CellDefault] /\ size_ = 0

Larger(n, m) == IF n > m THEN n ELSE m

(* A plausible bug: the row's part and the column's part overlap.           *)
index_OnDiagonal(n, m) ==
  LET max == Larger(n, m)
  IN max * max + (IF max = m THEN m ELSE 0) + n

index(n, m) ==
  LET max == Larger(n, m)
  IN max * max + (IF max = n THEN m ELSE 0) + n

(* The whole part of std::sqrt.                                             *)
Root(k) == CHOOSE n \in 0..k : n * n <= k /\ k < (n + 1) * (n + 1)

(* h is whether the cell is in the row and not in the column of its number. *)
reverse_index(k) ==
  LET n == Root(k)
      rem == k - n * n
      h == (rem + 1) \div (n + 1) # 0
  IN IF h THEN <<n, rem - n>> ELSE <<rem, n>>

(* std::vector::resize(n * n, value) of a vector.                           *)
ResizedTo(vec, n, v) == [k \in Cells(n * n) |-> IF k \in DOMAIN vec THEN vec[k] ELSE v]

(* resize, and add_rowcol, which resizes to size() + count.                 *)
Resize(n, v) ==
  /\ vec_' = ResizedTo(vec_, n, v)
  /\ size_' = n

(* An assignment to at(n, m).                                               *)
Assign(n, m, v) ==
  /\ vec_' = [vec_ EXCEPT ![index(n, m)] = v]
  /\ UNCHANGED size_

Flag(condition) == IF condition THEN 1 ELSE 0

(* A plausible bug: only the cell in the row is left out.                   *)
PopTurn_SkipsRowOnly(s, d, x) ==
  LET n == s.n + Flag(d >= s.n * s.n)
      next == s.src + 1
      src == next + Flag(next = n * n + n + x)
  IN [n |-> n, src |-> src,
      vec |-> [s.vec EXCEPT ![d] = s.vec[src], ![src] = Moved]]

(* One turn of the loop of pop_rowcol(x): the next cell that is not in the  *)
(* row or the column x moves to the place d.                                *)
PopTurn(s, d, x) ==
  LET n == s.n + Flag(d >= s.n * s.n)
      next == s.src + 1
      src == next + Flag(next = n * n + x \/ next = n * n + n + x)
  IN [n |-> n, src |-> src,
      vec |-> [s.vec EXCEPT ![d] = s.vec[src], ![src] = Moved]]

PoppedRowcol(vec, size, x) ==
  LET base == x * x
      end == size * size - ((2 * x + 1) + 2 * (size - (x + 1)))
      start == [n |-> x, src |-> (x + 1) * (x + 1) - 1 + Flag(x = 0), vec |-> vec]
      loop[d \in base..end] == IF d = base THEN start ELSE PopTurn(loop[d - 1], d - 1, x)
  IN ResizedTo(loop[end].vec, size - 1, CellDefault)

PopRowcol(x) ==
  /\ vec_' = PoppedRowcol(vec_, size_, x)
  /\ size_' = size_ - 1

Below(n) == {i \in 0..MaxSize : i < n}

SquareNext ==
  \/ \E n \in 0..MaxSize, v \in CellValues : Resize(n, v)
  \/ \E n, m \in Below(size_), v \in CellValues : Assign(n, m, v)
  \/ \E x \in Below(size_) : PopRowcol(x)

-----------------------------------------------------------------------------
(* What is checked.                                                         *)

(* index and reverse_index are inverse to each other, for every cell there  *)
(* is, and no cell holds what a move left behind.                           *)
LayoutExact ==
  /\ DOMAIN vec_ = Cells(size_ * size_)
  /\ \A n, m \in Below(size_) :
       index(n, m) \in DOMAIN vec_ /\ reverse_index(index(n, m)) = <<n, m>>
  /\ \A k \in DOMAIN vec_ :
       /\ index(reverse_index(k)[1], reverse_index(k)[2]) = k
       /\ vec_[k] \in CellValues

(* What the vector shows as a matrix of the size n.                         *)
AsMatrix(vec, n) == [p \in Below(n) \X Below(n) |-> vec[index(p[1], p[2])]]

(* Growing and shrinking keep every cell there still is, and pop_rowcol(x)  *)
(* loses the row and the column x and keeps every other cell, those after x *)
(* one row and one column nearer to the start.                              *)
CellsKept ==
  LET matrix == AsMatrix(vec_, size_)
      Before(i, x) == i + Flag(i >= x)
  IN /\ \A n \in 0..MaxSize, v \in CellValues :
          AsMatrix(ResizedTo(vec_, n, v), n) =
            [p \in Below(n) \X Below(n) |-> IF p \in DOMAIN matrix THEN matrix[p] ELSE v]
     /\ \A x \in Below(size_) :
          AsMatrix(PoppedRowcol(vec_, size_, x), size_ - 1) =
            [p \in Below(size_ - 1) \X Below(size_ - 1) |->
               matrix[<<Before(p[1], x), Before(p[2], x)>>]]

(* The two together: every cell keeps its value at its new place through    *)
(* any sequence of resize, add_rowcol and pop_rowcol.                       *)
SquareIntact == LayoutExact /\ CellsKept

=============================================================================
