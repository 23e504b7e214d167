-------------------------- MODULE MatrixOperations --------------------------
(* Operations on vectors and matrices that are read from files (proj3.c, *)
(* proj3io.c, proj3matrix.c, proj3vector.c): sums, products, the search for a *)
(* word in eight directions, and the number of bubbles, which are the connected *)
(* zeros.  A file is the numbers that can be read from it, so one that is missing *)
(* has none. *)
EXTENDS Integers, Sequences, FiniteSets, SequencesExt

CONSTANTS Files,            \* file names to their numbers
          Commands          \* argument lists

VARIABLES args, s

vars == <<args, s>>

(* The option, the number of its arguments and what it reads from its files. *)
FMT_VECTOR == 1
FMT_MATRIX == 2
FMT_VECTOR_OF_MATRICES == 3
Options ==
    [h |-> <<>>, test |-> <<0>>,
     vadd |-> <<FMT_VECTOR, FMT_VECTOR>>, vscal |-> <<FMT_VECTOR, FMT_VECTOR>>,
     mmult |-> <<FMT_MATRIX, FMT_MATRIX>>, mexpr |-> <<FMT_MATRIX, FMT_MATRIX>>,
     eight |-> <<FMT_VECTOR, FMT_MATRIX>>, bubbles |-> <<FMT_MATRIX>>,
     extbubbles |-> <<0>>, maze |-> <<0>>, carom |-> <<0, 0, 0, 0>>]
NotImplemented == {"extbubbles", "maze", "carom"}

-----------------------------------------------------------------------------
(* A vector has one dimension, a matrix two and a vector of matrices three; the items *)
(* lie row after row. *)
Product(dims) == FoldLeft(LAMBDA p, n : p * n, 1, dims)
Readable(f, fmt) ==
    /\ Len(f) > fmt /\ f[1] = fmt
    /\ LET dims == SubSeq(f, 2, fmt + 1)
       IN (\A n \in DOMAIN dims : dims[n] > 0) /\ Len(f) >= 1 + fmt + Product(dims)
Read(f, fmt) ==
    LET dims == SubSeq(f, 2, fmt + 1)
    IN [dims |-> dims, items |-> SubSeq(f, fmt + 2, 1 + fmt + Product(dims))]
Printed(x) == <<Len(x.dims)>> \o x.dims \o x.items

rows(mat) == mat.dims[1]
cols(mat) == mat.dims[2]
count(vect) == vect.dims[1]
getitem(mat, row, col) == mat.items[row * cols(mat) + col + 1]

SumTo(n, Term(_)) == FoldLeft(LAMBDA acc, q : acc + Term(q), 0, [q \in 1..n |-> q])
vector_add(v, w) == [v EXCEPT !.items = [n \in 1..count(v) |-> v.items[n] + w.items[n]]]
vector_scalar_mult(v, w) == SumTo(count(v), LAMBDA n : v.items[n] * w.items[n])
matrix_mult(lhs, rhs) ==
    LET at(i, j) == SumTo(cols(lhs),
            LAMBDA q : lhs.items[i * cols(lhs) + q] * rhs.items[j + 1 + (q - 1) * cols(rhs)])
    IN [dims |-> <<rows(lhs), cols(rhs)>>,
        items |-> [n \in 1 .. rows(lhs) * cols(rhs) |->
                      at((n - 1) \div cols(rhs), (n - 1) % cols(rhs))]]

(* A direction is a step down and a step right.  The word has to fit before it is read. *)
Fits(x, step, n, size) ==
    CASE step = 1 -> x + n <= size
      [] step = -1 -> x + 1 >= n
      [] OTHER -> TRUE
eight_check(mat, vect, row, col, dir) ==
    /\ Fits(row, dir[1], count(vect), rows(mat)) /\ Fits(col, dir[2], count(vect), cols(mat))
    /\ \A n \in 0 .. count(vect) - 1 :
         getitem(mat, row + n * dir[1], col + n * dir[2]) = vect.items[n + 1]
eight(mat, vect) ==
    \E row \in 0 .. rows(mat) - 1, col \in 0 .. cols(mat) - 1 :
        \E dir \in ((-1..1) \X (-1..1)) \ {<<0, 0>>} : eight_check(mat, vect, row, col, dir)

-----------------------------------------------------------------------------
(* s.loaded is what was read, s.held the blocks that calloc gave and nobody freed yet, *)
(* s.out what was printed.  Any calloc may fail. *)
Init ==
    /\ args \in Commands
    /\ s = [at |-> "params", loaded |-> <<>>, held |-> {}, out |-> <<>>,
            pos |-> 0, found |-> 0, coords |-> <<>>, stack |-> <<>>]

option == IF args = <<>> THEN "h" ELSE args[1]
Reads == Options[option]
Ends(how, freed, printed) ==
    s' = [s EXCEPT !.at = how, !.held = @ \ freed, !.out = printed]
Noop(freed) == Ends("noop", freed, <<>>)

Params ==
    /\ s.at = "params"
    /\ s' = [s EXCEPT !.at = IF option \notin DOMAIN Options THEN "E_UNKNOWN_PARAM"
                             ELSE IF args # <<>> /\ Len(args) # 1 + Len(Reads) THEN "E_INVALID_PARAM"
                             ELSE IF option = "h" THEN "success"
                             ELSE IF option \in NotImplemented THEN "E_NOT_IMPLEMENTED"
                             ELSE IF option = "test" THEN "test" ELSE "load"]
    /\ UNCHANGED args

(* The file's first number says what is in it; what was read is printed and freed. *)
Test(calloc) ==
    /\ s.at = "test"
    /\ LET f == Files[args[2]]
           ok == f # <<>> /\ f[1] \in 1..3 /\ Readable(f, f[1]) /\ calloc
       IN IF ok THEN Ends("success", {}, Printed(Read(f, f[1]))) ELSE Ends("E_UNKNOWN_ERROR", {}, <<>>)
    /\ UNCHANGED args

(* vector_load and matrix_load, one file after the other.  When the second fails the first is freed; *)
(* the one that fails frees what it had itself. *)
Load(calloc) ==
    /\ s.at = "load"
    /\ LET n == Len(s.loaded) + 1
           f == Files[args[n + 1]]
       IN IF Readable(f, Reads[n]) /\ calloc
          THEN s' = [s EXCEPT !.loaded = Append(@, Read(f, Reads[n])), !.held = @ \union {n},
                              !.at = IF n = Len(Reads) THEN "compute" ELSE "load"]
          ELSE Ends("E_UNKNOWN_ERROR", 1 .. n - 1, <<>>)
    /\ UNCHANGED args

x1 == s.loaded[1]
x2 == s.loaded[2]
Computes(opt) == s.at = "compute" /\ option = opt /\ UNCHANGED args

Vadd(calloc) ==
    /\ Computes("vadd")
    /\ IF count(x1) # count(x2) THEN Noop({1, 2})
       ELSE IF ~calloc THEN Ends("E_UNKNOWN_ERROR", {1, 2}, <<>>)
       ELSE Ends("success", {1, 2}, Printed(vector_add(x1, x2)))

Vscal ==
    /\ Computes("vscal")
    /\ IF count(x1) # count(x2) THEN Noop({1, 2})
       ELSE Ends("success", {1, 2}, <<vector_scalar_mult(x1, x2)>>)

Mmult(calloc) ==
    /\ Computes("mmult")
    /\ IF cols(x1) # rows(x2) THEN Noop({1, 2})
       ELSE IF ~calloc THEN Ends("E_UNKNOWN_ERROR", {1, 2}, <<>>)
       ELSE Ends("success", {1, 2}, Printed(matrix_mult(x1, x2)))

(* The first product is kept as a third matrix, and multiplied by the first one again. *)
MexprAcu(calloc) ==
    /\ Computes("mexpr") /\ Len(s.loaded) = 2
    /\ IF cols(x1) # rows(x2) THEN Noop({1, 2})
       ELSE IF ~calloc THEN Ends("E_UNKNOWN_ERROR", {1, 2}, <<>>)
       ELSE s' = [s EXCEPT !.loaded = Append(@, matrix_mult(x1, x2)), !.held = @ \union {3}]

Mexpr(calloc) ==
    /\ Computes("mexpr") /\ Len(s.loaded) = 3
    /\ IF cols(s.loaded[3]) # rows(x1) THEN Noop({1, 2, 3})
       ELSE IF ~calloc THEN Ends("E_UNKNOWN_ERROR", {1, 2, 3}, <<>>)
       ELSE Ends("success", {1, 2, 3}, Printed(matrix_mult(s.loaded[3], x1)))

Eight ==
    /\ Computes("eight")
    /\ IF count(x1) > rows(x2) \/ count(x1) > cols(x2) THEN Ends("E_UNKNOWN_ERROR", {1, 2}, <<>>)
       ELSE Ends("success", {1, 2}, <<IF eight(x2, x1) THEN 1 ELSE 0>>)

-----------------------------------------------------------------------------
(* The bubbles.  coords is as long as there are items; a bubble is marked by a recursion, of *)
(* which the stack holds the cell and the directions not yet looked at. *)
Directions == <<<<0, 1>>, <<0, -1>>, <<-1, 0>>, <<1, 0>>>>
COORDS == 4
isMarked(cell) == cell \in ToSet(s.coords)
Inside(mat, cell) == cell[1] \in 0 .. rows(mat) - 1 /\ cell[2] \in 0 .. cols(mat) - 1

BubblesStart(calloc) ==
    /\ Computes("bubbles")
    /\ IF calloc THEN s' = [s EXCEPT !.at = "scan", !.held = @ \union {COORDS}]
       ELSE Ends("E_UNKNOWN_ERROR", {1}, <<>>)

(* bubbles_markNeighbor, entered. *)
markNeighbor(x, cell) ==
    [x EXCEPT !.coords = Append(@, cell), !.stack = <<[cell |-> cell, dir |-> 1]>> \o @]

(* The next item in the order of the rows. *)
Scan ==
    /\ s.at = "scan" /\ s.stack = <<>> /\ s.pos < rows(x1) * cols(x1)
    /\ LET cell == <<s.pos \div cols(x1), s.pos % cols(x1)>>
           item == getitem(x1, cell[1], cell[2])
           next == [s EXCEPT !.pos = @ + 1]
       IN IF item < 0 THEN Ends("E_UNKNOWN_ERROR", {1, COORDS}, <<>>)
          ELSE IF item = 0 /\ ~isMarked(cell)
          THEN s' = markNeighbor([next EXCEPT !.found = @ + 1], cell)
          ELSE s' = next
    /\ UNCHANGED args

(* bubbles_markNeighborDir, or the return from bubbles_markNeighbor. *)
MarkNeighborDir ==
    /\ s.stack # <<>>
    /\ LET top == Head(s.stack)
           on == [s EXCEPT !.stack[1].dir = @ + 1]
           cell == <<top.cell[1] + Directions[top.dir][1], top.cell[2] + Directions[top.dir][2]>>
       IN IF top.dir > Len(Directions) THEN s' = [s EXCEPT !.stack = Tail(@)]
          ELSE IF Inside(x1, cell) /\ getitem(x1, cell[1], cell[2]) = 0 /\ ~isMarked(cell)
          THEN s' = markNeighbor(on, cell)
          ELSE s' = on
    /\ UNCHANGED args

BubblesEnd ==
    /\ s.at = "scan" /\ s.stack = <<>> /\ s.pos = rows(x1) * cols(x1)
    /\ Ends("success", {1, COORDS}, <<s.found>>)
    /\ UNCHANGED args

Next ==
    \/ Params \/ Vscal \/ Eight \/ Scan \/ MarkNeighborDir \/ BubblesEnd
    \/ \E calloc \in BOOLEAN : \/ Test(calloc) \/ Load(calloc) \/ Vadd(calloc) \/ Mmult(calloc)
                               \/ MexprAcu(calloc) \/ Mexpr(calloc) \/ BubblesStart(calloc)
Spec == Init /\ [][Next]_vars

-----------------------------------------------------------------------------
Ended == s.at \notin {"params", "test", "load", "compute", "scan"}

(* Whichever block could not be had and whatever is wrong with a file, the blocks are *)
(* given back at the end, and the marked cells have room in coords (proj3.c, main and bubbles). *)
NothingLost ==
    /\ Ended => s.held = {}
    /\ s.at = "scan" => Len(s.coords) <= rows(x1) * cols(x1)

(* What the operations are, said without strides, scans and recursion. *)
Entry(a, i, j) == a.items[(i - 1) * cols(a) + j]
IsProduct(p, a, b) ==
    /\ p.dims = <<rows(a), cols(b)>>
    /\ \A i \in 1 .. rows(a), j \in 1 .. cols(b) :
         Entry(p, i, j) = SumTo(cols(a), LAMBDA q : Entry(a, i, q) * Entry(b, q, j))
Zeros == {c \in (0 .. rows(x1) - 1) \X (0 .. cols(x1) - 1) : getitem(x1, c[1], c[2]) = 0}
Beside(c) == {<<c[1] - 1, c[2]>>, <<c[1] + 1, c[2]>>, <<c[1], c[2] - 1>>, <<c[1], c[2] + 1>>}
Closed(b) == \A c \in b : Beside(c) \intersect Zeros \subseteq b
IsBubble(b) == b # {} /\ Closed(b) /\ \A part \in (SUBSET b) \ {{}, b} : ~Closed(part)
WordIsIn ==
    \E line \in [1 .. count(x1) -> (0 .. rows(x2) - 1) \X (0 .. cols(x2) - 1)] :
        /\ \E dir \in ((-1..1) \X (-1..1)) \ {<<0, 0>>} : \A n \in 2 .. count(x1) :
             line[n] = <<line[n - 1][1] + dir[1], line[n - 1][2] + dir[2]>>
        /\ \A n \in 1 .. count(x1) : getitem(x2, line[n][1], line[n][2]) = x1.items[n]

IsSum(v, a, b) ==
    v.dims = a.dims /\ \A n \in 1 .. count(a) : v.items[n] - b.items[n] = a.items[n]
IsScalarProduct(n, a, b) ==
    IsProduct([dims |-> <<1, 1>>, items |-> <<n>>],
              [a EXCEPT !.dims = <<1, count(a)>>], [b EXCEPT !.dims = <<count(b), 1>>])

(* What is printed is the sum of the vectors, their scalar product, which is that of a row and *)
(* a column, the product of the matrices, the number of the bubbles, and whether the word is in  *)
(* the matrix; what --test prints can be read again and is the same (proj3.c, proj3io.c).         *)
RightAnswers ==
    s.at = "success" =>
        CASE option = "test" ->
                 Readable(s.out, s.out[1]) /\ s.out = SubSeq(Files[args[2]], 1, Len(s.out))
          [] option = "vadd" -> IsSum(Read(s.out, FMT_VECTOR), x1, x2)
          [] option = "vscal" -> Len(s.out) = 1 /\ IsScalarProduct(s.out[1], x1, x2)
          [] option = "mmult" -> IsProduct(Read(s.out, FMT_MATRIX), x1, x2)
          [] option = "mexpr" -> /\ IsProduct(s.loaded[3], x1, x2)
                                 /\ IsProduct(Read(s.out, FMT_MATRIX), s.loaded[3], x1)
          [] option = "bubbles" -> s.out = <<Cardinality({b \in SUBSET Zeros : IsBubble(b)})>>
          [] option = "eight" -> s.out = <<IF WordIsIn THEN 1 ELSE 0>>
          [] option = "h" -> s.out = <<>>
=============================================================================
