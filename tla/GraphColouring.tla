--------------------------- MODULE GraphColouring ---------------------------
(* The colouring of a graph (graph.c, matrix.c, vertex.c, ial11.c): two vertices *)
(* that are not neighbours become one, until every two are neighbours; each then    *)
(* stands for the vertices of one colour.  The matrix is its upper triangle, row     *)
(* after row, in an array that keeps its length.                                       *)
EXTENDS Integers, Sequences, SequencesExt, FiniteSets

CONSTANT Sizes      \* numbers of vertices

VARIABLES edges,    \* the graph that was read
          g

vars == <<edges, g>>

matrix_count(n) == ((n * n) \div 2) - (n \div 2)
matrix_at(n, row, col) ==
    LET x == IF row < col THEN col ELSE row
        y == IF row < col THEN row ELSE col
    IN y * n + x - (((y + 1) * (y + 2)) \div 2)
matrix_get(mx, row, col) == row # col /\ mx.m[matrix_at(mx.vertices, row, col)]
matrix_set(mx, row, col, value) ==
    IF row = col THEN mx ELSE [mx EXCEPT !.m[matrix_at(mx.vertices, row, col)] = value]

(* lhs gets the neighbours of rhs too, vertex by vertex.                              *)
matrix_join(mx, lhs, rhs) ==
    LET x[i \in 0 .. mx.vertices] ==
          IF i = 0 THEN mx
          ELSE LET y == x[i - 1]
               IN matrix_set(y, lhs, i - 1, matrix_get(y, lhs, i - 1) \/ matrix_get(y, rhs, i - 1))
    IN x[mx.vertices]

memmove(m, dst, src, len) ==
    [q \in DOMAIN m |-> IF q \in dst .. dst + len - 1 THEN m[q + src - dst] ELSE m[q]]

(* The places of a vertex's row and column, which are closed up from the first to the     *)
(* last.  Of two vertices the second cannot be deleted: the count of moves goes below zero. *)
Places(n, vertex) == [i \in 0 .. n - 2 |-> IF i < vertex THEN matrix_at(n, i, vertex)
                                           ELSE matrix_at(n, vertex, i + 1)]
Moves(n, vertex) == IF vertex = 0 THEN 0 ELSE IF vertex + 1 = n THEN vertex - 2 ELSE vertex
Deletable(mx, vertex) == Moves(mx.vertices, vertex) >= 0
(* Mutant of matrix_delete: the moves do not count the places closed up before.            *)
MatrixDeleteUnshifted(mx, vertex) ==
    LET n == mx.vertices
        at == Places(n, vertex)
        moves == Moves(n, vertex)
        m[i \in 0 .. moves] ==
          IF i = 0 THEN mx.m ELSE memmove(m[i - 1], at[i - 1], at[i - 1] + 1, at[i] - at[i - 1] - 1)
    IN [m |-> m[moves], vertices |-> n - 1]
matrix_delete(mx, vertex) ==
    LET n == mx.vertices
        at == Places(n, vertex)
        moves == Moves(n, vertex)
        m[i \in 0 .. moves] ==
          IF i = 0 THEN mx.m
          ELSE memmove(m[i - 1], at[i - 1] - (i - 1), at[i - 1] + 1, at[i] - at[i - 1] - 1)
        dst == IF moves = 0 THEN 0 ELSE at[moves] - moves
    IN [vertices |-> n - 1,
        m |-> IF vertex + 1 = n THEN m[moves]
              ELSE memmove(m[moves], dst, at[n - 2] + 1, matrix_count(n) - at[n - 2] - 1)]

-----------------------------------------------------------------------------
Pairs(n) == {p \in (0 .. n - 1) \X (0 .. n - 1) : p[1] < p[2]}

Init ==
    \E n \in Sizes : \E es \in SUBSET Pairs(n) :
        /\ edges = es
        /\ g = [state |-> "joins",
                vertices |-> [v \in 1..n |-> <<v - 1>>],
                matrix |-> [vertices |-> n,
                            m |-> [q \in 0 .. matrix_count(n) - 1 |->
                                      \E e \in es : matrix_at(n, e[1], e[2]) = q]]]

(* The first two that are not neighbours, in the order of the array.                      *)
non_neighbour_vertices ==
    {p \in Pairs(Len(g.vertices)) :
        ~g.matrix.m[matrix_at(Len(g.vertices), p[1], p[2])]}
Before(p, q) == p[1] < q[1] \/ (p[1] = q[1] /\ p[2] <= q[2])

(* The second is put before the list of the first, and its place closed up: what it          *)
(* had after itself is lost.                                                                   *)
vertex_join(to, from) == <<to[1]>> \o from

Join ==
    /\ g.state = "joins"
    /\ \E p \in non_neighbour_vertices :
        /\ \A q \in non_neighbour_vertices : Before(p, q)
        /\ LET joined == matrix_join(g.matrix, p[1], p[2])
               list == vertex_join(g.vertices[p[2] + 1], g.vertices[p[1] + 1])
           IN g' = IF Deletable(joined, p[2])
                   THEN [g EXCEPT !.matrix = matrix_delete(joined, p[2]),
                                  !.vertices = RemoveAt([@ EXCEPT ![p[1] + 1] = list], p[2] + 1)]
                   ELSE [g EXCEPT !.state = "crashed"]
    /\ UNCHANGED edges

Complete ==
    /\ g.state = "joins"
    /\ non_neighbour_vertices = {}
    /\ g' = [g EXCEPT !.state = "printed"]
    /\ UNCHANGED edges

Next == Join \/ Complete
Spec == Init /\ [][Next]_vars

-----------------------------------------------------------------------------
(* Every vertex has one colour, neighbours have two, and no two colours could be one;       *)
(* only a graph without an edge is not coloured (ial_graph_complete, ial_matrix_delete).        *)
Apart(a, b) == <<a, b>> \in edges \/ <<b, a>> \in edges
Colour(k) == ToSet(g.vertices[k])
OneColour ==
    /\ \A k, l \in DOMAIN g.vertices :
         \A i \in DOMAIN g.vertices[k], j \in DOMAIN g.vertices[l] :
            g.vertices[k][i] = g.vertices[l][j] => k = l /\ i = j
    /\ \A e \in edges : ToSet(e) \subseteq UNION {Colour(k) : k \in DOMAIN g.vertices}
Coloured ==
    /\ g.state = "printed" =>
         /\ OneColour
         /\ \A k \in DOMAIN g.vertices :
              /\ \A a, b \in Colour(k) : ~Apart(a, b)
              /\ \A l \in 1 .. k - 1 : \E a \in Colour(k), b \in Colour(l) : Apart(a, b)
    /\ g.state = "crashed" => edges = {}
=============================================================================
