----------------------------- MODULE IfjSemantic -----------------------------
(* The interpreter of IFJ12 (semantic.c, ial.c, str.c).  The machine m is the functions g,   *)
(* the variables l of the function that runs, the strings on the heap, to which values       *)
(* point, what is printed and to be read, the last value v, and the error.  A value is its     *)
(* type and n: the number, 1 for true, or the place of a string on the heap.  Numbers are      *)
(* whole, or the one that is none (NaN, a type of its own here), and loops are cut after        *)
(* MaxTurns turns.  "endless" and "wild" are no errors of the program: it does not end, or        *)
(* what it does is undefined.                                                                      *)
EXTENDS IfjExpr, Integers, TLC

MaxTurns == 40

Value(t, n) == [t |-> t, n |-> n]
Nil == Value("NIL", 0)
Num(n) == Value("NUMERIC", n)
NaN == Value("NAN", 0)
Type(x) == IF x = NaN THEN "NUMERIC" ELSE x.t
Bool(b) == Value("BOOLEAN", IF b THEN 1 ELSE 0)
Str(p) == Value("STRING", p)
Both(x, y, t) == Type(x) = t /\ Type(y) = t
Unless(x, y, v) == IF NaN \in {x, y} THEN NaN ELSE v

Err(m, why) == [m EXCEPT !.err = why]
Return(m, v) == [m EXCEPT !.v = v]
NewString(m, s) == [m EXCEPT !.heap = Append(@, s), !.v = Str(Len(m.heap) + 1)]
Text(m, v) == m.heap[v.n]

(* Strings: strcmp, strstr, the sort by characters, and repetition. *)
Alphabet == " 0123456789abcdefghijklmnopqrstuvwxyz"
Char(s, q) == SubSeq(s, q, q)
Code(c) == CHOOSE q \in 1..Len(Alphabet) : Char(Alphabet, q) = c
Less(s, t) ==
    \E q \in 1..Len(t) : /\ q <= Len(s) + 1 /\ SubSeq(s, 1, q - 1) = SubSeq(t, 1, q - 1)
                         /\ q <= Len(s) => Code(Char(s, q)) < Code(Char(t, q))
Found(s, t) == {q \in 0..(Len(s) - Len(t)) : SubSeq(s, q + 1, q + Len(t)) = t}
Find(s, t) == IF Found(s, t) = {} THEN -1 ELSE CHOOSE q \in Found(s, t) : \A r \in Found(s, t) : q <= r
RECURSIVE Repeat(_, _), Sorted(_, _)
Repeat(s, n) == IF n = 0 THEN "" ELSE s \o Repeat(s, n - 1)
Sorted(s, from) ==
    IF from > Len(Alphabet) THEN ""
    ELSE LET c == Char(Alphabet, from)
         IN Repeat(c, Len(SelectSeq([q \in 1..Len(s) |-> Char(s, q)], LAMBDA x : x = c)))
            \o Sorted(s, from + 1)

(* strtod of a number without a fraction. *)
RECURSIVE Whole(_, _)
Whole(s, n) ==
    IF s = "" \/ Find("0123456789", Char(s, 1)) < 0 THEN n
    ELSE Whole(SubSeq(s, 2, Len(s)), 10 * n + Find("0123456789", Char(s, 1)))
IsNumber(s) == s # "" /\ Find("0123456789", Char(s, 1)) >= 0
Numeric(s) ==
    LET e == Find(s, "e")
        signed == Char(s, e + 2) \in {"+", "-"}
        scale == 10 ^ Whole(SubSeq(s, IF signed THEN e + 3 ELSE e + 2, Len(s)), 0)
    IN IF e < 0 THEN Whole(s, 0)
       ELSE IF Char(s, e + 2) = "-" THEN Whole(s, 0) \div scale ELSE Whole(s, 0) * scale

Show(m, v) ==
    CASE v.t = "NIL"     -> "Nil"
      [] v.t = "BOOLEAN" -> IF v.n = 1 THEN "true" ELSE "false"
      [] v.t = "NUMERIC" -> ToString(v.n)
      [] v.t = "NAN"     -> "nan"
      [] v.t = "STRING"  -> Text(m, v)
TypeOf(v) ==
    CASE v.t = "NIL" -> 0 [] v.t = "BOOLEAN" -> 1 [] Type(v) = "NUMERIC" -> 3 [] v.t = "STRING" -> 8

Sum(m, x, y) ==
    IF Both(x, y, "NUMERIC") THEN Return(m, Unless(x, y, Num(x.n + y.n)))
    ELSE IF x.t = "STRING" THEN NewString(m, Text(m, x) \o Show(m, y))
    ELSE Err(m, "type")
Mult(m, x, y) ==
    IF Both(x, y, "NUMERIC") THEN Return(m, Unless(x, y, Num(x.n * y.n)))
    ELSE IF x.t = "STRING" /\ Type(y) = "NUMERIC"
         THEN IF y.n < 0 THEN Err(m, "memory") ELSE NewString(m, Repeat(Text(m, x), y.n))
    ELSE Err(m, "type")
Arithmetic(m, op, x, y) ==
    IF ~Both(x, y, "NUMERIC") THEN Err(m, "type")
    ELSE CASE op = "-"  -> Return(m, Unless(x, y, Num(x.n - y.n)))
           [] op = "**" -> Return(m, IF y = Num(0) \/ x = Num(1) THEN Num(1)
                                     ELSE Unless(x, y, Num(x.n ^ y.n)))
           [] op = "/"  -> IF NaN \in {x, y} \/ (x.n = 0 /\ y.n = 0) THEN Return(m, NaN)
                           ELSE IF y.n = 0 THEN Err(m, "zero") ELSE Return(m, Num(x.n \div y.n))
Logic(m, op, x, y) ==
    IF ~Both(x, y, "BOOLEAN") THEN Err(m, "type")
    ELSE Return(m, Value("BOOLEAN", IF op = "and" THEN x.n * y.n ELSE x.n + y.n - x.n * y.n))
Within(m, op, x, y) ==
    IF ~Both(x, y, "STRING") THEN Err(m, "type")
    ELSE Return(m, Bool((op = "in") = (Find(Text(m, y), Text(m, x)) >= 0)))
(* Neither less nor greater is equal, so NaN is equal to every number. *)
Equal(m, x, y) ==
    /\ Type(x) = Type(y)
    /\ IF x.t = "STRING" THEN Text(m, x) = Text(m, y) ELSE NaN \in {x, y} \/ x.n = y.n
Relation(m, op, x, y) ==
    IF ~Both(x, y, "NUMERIC") /\ ~Both(x, y, "STRING") THEN Err(m, "type")
    ELSE LET less(p, q) == IF x.t = "NUMERIC" THEN p.n < q.n ELSE Less(Text(m, p), Text(m, q))
         IN Return(m, Bool(/\ NaN \notin {x, y}
                           /\ CASE op = "<" -> less(x, y) [] op = ">" -> less(y, x)
                                [] op = "<=" -> ~less(y, x) [] op = ">=" -> ~less(x, y)))
Binop(m, op, x, y) ==
    CASE op = "+" -> Sum(m, x, y)
      [] op = "*" -> Mult(m, x, y)
      [] op \in {"-", "/", "**"} -> Arithmetic(m, op, x, y)
      [] op \in {"and", "or"} -> Logic(m, op, x, y)
      [] op \in {"in", "notin"} -> Within(m, op, x, y)
      [] op \in {"==", "!="} -> Return(m, Bool((op = "==") = Equal(m, x, y)))
      [] op \in {"<", "<=", ">", ">="} -> Relation(m, op, x, y)

(* str[from:to]; when to is before from the string is empty. *)
Substr(m, x, from, to) ==
    IF x.t # "STRING" THEN Err(m, "substring")
    ELSE LET s == Text(m, x)
             Part(a, b) == IF b < a THEN "" ELSE SubSeq(s, a + 1, IF b > Len(s) THEN Len(s) ELSE b)
         IN NewString(m, Part(IF from = "" THEN 0 ELSE Numeric(from),
                              IF to = "" THEN Len(s) ELSE Numeric(to)))

Search(tbl, name) == name \in DOMAIN tbl
Insert(tbl, name, x) == (name :> x) @@ tbl
Builtins == {"input", "numeric", "print", "typeOf", "len", "find", "sort"}
Globals == [f \in Builtins \union {"_main"} |-> [params |-> <<>>, body |-> <<>>]]
NotReserved(name) == name \notin Builtins \union {"_main"}

RECURSIVE Eval(_, _), EvalEach(_, _, _), PrintAll(_, _), Bind(_, _, _, _), Interpret(_, _), While(_, _)
(* The arguments from the first on, as long as there is no error; vs are their values. *)
EvalEach(m, es, vs) ==
    IF es = <<>> \/ m.err # "ok" THEN [m |-> m, vs |-> vs]
    ELSE LET Then(x) == EvalEach(x, Tail(es), Append(vs, x.v)) IN Then(Eval(m, Head(es)))

Builtin(m, name, vs) ==
    CASE name = "typeOf" -> Return(m, Num(IF vs = <<>> THEN 0 ELSE TypeOf(vs[1])))
      [] name = "numeric" ->
           IF vs = <<>> \/ Type(vs[1]) \notin {"NUMERIC", "STRING"} THEN Err(m, "cast")
           ELSE IF Type(vs[1]) = "NUMERIC" THEN Return(m, vs[1])
           ELSE IF IsNumber(Text(m, vs[1])) THEN Return(m, Num(Numeric(Text(m, vs[1]))))
           ELSE Err(m, "cast")
      [] name = "input" -> IF m.in = <<>> THEN Err(m, "endless")
                           ELSE NewString([m EXCEPT !.in = Tail(@)], Head(m.in))
      [] name = "sort" ->
           IF vs = <<>> \/ vs[1].t # "STRING" THEN Err(m, "type")
           ELSE Return([m EXCEPT !.heap[vs[1].n] = Sorted(@, 1)], vs[1])
      [] name = "find" ->
           IF Len(vs) < 2 \/ {vs[1].t, vs[2].t} \intersect {"STRING"} = {} THEN Err(m, "type")
           ELSE IF ~Both(vs[1], vs[2], "STRING") THEN Err(m, "wild")
           ELSE Return(m, Num(Find(Text(m, vs[1]), Text(m, vs[2]))))
      [] name = "len" -> Return(m, Num(IF vs = <<>> \/ vs[1].t # "STRING" THEN 0 ELSE Len(Text(m, vs[1]))))
(* How many of the arguments a builtin looks at. *)
Looked(name, args) == CASE name = "input" -> <<>>
                        [] name = "find" -> IF Len(args) < 2 THEN <<>> ELSE SubSeq(args, 1, 2)
                        [] name \in {"typeOf", "numeric", "len", "sort"} -> SubSeq(args, 1, IF args = <<>> THEN 0 ELSE 1)

(* The parameters of a function, each evaluated in the frame of the caller; without an argument nil. *)
(* Of an argument too many the loop never gets rid.                                                    *)
Bind(m, params, args, frame) ==
    IF m.err # "ok" THEN [m |-> m, frame |-> frame]
    ELSE IF params = <<>> THEN [m |-> IF args = <<>> THEN m ELSE Err(m, "endless"), frame |-> frame]
    ELSE LET Then(x) == Bind(x, Tail(params), IF args = <<>> THEN args ELSE Tail(args),
                             Insert(frame, Head(params), x.v))
         IN Then(IF args = <<>> THEN Return(m, Nil) ELSE Eval(m, Head(args)))
\* Mutant of CallFunction: the variables of the caller are not put back.
CallFunctionShared(m, f, args) ==
    LET Back(x) == [x EXCEPT !.v = x.l["return"]]
        Run(b) == IF b.m.err # "ok" THEN b.m ELSE Back(Interpret([b.m EXCEPT !.l = b.frame @@ m.l], f.body))
    IN Run(Bind(m, f.params, args, "return" :> Nil))
CallFunction(m, f, args) ==
    LET Back(x) == [x EXCEPT !.l = m.l, !.v = x.l["return"]]
        Run(b) == IF b.m.err # "ok" THEN b.m ELSE Back(Interpret([b.m EXCEPT !.l = b.frame], f.body))
    IN Run(Bind(m, f.params, args, "return" :> Nil))
(* What was printed before an argument fails stays so. *)
PrintAll(m, args) ==
    IF args = <<>> THEN Return(m, Nil)
    ELSE LET Then(x) == IF x.err # "ok" THEN x
                        ELSE PrintAll([x EXCEPT !.out = Append(@, Show(x, x.v))], Tail(args))
         IN Then(Eval(m, Head(args)))
CallBuiltin(m, name, args) ==
    IF name = "print" THEN PrintAll(m, args)
    ELSE IF name = "typeOf" /\ args # <<>> /\ args[1].op = "ID" /\ Search(m.g, args[1].v)
    THEN Return(m, Num(6))
    ELSE LET Then(x) == IF x.m.err # "ok" THEN x.m ELSE Builtin(x.m, name, x.vs)
         IN Then(EvalEach(m, Looked(name, args), <<>>))

Eval(m, e) ==
    CASE e.op = "NUM"  -> IF IsNumber(e.v) THEN Return(m, Num(Numeric(e.v))) ELSE Err(m, "cast")
      [] e.op = "STR"  -> NewString(m, e.v)
      [] e.op = "BOOL" -> Return(m, Bool(e.v = "true"))
      [] e.op = "NIL"  -> Return(m, Nil)
      [] e.op = "ID"   -> IF Search(m.l, e.v) THEN Return(m, m.l[e.v]) ELSE Err(m, "variable")
      [] e.op = "call" ->
           IF ~Search(m.g, e.v) THEN Err(m, "function")
           ELSE IF e.v \in Builtins THEN CallBuiltin(m, e.v, e.args)
           ELSE CallFunction(m, m.g[e.v], e.args)
      [] e.op = "substr" ->
           LET Then(x) == IF x.err # "ok" THEN x ELSE Substr(x, x.v, e.args[2].v, e.args[3].v)
           IN Then(Eval(m, e.args[1]))
      [] e.op \notin {"NUM", "STR", "BOOL", "NIL", "ID", "call", "substr"} ->
           LET Signed(n, a, vs) ==
                   CASE e.op = "neg" -> IF Type(a) # "NUMERIC" THEN Err(n, "type")
                                        ELSE Return(n, Unless(a, a, Num(-a.n)))
                     [] e.op = "not" -> IF a.t # "BOOLEAN" THEN Err(n, "type") ELSE Return(n, Bool(a.n = 0))
                     [] e.op \notin {"neg", "not"} -> Binop(n, e.op, a, vs[2])
               Then(x) == IF x.m.err # "ok" THEN x.m ELSE Signed(x.m, x.vs[1], x.vs)
           IN Then(EvalEach(m, e.args, <<>>))

(* The variable is made before its value is: it is nil while the expression is evaluated. *)
Assign(m, s) ==
    IF ~NotReserved(s.name) THEN Err(m, "reserved")
    ELSE IF Search(m.g, s.name) THEN Err(m, "redefined")
    ELSE LET made == IF Search(m.l, s.name) THEN m ELSE [m EXCEPT !.l = Insert(@, s.name, Nil)]
             Then(x) == IF x.err # "ok" THEN x ELSE [x EXCEPT !.l[s.name] = x.v]
         IN Then(Eval(made, s.e))
Define(m, s) ==
    IF ~NotReserved(s.name) THEN Err(m, "reserved")
    ELSE IF Search(m.g, s.name) THEN Err(m, "redefined")
    ELSE [m EXCEPT !.g = Insert(@, s.name, [params |-> s.params, body |-> s.body])]
Branch(m, s) ==
    LET Then(x) == IF x.err # "ok" THEN x
                   ELSE IF x.v.t # "BOOLEAN" THEN Err(x, "type")
                   ELSE Interpret(x, IF x.v.n = 1 THEN s.body ELSE s.other)
    IN Then(Eval(m, s.e))
(* while, and loop, whose condition is asked for before its turn as well. *)
While(m, s) ==
    LET Again(x, y) == IF y.err # "ok" \/ x.v.n = 0 THEN y ELSE While(y, s)
        Then(x) == IF x.err # "ok" THEN x
                   ELSE IF x.v.t # "BOOLEAN" THEN Err(x, "type")
                   ELSE IF s.kind = "while" /\ x.v.n = 0 THEN x
                   ELSE Again(x, Interpret([x EXCEPT !.left = @ - 1], s.body))
    IN IF m.left = 0 THEN Err(m, "endless") ELSE Then(Eval(m, s.e))
ReturnStmt(m, s) ==
    IF ~Search(m.l, "return") THEN Err(m, "variable")
    ELSE LET Then(x) == IF x.err # "ok" THEN x ELSE [x EXCEPT !.l["return"] = x.v]
         IN Then(Eval(m, s.e))
Execute(m, s) ==
    CASE s.kind = "assign"   -> Assign(m, s)
      [] s.kind = "function" -> Define(m, s)
      [] s.kind = "branch"   -> Branch(m, s)
      [] s.kind \in {"while", "loop"} -> While(m, s)
      [] s.kind = "return"   -> ReturnStmt(m, s)
(* A return ends its list of statements, and not the lists around it. *)
Interpret(m, stmts) ==
    IF stmts = <<>> \/ m.err # "ok" THEN m
    ELSE LET Then(x) == IF Head(stmts).kind = "return" THEN x ELSE Interpret(x, Tail(stmts))
         IN Then(Execute(m, Head(stmts)))

Start(in) == [g |-> Globals, l |-> <<>>, heap |-> <<>>, out |-> <<>>, in |-> in, v |-> Nil,
              err |-> "ok", left |-> MaxTurns]
(* main: what the program ends with. *)
ExitCode(err) ==
    CASE err = "ok" -> 0 [] err = "lexical" -> 1 [] err = "syntax" -> 2 [] err = "variable" -> 3
      [] err = "function" -> 4 [] err \in {"reserved", "substring"} -> 5 [] err = "zero" -> 10
      [] err = "type" -> 11 [] err = "cast" -> 12 [] err = "redefined" -> 13 [] err = "memory" -> 99
=============================================================================
