----------------------------- MODULE IfjPrograms -----------------------------
(* Programs for the IFJ12 interpreter with what they mean: expressions written from trees,  *)
(* with their values, calls with more and with fewer arguments, programs of which it is       *)
(* known what they compute, and programs that are wrong.                                        *)
EXTENDS Ifj12, FiniteSets

RECURSIVE Lines(_)
Lines(ls) == IF ls = <<>> THEN "" ELSE Head(ls) \o "\n" \o Lines(Tail(ls))
Raw(source, exit, printed) ==
    [kind |-> "run", text |-> source, in |-> <<"cab">>, code |-> exit, out |-> printed]
Run(ls, exit, printed) == Raw(Lines(ls), exit, printed)
Wrong(source, exit) == Raw(source, exit, <<>>)
Real(n) == ToString(n) \o ".0"

Factorial[n \in 0..4] == IF n = 0 THEN 1 ELSE n * Factorial[n - 1]
Factorials ==
    {Run(<<"function fac(n)", "if n < 2.0", "return 1.0", "else", "t = fac(n - 1.0)", "return n * t",
           "end", "end", "x = print(fac(" \o Real(n) \o "))">>, 0, <<ToString(Factorial[n])>>) : n \in 0..4}

Divisors(x, y) == {q \in 1..x : x % q = 0 /\ y % q = 0}
Gcds ==
    {Run(<<"a = " \o Real(x) \o " // the first", "/* and", " the other */ b = " \o Real(y) \o "e0", "", " ",
           "while a != b", "if a > b", "a = a - b", "else", "b = b - a", "end", "end",
           "x = print(b == a, \" \\x31\", a)">>,
         0, <<"true", " 1", ToString(Highest(Divisors(x, y)))>>) : x \in {2, 4, 6}, y \in {3, 4}}

Part(p, q) == IF q <= p THEN "" ELSE SubSeq("abc", p + 1, IF q > 3 THEN 3 ELSE q)
Strings ==
    {Run(<<"a = input()", "b = sort(a)", "l = len(b)", "x = print(b, l)", "y = find(b, \"bc\")", "x = print(y)",
           "s = b[" \o Real(p) \o ":" \o Real(q) \o "]", "t = s * 2.0", "x = print(s + 1.0, t)",
           "z = typeOf(s)", "x = print(z)">>,
         0, <<"abc", "3", "1", Part(p, q) \o "1", Part(p, q) \o Part(p, q), "8">>) : p \in 0..4, q \in 0..4}

Others ==
    {Run(<<"i = 0.0", "loop", "i = i + 1.0", "end i < 3.0", "x = print(i / 2.0)">>, 0, <<"2">>),
     Run(<<"x = \"\\n\\t\\\"\\\\\"", "x = print(x)">>, 0, <<"\n\t\"\\">>),
     Run(<<"x = 2.0e+1 <= 20.5e-1 or nil == nil and not (1.0 >= 2.0)", "x = print(x, nil, -20.0e-1)">>, 2, <<>>),
     Run(<<"x = print(20.0e-1 >= 2.0e+1)">>, 0, <<"false">>),
     Run(<<"n = 0.0 / 0.0", "m = -(n - n ** 2.0) * 1.0", "x = print(typeOf(m))", "x = print(m < 1.0)",
           "x = print(1.0 >= n)", "x = print(n ** 0.0)">>, 0, <<"3", "false", "false", "1">>)}

Wrongs ==
    {Wrong("x = y\n", 3), Wrong("x = f(1.0)\n", 4), Wrong("x = 1.0 / 0.0\n", 10), Wrong("x = \"a\" - 1.0\n", 11),
     Wrong("x = numeric(true)\n", 12), Wrong("x = 1\n", 1), Wrong("x = 1.x\n", 1), Wrong("x = !1.0\n", 1),
     Wrong("x = 1.0 +\n", 2), Wrong("x = 1.0;\n", 1), Wrong("x = \"a\n", 1), Wrong("x = \"\\q\"\n", 1),
     Wrong("x = 1.0e+\n", 1), Wrong("x = 1e\n", 1), Wrong("x = \"\\xz\"\n", 1), Wrong("/* **/\n", 1), Wrong("/* *", 1),
     Wrong("print = 1.0\n", 5), Wrong("if true\nx = 2.0\n", 2), Wrong("while 1.0\nend\n", 11),
     Wrong("f = 1.0\nx = f[1.0:]\n", 5), Wrong("import\n", 2), Wrong("x = 1.0 // at the end", 2),
     Wrong("function f()\nend\nf = nil\n", 13), Wrong("return nil\n", 3), Wrong("x = \"a\" * -1.0\n", 99)}

-----------------------------------------------------------------------------
(* How a tree is written with no more parentheses than it needs: the operators of a level  *)
(* bind to the left, and those of one operand before all others.                              *)
Levels == <<{"or"}, {"and"}, {"==", "!="}, {"<", "<=", ">", ">=", "in", "notin"}, {"+", "-"},
            {"*", "/"}, {"**"}>>
LevelOf(e) == IF \E q \in 1..7 : e.op \in Levels[q] THEN CHOOSE q \in 1..7 : e.op \in Levels[q] ELSE 8
RECURSIVE Written(_, _), Joined(_)
Joined(es) == IF es = <<>> THEN ""
              ELSE Written(Head(es), 1) \o (IF Len(es) > 1 THEN ", " ELSE "") \o Joined(Tail(es))
Plain(e) ==
    CASE e.op \in {"ID", "NUM", "BOOL", "NIL"} -> e.v
      [] e.op = "STR" -> "\"" \o e.v \o "\""
      [] e.op = "call" -> e.v \o "(" \o Joined(e.args) \o ")"
      [] e.op = "substr" -> Written(e.args[1], 8) \o "[" \o e.args[2].v \o ":" \o e.args[3].v \o "]"
      [] e.op = "neg" -> "-" \o Written(e.args[1], 8)
      [] e.op = "not" -> "not " \o Written(e.args[1], 8)
      [] LevelOf(e) < 8 -> Written(e.args[1], LevelOf(e)) \o " " \o e.op \o " "
                           \o Written(e.args[2], LevelOf(e) + 1)
Written(e, level) == IF LevelOf(e) < level THEN "(" \o Plain(e) \o ")" ELSE Plain(e)

Operators == {"or", "and", "==", "<", "+", "-", "*", "**"}
Ida == Leaf("ID", "a")
One == Leaf("NUM", "1.0")
Small == {Node(o, <<Ida, One>>) : o \in Operators} \union {Node(o, <<Ida>>) : o \in {"neg", "not"}}
(* A function called with an argument that is a sum or a call, or with several. *)
Calls == {Call("f", args) : args \in {<<>>, <<Ida>>, <<Ida, One>>, <<Ida, One, Ida>>,
                                       <<Node("+", <<Ida, One>>)>>, <<Call("g", <<Ida>>)>>}}
Expressions ==
    Small \union Calls
    \union {Node(o, <<x, One>>) : o \in Operators, x \in Small \union Calls}
    \union {Node(o, <<Ida, x>>) : o \in Operators, x \in Small}
    \union {Node(o, <<x>>) : o \in {"neg", "not"}, x \in Small}
    \union {Node("substr", <<Ida, Leaf("NUM", b[1]), Leaf("NUM", b[2])>>) : b \in {<<"1.0", "">>, <<"", "2.0">>}}
Trees == {[kind |-> "tree", text |-> "\n\nx = " \o Written(e, 1) \o "\n", e |-> e, in |-> <<>>] : e \in Expressions}

(* A function of n parameters, called with k arguments, that changes its own p and returns  *)
(* parameter r: the caller's variables stay and are not the function's, what is not given is  *)
(* nil, and an argument too many is never got rid of.                                            *)
Params == <<"p", "q">>
Args == <<"p + 1.0", "2.0", "p">>
RECURSIVE Listed(_)
Listed(ws) == IF ws = <<>> THEN ""
              ELSE Head(ws) \o (IF Len(ws) > 1 THEN ", " ELSE "") \o Listed(Tail(ws))
Arities ==
    {Run(<<"function f(" \o Listed(SubSeq(Params, 1, n)) \o ")", "r = " \o Params[r], "p = 5.0", "return r", "end",
           "p = 7.0", "q = 6.0", "r = nil", "x = f(" \o Listed(SubSeq(Args, 1, k)) \o ")", "y = print(x, p, r)">>,
         IF k > n THEN Running ELSE IF r > n THEN 3 ELSE 0,
         <<IF r > k THEN "Nil" ELSE <<"8", "2">>[r], "7", "Nil">>) : n \in 1..2, k \in 0..3, r \in 1..2}

(* What an expression means where a is 1 and b has no value: the code of the error that      *)
(* ends it, the left operand's first, or a value of a type, as it is printed; n is the         *)
(* number, and 1 for true.                                                                       *)
Is(t, n, s) == [code |-> 0, t |-> t, n |-> n, s |-> s]
Fails(c) == [code |-> c, t |-> "", n |-> 0, s |-> ""]
IsNum(n) == Is("number", n, ToString(n))
IsTrue(b) == Is("truth", IF b THEN 1 ELSE 0, IF b THEN "true" ELSE "false")
IsStr(s) == Is("string", Len(s), s)
Before(x, y) == IF x.t = "number" THEN x.n < y.n ELSE Less(x.s, y.s)
Apply(o, x, y) ==
    CASE o \in {"==", "!="} -> IsTrue((o = "==") = (x = y))
      [] o = "+" /\ x.t = "string" -> IsStr(x.s \o y.s)
      [] o = "*" /\ x.t = "string" /\ y.t = "number" -> IsStr(Repeat(x.s, y.n))
      [] o \in {"<", ">", "<=", ">="} /\ x.t = y.t /\ x.t \in {"number", "string"} ->
           IsTrue((o \in {"<", ">="}) = (IF o \in {"<", ">="} THEN Before(x, y) = (o = "<")
                                         ELSE Before(y, x) = (o = "<=")))
      [] o \in {"+", "-", "*", "/", "**"} /\ x.t = y.t /\ x.t = "number" ->
           IF o = "/" THEN IF y.n = 0 THEN Fails(10) ELSE IsNum(x.n \div y.n)
           ELSE IsNum(CASE o = "+" -> x.n + y.n [] o = "-" -> x.n - y.n [] o = "*" -> x.n * y.n
                        [] o = "**" -> IF y.n = 0 THEN 1 ELSE x.n ^ y.n)
      [] o \in {"and", "or"} /\ x.t = y.t /\ x.t = "truth" ->
           IsTrue(IF o = "and" THEN x.n + y.n = 2 ELSE x.n + y.n > 0)
      [] o \in {"in", "notin"} /\ x.t = y.t /\ x.t = "string" -> IsTrue((o = "in") = (Found(y.s, x.s) # {}))
      [] OTHER -> Fails(11)
RECURSIVE Means(_)
Means(e) ==
    CASE e.op = "ID"   -> IF e.v = "a" THEN IsNum(1) ELSE Fails(3)
      [] e.op = "NUM"  -> IsNum(IF e.v = "0.0" THEN 0 ELSE 1)
      [] e.op = "STR"  -> IsStr(e.v)
      [] e.op = "BOOL" -> IsTrue(e.v = "true")
      [] e.op = "NIL"  -> Is("nil", 0, "Nil")
      [] e.op = "neg"  -> Means(Node("-", <<Leaf("NUM", "0.0"), e.args[1]>>))
      [] e.op = "not"  -> Means(Node("==", <<Node("and", <<e.args[1], e.args[1]>>), Leaf("BOOL", "false")>>))
      [] OTHER ->
           LET Then(x, y) == IF x.code # 0 THEN x ELSE IF y.code # 0 THEN y ELSE Apply(e.op, x, y)
           IN Then(Means(e.args[1]), Means(e.args[2]))

Zero == Leaf("NUM", "0.0")
Operands == {Ida, Leaf("ID", "b"), Zero, Leaf("BOOL", "true"), Leaf("STR", "a"), Leaf("NIL", "nil")}
Valued ==
    {Node(o, <<x, y>>) : o \in UNION {Levels[q] : q \in 1..7}, x \in Operands, y \in Operands}
    \union {Node(o, <<x, y>>) : o \in Operators, x \in Small, y \in {Ida, Leaf("STR", "1")}}
    \union {Node(o, <<x>>) : o \in {"neg", "not"}, x \in Operands \ {Zero}}
(* 0.0/0.0 is no number, and a minus behind nil is read as a sign. *)
Unsure == {Node("/", <<Zero, Zero>>)} \union {Node("-", <<Leaf("NIL", "nil"), y>>) : y \in Operands}
Values ==
    {LET v == Means(e)
     IN Run(<<"a = 1.0", "x = " \o Written(e, 1), "y = print(x)">>, v.code, IF v.code = 0 THEN <<v.s>> ELSE <<>>) :
         e \in Valued \ Unsure}

Tasks == Factorials \union Gcds \union Strings \union Others \union Wrongs \union Trees \union Arities \union Values

Newlines(s) == {q \in 1..Len(s) : SubSeq(s, q, q) = "\n"}

(* Does a program that assigns an expression parse to the tree it was written from, with    *)
(* the lines counted right?                                                                     *)
ReadsAsWritten ==
    (st = "run" /\ task.kind = "tree" /\ Len(toks) > 0) =>
        /\ m.err \notin {"lexical", "syntax"} /\ line = 1 + Cardinality(Newlines(text))
        /\ code = Running /\ stmts # <<>> => stmts[1].e = task.e

(* Does a program end with the code, and print what, it was written to, and run on for    *)
(* ever only if it was to?                                                                   *)
RunsAsMeant ==
    task.kind = "run" =>
        /\ code # Running => code = task.code /\ (code = 0 => m.out = task.out)
        /\ m.err \in {"endless", "wild"} => task.code = Running
=============================================================================
