------------------------------- MODULE IfjExpr -------------------------------
(* The expression parser of the IFJ12 interpreter (expr.c): from the tokens toks, by   *)
(* a table of precedence, to the rules of a postfix form, and from these backwards to   *)
(* a tree.  A tree is a record: op, and args, the subtrees, or v, the attribute of a      *)
(* leaf; the function called is in v as well, and the bounds of a substring are leaves,     *)
(* empty if not given.                                                                       *)
EXTENDS Naturals, Sequences

Columns == <<"$", "+", "-", "*", "/", "**", "i", "(", ")", ",", "[", "]", ":", "and", "or",
             "not", "in", "notin", "<", "<=", ">", ">=", "!=", "==", "neg">>
Row(x) ==
    CASE x = "$" -> "$<<<<<<<     <<<<<<<<<<<<"
      [] x \in {"+", "-"} -> ">>><<<<<>>   >><>>>>>>>><"
      [] x \in {"*", "/"} -> ">>>>><<<>>   >><>>>>>>>><"
      [] x \in {"**", "not", "neg"} -> ">>>>>><<>>   >><>>>>>>>><"
      [] x = "i" -> ">>>>>> =>>   >>>>>>>>>>>>"
      [] x = "(" -> " <<<<<<<=<   <<<<<<<<<<<<"
      [] x = ")" -> ">>>>>>  >>   >>>>>>>>>>>>"
      [] x = "," -> " >>>>><>>>   >>>>>>>>>>>>"
      [] x \in {"[", "]", ":"} -> "                         "
      [] x = "and" -> "><<<<<<<>>   >><<<<<<<<<<"
      [] x = "or" -> "><<<<<<<>>   <><<<<<<<<<<"
      [] x \in {"in", "notin", "<", "<=", ">", ">="} -> "><<<<<<<>>   >><>>>>>>>><"
      [] x \in {"!=", "=="} -> "><<<<<<<>>   >><<<<<<<>><"

Leaves == {"NUM", "STR", "ID", "BOOL", "NIL"}
(* _tbl_item: what is not in the table is in its first column. *)
Item(x) == IF x \in Leaves THEN "i"
           ELSE IF \E q \in 1..Len(Columns) : Columns[q] = x THEN x ELSE "$"
Precedence(row, col) ==
    LET at == CHOOSE q \in 1..Len(Columns) : Columns[q] = Item(col)
    IN SubSeq(Row(Item(row)), at, at)

Rule(name, rhs, lhs) == [name |-> name, rhs |-> rhs, lhs |-> lhs]
Binary == <<"+", "-", "*", "/", "**", ">", ">=", "<", "<=", "!=", "==">>
Logical == <<"and", "or", "in", "notin">>
Of(ops) == [q \in 1..Len(ops) |-> Rule(ops[q], <<"E", ops[q], "E">>, "E")]
Rules ==
    <<Rule("par", <<"(", "E", ")">>, "E")>> \o Of(Binary)
    \o <<Rule("neg", <<"neg", "E">>, "E")>> \o Of(Logical)
    \o <<Rule("not", <<"not", "E">>, "E"),
         Rule("i", <<"ID">>, "E"), Rule("i", <<"NUM">>, "E"), Rule("i", <<"STR">>, "E"),
         Rule("i", <<"NIL">>, "E"), Rule("i", <<"BOOL">>, "E"),
         Rule("call0", <<"ID", "(", ")">>, "E"), Rule("call1", <<"ID", "(", "E", ")">>, "E"),
         Rule("calln", <<"ID", "(", "L", ")">>, "E"),
         Rule("list", <<"L", ",", "E">>, "L"), Rule("pair", <<"E", ",", "E">>, "L")>>
(* _find_rule compares no more than the length of the handle. *)
Fits(handle) == {q \in 1..Len(Rules) : /\ Len(handle) <= Len(Rules[q].rhs)
                                       /\ SubSeq(Rules[q].rhs, 1, Len(handle)) = handle}
FindRule(handle) == CHOOSE q \in Fits(handle) : \A r \in Fits(handle) : q <= r

Tok(toks, i) == toks[IF i <= Len(toks) THEN i ELSE Len(toks)]
Word(tok) == IF tok.t \in {"KW", "RKW"} THEN tok.v ELSE tok.t
HasAttr(tok) == tok.t \in Leaves
Attr(tok) == IF HasAttr(tok) THEN <<tok.v>> ELSE <<>>

(* The work of _infix_to_postfix: the stack s, the rules r, the attributes ids, the     *)
(* place i of the token, neg if it was found to be a unary minus, the token before, and  *)
(* how it goes.                                                                            *)
Go(q, how) == [q EXCEPT !.how = how]
NextToken(toks, q) ==
    LET tok == Tok(toks, q.i + 1)
    IN [q EXCEPT !.i = @ + 1, !.neg = FALSE, !.last = IF q.neg THEN "neg" ELSE Tok(toks, q.i).t,
                 !.ids = @ \o Attr(tok), !.how = IF tok.t = "error" THEN "lexical" ELSE @]
Above(s, x) == {p \in 1..Len(s) : s[p] \notin x}
Highest(P) == CHOOSE p \in P : \A p2 \in P : p2 <= p
TopTerm(s) == Highest(Above(s, {"E", "L", "mark"}))
Starts(s) == {p \in 1..Len(s) : s[p] = "mark"}

\* Mutant of Minus: the minus after an operator is not known for a sign.
MinusLate(toks, q) == q.neg \/ (Tok(toks, q.i).t = "-" /\ q.last \in {"", "(", "="})
Minus(toks, q) == q.neg \/ (Tok(toks, q.i).t = "-" /\ q.last \notin {")", "NUM", "STR", "BOOL", "ID"})
Shift(toks, q, s) == NextToken(toks, [q EXCEPT !.s = s])
Reduce(q) ==
    LET By(rule, type, from) ==
            [q EXCEPT !.r = Append(@, [rule |-> rule.name, type |-> type]),
                      !.s = Append(SubSeq(@, 1, from - 1), rule.lhs)]
        Handle(from, handle) ==
            IF Fits(handle) = {} THEN Go(q, "syntax")
            ELSE By(Rules[FindRule(handle)], handle[1], from)
        From(from) == Handle(from, SubSeq(q.s, from + 1, Len(q.s)))
    IN From(Highest(Starts(q.s)))

(* _read_substr: [from:to], either of which may be missing, is taken to end the expression. *)
Bound(toks, i) == IF Tok(toks, i).t = "NUM" THEN <<Tok(toks, i).v>> ELSE <<"">>
Past(toks, i) == IF Tok(toks, i).t = "NUM" THEN i + 1 ELSE i
Substring(toks, q) ==
    LET End(i) == [q EXCEPT !.how = "done", !.i = i]
        Between(colon, close) ==
            IF Tok(toks, colon).t # ":" THEN End(colon)
            ELSE IF Tok(toks, close).t # "]" THEN End(close)
            ELSE [End(close + 1) EXCEPT !.ids = @ \o Bound(toks, q.i + 1) \o Bound(toks, colon + 1),
                                        !.r = Append(@, [rule |-> "substr", type |-> q.last])]
        From(colon) == Between(colon, Past(toks, colon + 1))
    IN From(Past(toks, q.i + 1))

Turn(toks, q) ==
    LET Pushed(tok, col) == IF tok.t \in Leaves THEN tok.t ELSE col
        By(op, tok, top, col) ==
            IF op = "$" THEN Go(q, "done")
            ELSE IF op = "<"
                 THEN Shift(toks, [q EXCEPT !.neg = Minus(toks, q)],
                            Append(SubSeq(q.s, 1, top) \o <<"mark">> \o SubSeq(q.s, top + 1, Len(q.s)),
                                   Pushed(tok, col)))
            ELSE IF op = "=" THEN Shift(toks, q, Append(q.s, Pushed(tok, col)))
            ELSE IF op = ">" THEN Reduce([q EXCEPT !.neg = Minus(toks, q)])
            ELSE Go(q, "syntax")
        Known(tok, top, col) == By(Precedence(q.s[top], col), tok, top, col)
        At(tok) ==
            IF tok.t = "[" /\ q.last \in {"STR", "ID"} THEN Substring(toks, q)
            ELSE IF \/ tok.t = ")" /\ q.last = ","
                    \/ tok.t = "," /\ q.last \in {"(", ","} THEN Go(q, "syntax")
            ELSE Known(tok, TopTerm(q.s), IF Minus(toks, q) THEN "neg" ELSE Word(tok))
    IN At(Tok(toks, q.i))

RECURSIVE InfixToPostfix(_, _)
InfixToPostfix(toks, q) == IF q.how = "go" THEN InfixToPostfix(toks, Turn(toks, q)) ELSE q

(* _postfix_to_tree: the rules from the last one on; b is what is left of the rules and *)
(* of the attributes, and the trees made, or ok = FALSE when there is none.               *)
Leaf(op, v) == [op |-> op, v |-> v, args |-> <<>>]
Node(op, args) == [op |-> op, v |-> "", args |-> args]
Call(name, args) == [op |-> "call", v |-> name, args |-> args]
Rest(s) == SubSeq(s, 1, Len(s) - 1)
Top(ids) == IF ids = <<>> THEN "" ELSE ids[Len(ids)]
Front(ids) == IF ids = <<>> THEN "" ELSE Head(ids)
Without(ids, front) == IF ids = <<>> THEN ids ELSE IF front THEN Tail(ids) ELSE Rest(ids)

RECURSIVE Build(_)
Build(b) ==
    IF ~b.ok \/ b.r = <<>> THEN [b EXCEPT !.ok = FALSE]
    ELSE LET r == b.r[Len(b.r)]
             c == [b EXCEPT !.r = Rest(@)]
             Made(x, tree) == [x EXCEPT !.trees = <<tree>>]
             Named(x) == Made(x, Call(Front(b.ids), x.trees))
             Joined(x, y) == [y EXCEPT !.trees = x.trees \o @]
             Both(x, y) == Made(y, Node(r.rule, y.trees \o x.trees))
             Unary(x) == Made(x, Node(r.rule, x.trees))
         IN CASE r.rule = "i" -> Made([c EXCEPT !.ids = Without(@, FALSE)], Leaf(r.type, Top(b.ids)))
              [] r.rule = "call0" -> Made([c EXCEPT !.ids = Without(@, FALSE)], Call(Top(b.ids), <<>>))
              [] r.rule \in {"call1", "calln"} ->
                   Named(Build([c EXCEPT !.ids = Without(@, TRUE)]))
              [] r.rule \in {"pair", "list"} ->
                   LET Second(x) == Joined(x, Build(x)) IN Second(Build(c))
              [] r.rule = "substr" ->
                   LET ids == c.ids  n == Len(c.ids)
                   IN Made([c EXCEPT !.ids = SubSeq(@, 1, n - 3)],
                           Node("substr", <<Leaf(r.type, ids[n - 2]), Leaf("NUM", ids[n - 1]),
                                            Leaf("NUM", ids[n])>>))
              [] r.rule = "par" -> Build(c)
              [] r.rule \in {"neg", "not"} -> Unary(Build(c))
              [] r.rule \notin {"i", "call0", "call1", "calln", "pair", "list", "substr", "par", "neg", "not"} ->
                   LET Second(x) == Both(x, Build(x)) IN Second(Build(c))

PostfixToTree(q) == Build([r |-> q.r, ids |-> q.ids, ok |-> TRUE, trees |-> <<>>])

(* _fix_param_fn_argn: the arguments of a call were made from the last, but of a call in *)
(* an argument they stay so.                                                                *)
Backwards(s) == [q \in 1..Len(s) |-> s[Len(s) + 1 - q]]
RECURSIVE FixParams(_)
FixParams(e) ==
    IF e.op = "call" THEN [e EXCEPT !.args = Backwards(@)]
    ELSE [e EXCEPT !.args = [q \in DOMAIN @ |-> FixParams(@[q])]]

(* parse_expr, called on the token before the expression: where it ended, and the tree or why not. *)
ParseExpr(toks, i) ==
    LET Tree(q, b) ==
            IF ~b.ok \/ b.r # <<>> THEN [i |-> q.i, err |-> "syntax", e |-> <<>>]
            ELSE [i |-> q.i, err |-> "ok", e |-> FixParams(b.trees[1])]
        Postfix(q) ==
            IF q.how # "done" THEN [i |-> q.i, err |-> q.how, e |-> <<>>]
            ELSE Tree(q, PostfixToTree(q))
    IN Postfix(InfixToPostfix(toks,
           NextToken(toks, [s |-> <<"$">>, r |-> <<>>, ids |-> <<>>, i |-> i, neg |-> FALSE,
                            last |-> "", how |-> "go"])))
=============================================================================
