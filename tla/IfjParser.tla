------------------------------ MODULE IfjParser ------------------------------
(* The parser of the IFJ12 interpreter by recursive descent (parser.c): each rule takes  *)
(* the work p and returns it with the tokens of the rule read.  p.i is the place of the    *)
(* token _tok; p.lists is the stack of the lists of statements that are open, each with     *)
(* the field of the last statement of the list below that it is for.                          *)
EXTENDS IfjExpr

VARIABLE toks

T(p) == Tok(toks, p.i).t
(* _attr stays what the last token with one has set. *)
Attributed(p) == {q \in 1..Len(toks) : q <= p.i /\ (HasAttr(toks[q]) \/ toks[q].t \in {"KW", "RKW"})}
V(p) == IF Attributed(p) = {} THEN "" ELSE toks[Highest(Attributed(p))].v

(* What has failed is handed on: the && of the rules. *)
Fail(p, why) == IF p.ok THEN [p EXCEPT !.ok = FALSE, !.err = why] ELSE p
Next1(p) ==
    IF ~p.ok THEN p
    ELSE LET q == [p EXCEPT !.i = @ + 1] IN IF T(q) = "error" THEN Fail(q, "lexical") ELSE q
Expect(p, t) == IF T(p) # t THEN Fail(p, "syntax") ELSE p
Skip(p, t) == Next1(Expect(p, t))
(* _tok != TOK_TYPE_KW && _attr != kw: only a token that is no keyword is refused. *)
Keyword(p, kw) == IF T(p) # "KW" /\ V(p) # kw THEN Fail(p, "syntax") ELSE p
(* An error of a rule called by p that its caller reports as one of syntax. *)
AsSyntax(p, q) == IF p.ok /\ ~q.ok THEN Fail(p, "syntax") ELSE q

Push(p, field) == IF p.ok THEN [p EXCEPT !.lists = Append(@, [of |-> field, stmts |-> <<>>])] ELSE p
Add(p, stmt) == [p EXCEPT !.lists[Len(p.lists)].stmts = Append(@, stmt)]
Last(p) == LET s == p.lists[Len(p.lists)].stmts IN s[Len(s)]
Set(p, field, value) ==
    LET n == Len(p.lists)  k == Len(p.lists[n].stmts)
    IN [p EXCEPT !.lists[n].stmts[k][field] = value]
Pop(p) ==
    IF ~p.ok THEN p
    ELSE LET top == p.lists[Len(p.lists)]
         IN Set([p EXCEPT !.lists = SubSeq(@, 1, Len(@) - 1)], top.of, top.stmts)

Stmt(kind) == [kind |-> kind, name |-> "", params |-> <<>>, e |-> <<>>, body |-> <<>>, other |-> <<>>]
(* parse_expr into the last statement. *)
Expr(p) ==
    IF ~p.ok THEN p
    ELSE LET Parsed(x, q) == IF x.err # "ok" THEN Fail(q, x.err) ELSE Set(q, "e", x.e)
             From(x) == Parsed(x, [p EXCEPT !.i = x.i])
         IN From(ParseExpr(toks, p.i))

Param(p) == Set(p, "params", Append(Last(p).params, V(p)))
RECURSIVE ParamN(_)
ParamN(p) ==
    IF ~p.ok \/ T(p) = ")" THEN p
    ELSE LET q == Expect(Skip(p, ","), "ID") IN IF q.ok THEN ParamN(Next1(Param(q))) ELSE q
ParamList(p) ==
    IF ~p.ok \/ T(p) = ")" THEN p
    ELSE LET q == Expect(p, "ID") IN IF q.ok THEN ParamN(Next1(Param(q))) ELSE q

AssignStmt(p) ==
    LET q == Set(Add(p, Stmt("assign")), "name", V(p))
    IN Skip(Expr(Expect(Next1(q), "=")), "EOL")
ReturnStmt(p) == Skip(Expr(Add(p, Stmt("return"))), "EOL")
EndStmt(p) == Next1(Pop(Expect(Next1(Keyword(p, "end")), "EOL")))

RECURSIVE StmtList(_), Statement(_)
IfElseStmt(p) ==
    LET then == StmtList(Push(Skip(Expr(Add(p, Stmt("branch"))), "EOL"), "body"))
        else == Pop(Skip(Next1(Keyword(then, "else")), "EOL"))
    IN EndStmt(StmtList(Push(else, "other")))
LoopStmt(p) ==
    LET body == StmtList(Push(Skip(Next1(Add(p, Stmt("loop"))), "EOL"), "body"))
        Until(end) == Skip(AsSyntax(end, Expr(end)), "EOL")
    IN Until(Pop(Keyword(body, "end")))
WhileStmt(p) == EndStmt(StmtList(Push(Skip(Expr(Add(p, Stmt("while"))), "EOL"), "body")))
Statement(p) ==
    CASE T(p) = "KW" /\ V(p) = "if"     -> IfElseStmt(p)
      [] T(p) = "KW" /\ V(p) = "loop"   -> LoopStmt(p)
      [] T(p) = "KW" /\ V(p) = "while"  -> WhileStmt(p)
      [] T(p) = "KW" /\ V(p) = "return" -> ReturnStmt(p)
      [] T(p) = "ID"                    -> AssignStmt(p)
Starting(p) == T(p) = "ID" \/ (T(p) = "KW" /\ V(p) \in {"if", "loop", "while", "return"})
StmtList(p) ==
    IF ~p.ok \/ T(p) = "EOF" \/ (T(p) = "KW" /\ V(p) \in {"else", "end"}) THEN p
    ELSE IF T(p) = "EOL" THEN StmtList(Next1(p))
    ELSE IF Starting(p) THEN StmtList(Statement(p))
    ELSE Fail(p, "syntax")

Function(p) ==
    LET name == Expect(Next1(p), "ID")
        open == Skip(Next1(Set(Add(name, Stmt("function")), "name", V(name))), "(")
    IN EndStmt(StmtList(Push(Skip(Skip(AsSyntax(open, ParamList(open)), ")"), "EOL"), "body")))
RECURSIVE FunctionOrStmtList(_)
FunctionOrStmtList(p) ==
    IF ~p.ok \/ T(p) = "EOF" THEN p
    ELSE IF T(p) = "EOL" THEN FunctionOrStmtList(Next1(p))
    ELSE IF T(p) = "KW" /\ V(p) = "function" THEN FunctionOrStmtList(Function(p))
    ELSE IF Starting(p) THEN FunctionOrStmtList(Statement(p))
    ELSE Fail(p, "syntax")

(* parse: the list of statements, or why there is none. *)
Parse ==
    LET Result(p) == [err |-> p.err, stmts |-> IF p.ok THEN p.lists[1].stmts ELSE <<>>]
    IN Result(FunctionOrStmtList(Next1([i |-> 0, ok |-> TRUE, err |-> "ok",
                                        lists |-> <<[of |-> "", stmts |-> <<>>]>>])))
=============================================================================
