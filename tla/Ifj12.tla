-------------------------------- MODULE Ifj12 --------------------------------
(* The IFJ12 interpreter (ifj12.c, main): the source text is scanned and parsed, and     *)
(* its statements are run one after another.  task is what the text was written from.      *)
EXTENDS IfjSemantic

VARIABLES task, text, pos, st, lexeme, line, toks, stmts, m, code

Scan == INSTANCE IfjScanner
Parser == INSTANCE IfjParser

vars == <<task, text, pos, st, lexeme, line, toks, stmts, m, code>>
Running == -1

Init(tasks) ==
    /\ task \in tasks
    /\ Scan!Init({task.text}) /\ stmts = <<>> /\ m = Start(task.in) /\ code = Running

Scanning == Scan!GetNextToken /\ UNCHANGED <<task, stmts, m, code>>
Parse ==
    /\ st = "stop" /\ code = Running
    /\ \E p \in {Parser!Parse} :
          /\ stmts' = p.stmts /\ m' = [m EXCEPT !.err = p.err]
          /\ st' = "run"
          /\ code' = IF p.err = "ok" THEN Running ELSE ExitCode(p.err)
    /\ UNCHANGED <<task, text, pos, lexeme, line, toks>>
Statement ==
    /\ st = "run" /\ code = Running /\ stmts # <<>> /\ m.err = "ok"
    /\ m' = Execute(m, Head(stmts))
    /\ stmts' = IF Head(stmts).kind = "return" THEN <<>> ELSE Tail(stmts)
    /\ UNCHANGED <<task, text, pos, st, lexeme, line, toks, code>>
Exit ==
    /\ st = "run" /\ code = Running /\ (stmts = <<>> \/ m.err # "ok")
    /\ m.err \notin {"endless", "wild"}
    /\ code' = ExitCode(m.err)
    /\ UNCHANGED <<task, text, pos, st, lexeme, line, toks, stmts, m>>
Done == code # Running /\ UNCHANGED vars
Next == Scanning \/ Parse \/ Statement \/ Exit \/ Done
=============================================================================
