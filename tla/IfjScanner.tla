----------------------------- MODULE IfjScanner -----------------------------
(* The scanner of the IFJ12 interpreter (scanner.c, getNextToken): an automaton that   *)
(* reads a character a step.  A token is its kind t and its attribute v; the tokens    *)
(* without an attribute have v = "".                                                     *)
EXTENDS Naturals, Sequences

VARIABLES text, pos, st, lexeme, line, toks

vars == <<text, pos, st, lexeme, line, toks>>

Eof == "eof"
Ch == IF pos < Len(text) THEN SubSeq(text, pos + 1, pos + 1) ELSE Eof
Among(s) == \E q \in 1..Len(s) : SubSeq(s, q, q) = Ch
Digit == Among("0123456789")
Letter == Among("abcdefghijklmnopqrstuvwxyzABCDEFGHIJKLMNOPQRSTUVWXYZ")
Keywords == {"while", "if", "else", "function", "return", "end", "loop",
             "and", "or", "not", "in", "notin"}
Reserved == {"as", "def", "directive", "export", "from", "import", "launch", "load", "macro"}

Token(t, v) == [t |-> t, v |-> v]
Init(texts) == text \in texts /\ pos = 0 /\ st = "init" /\ lexeme = "" /\ line = 1 /\ toks = <<>>

(* The character is taken, to go on in state s, or given back at the end of a token. *)
Goto(s, lx) ==
    /\ st' = s /\ lexeme' = lx /\ pos' = pos + 1
    /\ UNCHANGED <<text, line, toks>>
Give(tok, next) ==
    /\ toks' = Append(toks, tok) /\ st' = next /\ lexeme' = ""
    /\ UNCHANGED <<text, line>>
Take(t) == pos' = pos + 1 /\ Give(Token(t, ""), "init")
Leave(t, v) == pos' = pos /\ Give(Token(t, v), "init")
Fail(why) == pos' = pos + 1 /\ Give(Token("error", why), "stop")
End == pos' = pos /\ Give(Token("EOF", ""), "stop")

Start ==
    /\ st = "init"
    /\ \/ Ch = Eof /\ End
       \/ Ch = "\n" /\ Goto("eol", "")
       \/ Ch = " " /\ Goto("init", "")
       \/ Digit /\ Goto("integral", Ch)
       \/ (Letter \/ Ch = "_") /\ Goto("identifier", Ch)
       \/ Among("+-()[]:,") /\ Take(Ch)
       \/ Among("!=*/<>") /\ Goto(Ch, "")
       \/ Ch = "\"" /\ Goto("quot", "")
       \/ Ch # Eof /\ Among("$;\\&") /\ Fail("character")

(* One of the operators that may be of two characters. *)
Operator ==
    \/ st \in {"!", "=", "<", ">"} /\ Ch = "=" /\ Take(st \o "=")
    \/ st = "*" /\ Ch = "*" /\ Take("**")
    \/ st = "/" /\ Ch = "/" /\ Goto("comment", "")
    \/ st = "/" /\ Ch = "*" /\ Goto("block", "")
    \/ st \in {"=", "<", ">"} /\ Ch # "=" /\ Leave(st, "")
    \/ st = "*" /\ Ch # "*" /\ Leave("*", "")
    \/ st = "/" /\ ~Among("/*") /\ Leave("/", "")
    \/ st = "!" /\ Ch # "=" /\ Fail("character")

Quoted ==
    \/ /\ st = "quot"
       /\ \/ Ch = "\"" /\ pos' = pos + 1 /\ Give(Token("STR", lexeme), "init")
          \/ Ch = "\\" /\ Goto("escape", lexeme)
          \/ Ch \notin {"\"", "\\", "\n", Eof} /\ Goto("quot", lexeme \o Ch)
          \/ Ch \in {"\n", Eof} /\ Fail("string")
    \/ /\ st = "escape"
       /\ \/ Ch = "n" /\ Goto("quot", lexeme \o "\n")
          \/ Ch = "t" /\ Goto("quot", lexeme \o "\t")
          \/ Among("\"\\") /\ Goto("quot", lexeme \o Ch)
          \/ Ch = "x" /\ Goto("hex", lexeme)
          \/ ~Among("nt\"\\x") /\ Fail("string")

(* \x takes two hexadecimal digits; the characters 1 to 4 and a to d are all it is asked for. *)
HexChar ==
    /\ st = "hex"
    /\ LET two == SubSeq(text, pos + 1, IF pos + 2 > Len(text) THEN Len(text) ELSE pos + 2)
           code == [q \in {"31", "32", "33", "34"} |-> SubSeq(q, 2, 2)]
       IN \/ /\ two \in DOMAIN code
             /\ st' = "quot" /\ lexeme' = lexeme \o code[two] /\ pos' = pos + 2
             /\ UNCHANGED <<text, line, toks>>
          \/ two \notin DOMAIN code /\ Fail("string")

Number ==
    \/ /\ st = "integral"
       /\ \/ Digit /\ Goto("integral", lexeme \o Ch)
          \/ Ch = "." /\ Goto("point", lexeme \o Ch)
          \/ Ch = "e" /\ Goto("e", lexeme \o Ch)
          \/ ~Digit /\ ~Among(".e") /\ Fail("number")
    \/ /\ st = "point"
       /\ IF Digit THEN Goto("decimal", lexeme \o Ch) ELSE Fail("number")
    \/ /\ st = "decimal"
       /\ \/ Digit /\ Goto("decimal", lexeme \o Ch)
          \/ Ch = "e" /\ Goto("e", lexeme \o Ch)
          \/ ~Digit /\ Ch # "e" /\ Leave("NUM", lexeme)
    \/ /\ st \in {"e", "sign"}
       /\ \/ st = "e" /\ Among("+-") /\ Goto("sign", lexeme \o Ch)
          \/ Digit /\ Goto("exponent", lexeme \o Ch)
          \/ ~Digit /\ ~(st = "e" /\ Among("+-")) /\ Fail("number")
    \/ /\ st = "exponent"
       /\ IF Digit THEN Goto("exponent", lexeme \o Ch) ELSE Leave("NUM", lexeme)

Identifier ==
    /\ st = "identifier"
    /\ \/ (Letter \/ Digit \/ Ch = "_") /\ Goto("identifier", lexeme \o Ch)
       \/ /\ ~(Letter \/ Digit \/ Ch = "_")
          /\ \/ lexeme \in {"true", "false"} /\ Leave("BOOL", lexeme)
             \/ lexeme = "nil" /\ Leave("NIL", lexeme)
             \/ lexeme \in Keywords /\ Leave("KW", lexeme)
             \/ lexeme \in Reserved /\ Leave("RKW", lexeme)
             \/ lexeme \notin Keywords \union Reserved \union {"true", "false", "nil"}
                /\ Leave("ID", lexeme)

Comment ==
    \/ /\ st = "comment"
       /\ \/ Ch = Eof /\ End
          \/ Ch = "\n" /\ Goto("eol", "")
          \/ Ch \notin {Eof, "\n"} /\ Goto("comment", "")
    \/ /\ st = "block"
       /\ \/ Ch = Eof /\ Fail("end of file")
          \/ Ch = "*" /\ Goto("block2", "")
          \/ Ch \notin {Eof, "*"} /\ Goto("block", "")
    \/ /\ st = "block2"
       /\ \/ Ch = Eof /\ Fail("end of file")
          \/ Ch = "/" /\ Goto("init", "")
          \/ Ch \notin {Eof, "/"} /\ Goto("block", "")

(* The newlines that follow each other are one token, and are counted. *)
Eol ==
    /\ st = "eol"
    /\ line' = line + 1
    /\ IF Ch = "\n"
       THEN st' = "eol" /\ pos' = pos + 1 /\ UNCHANGED <<text, lexeme, toks>>
       ELSE /\ toks' = Append(toks, Token("EOL", "")) /\ st' = "init" /\ lexeme' = ""
            /\ UNCHANGED <<text, pos>>

GetNextToken == Start \/ Operator \/ Quoted \/ HexChar \/ Number \/ Identifier \/ Comment \/ Eol
=============================================================================
