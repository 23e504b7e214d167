---------------------------- MODULE BrainfuckCpu ----------------------------
(* The processor (cpu.vhd), clock by clock: in each state of its machine the    *)
(* outputs say what the registers and the two memories do at the next edge, and  *)
(* what a memory was asked for is there one clock later.  at is what the          *)
(* registers and the memory were when the last instruction ended.                 *)
EXTENDS Integers, Sequences

CONSTANTS Cells, Values, Inputs,
    Programs,    \* the programs tried
    MaxOut       \* bound: values written

VARIABLES
    program, at,
    pstate,
    reg,         \* pc_reg, ptr_reg and cnt_reg
    ram, data,   \* the memory and DATA_RDATA
    code,        \* CODE_DATA
    io,          \* what was written, and the port's answer to a request
    wild         \* has the processor met what it does not do as the interpreter

vars == <<program, at, pstate, reg, ram, data, code, io, wild>>

Interpreter == INSTANCE Brainfuck

Init ==
    /\ program \in Programs
    /\ at = Interpreter!Start
    /\ pstate = "S_IDLE"
    /\ reg = [pc |-> 1, ptr |-> 0, cnt |-> 0]
    /\ ram = [c \in Interpreter!Cell |-> 0] /\ data = 0
    /\ code = "end"
    /\ io = [out |-> <<>>, in |-> 0]
    /\ wild = FALSE

Fetched == Interpreter!Fetch(program, reg.pc)

(* Registers after the edge, and the memory.  A write is also what is read.        *)
Pc(d) == reg' = [reg EXCEPT !.pc = @ + d]
Read == data' = ram[reg.ptr] /\ UNCHANGED ram
Write(v) == data' = v /\ ram' = [ram EXCEPT ![reg.ptr] = v]

Goto(s) == pstate' = s

-----------------------------------------------------------------------------
FetchDecode ==
    /\ \/ pstate = "S_IDLE" /\ Goto("S_FETCH") /\ UNCHANGED code
       \/ pstate = "S_FETCH" /\ Goto("S_DECODE") /\ code' = Fetched
       \/ /\ pstate = "S_DECODE" /\ UNCHANGED code
          /\ Goto(CASE code = ">" -> "I_INCPTR" [] code = "<" -> "I_DECPTR"
                    [] code = "+" -> "I_INC0" [] code = "-" -> "I_DEC0"
                    [] code = "[" -> "I_WHILE0" [] code = "]" -> "I_ENDWHILE0"
                    [] code = "." -> "I_PUTC0" [] code = "," -> "I_GETC0"
                    [] code = "end" -> "I_EOF" [] OTHER -> "I_NOP")
       \/ pstate = "I_EOF" /\ Goto("S_HALT") /\ UNCHANGED code
    /\ UNCHANGED <<reg, ram, data, io, wild>>

Move ==
    /\ pstate \in {"I_INCPTR", "I_DECPTR", "I_NOP"}
    /\ LET d == CASE pstate = "I_INCPTR" -> 1 [] pstate = "I_DECPTR" -> -1 [] OTHER -> 0
       IN /\ reg' = [reg EXCEPT !.pc = @ + 1, !.ptr = (@ + d) % Cells]
          /\ wild' = (wild \/ reg.ptr + d \notin Interpreter!Cell)
    /\ Goto("S_FETCH")
    /\ UNCHANGED <<ram, data, code, io>>

Count ==
    /\ \/ pstate = "I_INC0" /\ Read /\ Goto("I_INC1") /\ UNCHANGED reg
       \/ pstate = "I_INC1" /\ Write((data + 1) % Values) /\ Pc(1) /\ Goto("S_FETCH")
       \/ pstate = "I_DEC0" /\ Read /\ Goto("I_DEC1") /\ UNCHANGED reg
       \/ pstate = "I_DEC1" /\ Write((data - 1) % Values) /\ Pc(1) /\ Goto("S_FETCH")
    /\ UNCHANGED <<code, io, wild>>

(* The input waits for IN_VLD, the output while OUT_BUSY: any number of clocks.     *)
Getc ==
    /\ \/ pstate = "I_GETC0" /\ Goto("I_GETC1") /\ (\E x \in Inputs : io' = [io EXCEPT !.in = x])
          /\ UNCHANGED <<reg, ram, data>>
       \/ pstate = "I_GETC1" /\ Write(io.in) /\ Pc(1) /\ Goto("S_FETCH") /\ UNCHANGED io
    /\ UNCHANGED <<code, wild>>

(* The output is DATA_RDATA, which nobody read again.                                *)
Putc ==
    /\ \/ pstate = "I_PUTC0" /\ Goto("I_PUTC1") /\ UNCHANGED <<reg, io, wild>>
       \/ /\ pstate = "I_PUTC1" /\ Len(io.out) < MaxOut
          /\ io' = [io EXCEPT !.out = Append(@, data)]
          /\ Pc(1) /\ Goto("S_FETCH")
          /\ wild' = (wild \/ data # ram[reg.ptr])
    /\ UNCHANGED <<ram, data, code>>

(* [ : on a zero the counter is set, but it is only on a nonzero cell that the       *)
(* machine goes to scan, and then only if the counter was left set.                   *)
While ==
    /\ \/ pstate = "I_WHILE0" /\ Pc(1) /\ Read /\ Goto("I_WHILE1") /\ UNCHANGED <<code, wild>>
       \/ /\ pstate = "I_WHILE1"
          /\ IF data = 0 THEN reg' = [reg EXCEPT !.cnt = 1] /\ Goto("S_FETCH")
                         ELSE UNCHANGED reg /\ Goto("I_WHILE2")
          /\ wild' = (wild \/ data = 0) /\ UNCHANGED <<ram, data, code>>
       \/ /\ pstate = "I_WHILE2" /\ code' = Fetched
          /\ Goto(IF reg.cnt # 0 THEN "I_WHILE3" ELSE "S_FETCH")
          /\ UNCHANGED <<reg, ram, data, wild>>
       \/ /\ pstate = "I_WHILE3"
          /\ reg' = [reg EXCEPT !.pc = @ + 1,
                                !.cnt = @ + (IF code = "[" THEN 1 ELSE IF code = "]" THEN -1 ELSE 0)]
          /\ Goto("I_WHILE2") /\ UNCHANGED <<ram, data, code, wild>>
    /\ UNCHANGED io

\* Mutant of EndWhile: the inner brackets are not counted.
EndWhileFlat ==
    /\ \/ pstate = "I_ENDWHILE0" /\ Read /\ Goto("I_ENDWHILE1") /\ UNCHANGED <<reg, code>>
       \/ /\ pstate = "I_ENDWHILE1"
          /\ IF data = 0 THEN Pc(1) /\ Goto("S_FETCH")
             ELSE reg' = [reg EXCEPT !.cnt = 1, !.pc = @ - 1] /\ Goto("I_ENDWHILE2")
          /\ UNCHANGED <<ram, data, code>>
       \/ /\ pstate = "I_ENDWHILE2" /\ code' = Fetched
          /\ Goto(IF reg.cnt # 0 THEN "I_ENDWHILE3" ELSE "S_FETCH")
          /\ UNCHANGED <<reg, ram, data>>
       \/ /\ pstate = "I_ENDWHILE3"
          /\ reg' = [reg EXCEPT !.cnt = IF code = "[" THEN 0 ELSE @]
          /\ Goto("I_ENDWHILE4") /\ UNCHANGED <<ram, data, code>>
       \/ /\ pstate = "I_ENDWHILE4" /\ Pc(IF reg.cnt = 0 THEN 1 ELSE -1)
          /\ Goto("I_ENDWHILE2") /\ UNCHANGED <<ram, data, code>>
    /\ UNCHANGED <<io, wild>>

(* ] : on a nonzero cell the machine goes back, counting brackets, and then one       *)
(* forward from the one that matches.                                                  *)
EndWhile ==
    /\ \/ pstate = "I_ENDWHILE0" /\ Read /\ Goto("I_ENDWHILE1") /\ UNCHANGED <<reg, code>>
       \/ /\ pstate = "I_ENDWHILE1"
          /\ IF data = 0 THEN Pc(1) /\ Goto("S_FETCH")
             ELSE reg' = [reg EXCEPT !.cnt = 1, !.pc = @ - 1] /\ Goto("I_ENDWHILE2")
          /\ UNCHANGED <<ram, data, code>>
       \/ /\ pstate = "I_ENDWHILE2" /\ code' = Fetched
          /\ Goto(IF reg.cnt # 0 THEN "I_ENDWHILE3" ELSE "S_FETCH")
          /\ UNCHANGED <<reg, ram, data>>
       \/ /\ pstate = "I_ENDWHILE3"
          /\ reg' = [reg EXCEPT !.cnt = @ + (IF code = "[" THEN -1 ELSE IF code = "]" THEN 1 ELSE 0)]
          /\ Goto("I_ENDWHILE4") /\ UNCHANGED <<ram, data, code>>
       \/ /\ pstate = "I_ENDWHILE4" /\ Pc(IF reg.cnt = 0 THEN 1 ELSE -1)
          /\ Goto("I_ENDWHILE2") /\ UNCHANGED <<ram, data, code>>
    /\ UNCHANGED <<io, wild>>

(* What there is when an instruction has ended.                                        *)
Ended ==
    /\ at' = IF pstate' = "S_FETCH"
             THEN [ip |-> reg'.pc, dp |-> reg'.ptr, memory |-> ram', out |-> io'.out]
             ELSE at
    /\ UNCHANGED program

Next ==
    /\ FetchDecode \/ Move \/ Count \/ Getc \/ Putc \/ While \/ EndWhile
    /\ Ended

-----------------------------------------------------------------------------
(* From instruction to instruction the processor does what the interpreter does,       *)
(* loops within loops included, until a loop is entered on a zero or a cell is           *)
(* written out that was not read since the pointer moved.                                *)
DoesAsInterpreter == at' # at => Interpreter!Execute \/ wild'
=============================================================================
