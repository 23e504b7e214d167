------------------------------ MODULE Brainfuck ------------------------------
(* The interpreter of main.cpp: fetch_decode and execute.  It is also what the *)
(* processor of cpu.vhd promises, one instruction a step (BrainfuckCpu).        *)
EXTENDS Integers, Sequences, FiniteSets

CONSTANTS
    Cells,      \* cells of the memory
    Values,     \* values of a cell (256 in the code)
    Inputs      \* what can be read

VARIABLES
    program,
    at          \* ip, dp, memory and what was written

Cell == 0..(Cells - 1)
Fetch(p, ip) == IF ip \in DOMAIN p THEN p[ip] ELSE "end"

Start == [ip |-> 1, dp |-> 0, memory |-> [c \in Cell |-> 0], out |-> <<>>]

(* How deep an instruction lies: the brackets opened up to it less those closed.  *)
Depth(p) ==
    LET count(bracket, i) == Cardinality({k \in 1..i : p[k] = bracket})
    IN [i \in 0..Len(p) |-> count("[", i) - count("]", i)]

(* The programs the interpreter is defined for: its scans end at a bracket.       *)
Balanced(p) == LET d == Depth(p) IN d[Len(p)] = 0 /\ \A i \in DOMAIN p : d[i] >= 0

(* The bracket the scan of execute stops at: the nearest at which the level it     *)
(* counts comes back to zero.                                                        *)
Close(p, i) ==
    CHOOSE j \in (i + 1)..Len(p) :
      Depth(p)[j] = Depth(p)[i - 1] /\ \A k \in (i + 1)..(j - 1) : Depth(p)[k] > Depth(p)[i - 1]
Open(p, j) == CHOOSE i \in 1..(j - 1) : p[i] = "[" /\ Close(p, i) = j

(* execute, for one instruction; dp stays within the memory.                         *)
Do(instr, s) ==
    LET here == s.memory[s.dp] IN
    CASE instr = "+" -> {[s EXCEPT !.ip = @ + 1, !.memory[s.dp] = (here + 1) % Values]}
      [] instr = "-" -> {[s EXCEPT !.ip = @ + 1, !.memory[s.dp] = (here - 1) % Values]}
      [] instr = ">" -> {[s EXCEPT !.ip = @ + 1, !.dp = @ + 1]}
      [] instr = "<" -> {[s EXCEPT !.ip = @ + 1, !.dp = @ - 1]}
      [] instr = "." -> {[s EXCEPT !.ip = @ + 1, !.out = Append(@, here)]}
      [] instr = "," -> {[s EXCEPT !.ip = @ + 1, !.memory[s.dp] = x] : x \in Inputs}
      [] instr = "[" -> {[s EXCEPT !.ip = (IF here = 0 THEN Close(program, @) ELSE @) + 1]}
      [] instr = "]" -> {[s EXCEPT !.ip = (IF here # 0 THEN Open(program, @) ELSE @) + 1]}
      [] OTHER -> {[s EXCEPT !.ip = @ + 1]}

Init == at = Start
Execute ==
    /\ Fetch(program, at.ip) # "end"
    /\ at' \in {s \in Do(Fetch(program, at.ip), at) : s.dp \in Cell}
    /\ UNCHANGED program
=============================================================================
