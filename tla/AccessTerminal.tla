--------------------------- MODULE AccessTerminal ---------------------------
(* The lock's state machine (fsm.vhd).  A press is a set of keys, for several  *)
(* may be down in one clock (here up to two); the machine looks for the digit it expects first,  *)
(* then for the confirming key, then for any other.  A state within a code is    *)
(* the code and how many of its digits are in; the two codes share the first.    *)
EXTENDS Naturals, Sequences

VARIABLES
    present_state,
    typed        \* the presses since PWD_CHECK: how many, which codes they spell,
                 \* and whether each was of one key

vars == <<present_state, typed>>

Confirm == 15
Keys == 0..15
Code == << <<9, 3, 4, 2, 5, 9, 9, 0, 7>>, <<9, 4, 9, 4, 8, 1, 5, 8, 5, 1, 2>> >>

Nothing == [n |-> 0, codes |-> {1, 2}, single |-> TRUE]

State(name) == [name |-> name, code |-> 0, n |-> 0]
Num(c, n) == [name |-> "NUM", code |-> c, n |-> n]       \* PWDc_NUMn_OK
Entering(s) == s.name \in {"PWD_CHECK", "NUM", "PWD_ERR", "PWD_OK"}

Init == present_state = State("PWD_CHECK") /\ typed = Nothing

Digit(c, n) == Code[c][n]

-----------------------------------------------------------------------------
(* The state after n digits of code c; after the first it is not yet known which. *)
At(c, n) == IF n = Len(Code[c]) THEN State("PWD_OK") ELSE Num(IF n = 1 THEN 1 ELSE c, n)

(* The codes whose next digit may come now, and those of them it is down for; two     *)
(* only if the codes part here, when the first has precedence.                          *)
Ways(s) ==
    IF s.name = "PWD_CHECK" THEN {1} ELSE IF s.name # "NUM" THEN {}
    ELSE IF s.n = 1 THEN {1, 2} ELSE {s.code}
Expected(s, K) == {c \in Ways(s) : Digit(c, s.n + 1) \in K}

\* Mutant of Pressed: a press after the whole code does not spoil it.
PressedLate(s, K) ==
    LET fits == Expected(s, K) IN
    IF fits # {} THEN At(IF 1 \in fits THEN 1 ELSE 2, s.n + 1)
    ELSE IF Confirm \in K THEN IF s.name = "PWD_OK" THEN State("MSG_ACCESS_GRANTED") ELSE State("MSG_ACCESS_DENIED")
    ELSE IF s.name = "PWD_OK" THEN s ELSE State("PWD_ERR")

(* next_state_logic while a code is entered, a key being down.                      *)
Pressed(s, K) ==
    LET fits == Expected(s, K) IN
    IF fits # {} THEN At(IF 1 \in fits THEN 1 ELSE 2, s.n + 1)
    ELSE IF Confirm \in K THEN IF s.name = "PWD_OK" THEN State("MSG_ACCESS_GRANTED") ELSE State("MSG_ACCESS_DENIED")
    ELSE State("PWD_ERR")

Press ==
    /\ Entering(present_state)
    /\ \E k, j \in Keys :
         /\ present_state' = Pressed(present_state, {k, j})
         /\ typed' = IF ~ Entering(present_state') THEN typed
                     ELSE [n |-> IF typed.n > Len(Code[2]) THEN typed.n ELSE typed.n + 1,
                           codes |-> {c \in typed.codes : typed.n < Len(Code[c])
                                                          /\ Code[c][typed.n + 1] \in {k, j}},
                           single |-> typed.single /\ k = j]

(* The counter overflows when the message has been shown.                           *)
Shown ==
    /\ present_state.name \in {"MSG_ACCESS_GRANTED", "MSG_ACCESS_DENIED"}
    /\ present_state' = State("FINISH")
    /\ UNCHANGED typed

Finish ==
    /\ present_state.name = "FINISH"
    /\ present_state' = State("PWD_CHECK") /\ typed' = Nothing

Next == Press \/ Shown \/ Finish

-----------------------------------------------------------------------------
(* Access is granted only after presses among which one of the codes can be found,   *)
(* a key in each press and a press for each digit, whatever else was down with them.  *)
Spelt == \E c \in typed.codes : typed.n = Len(Code[c])
GrantedOnlyForCode == present_state.name = "MSG_ACCESS_GRANTED" => Spelt

(* And it is granted to whoever types a code key by key: neither the digit the codes   *)
(* share nor an earlier attempt leads astray.                                           *)
CodeIsGranted == present_state.name = "MSG_ACCESS_DENIED" => ~ (Spelt /\ typed.single)
=============================================================================
