--------------------------- MODULE ButtonTrigger ---------------------------
(* Commands run by push buttons (btntrigger.c): one loop that waits for the   *)
(* inputs of the PiFace board until three readings in a row agree, the event   *)
(* that runs a command for every button that went down or up, and the signal   *)
(* that ends the program.  The inputs bounce while the loop is anywhere.        *)
EXTENDS Naturals, Sequences, FiniteSets

CONSTANTS
    Buttons,     \* the eight buttons
    MaxChanges   \* bound: changes of the inputs

VARIABLES
    hw,        \* the board: the pressed buttons, whether they changed since they were
               \* read, and for how many timeouts they have not changed
    pc,        \* waiting (first time, again), at the event, or stopped
    i,         \* the loop's i and samples
    samples,
    btn,       \* buttons.previous_state and buttons.state, and the buttons whose down
               \* and up command the last event ran
    io_term

vars == <<hw, pc, i, samples, btn, io_term>>

Count == 3                       \* samples_count
Cleared == [k \in 1..Count |-> Buttons]   \* samples_clear; a pressed button reads 0

Init ==
    /\ hw = [pressed |-> {}, irq |-> FALSE, quiet |-> 0, changes |-> 0]
    /\ pc = "first" /\ i = 0 /\ samples = Cleared
    /\ btn = [prev |-> {}, state |-> {}, down |-> {}, up |-> {}]
    /\ io_term = FALSE

-----------------------------------------------------------------------------
(* A button is pressed, released, or its contact bounces.  The board keeps the   *)
(* interrupt until the inputs are read.                                            *)
Change ==
    /\ hw.changes < MaxChanges /\ pc # "stopped"
    /\ \E b \in Buttons :
         hw' = [pressed |-> IF b \in hw.pressed THEN hw.pressed \ {b} ELSE hw.pressed \union {b},
                irq |-> TRUE, quiet |-> 0, changes |-> hw.changes + 1]
    /\ UNCHANGED <<pc, i, samples, btn, io_term>>

(* SIGINT or SIGTERM.  Only a wait it interrupts looks at io_term.                 *)
Signal ==
    /\ ~ io_term /\ pc # "stopped"
    /\ io_term' = TRUE
    /\ pc' = IF pc = "event" THEN pc ELSE "stopped"
    /\ UNCHANGED <<hw, i, samples, btn>>

Equal(s) == \A j, k \in 1..Count : s[j] = s[k]

(* io_wait_for_sample: the sample is taken in, i counted, the loop left or not.    *)
Sample(n) ==
    LET s == Append(Tail(samples), hw.pressed) IN
      /\ samples' = s /\ i' = n + 1
      /\ pc' = IF n + 1 < Count \/ ~ Equal(s) THEN "again" ELSE "event"

(* The wait returns because the inputs changed.                                     *)
Changed ==
    /\ pc \in {"first", "again"} /\ hw.irq
    /\ hw' = [hw EXCEPT !.irq = FALSE]
    /\ Sample(IF pc = "first" THEN i ELSE 0)
    /\ UNCHANGED <<btn, io_term>>

(* The wait times out.  The first one has no timeout.                               *)
TimedOut ==
    /\ pc = "again" /\ ~ hw.irq
    /\ hw' = [hw EXCEPT !.quiet = IF @ < Count THEN @ + 1 ELSE @]
    /\ Sample(i)
    /\ UNCHANGED <<btn, io_term>>

(* The wait fails: the program ends.                                                *)
Fail ==
    /\ pc \in {"first", "again"} /\ hw.changes = MaxChanges
    /\ pc' = "stopped"
    /\ UNCHANGED <<hw, i, samples, btn, io_term>>

\* Mutant of Event: what changed during the event is thrown away.
EventDropsChange ==
    /\ pc = "event" /\ pc' = "first"
    /\ btn' = [prev |-> btn.state, state |-> samples[Count],
                down |-> samples[Count] \ btn.state, up |-> btn.state \ samples[Count]]
    /\ hw' = [hw EXCEPT !.irq = FALSE]
    /\ i' = 0 /\ samples' = Cleared
    /\ UNCHANGED io_term

(* buttons_event and the handlers: a command is run for each button that went down  *)
(* or up.  Then the loop clears the samples and waits.        *)
Event ==
    /\ pc = "event" /\ pc' = "first"
    /\ btn' = [prev |-> btn.state, state |-> samples[Count],
                down |-> samples[Count] \ btn.state, up |-> btn.state \ samples[Count]]
    /\ i' = 0 /\ samples' = Cleared
    /\ UNCHANGED <<hw, io_term>>

Next == Change \/ Signal \/ Changed \/ TimedOut \/ Fail \/ Event
Main == Changed \/ TimedOut \/ Event

-----------------------------------------------------------------------------
(* No command is run for a bounce: when the state of the buttons changes, the      *)
(* inputs have kept the new state for two timeouts.  (They may change again while   *)
(* the event is handled, after the last reading.)                                    *)
Debounced == pc # "event" /\ pc' = "event" => hw.quiet' >= Count - 1

(* When the inputs no longer change the program comes to have their state: a change   *)
(* during the event is not lost.                                                        *)
Settled == btn.state = hw.pressed \/ pc = "stopped"
=============================================================================
