------------------------------ MODULE LapTimer ------------------------------
(* The lap timer (main.c): a 16-bit hardware counter that a compare interrupt  *)
(* adds up to global_time, and a main loop that reads global_time for the       *)
(* stopwatch.  Both run global_time_update; the main loop masks the interrupt   *)
(* around it and, restoring the mask, also throws away an interrupt that came   *)
(* meanwhile - after which the next one is a whole turn of the counter away.     *)
(* The 32-bit result is read in two halves with the interrupt on.                *)
EXTENDS Integers

CONSTANTS
    W,           \* values of the counter, and of half of global_time (2^16 in the code)
    Compare,     \* ticks between interrupts (0x80 in the code)
    Display,     \* turns of the main loop between displays, here a tick each
    MaxNow       \* bound: ticks of the clock

VARIABLES
    now,     \* the real time in ticks
    tmr,     \* the timer: CCR0, the interrupt's flag and its mask
    gt,      \* global_time and prev_time
    pc,      \* where the main loop is, and what for it reads the time
    rd,      \* get_time: when it began, the half it has, whether a tick fell into it
    cnt,     \* turns of the loop since the last display
    lap      \* the stopwatch: isrunning, t, t0, and, for the properties, between which
             \* times t and t0 were taken, when it was stopped, and whether the halves
             \* of t or t0 were of different times

vars == <<now, tmr, gt, pc, rd, cnt, lap>>

Tar == now % W

Init ==
    /\ now = 0
    /\ tmr = [ccr |-> Compare, ifg |-> FALSE, ie |-> TRUE]
    /\ gt = [time |-> 0, prev |-> 0]
    /\ pc = "loop"
    /\ rd = [for |-> "reset", from |-> 0, low |-> 0, high |-> 0, slow |-> FALSE]
    /\ cnt = 0
    /\ lap = [run |-> FALSE, t |-> 0, t0 |-> 0, at |-> <<0, 0>>, at0 |-> <<0, 0>>,
              stopped |-> 0, torn |-> FALSE]

-----------------------------------------------------------------------------
(* The clock.  An interrupt that is on is served before the next tick, and       *)
(* reading the time takes less than a tick.                                        *)
Tick ==
    /\ now < MaxNow
    /\ ~ (tmr.ifg /\ tmr.ie)
    /\ pc = "delay" \/ (pc # "loop" /\ ~ rd.slow)
    /\ now' = now + 1
    /\ tmr' = [tmr EXCEPT !.ifg = @ \/ (now + 1) % W = tmr.ccr]
    /\ pc' = IF pc = "delay" THEN "loop" ELSE pc
    /\ rd' = [rd EXCEPT !.slow = pc # "delay"]
    /\ UNCHANGED <<gt, cnt, lap>>

\* Mutant of Updated: the counter is taken to turn only at zero.
UpdatedNoTurn(act) ==
    [time |-> gt.time + (IF act >= gt.prev THEN act - gt.prev ELSE act), prev |-> act]

(* global_time_update with the counter at act.                                     *)
Updated(act) ==
    [time |-> gt.time + (IF act >= gt.prev THEN act - gt.prev ELSE act + (W - gt.prev)),
     prev |-> act]

(* Timer_A.                                                                         *)
TimerA ==
    /\ tmr.ifg /\ tmr.ie
    /\ gt' = Updated(Tar)
    /\ tmr' = [ccr |-> (tmr.ccr + Compare) % W, ifg |-> FALSE, ie |-> TRUE]
    /\ UNCHANGED <<now, pc, rd, cnt, lap>>

-----------------------------------------------------------------------------
(* A turn of the main loop: a key, the light gate, or the display.                  *)
GetTime(for) ==
    /\ pc' = "update"
    /\ rd' = [rd EXCEPT !.for = for, !.from = now, !.slow = FALSE]

Stop ==
    /\ lap' = [lap EXCEPT !.run = FALSE, !.stopped = IF lap.run THEN now ELSE @]
    /\ pc' = "delay"
    /\ UNCHANGED rd

(* The key # and the gate start it when it shows zero; running, they stop it.        *)
Go ==
    \/ lap.run /\ Stop
    \/ ~ lap.run /\ lap.t = lap.t0 /\ GetTime("start") /\ UNCHANGED lap

Loop ==
    /\ pc = "loop"
    /\ cnt' = (cnt + 1) % Display
    /\ \/ cnt = 0 /\ lap.run /\ GetTime("display") /\ UNCHANGED lap
       \/ cnt # 0 /\ GetTime("reset") /\ UNCHANGED lap
       \/ cnt # 0 /\ Go
       \/ (cnt # 0 \/ ~ lap.run) /\ pc' = "delay" /\ UNCHANGED <<rd, lap>>
    /\ UNCHANGED <<now, tmr, gt>>

(* global_time_update in the main loop: the counter is read with the interrupt       *)
(* masked; the mask is restored by a write that clears the flag.                      *)
Mask ==
    /\ pc = "update" /\ tmr.ie
    /\ tmr' = [tmr EXCEPT !.ie = FALSE]
    /\ gt' = Updated(Tar)
    /\ UNCHANGED <<now, pc, rd, cnt, lap>>

Unmask ==
    /\ pc = "update" /\ ~ tmr.ie
    /\ tmr' = [tmr EXCEPT !.ie = TRUE, !.ifg = FALSE]
    /\ pc' = "low"
    /\ UNCHANGED <<now, gt, rd, cnt, lap>>

(* return global_time: two words.                                                      *)
ReadLow ==
    /\ pc = "low" /\ pc' = "high"
    /\ rd' = [rd EXCEPT !.low = gt.time % W, !.high = gt.time \div W]
    /\ UNCHANGED <<now, tmr, gt, cnt, lap>>

ReadHigh ==
    /\ pc = "high" /\ pc' = "delay"
    /\ LET v == (gt.time \div W) * W + rd.low
           during == <<rd.from, now>>
           bad == rd.high # gt.time \div W
       IN lap' = IF rd.for = "display"
                 THEN [lap EXCEPT !.t = v, !.at = during, !.torn = @ \/ bad]
                 ELSE [lap EXCEPT !.t = v, !.t0 = v, !.at = during, !.at0 = during,
                                  !.run = @ \/ rd.for = "start", !.torn = bad]
    /\ UNCHANGED <<now, tmr, gt, rd, cnt>>

Next == Tick \/ TimerA \/ Loop \/ Mask \/ Unmask \/ ReadLow \/ ReadHigh

-----------------------------------------------------------------------------
(* The time shown is the time since the start to the tick, although interrupts      *)
(* are lost and the counter turns - unless an interrupt carried into the high half   *)
(* between the two reads of global_time.                                              *)
TimeIsExact ==
    ~ lap.torn => /\ lap.t - lap.t0 >= lap.at[1] - lap.at0[2]
                  /\ lap.t - lap.t0 <= lap.at[2] - lap.at0[1]

(* The result is that of the last display, but never more than a display's period    *)
(* older than the stop.                                                                *)
StopIsClose == ~ lap.run /\ lap.t # lap.t0 => lap.stopped - lap.at[2] <= Display
=============================================================================
