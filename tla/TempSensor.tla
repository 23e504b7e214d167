----------------------------- MODULE TempSensor -----------------------------
(* The temperature sensor: a PIC on a Modbus line with a 1-Wire thermometer.  *)
(* Its interrupt routine (main.c, isr) runs the state machine of the line;     *)
(* the main loop busy-waits on that state to check, answer and send, and       *)
(* between frames makes the thermometer convert and reads it.  The two share   *)
(* mb_state, mb_ferr and the frame without any lock, and what the main loop    *)
(* does not see in time is gone.                                                *)
(* A character is <<request, i>>; a CRC is right when the frame holds the      *)
(* characters of one request from the first to the last.                        *)
EXTENDS Naturals, Sequences

CONSTANTS
    none,        \* no request, no answer
    MaxLen,      \* MB_MAXFRAMELEN, also the length of a request (8 in the code)
    TConv,       \* ticks of timer 1 a conversion takes (3 in the code)
    Refresh,     \* ticks between conversions (120 in the code)
    MaxFrames,   \* bound: requests of the master
    MaxFaults,   \* bound: characters spoilt or pauses within a frame
    MaxFails     \* bound: failed detections of the thermometer

VARIABLES
    mb,       \* mb_state
    ferr,     \* mb_ferr
    frame,    \* mb_frame, mb_framelen of it
    t2,       \* timer 2: off, running, or past MB_TIMEOUT_CHAR
    pc,       \* where the main loop is
    w1,       \* the thermometer: state, tick counter, the two flags, age of the
              \* last conversion in ticks, and the detections that failed
    moved,    \* has mb_addr been written
    line,     \* what was sent since the last request
    m         \* the master: its request, what is left of it, and the faults

vars == <<mb, ferr, frame, t2, pc, w1, moved, line, m>>

(* A read of a register the unit has; one it has not, or a function it does    *)
(* not know; a new address; a broadcast; and a longer frame of another unit.   *)
Requests == {"TEMP", "REG", "SETID", "ALL", "THEIRS"}

(* Writing the address succeeds and is answered by the exception MB_EADDR.     *)
AnswerOf == [TEMP |-> "temp", REG |-> "refused", SETID |-> "refused",
             ALL |-> none, THEIRS |-> none]

Length(r) == IF r = "THEIRS" THEN MaxLen + 1 ELSE MaxLen
Whole(r) == [i \in 1..Length(r) |-> <<r, i>>]

Init ==
    /\ mb = "INIT" /\ ferr = FALSE /\ frame = <<>>
    /\ t2 = "run"
    /\ pc = "detect"
    /\ w1 = [st |-> "NOTINIT", cnt |-> 0, conv |-> TRUE, read |-> FALSE, age |-> 0, fails |-> 0]
    /\ moved = FALSE
    /\ line = none
    /\ m = [req |-> none, left |-> 0, frames |-> 0, faults |-> 0, broken |-> FALSE, missed |-> FALSE]

-----------------------------------------------------------------------------
(* A character or a tick of timer 2 takes far longer than the main loop needs  *)
(* to see a change of mb_state, unless it is busy with the thermometer.         *)
Seen == ~ \/ pc = "waitcw" /\ mb = "CONTROL"
          \/ pc = "waitidle" /\ mb = "IDLE"
          \/ pc \in {"check", "process", "emit"}
          \/ pc \in {"loop", "switch"} /\ mb = "RECEPTION"

(* The master asks when the line has been silent and nothing is to be answered. *)
Ask ==
    /\ m.left = 0 /\ m.frames < MaxFrames /\ Seen
    /\ (mb = "IDLE" /\ t2 = "off") \/ mb = "INIT"
    /\ \E r \in Requests :
         m' = [m EXCEPT !.req = r, !.left = Length(r), !.frames = @ + 1,
                        !.broken = (mb = "INIT"), !.missed = FALSE]
    /\ line' = none
    /\ UNCHANGED <<mb, ferr, frame, t2, pc, w1, moved>>

Stored(f) ==
    IF Len(f) < MaxLen THEN Append(f, <<m.req, Length(m.req) + 1 - m.left>>) ELSE f

(* isr, receive interrupt.                                                      *)
Receive ==
    /\ m.left > 0 /\ Seen
    /\ m' = [m EXCEPT !.left = @ - 1]
    /\ \/ mb \in {"INIT", "EMISSION"} /\ t2' = (IF t2 = "off" THEN "off" ELSE "run")
          /\ UNCHANGED <<mb, ferr, frame>>
       \/ mb = "IDLE" /\ mb' = "RECEPTION" /\ t2' = "run" /\ frame' = Stored(<<>>) /\ ferr' = FALSE
       \/ mb = "RECEPTION" /\ t2' = "run" /\ frame' = Stored(frame) /\ UNCHANGED mb
          /\ ferr' = (ferr \/ Len(frame) >= MaxLen)
       \/ mb = "CONTROL" /\ ferr' = TRUE /\ UNCHANGED <<mb, t2, frame>>
    /\ UNCHANGED <<pc, w1, moved, line>>

(* A frame or overrun error: the character is dropped.                          *)
ReceiveBad ==
    /\ m.left > 0 /\ Seen /\ m.faults < MaxFaults
    /\ m' = [m EXCEPT !.left = @ - 1, !.faults = @ + 1, !.broken = TRUE]
    /\ ferr' = TRUE
    /\ UNCHANGED <<mb, frame, t2, pc, w1, moved, line>>

(* isr, timer 2: _mb_counter reaches MB_TIMEOUT_CHAR, then MB_TIMEOUT_FRAME.   *)
(* In the middle of a frame that is a pause of the master's.  A reception that *)
(* the main loop did not see begin is not answered.                              *)
Tick2 ==
    /\ t2 # "off" /\ Seen
    /\ m.left = 0 \/ m.faults < MaxFaults
    /\ \/ /\ t2 = "run" /\ t2' = "char"
          /\ mb' = IF mb = "RECEPTION" THEN "CONTROL" ELSE mb
       \/ t2 = "char" /\ t2' = "off" /\ mb' = "IDLE"
    /\ m' = [m EXCEPT !.faults = @ + (IF m.left = 0 THEN 0 ELSE 1),
                      !.broken = @ \/ m.left > 0,
                      !.missed = @ \/ (mb = "RECEPTION" /\ pc # "waitcw")]
    /\ UNCHANGED <<ferr, frame, pc, w1, moved, line>>

(* isr, timer 1: every 250 ms.  The main loop comes round within that time, so  *)
(* at most one tick falls into a command to the thermometer.                     *)
Tick1 ==
    /\ pc # "detect" /\ ~ w1.conv /\ ~ w1.read
    /\ pc = "conv" => w1.age = 0
    /\ LET c == w1.cnt + 1
           w == [w1 EXCEPT !.cnt = c, !.age = IF @ < TConv THEN @ + 1 ELSE @]
       IN w1' = IF w1.st = "WAITING" /\ c >= Refresh
                THEN [w EXCEPT !.conv = TRUE, !.cnt = 0]
                ELSE IF w1.st = "PENDING" /\ c >= TConv
                THEN [w EXCEPT !.st = "WAITING", !.read = TRUE, !.cnt = 0]
                ELSE w
    /\ UNCHANGED <<mb, ferr, frame, t2, pc, moved, line, m>>

-----------------------------------------------------------------------------
(* main, w1_detect.  After a failure all interrupts are off for 30 seconds, and *)
(* the tick that is due by then is counted.                                      *)
Detected ==
    /\ pc = "detect" /\ pc' = "loop"
    /\ w1' = [w1 EXCEPT !.st = "WAITING"]
    /\ UNCHANGED <<mb, ferr, frame, t2, moved, line, m>>

NotDetected ==
    /\ pc = "detect" /\ w1.fails < MaxFails
    /\ w1' = [w1 EXCEPT !.fails = @ + 1, !.cnt = @ + 1]
    /\ m' = [m EXCEPT !.left = 0, !.broken = TRUE]
    /\ UNCHANGED <<mb, ferr, frame, t2, pc, moved, line>>

(* The thermometer: a flag is taken and the bus is driven, for milliseconds.    *)
StartRead ==
    /\ pc = "loop" /\ w1.read
    /\ w1' = [w1 EXCEPT !.read = FALSE] /\ pc' = "read"
    /\ UNCHANGED <<mb, ferr, frame, t2, moved, line, m>>

ReadData ==
    /\ pc = "read" /\ pc' = "read_done"
    /\ UNCHANGED <<mb, ferr, frame, t2, w1, moved, line, m>>

StartConvert ==
    /\ pc \in {"loop", "read_done"} /\ w1.conv /\ (pc = "loop" => ~ w1.read)
    /\ w1' = [w1 EXCEPT !.conv = FALSE, !.st = "PENDING", !.age = 0] /\ pc' = "conv"
    /\ UNCHANGED <<mb, ferr, frame, t2, moved, line, m>>

Convert ==
    /\ pc = "conv" /\ pc' = "switch"
    /\ w1' = [w1 EXCEPT !.age = 0]
    /\ UNCHANGED <<mb, ferr, frame, t2, moved, line, m>>

(* main, switch (mb_state).                                                      *)
Switch ==
    /\ \/ pc = "loop" /\ ~ w1.read /\ ~ w1.conv
       \/ pc = "read_done" /\ ~ w1.conv
       \/ pc = "switch"
    /\ pc' = CASE mb = "RECEPTION" -> "waitcw"
               [] mb = "EMISSION" /\ frame # <<>> -> "emit"
               [] OTHER -> "loop"
    /\ UNCHANGED <<mb, ferr, frame, t2, w1, moved, line, m>>

WaitControl ==
    /\ pc = "waitcw" /\ mb = "CONTROL"
    /\ pc' = IF ferr THEN "loop" ELSE "check"
    /\ UNCHANGED <<mb, ferr, frame, t2, w1, moved, line, m>>

(* mb_checkframe: the length, the address and the CRC.                           *)
Accepted == \E r \in Requests \ {"THEIRS"} : frame = Whole(r) /\ (moved => r = "ALL")

CheckFrame ==
    /\ pc = "check"
    /\ ferr' = ~ Accepted
    /\ pc' = IF Accepted THEN "waitidle" ELSE "loop"
    /\ UNCHANGED <<mb, frame, t2, w1, moved, line, m>>

WaitIdle ==
    /\ pc = "waitidle" /\ mb = "IDLE"
    /\ pc' = IF ferr THEN "loop" ELSE "process"
    /\ UNCHANGED <<mb, ferr, frame, t2, w1, moved, line, m>>

(* mb_processframe: the answer replaces the request in the frame.  The address  *)
(* is written only when the ADDR_EN pin allows it.                                *)
ProcessFrame ==
    /\ pc = "process" /\ pc' = "loop"
    /\ LET r == frame[1][1] IN
         /\ moved' \in (IF r = "SETID" THEN BOOLEAN ELSE {moved})
         /\ IF AnswerOf[r] = none THEN UNCHANGED <<mb, frame>>
            ELSE mb' = "EMISSION" /\ frame' = <<AnswerOf[r]>>
    /\ UNCHANGED <<ferr, t2, w1, line, m>>

(* The receiver is off while the main loop sends all of the frame.               *)
Emit ==
    /\ pc = "emit" /\ pc' = "loop"
    /\ line' = frame[1] /\ frame' = <<>>
    /\ t2' = "run"
    /\ UNCHANGED <<mb, ferr, w1, moved, m>>

Main == \/ Detected \/ StartRead \/ ReadData \/ StartConvert \/ Convert \/ Switch
        \/ WaitControl \/ CheckFrame \/ WaitIdle \/ ProcessFrame \/ Emit

Interrupt == Receive \/ Tick2

Next == Main \/ Interrupt \/ Tick1 \/ NotDetected \/ ReceiveBad \/ Ask

-----------------------------------------------------------------------------
(* The sensor is a unit of the line as ModbusSlave has it.                        *)
Slave == INSTANCE ModbusSlave WITH req <- m.req, rep <- line
IsSlave == Slave!Init /\ [][Slave!Next]_<<m.req, line>>

(* A conversion is read no sooner than its time after the command, less one tick *)
(* that may fall into the command itself; each failed detection at the start      *)
(* takes a tick more from the first conversion, whose count nobody resets.        *)
ReadsConverted ==
    pc = "read" => w1.age + 1 + w1.fails >= TConv

(* The thermometer is read again and again, whatever goes on on the line.         *)
Measures == []<>(pc = "read")

(* A request for the unit that came whole is answered, unless the main loop was   *)
(* at the thermometer while it came.                                               *)
Asked == m.req # none /\ AnswerOf[m.req] # none /\ ~ moved
Spoilt == m.broken \/ m.missed
Answers == (Asked /\ ~ Spoilt) ~> (line # none \/ Spoilt)
=============================================================================
