----------------------------- MODULE TqsAdapter -----------------------------
(* The TQS1-TQS3 adapter: a PIC that answers Modbus requests on one serial   *)
(* port.  Its interrupt routine (main.c, isr) stores received characters,     *)
(* sends the rest of an answer and runs the timer of the line; it tells the   *)
(* main loop of each by a flag.  The main loop (modbus.c, modbus_process)     *)
(* tests the flags one at a time, so an interrupt can come between a test     *)
(* and what follows it.                                                        *)
(* A character is <<what, i>>: the i-th one of a request or of an answer.  A  *)
(* frame has a right CRC when the buffer holds the characters of one request  *)
(* from the first to the last and nothing else.                               *)
EXTENDS Naturals, Sequences

CONSTANTS
    none,        \* no request, no answer
    FrameLen,    \* characters of a request (8 in the code)
    ReplyLen,    \* characters of an answer (7 in the code)
    MaxFrames,   \* bound: requests of the master
    MaxFaults    \* bound: characters lost or frames torn by a pause

VARIABLES
    fsm,      \* _fsm.state
    act,      \* _fsm.action
    pc,       \* where modbus_process is: "fsm", "clear", "act", "write", "put"
    flags,    \* _flags; err is err_frame, the only error flag that is read
    buf,      \* _buf[_front .. _back)
    tmr,      \* half characters counted: "run", past "1.5", past 3.5 and "off"
    rcie,     \* is the receiver's interrupt enabled (the line is ours otherwise)
    tx,       \* [ie |-> TXIE, n |-> _sendlen]
    line,     \* the characters sent since the last request
    m         \* the master: its request, what is left of it, and the faults

vars == <<fsm, act, pc, flags, buf, tmr, rcie, tx, line, m>>

Requests == {"ID", "LINK", "FUNC", "THEIRS"}

(* Two registers can be read.  Another function, register or quantity should  *)
(* be refused by an exception, but MRP_REPLY_ERROR is -1 and its case label    *)
(* never equals the uint8_t 255: what goes out is the request itself.         *)
AnswerOf == [ID |-> "id", LINK |-> "link", FUNC |-> "echo", THEIRS |-> none]

Whole(r) == [i \in 1..FrameLen |-> <<r, i>>]
Down == [t15 |-> FALSE, t35 |-> FALSE, sent |-> FALSE, rcvd |-> FALSE, err |-> FALSE]

Init ==
    /\ fsm = "SINIT" /\ act = "AINIT" /\ pc = "fsm"
    /\ flags = Down
    /\ buf = <<>>
    /\ tmr = "off"
    /\ rcie = TRUE
    /\ tx = [ie |-> FALSE, n |-> 0]
    /\ line = <<>>
    /\ m = [req |-> none, left |-> 0, frames |-> 0, faults |-> 0,
            lost |-> FALSE, broken |-> FALSE]

-----------------------------------------------------------------------------
(* The interrupts.  One comes a character's time after the other, and the     *)
(* main loop turns many times in that time: it has seen the flag of the last  *)
(* one, where its state looks at that flag.                                    *)
Settled == ~ (flags.sent \/ flags.rcvd \/ flags.t35 \/ (flags.t15 /\ fsm = "SRECEPTION"))

(* A flag raised between the test and the clearing of all flags is lost; the   *)
(* window is a few instructions, so at most one character of a request and its *)
(* answer falls into it.                                                        *)
Hit == IF pc = "clear" THEN ~ m.lost ELSE TRUE
HitNow == m.lost \/ pc = "clear"

(* The master asks when the line has been silent; a unit that is still in its  *)
(* first silence hears the request too and keeps its characters.               *)
Ask ==
    /\ m.left = 0 /\ m.frames < MaxFrames
    /\ act = "AIDLE" /\ rcie /\ Settled /\ ~ flags.t15
    /\ tmr = "off" \/ fsm = "SINIT"
    /\ \E r \in Requests :
         m' = [m EXCEPT !.req = r, !.left = FrameLen, !.frames = @ + 1, !.lost = FALSE,
                        !.broken = @ \/ fsm = "SINIT"]
    /\ line' = <<>>
    /\ UNCHANGED <<fsm, act, pc, flags, buf, tmr, rcie, tx>>

(* modbus_event(MB_EVENT_RCVD): the character goes to the end of the buffer.   *)
Receive ==
    /\ m.left > 0 /\ rcie /\ Settled /\ Hit
    /\ buf' = Append(buf, <<m.req, FrameLen + 1 - m.left>>)
    /\ flags' = [flags EXCEPT !.rcvd = TRUE]
    /\ m' = [m EXCEPT !.left = @ - 1, !.lost = HitNow]
    /\ UNCHANGED <<fsm, act, pc, tmr, rcie, tx, line>>

(* A character with a wrong parity, or one overrun, is dropped and its flag is *)
(* read by nobody; one with a wrong stop bit raises err_frame.                 *)
ReceiveBad ==
    /\ m.left > 0 /\ rcie /\ Settled /\ m.faults < MaxFaults
    /\ \E e \in BOOLEAN : flags' = [flags EXCEPT !.err = @ \/ e]
    /\ m' = [m EXCEPT !.left = @ - 1, !.faults = @ + 1, !.broken = TRUE]
    /\ UNCHANGED <<fsm, act, pc, buf, tmr, rcie, tx, line>>

(* modbus_tmr_elapsed: the silence reaches 1.5 and then 3.5 characters.  In    *)
(* the middle of a request that is a pause of the master's.                     *)
Elapse ==
    /\ tmr # "off" /\ Settled /\ ~ tx.ie /\ pc \notin {"write", "put"}
    /\ \/ m.left = 0 /\ UNCHANGED m
       \/ /\ m.left > 0 /\ m.faults < MaxFaults
          /\ m' = [m EXCEPT !.faults = @ + 1, !.broken = TRUE]
    /\ \/ tmr = "run" /\ tmr' = "1.5" /\ flags' = [flags EXCEPT !.t15 = TRUE]
       \/ tmr = "1.5" /\ tmr' = "off" /\ flags' = [flags EXCEPT !.t35 = TRUE]
    /\ UNCHANGED <<fsm, act, pc, buf, rcie, tx, line>>

(* uart_int_tx: the next character of the answer.                              *)
Sent ==
    /\ tx.ie /\ Hit /\ Settled
    /\ tx' = [ie |-> tx.n >= 2, n |-> tx.n - 1]
    /\ line' = Append(line, buf[Len(line) + 1])
    /\ flags' = [flags EXCEPT !.sent = TRUE]
    /\ m' = [m EXCEPT !.lost = HitNow]
    /\ UNCHANGED <<fsm, act, pc, buf, tmr, rcie>>

-----------------------------------------------------------------------------
(* modbus_process, first switch: one flag is taken.                            *)
Take(f, g) ==
    /\ flags[f] /\ flags' = [flags EXCEPT ![f] = FALSE]
    /\ \A h \in g : ~ flags[h]
    /\ pc' = "act"
Nothing(g) == (\A h \in g : ~ flags[h]) /\ UNCHANGED flags
RunOnce == tmr' = "run"

SInit ==
    /\ pc = "fsm" /\ fsm = "SINIT"
    /\ \/ Take("t35", {}) /\ fsm' = "SIDLE" /\ UNCHANGED tmr
       \/ Take("rcvd", {"t35"}) /\ RunOnce /\ UNCHANGED fsm
       \/ Nothing({"t35", "rcvd"}) /\ pc' = "clear" /\ UNCHANGED <<fsm, tmr>>
    /\ UNCHANGED <<act, buf, rcie, tx, line, m>>

\* Mutant of SIdle: the first character does not start the timer.
SIdleNoTimer ==
    /\ pc = "fsm" /\ fsm = "SIDLE"
    /\ \/ /\ flags.rcvd /\ flags' = [flags EXCEPT !.rcvd = FALSE, !.err = FALSE]
          /\ fsm' = "SRECEPTION" /\ pc' = "act" /\ UNCHANGED tmr
       \/ Take("sent", {"rcvd"}) /\ fsm' = "SEMISSION" /\ RunOnce
       \/ Nothing({"rcvd", "sent"}) /\ pc' = "clear" /\ UNCHANGED <<fsm, tmr>>
    /\ UNCHANGED <<act, buf, rcie, tx, line, m>>

SIdle ==
    /\ pc = "fsm" /\ fsm = "SIDLE"
    /\ \/ /\ flags.rcvd /\ flags' = [flags EXCEPT !.rcvd = FALSE, !.err = FALSE]
          /\ fsm' = "SRECEPTION" /\ pc' = "act" /\ RunOnce
       \/ Take("sent", {"rcvd"}) /\ fsm' = "SEMISSION" /\ RunOnce
       \/ Nothing({"rcvd", "sent"}) /\ pc' = "clear" /\ UNCHANGED <<fsm, tmr>>
    /\ UNCHANGED <<act, buf, rcie, tx, line, m>>

(* TO_UINT8(_flags) = 0, with what came since the tests.                        *)
Clear ==
    /\ pc = "clear" /\ pc' = "act"
    /\ flags' = Down
    /\ UNCHANGED <<fsm, act, buf, tmr, rcie, tx, line, m>>

SReception ==
    /\ pc = "fsm" /\ fsm = "SRECEPTION"
    /\ \/ Take("rcvd", {}) /\ RunOnce /\ UNCHANGED <<fsm, act>>
       \/ Take("t15", {"rcvd"}) /\ fsm' = "SCONTROL" /\ act' = "ACONTROL" /\ UNCHANGED tmr
    /\ UNCHANGED <<buf, rcie, tx, line, m>>

SControl ==
    /\ pc = "fsm" /\ fsm = "SCONTROL"
    /\ \/ /\ flags.rcvd /\ flags' = [flags EXCEPT !.rcvd = FALSE, !.err = TRUE]
          /\ pc' = "act" /\ UNCHANGED <<fsm, act>>
       \/ Take("t35", {"rcvd"}) /\ fsm' = "SIDLE" /\ act' = "APROCESS"
    /\ UNCHANGED <<buf, tmr, rcie, tx, line, m>>

(* The end of an answer: wait for the shift register, then listen again.       *)
SEmission ==
    /\ pc = "fsm" /\ fsm = "SEMISSION"
    /\ \/ Take("sent", {}) /\ RunOnce /\ UNCHANGED <<fsm, buf, rcie>>
       \/ Take("t35", {"sent"}) /\ fsm' = "SIDLE" /\ buf' = <<>> /\ rcie' = TRUE /\ UNCHANGED tmr
    /\ UNCHANGED <<act, tx, line, m>>

(* modbus_process, second switch.                                              *)
AInit ==
    /\ pc = "act" /\ act = "AINIT"
    /\ buf' = <<>> /\ RunOnce
    /\ act' = "AIDLE" /\ pc' = "fsm"
    /\ UNCHANGED <<fsm, flags, rcie, tx, line, m>>

AIdle ==
    /\ pc = "act" /\ act = "AIDLE" /\ pc' = "fsm"
    /\ UNCHANGED <<fsm, act, flags, buf, tmr, rcie, tx, line, m>>

\* Mutant of AControl: the CRC is not looked at.
AControlAny ==
    /\ pc = "act" /\ act = "ACONTROL"
    /\ act' = "AIDLE" /\ pc' = "fsm"
    /\ UNCHANGED <<fsm, flags, buf, tmr, rcie, tx, line, m>>

(* The CRC of what is in the buffer; a wrong one only raises err_frame.        *)
AControl ==
    /\ pc = "act" /\ act = "ACONTROL"
    /\ flags' = [flags EXCEPT !.err = @ \/ \A r \in Requests : buf # Whole(r)]
    /\ act' = "AIDLE" /\ pc' = "fsm"
    /\ UNCHANGED <<fsm, buf, tmr, rcie, tx, line, m>>

(* The request is answered.  A broken one is left in the buffer, and the next   *)
(* frame will be stored behind it.                                              *)
AProcess ==
    /\ pc = "act" /\ act = "APROCESS"
    /\ act' = "AIDLE"
    /\ IF flags.err THEN pc' = "fsm" /\ UNCHANGED <<buf, rcie, tx>>
       ELSE LET a == AnswerOf[buf[1][1]] IN
            IF a = none THEN buf' = <<>> /\ pc' = "fsm" /\ UNCHANGED <<rcie, tx>>
            ELSE /\ buf' = [i \in 1..ReplyLen |-> <<a, i>>]
                 /\ rcie' = FALSE
                 /\ tx' = [tx EXCEPT !.n = ReplyLen]
                 /\ pc' = "write"
    /\ UNCHANGED <<fsm, flags, tmr, line, m>>

(* uart_write: TXIE is set before the first character is out, so the interrupt  *)
(* may send the first one and this the second.                                  *)
Write ==
    /\ pc = "write" /\ pc' = "put"
    /\ tx' = [ie |-> tx.n >= 2, n |-> tx.n - 1]
    /\ UNCHANGED <<fsm, act, flags, buf, tmr, rcie, line, m>>

Put ==
    /\ pc = "put" /\ pc' = "fsm"
    /\ line' = Append(line, buf[Len(line) + 1])
    /\ UNCHANGED <<fsm, act, flags, buf, tmr, rcie, tx, m>>

Main == \/ SInit \/ SIdle \/ Clear \/ SReception \/ SControl \/ SEmission
        \/ AInit \/ AIdle \/ AControl \/ AProcess \/ Write \/ Put

Interrupt == Receive \/ Elapse \/ Sent

Next == Main \/ Interrupt \/ Ask \/ ReceiveBad

-----------------------------------------------------------------------------
(* What the master has heard: an answer is one when its characters came in      *)
(* order and all of them.                                                       *)
rep == IF \E a \in {"id", "link", "echo"} : line = [i \in 1..ReplyLen |-> <<a, i>>]
       THEN line[1][1] ELSE none

(* The adapter is a unit of the line as ModbusSlave has it: whatever is lost or *)
(* torn and wherever the interrupts fall, it answers a request once, with its   *)
(* own answer, and nothing else.                                                *)
Slave == INSTANCE ModbusSlave WITH req <- m.req
IsSlave == Slave!Init /\ [][Slave!Next]_<<m.req, rep>>

(* The buffer holds no more than one frame: frame_push checks no bound, and it  *)
(* is after a broken frame, or a frame heard before the first silence, that     *)
(* frames pile up in the 80 bytes.                                               *)
RoomUnlessBroken == m.broken \/ Len(buf) <= FrameLen \/ ~ rcie

(* While no frame was broken, a request for the unit is answered.  (After one   *)
(* it never is: the broken frame stays in front of all later ones.)             *)
Asked == m.req # none /\ AnswerOf[m.req] # none /\ ~ m.broken
Answers == Asked ~> (rep # none \/ m.broken)

(* The unit always comes back to listening after it has begun an answer.        *)
ListensAgain == ~ rcie ~> rcie
=============================================================================
