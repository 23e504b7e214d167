----------------------------- MODULE OutputUnit -----------------------------
(* Eight outputs on a Modbus ASCII line (output.c): one loop that polls the    *)
(* receiver, an automaton over the characters, and, after the end of a frame,  *)
(* the conversion from hexadecimal, the check of the LRC and of the command.   *)
(* The receiver holds two characters; a third one that comes while the frame   *)
(* is controlled is an overrun.  Digits have base B, a byte two digits, and    *)
(* the command before the data is one byte.                                      *)
EXTENDS Integers, Sequences

CONSTANTS
    none,        \* nothing sent yet
    B,           \* base of a digit (16 in the code)
    BufLen,      \* sizeof buffer (80 in the code)
    Values,      \* what the outputs are told to be
    Others,      \* commands for other units
    MaxFrames,   \* bound: frames the master sends
    MaxChanged,  \* bound: characters that arrive as another with the right parity
    MaxLost      \* bound: characters lost, with an error of the receiver

VARIABLES
    st,        \* the label the loop is at
    frame_ok, buffer, outputs,
    fifo,      \* the receiver: characters, and whether it was overrun
    m          \* the master: the value it sends and the one before, the characters
               \* left of the frame, whether they arrive as sent, and its bounds

vars == <<st, frame_ok, buffer, outputs, fifo, m>>

Colon == B
Cr == B + 1
Lf == B + 2
Junk == B + 3
Chars == 0..Junk

Command == 1                    \* broadcast, write 16 coils at 1000
FrameChars == 6                 \* digits of a frame for the unit

Hi(byte) == byte \div B
Lo(byte) == byte % B
Lrc(cmd, val) == (-(cmd + val)) % (B * B)
FrameOf(cmd, val) ==
    LET lrc == Lrc(cmd, val)
    IN <<Colon, Hi(cmd), Lo(cmd), Hi(val), Lo(val), Hi(lrc), Lo(lrc), Cr, Lf>>

Init ==
    /\ st = "idle" /\ frame_ok = FALSE /\ buffer = <<>>
    /\ outputs = 0
    /\ fifo = [q |-> <<>>, oerr |-> FALSE]
    /\ m = [val |-> none, prev |-> none, rest |-> <<>>, clean |-> FALSE,
            frames |-> 0, changed |-> 0, lost |-> 0]

-----------------------------------------------------------------------------
(* The master, which may follow a frame at once by another.                     *)
Begin ==
    /\ m.rest = <<>> /\ m.frames < MaxFrames
    /\ \E v \in Values, cmd \in Others \union {Command} :
         m' = [m EXCEPT !.prev = m.val,
                        !.val = IF cmd = Command THEN v ELSE none,
                        !.rest = FrameOf(cmd, v),
                        !.clean = TRUE, !.frames = @ + 1]
    /\ UNCHANGED <<st, frame_ok, buffer, outputs, fifo>>

(* A character arrives, perhaps changed.  The loop polls faster than the line,   *)
(* unless it controls a frame.                                                    *)
Arrive ==
    /\ m.rest # <<>> /\ ~ fifo.oerr
    /\ st = "control" \/ fifo.q = <<>>
    /\ \E c \in Chars :
         LET same == c = Head(m.rest)
             full == Len(fifo.q) = 2
         IN /\ same \/ m.changed < MaxChanged
            /\ fifo' = IF full THEN [fifo EXCEPT !.oerr = TRUE] ELSE [fifo EXCEPT !.q = Append(@, c)]
            /\ m' = [m EXCEPT !.rest = Tail(@), !.clean = @ /\ same /\ ~ full,
                              !.changed = IF same THEN @ ELSE @ + 1]
    /\ UNCHANGED <<st, frame_ok, buffer, outputs>>

(* A character is lost: getc finds a frame error or the wrong parity, or the     *)
(* master pauses and the delay runs out.                                         *)
Lost ==
    /\ m.lost < MaxLost /\ m.rest # <<>> /\ fifo.q = <<>> /\ st # "control"
    /\ frame_ok' = FALSE
    /\ \E r \in {m.rest, Tail(m.rest)} :
         m' = [m EXCEPT !.rest = r, !.clean = FALSE, !.lost = @ + 1]
    /\ UNCHANGED <<st, buffer, outputs, fifo>>

(* getc: the delay runs out between frames.                                       *)
TimedOut ==
    /\ st # "control" /\ fifo.q = <<>> /\ m.rest = <<>>
    /\ frame_ok' = FALSE
    /\ UNCHANGED <<st, buffer, outputs, fifo, m>>

(* getc: after an overrun the receiver is started again.  Whether it keeps the   *)
(* two characters it held is left open.                                           *)
Overrun ==
    /\ st # "control" /\ fifo.oerr
    /\ \E q \in {fifo.q, <<>>} : fifo' = [q |-> q, oerr |-> FALSE]
    /\ m' = [m EXCEPT !.clean = FALSE]
    /\ frame_ok' = FALSE
    /\ UNCHANGED <<st, buffer, outputs>>

(* The automaton, one character.                                                  *)
StartOfFrame == frame_ok' = TRUE /\ buffer' = <<>> /\ st' = "reception"

ConcatChar(c) ==
    /\ st' = "reception"
    /\ IF Len(buffer) < BufLen
       THEN buffer' = Append(buffer, c) /\ UNCHANGED frame_ok
       ELSE frame_ok' = FALSE /\ UNCHANGED buffer

\* Mutant of Getc: a colon within a frame is one more character.
GetcNoRestart ==
    /\ st # "control" /\ fifo.q # <<>> /\ ~ fifo.oerr
    /\ fifo' = [fifo EXCEPT !.q = Tail(@)]
    /\ LET c == Head(fifo.q) IN
         \/ c = Colon /\ st = "idle" /\ StartOfFrame
         \/ c # Colon /\ st = "idle" /\ UNCHANGED <<st, frame_ok, buffer>>
         \/ c # Cr /\ st = "reception" /\ ConcatChar(c)
         \/ c = Cr /\ st = "reception" /\ st' = "eof" /\ UNCHANGED <<frame_ok, buffer>>
         \/ c = Lf /\ st = "eof" /\ st' = "control" /\ UNCHANGED <<frame_ok, buffer>>
         \/ c # Lf /\ st = "eof" /\ frame_ok' = FALSE /\ UNCHANGED <<st, buffer>>
    /\ UNCHANGED <<outputs, m>>

Getc ==
    /\ st # "control" /\ fifo.q # <<>> /\ ~ fifo.oerr
    /\ fifo' = [fifo EXCEPT !.q = Tail(@)]
    /\ LET c == Head(fifo.q) IN
         \/ c = Colon /\ StartOfFrame
         \/ c # Colon /\ st = "idle" /\ UNCHANGED <<st, frame_ok, buffer>>
         \/ c \notin {Colon, Cr} /\ st = "reception" /\ ConcatChar(c)
         \/ c = Cr /\ st = "reception" /\ st' = "eof" /\ UNCHANGED <<frame_ok, buffer>>
         \/ c = Lf /\ st = "eof" /\ st' = "control" /\ UNCHANGED <<frame_ok, buffer>>
         \/ c \notin {Colon, Lf} /\ st = "eof" /\ frame_ok' = FALSE /\ UNCHANGED <<st, buffer>>
    /\ UNCHANGED <<outputs, m>>

-----------------------------------------------------------------------------
(* control_frame and process_frame.                                               *)
IsHex(s) == \A i \in DOMAIN s : s[i] < B
Bytes(s) == [i \in 1..(Len(s) \div 2) |-> B * s[2 * i - 1] + s[2 * i]]

(* A frame of another length is not for the unit, whatever its LRC.               *)
Accepted ==
    /\ frame_ok /\ Len(buffer) = FrameChars
    /\ IsHex(buffer)
    /\ LET b == Bytes(buffer) IN (b[1] + b[2] + b[3]) % (B * B) = 0 /\ b[1] = Command

Control ==
    /\ st = "control" /\ st' = "idle"
    /\ outputs' = IF Accepted THEN Bytes(buffer)[2] ELSE outputs
    /\ UNCHANGED <<frame_ok, buffer, fifo, m>>

Next == Begin \/ Arrive \/ Lost \/ TimedOut \/ Overrun \/ Getc \/ Control

-----------------------------------------------------------------------------
(* The outputs take only a value that the master has sent, in the last frame or  *)
(* the one before: with one character changed, others lost, the receiver overrun  *)
(* and a frame joined to the next, no other value passes the LRC.                 *)
OnlyWhatWasSent == outputs' # outputs => outputs' \in {m.val, m.prev}

(* After any number of broken frames the next whole one is obeyed.                 *)
WholeIsObeyed ==
    m.clean /\ m.rest = <<>> /\ m.val # none /\ fifo.q = <<>> /\ st = "idle" => outputs = m.val
=============================================================================
