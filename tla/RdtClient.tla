----------------------------- MODULE RdtClient -----------------------------
(***************************************************************************)
(* The sending side: rdt_client_start, rdt_client_step, rdt_data_write and *)
(* rdt_client_done of rdt.c, with the buffers of the loop in rdtclient.c.  *)
(*                                                                         *)
(* The client is a record `c'.  c.window is the linked list of packets not *)
(* yet released, oldest first; c.window_free counts the free list nodes.   *)
(* The data buffers are counted in chunks: c.stdin chunks not read yet,    *)
(* c.nbuf in the loop's buffer, c.datalen in rdt->data, c.packed already   *)
(* made into packets.  Chunks stay in order on that path, so the next      *)
(* packet carries chunk c.packed + 1.  rcvbuf and sndbuf hold at most one  *)
(* datagram each.                                                          *)
(*                                                                         *)
(* The times sent_at matter only as an order: c.older holds <<p, q>> when  *)
(* the packets numbered p and q are both buffered and p was sent first.    *)
(***************************************************************************)
EXTENDS RdtPackets, Sequences, FiniteSetsExt

CONSTANTS
  CliBufMax,    \* BUF_MAXLEN of rdtclient.c, in chunks
  CliDataMax    \* RDT_DATABUF_MAXLEN, in chunks

ASSUME ClientAssumption ==
  /\ CliBufMax \in Nat \ {0}
  /\ CliDataMax \in Nat /\ CliBufMax <= CliDataMax

Flags == {"usable", "buffered", "acked"}
Entry == [pkt : Packet, flag : Flags]
WindowList == Seq(Entry)
SentOrder  == SUBSET (SeqNums \X SeqNums)

ClientRecord ==
  [ at : {"step", "select"}, state : {"running", "done", "failed"},
    nextseqnum : SeqNums, window_size : Byte, cwnd : Byte \ {0},
    window : WindowList, window_free : Nat,
    eof_rcvd : BOOLEAN, eof_send : BOOLEAN, eof_sent : BOOLEAN,
    stdin : 0 .. Chunks, eof : BOOLEAN, nbuf : 0 .. CliBufMax,
    datalen : 0 .. CliDataMax, packed : 0 .. Chunks,
    older : SentOrder,
    rcvbuf : SUBSET Ack, sndbuf : SUBSET Packet ]

NewEntry(kind, seq, idx) ==
  [ pkt  |-> [kind |-> kind, seq |-> seq, idx |-> idx, sent_times |-> 0],
    flag |-> "usable" ]

(***************************************************************************)
(* rdt_client_start: window size and cwnd 1, the SYN alone in the window.  *)
(***************************************************************************)
ClientStart ==
  [ at |-> "step", state |-> "running",
    nextseqnum |-> Succ(InitSeq), window_size |-> 1, cwnd |-> 1,
    window |-> <<NewEntry("SYN", InitSeq, 0)>>, window_free |-> 0,
    eof_rcvd |-> FALSE, eof_send |-> FALSE, eof_sent |-> FALSE,
    stdin |-> Chunks, eof |-> FALSE, nbuf |-> 0, datalen |-> 0, packed |-> 0,
    older |-> {}, rcvbuf |-> {}, sndbuf |-> {} ]

\* The order of sending without the packets numbered in S.
Without(older, S) == {r \in older : r[1] \notin S /\ r[2] \notin S}

-----------------------------------------------------------------------------
(***************************************************************************)
(* Input half of rdt_client_step.                                          *)
(***************************************************************************)

\* "wnd->packet->seqnum + 1 == pkt->ack": the sum is an int, so the last
\* sequence number never matches the acknowledgement 0.
Acknowledges(a, e) == e.pkt.seq + 1 = a.ack

\* Additive slow start: doubled below 128, then 255.
Grow(cwnd) == IF cwnd < 128 THEN 2 * cwnd ELSE 255

\* Mutant of MarkAcked: any acknowledgement is for the oldest packet.
MarkAckedOldest(c, a) ==
  IF c.window = <<>> THEN c
  ELSE [c EXCEPT !.cwnd = Grow(@),
                 !.window[1].flag = "acked",
                 !.older = Without(@, {c.window[1].pkt.seq})]

MarkAcked(c, a) ==
  LET hits == {i \in DOMAIN c.window : Acknowledges(a, c.window[i])} IN
  IF hits = {} THEN c
  ELSE [c EXCEPT !.cwnd = Grow(@),
                 !.window[Min(hits)].flag = "acked",
                 !.older = Without(@, {c.window[Min(hits)].pkt.seq})]

\* Mutant of Leading: a selective acknowledgement taken for a cumulative one.
LeadingCumulative(w) ==
  LET acked == {i \in DOMAIN w : w[i].flag = "acked"} IN
  IF acked = {} THEN 0 ELSE Max(acked)

\* How many packets at the head of the window are acknowledged.
Leading(w) ==
  LET open == {i \in DOMAIN w : w[i].flag # "acked"} IN
  IF open = {} THEN Len(w) ELSE Min(open) - 1

\* Release the n leading packets.  A released FIN ends the transfer; a released
\* SYN takes the window size from the acknowledgement at hand and allocates
\* window_size - 1 more nodes.
Release(c, a, n) ==
  LET kinds == {c.window[i].pkt.kind : i \in 1 .. n}
      more  == IF "SYN" \in kinds /\ a.wnd > 0 THEN a.wnd - 1 ELSE 0
  IN [c EXCEPT !.window      = SubSeq(@, n + 1, Len(@)),
               !.window_free = @ + n + more,
               !.window_size = IF "SYN" \in kinds THEN a.wnd ELSE @,
               !.eof_rcvd    = @ \/ "FIN" \in kinds]

Receive(c) ==
  IF c.rcvbuf = {} THEN c
  ELSE LET a == CHOOSE x \in c.rcvbuf : TRUE
           m == MarkAcked(c, a)
       IN [Release(m, a, Leading(m.window)) EXCEPT !.rcvbuf = {}]

-----------------------------------------------------------------------------
(***************************************************************************)
(* Output half: new packets, then one packet to send.                      *)
(***************************************************************************)

DataEntries(c, n) ==
  [i \in 1 .. n |-> NewEntry("DATA", (c.nextseqnum + i - 1) % SeqSpace, c.packed + i)]

AppendData(c) ==
  LET n == Min({c.cwnd, c.window_size, c.window_free, c.datalen}) IN
  [c EXCEPT !.window      = @ \o DataEntries(c, n),
            !.window_free = @ - n,
            !.nextseqnum  = (@ + n) % SeqSpace,
            !.datalen     = @ - n,
            !.packed      = @ + n]

AppendFin(c) ==
  [c EXCEPT !.window      = Append(@, NewEntry("FIN", c.nextseqnum, 0)),
            !.window_free = @ - 1,
            !.nextseqnum  = Succ(@),
            !.eof_sent    = TRUE]

\* Mutant of Packetise: the FIN does not wait for the data.
PacketiseFinFirst(c) ==
  IF c.eof_send /\ ~c.eof_sent /\ c.window_free > 0 THEN AppendFin(c)
  ELSE IF c.datalen > 0 /\ c.window_free > 0 THEN AppendData(c)
  ELSE c

Packetise(c) ==
  IF c.datalen > 0 /\ c.window_free > 0 THEN AppendData(c)
  ELSE IF c.eof_send /\ ~c.eof_sent /\ c.window_free > 0 THEN AppendFin(c)
  ELSE c

\* Index of the first usable packet, or one past the end.
FirstUsable(w) ==
  LET usable == {i \in DOMAIN w : w[i].flag = "usable"} IN
  IF usable = {} THEN Len(w) + 1 ELSE Min(usable)

\* Mutant of TimedOut: nothing is ever sent again.
TimedOutNever(w, expired) == {}

\* The scan of the window.  Packets before the first usable one whose timer
\* has run out (their numbers are in `expired') become usable for the next step
\* and reset cwnd; one that was resent MaxResend times ends the program.
TimedOut(w, expired) ==
  {i \in 1 .. FirstUsable(w) - 1 :
     w[i].flag = "buffered" /\ w[i].pkt.seq \in expired}

Scanned(w, timed) ==
  [i \in DOMAIN w |->
     IF i \in timed THEN [w[i] EXCEPT !.flag = "usable", !.pkt.sent_times = @ + 1]
     ELSE IF i = FirstUsable(w) THEN [w[i] EXCEPT !.flag = "buffered"]
     ELSE w[i]]

Sent(w) == {w[i].pkt : i \in {FirstUsable(w)} \cap DOMAIN w}

SentOrderAfter(c, timed) ==
  LET still == {i \in DOMAIN c.window : c.window[i].flag = "buffered"} \ timed IN
  Without(c.older, {c.window[i].pkt.seq : i \in timed})
    \cup {c.window[i].pkt.seq : i \in still} \X {p.seq : p \in Sent(c.window)}

\* Mutant of Transmit: one resend too few.
TransmitTooFew(c, expired) ==
  LET timed == TimedOut(c.window, expired) IN
  IF \E i \in timed : c.window[i].pkt.sent_times + 1 >= MaxResend
    THEN [c EXCEPT !.state = "failed"]
  ELSE [c EXCEPT !.cwnd   = IF timed = {} THEN @ ELSE 1,
                 !.sndbuf = Sent(c.window),
                 !.older  = SentOrderAfter(c, timed),
                 !.window = Scanned(@, timed)]

Transmit(c, expired) ==
  LET timed == TimedOut(c.window, expired) IN
  IF \E i \in timed : c.window[i].pkt.sent_times >= MaxResend
    THEN [c EXCEPT !.state = "failed"]
  ELSE [c EXCEPT !.cwnd   = IF timed = {} THEN @ ELSE 1,
                 !.sndbuf = Sent(c.window),
                 !.older  = SentOrderAfter(c, timed),
                 !.window = Scanned(@, timed)]

\* rdt_client_step: the output half runs only when sndbuf is free.
ClientStep(c, expired) ==
  LET d == Receive(c) IN
  IF c.sndbuf # {} THEN d ELSE Transmit(Packetise(d), expired)

-----------------------------------------------------------------------------
(***************************************************************************)
(* What process() does between the step and select: rdt_data_write moves   *)
(* the loop's buffer into rdt->data when it fits; otherwise, once stdin    *)
(* has ended, rdt_client_done reports the end or asks for the FIN.         *)
(***************************************************************************)
Feed(c) ==
  IF c.nbuf > 0 /\ c.nbuf + c.datalen <= CliDataMax
    THEN [c EXCEPT !.datalen = @ + c.nbuf, !.nbuf = 0]
  ELSE IF ~c.eof THEN c
  ELSE IF c.eof_rcvd THEN [c EXCEPT !.state = "done"]
  ELSE [c EXCEPT !.eof_send = TRUE]

\* stdin is watched when the buffer, before the write, had room.
WatchesStdin(c) == ~c.eof /\ c.nbuf < CliBufMax

\* Mutant of ReadStdin: reads without regard to the room in the buffer.
ReadStdinAll(c) == [c EXCEPT !.nbuf = @ + c.stdin, !.stdin = 0, !.eof = TRUE]

\* fread: as much as fits; a short read is the end of the input.
ReadStdin(c) ==
  LET room == CliBufMax - c.nbuf
      n    == Min({room, c.stdin})
  IN [c EXCEPT !.nbuf = @ + n, !.stdin = @ - n, !.eof = (n < room)]
=============================================================================
