----------------------------- MODULE RdtServer -----------------------------
(***************************************************************************)
(* The receiving side: rdt_server_start, rdt_server_step and rdt_data_read *)
(* of rdt.c, with the buffers of the loop in rdtserver.c.                  *)
(*                                                                         *)
(* The server is a record `s'.  s.window is the sorted list of packets     *)
(* received and not yet processed: the list is sorted by sequence number   *)
(* and never holds a number twice, so a set stands for it.  WindowSize + 1 *)
(* nodes are allocated; those not in s.window are the free list.           *)
(* s.data is rdt->data, s.buf the loop's buffer, s.out what stdout got:    *)
(* sequences of chunks.                                                    *)
(***************************************************************************)
EXTENDS RdtPackets, Sequences, FiniteSets, FiniteSetsExt

CONSTANTS
  SrvDataMax,   \* RDT_DATABUF_MAXLEN, in chunks
  SrvBufMax,    \* BUF_MAXLEN of rdtserver.c, in chunks
  ShortWrites   \* whether fwrite to the non-blocking stdout may be short

ASSUME ServerAssumption ==
  /\ SrvDataMax \in Nat \ {0} /\ SrvBufMax \in Nat \ {0}
  /\ ShortWrites \in BOOLEAN

ChunkSeq == Seq(0 .. Chunks)
AckStack == Seq(Ack)

ServerRecord ==
  [ at : {"step", "select"}, state : {"running", "aborted"},
    nextseqnum : SeqNums, cwnd : Byte, window : SUBSET Packet,
    acks : AckStack, data : ChunkSeq, buf : ChunkSeq, out : ChunkSeq,
    rcvbuf : SUBSET Packet, sndbuf : SUBSET Ack ]

ServerStart ==
  [ at |-> "step", state |-> "running",
    nextseqnum |-> 0, cwnd |-> WindowSize, window |-> {}, acks |-> <<>>,
    data |-> <<>>, buf |-> <<>>, out |-> <<>>, rcvbuf |-> {}, sndbuf |-> {} ]

-----------------------------------------------------------------------------
(***************************************************************************)
(* Processing in order: from nextseqnum on, the packets at the head of the *)
(* list, as long as the next one is there and its data fits in s.data.     *)
(***************************************************************************)
At(w, seq) == CHOOSE q \in w : q.seq = seq

\* _rdt_server_process refuses a packet whose data does not fit; n packets
\* of this run come before it.
DataIn(w, next, n) == Cardinality({q \in w : q.seq \in next .. next + n - 1 /\ q.kind = "DATA"})

Processable(s, w, n) ==
  /\ \A q \in w : q.seq >= s.nextseqnum
  /\ \E q \in w :
        /\ q.seq = s.nextseqnum + n
        /\ q.kind = "DATA" => Len(s.data) + DataIn(w, s.nextseqnum, n) < SrvDataMax

\* Number of packets the loop processes.
RunLength(s, w) == Min({n \in 0 .. SeqSpace - s.nextseqnum : ~Processable(s, w, n)})

\* The chunks in the n packets from `first' on.  Only the first of a
\* connection is a SYN and only its last is a FIN; neither has data.
Payload(w, first, n) ==
  LET syn == IF n > 0 /\ At(w, first).kind = "SYN" THEN 1 ELSE 0
      fin == IF n > 0 /\ At(w, first + n - 1).kind = "FIN" THEN 1 ELSE 0
  IN [i \in 1 .. n - syn - fin |-> At(w, first + syn + i - 1).idx]

\* Mutant of Process: nextseqnum is advanced once, not for each packet.
ProcessAdvanceOnce(s, w, below) ==
  LET n == RunLength(s, w) IN
  [s EXCEPT !.window     = {q \in w : q.seq \notin s.nextseqnum .. s.nextseqnum + n - 1},
            !.data       = @ \o Payload(w, s.nextseqnum, n),
            !.nextseqnum = (@ + Min({n, 1})) % SeqSpace,
            !.cwnd       = (WindowSize - below + n) % 256]

\* The loop at in_ack, then the window advertised next.  `below' is how many
\* packets the insertion passed; the count is decremented for each packet
\* processed, so it may wrap below 0, and cwnd is a uint8_t.
Process(s, w, below) ==
  LET n == RunLength(s, w) IN
  [s EXCEPT !.window     = {q \in w : q.seq \notin s.nextseqnum .. s.nextseqnum + n - 1},
            !.data       = @ \o Payload(w, s.nextseqnum, n),
            !.nextseqnum = (@ + n) % SeqSpace,
            !.cwnd       = (WindowSize - below + n) % 256]

\* The packet p goes into the window, unless its number is there already; the
\* assertion that a free node is left fails when all WindowSize + 1 are used.
Insert(s, p) ==
  LET below == Cardinality({q \in s.window : q.seq < p.seq}) IN
  IF \E q \in s.window : q.seq = p.seq THEN Process(s, s.window, below)
  ELSE IF Cardinality(s.window) > WindowSize THEN [s EXCEPT !.state = "aborted"]
  ELSE Process(s, s.window \cup {p}, below)

\* Mutants of Accept: a packet is acknowledged before the window test; and
\* the window test is missing.
AcceptAckFirst(s, p) ==
  LET t == IF p.kind = "SYN" THEN [s EXCEPT !.nextseqnum = p.seq] ELSE s
      a == [ack |-> Succ(p.seq), wnd |-> t.cwnd, sent_times |-> p.sent_times]
      u == [t EXCEPT !.acks = <<a>> \o @]
  IN IF ~InRange(p.seq, t.nextseqnum) \/ p.seq < t.nextseqnum THEN u ELSE Insert(u, p)

AcceptAnything(s, p) ==
  LET t == IF p.kind = "SYN" THEN [s EXCEPT !.nextseqnum = p.seq] ELSE s
      a == [ack |-> Succ(p.seq), wnd |-> t.cwnd, sent_times |-> p.sent_times]
      u == [t EXCEPT !.acks = <<a>> \o @]
  IN IF p.seq < t.nextseqnum THEN u ELSE Insert(u, p)

\* A SYN sets nextseqnum.  A packet outside the window is ignored; any other
\* is acknowledged (acks is a stack), and inserted if its number is not lower
\* than nextseqnum.
Accept(s, p) ==
  LET t == IF p.kind = "SYN" THEN [s EXCEPT !.nextseqnum = p.seq] ELSE s
      a == [ack |-> Succ(p.seq), wnd |-> t.cwnd, sent_times |-> p.sent_times]
      u == [t EXCEPT !.acks = <<a>> \o @]
  IN IF ~InRange(p.seq, t.nextseqnum) THEN t
     ELSE IF p.seq < t.nextseqnum THEN u
     ELSE Insert(u, p)

\* Output half: the latest acknowledgement, if sndbuf is free.
PopAck(s) ==
  IF s.acks = <<>> THEN s
  ELSE [s EXCEPT !.sndbuf = {Head(s.acks)}, !.acks = Tail(@)]

ServerStep(s) ==
  LET t == IF s.rcvbuf = {} THEN s
           ELSE [Accept(s, CHOOSE p \in s.rcvbuf : TRUE) EXCEPT !.rcvbuf = {}]
  IN IF s.sndbuf # {} \/ t.state = "aborted" THEN t ELSE PopAck(t)

-----------------------------------------------------------------------------
(***************************************************************************)
(* Between the step and select the loop reads rdt->data into its buffer.   *)
(* stdout is watched only if the buffer held something before.             *)
(***************************************************************************)
\* Mutant of DataRead: what was read stays in rdt->data as well.
DataReadTwice(s) ==
  LET n == Min({SrvBufMax - Len(s.buf), Len(s.data)}) IN
  [s EXCEPT !.buf = @ \o SubSeq(s.data, 1, n)]

DataRead(s) ==
  LET n == Min({SrvBufMax - Len(s.buf), Len(s.data)}) IN
  [s EXCEPT !.buf  = @ \o SubSeq(s.data, 1, n),
            !.data = SubSeq(@, n + 1, Len(@))]

\* fwrite of the buffer, of which n chunks are written: "nbuf -= nsend"
\* shortens the buffer at its end and leaves its front where it was.
WriteStdout(s, n) ==
  [s EXCEPT !.out = @ \o SubSeq(s.buf, 1, n),
            !.buf = SubSeq(@, 1, Len(@) - n)]

WriteLengths(s) == IF ShortWrites THEN 0 .. Len(s.buf) ELSE {Len(s.buf)}
=============================================================================
