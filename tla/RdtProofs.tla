----------------------------- MODULE RdtProofs -----------------------------
(***************************************************************************)
(* Proofs about the reliable transfer.  The first part: every reachable    *)
(* state of Rdt is type correct, for every value of the constants, and the *)
(* FIN comes last.  The second: the safety of the transfer, and that it    *)
(* implements ReliableTransfer.                                            *)
(*                                                                         *)
(* TypeOK is not inductive by itself: that the client's next chunk number  *)
(* stays within its input needs that the four places on the client's data  *)
(* path always hold the whole input between them (Conserves).              *)
(***************************************************************************)
EXTENDS Rdt, TLAPS, FiniteSetTheorems, SequenceTheorems, WellFoundedInduction

\* Every chunk of the input is in stdin, in the loop's buffer, in rdt->data or
\* in a packet.
Conserves(c) == c.stdin + c.nbuf + c.datalen + c.packed = Chunks

(***************************************************************************)
(* ClientRecord field by field: a record of the right fields (the first    *)
(* conjunct), each in its range.  The provers take an update of c in this  *)
(* form much better than in that of a set of records.                      *)
(***************************************************************************)
ClientFields ==
  {"at", "state", "nextseqnum", "window_size", "cwnd", "window", "window_free",
   "eof_rcvd", "eof_send", "eof_sent", "stdin", "eof", "nbuf", "datalen",
   "packed", "older", "rcvbuf", "sndbuf"}

ClientTyped(c) ==
  /\ c = [f \in ClientFields |-> c[f]]
  /\ c.at \in {"step", "select"} /\ c.state \in {"running", "done", "failed"}
  /\ c.nextseqnum \in SeqNums /\ c.window_size \in Byte /\ c.cwnd \in Byte \ {0}
  /\ c.window \in WindowList /\ c.window_free \in Nat
  /\ c.eof_rcvd \in BOOLEAN /\ c.eof_send \in BOOLEAN /\ c.eof_sent \in BOOLEAN
  /\ c.stdin \in 0 .. Chunks /\ c.eof \in BOOLEAN /\ c.nbuf \in 0 .. CliBufMax
  /\ c.datalen \in 0 .. CliDataMax /\ c.packed \in 0 .. Chunks
  /\ c.older \in SentOrder
  /\ c.rcvbuf \in SUBSET Ack /\ c.sndbuf \in SUBSET Packet

ClientOK(c) == ClientTyped(c) /\ Conserves(c)

\* The same for the server, whose loop also keeps its buffer within bounds, and
\* whose window is finite (so that counting in it gives a number).
ServerFields ==
  {"at", "state", "nextseqnum", "cwnd", "window", "acks", "data", "buf", "out",
   "rcvbuf", "sndbuf"}

ServerTyped(s) ==
  /\ s = [f \in ServerFields |-> s[f]]
  /\ s.at \in {"step", "select"} /\ s.state \in {"running", "aborted"}
  /\ s.nextseqnum \in SeqNums /\ s.cwnd \in Byte /\ s.window \in SUBSET Packet
  /\ s.acks \in AckStack /\ s.data \in ChunkSeq /\ s.buf \in ChunkSeq
  /\ s.out \in ChunkSeq
  /\ s.rcvbuf \in SUBSET Packet /\ s.sndbuf \in SUBSET Ack

ServerOK(s) == ServerTyped(s) /\ IsFiniteSet(s.window) /\ Len(s.buf) <= SrvBufMax

\* The two forms say the same.
LEMMA ClientRecordTyped ==
  ASSUME NEW c
  PROVE  c \in ClientRecord <=> ClientTyped(c)
<1>1. ASSUME c \in ClientRecord PROVE ClientTyped(c)
  <2>1. c = [f \in ClientFields |-> c[f]] BY <1>1 DEF ClientRecord, ClientFields
  <2>. QED BY <1>1, <2>1 DEF ClientRecord, ClientTyped
<1>2. ASSUME ClientTyped(c) PROVE c \in ClientRecord
  BY <1>2 DEF ClientRecord, ClientTyped, ClientFields
<1>. QED BY <1>1, <1>2

LEMMA ServerRecordTyped ==
  ASSUME NEW s
  PROVE  s \in ServerRecord <=> ServerTyped(s)
<1>1. ASSUME s \in ServerRecord PROVE ServerTyped(s)
  <2>1. s = [f \in ServerFields |-> s[f]] BY <1>1 DEF ServerRecord, ServerFields
  <2>. QED BY <1>1, <2>1 DEF ServerRecord, ServerTyped
<1>2. ASSUME ServerTyped(s) PROVE s \in ServerRecord
  BY <1>2 DEF ServerRecord, ServerTyped, ServerFields
<1>. QED BY <1>1, <1>2

-----------------------------------------------------------------------------
\* Min, as the community module defines it by CHOOSE, is the least element of
\* a non-empty set of naturals.
LEMMA MinIsLeast ==
  ASSUME NEW S \in SUBSET Nat, S # {}
  PROVE  Min(S) \in S /\ \A y \in S : Min(S) <= y
<1> DEFINE T == {1 .. n : n \in S}
<1>1. T \subseteq FiniteSubsetsOf(Nat)
  <2> SUFFICES ASSUME NEW n \in S PROVE 1 .. n \in FiniteSubsetsOf(Nat) OBVIOUS
  <2>. QED BY FS_Interval DEF FiniteSubsetsOf
<1>2. PICK t \in T : \A u \in T : ~(<<u, t>> \in StrictSubsetOrdering(Nat))
  <2>. HIDE DEF T
  <2>1. T # {} BY DEF T
  <2>. QED BY <1>1, <2>1, FS_StrictSubsetOrderingWellFounded, WFMin
<1>3. PICK x \in S : t = 1 .. x OBVIOUS
<1>4. ASSUME NEW y \in S, y < x PROVE FALSE
  <2>1. 1 .. y \subseteq 1 .. x /\ 1 .. y # t BY <1>3, <1>4
  <2>2. <<1 .. y, t>> \in StrictSubsetOrdering(Nat) BY <2>1, <1>3 DEF StrictSubsetOrdering
  <2>. QED BY <1>2, <2>2
<1>5. \A y \in S : x <= y BY <1>4
<1>. QED BY <1>5 DEF Min

-----------------------------------------------------------------------------
\* The client starts type correct, with its whole input still to be read.
LEMMA ClientStartOK == ClientOK(ClientStart)
<1>. USE SeqAssumption, TransferAssumption, ClientAssumption
<1>1. Succ(InitSeq) \in SeqNums BY DEF Succ, SeqNums
<1>2. NewEntry("SYN", InitSeq, 0) \in Entry
  BY DEF NewEntry, Entry, Packet, Kinds, Flags, SeqNums
<1>3. ClientStart.window \in WindowList BY <1>2 DEF ClientStart, WindowList
<1>4. ClientStart = [f \in ClientFields |-> ClientStart[f]]
  BY DEF ClientStart, ClientFields
<1>5. ClientTyped(ClientStart)
  BY <1>1, <1>3, <1>4 DEF ClientTyped, ClientStart, Byte, SentOrder
<1>6. Conserves(ClientStart) BY DEF Conserves, ClientStart
<1>. QED BY <1>5, <1>6 DEF ClientOK

\* The entries of a window list, and the list with one entry's flag set.
LEMMA EntryOfWindow ==
  ASSUME NEW w \in WindowList
  PROVE  /\ Len(w) \in Nat /\ DOMAIN w = 1 .. Len(w)
         /\ \A i \in DOMAIN w : w[i] \in Entry
BY ElementOfSeq, LenProperties DEF WindowList

LEMMA SetFlag ==
  ASSUME NEW w \in WindowList, NEW i \in DOMAIN w, NEW f \in Flags
  PROVE  [w EXCEPT ![i].flag = f] \in WindowList
<1>1. w[i] \in Entry BY EntryOfWindow
<1>2. [w[i] EXCEPT !.flag = f] \in Entry BY <1>1 DEF Entry
<1>. QED BY <1>2, ExceptSeq DEF WindowList

\* The congestion window stays a positive byte.
LEMMA GrowOK == ASSUME NEW n \in Byte \ {0} PROVE Grow(n) \in Byte \ {0}
BY DEF Grow, Byte

\* Marking a packet as acknowledged keeps the client type correct.
LEMMA MarkAckedOK ==
  ASSUME NEW c, ClientOK(c), NEW a \in Ack
  PROVE  ClientOK(MarkAcked(c, a))
<1> DEFINE hits == {i \in DOMAIN c.window : Acknowledges(a, c.window[i])}
           k    == Min(hits)
           d    == MarkAcked(c, a)
<1>1. CASE hits = {} BY <1>1 DEF MarkAcked
<1>2. CASE hits # {}
  <2>1. c.window \in WindowList /\ c.cwnd \in Byte \ {0} /\ c.older \in SentOrder
    BY DEF ClientOK, ClientTyped
  <2>2. hits \in SUBSET Nat BY <2>1, EntryOfWindow
  <2>3. k \in DOMAIN c.window BY <1>2, <2>2, MinIsLeast
  <2>4. [c.window EXCEPT ![k].flag = "acked"] \in WindowList BY <2>1, <2>3, SetFlag DEF Flags
  <2>5. Grow(c.cwnd) \in Byte \ {0} BY <2>1, GrowOK
  <2>6. Without(c.older, {c.window[k].pkt.seq}) \in SentOrder BY <2>1 DEF Without, SentOrder
  <2>7. d = [c EXCEPT !.cwnd = Grow(c.cwnd),
                      !.window = [c.window EXCEPT ![k].flag = "acked"],
                      !.older = Without(c.older, {c.window[k].pkt.seq})]
    BY <1>2 DEF MarkAcked, ClientOK, ClientTyped
  <2>. HIDE DEF k, hits, d
  <2>8. d = [f \in ClientFields |-> d[f]] BY <2>7 DEF ClientOK, ClientTyped
  <2>9. ClientTyped(d)
    BY <2>4, <2>5, <2>6, <2>7, <2>8 DEF ClientOK, ClientTyped, ClientFields
  <2>10. Conserves(d) BY <2>7 DEF ClientOK, ClientTyped, Conserves
  <2>. QED BY <2>9, <2>10 DEF ClientOK, d
<1>. QED BY <1>1, <1>2

\* The leading acknowledged packets are a prefix of the window.
LEMMA LeadingInWindow ==
  ASSUME NEW w \in WindowList
  PROVE  Leading(w) \in 0 .. Len(w) /\ \A i \in 1 .. Leading(w) : w[i].flag = "acked"
<1> DEFINE open == {i \in DOMAIN w : w[i].flag # "acked"}
<1>1. DOMAIN w = 1 .. Len(w) /\ Len(w) \in Nat BY EntryOfWindow
<1>2. CASE open = {} BY <1>1, <1>2 DEF Leading
<1>3. CASE open # {}
  <2>0. open \in SUBSET Nat BY <1>1
  <2>1. Min(open) \in open /\ \A y \in open : Min(open) <= y BY <2>0, <1>3, MinIsLeast
  <2>2. Leading(w) = Min(open) - 1 BY <1>3 DEF Leading
  <2>3. Min(open) \in 1 .. Len(w) BY <1>1, <2>1
  <2> DEFINE m == Min(open)
  <2>. HIDE DEF m
  <2>4. m \in 1 .. Len(w) /\ Leading(w) = m - 1 /\ \A y \in open : m <= y
    BY <2>1, <2>2, <2>3 DEF m
  <2>5. \A i \in 1 .. m - 1 : i \in DOMAIN w /\ i \notin open BY <1>1, <2>4
  <2>. QED BY <1>1, <2>4, <2>5
<1>. QED BY <1>2, <1>3

LEMMA NatPred == ASSUME NEW v \in 0 .. 255, v > 0 PROVE v - 1 \in Nat
OBVIOUS

\* Releasing a prefix of the window keeps the client type correct.
LEMMA ReleaseOK ==
  ASSUME NEW c, ClientOK(c), NEW a \in Ack, NEW n \in 0 .. Len(c.window)
  PROVE  ClientOK(Release(c, a, n))
<1> DEFINE d == Release(c, a, n)
<1>1. c.window \in WindowList /\ c.window_free \in Nat BY DEF ClientOK, ClientTyped
<1>2. SubSeq(c.window, n + 1, Len(c.window)) \in WindowList
  BY <1>1, LenProperties, SubSeqProperties DEF WindowList
<1>3. a.wnd \in Byte /\ a.wnd \in 0 .. 255 BY DEF Ack, Byte
<1>4. d.window_free \in Nat
  <2> DEFINE kinds == {c.window[i].pkt.kind : i \in 1 .. n}
             more  == IF "SYN" \in kinds /\ a.wnd > 0 THEN a.wnd - 1 ELSE 0
  <2>1. n \in Nat BY <1>1, EntryOfWindow
  <2>2. more \in Nat
    <3>1. CASE "SYN" \in kinds /\ a.wnd > 0
      <4>1. more = a.wnd - 1 BY <3>1
      <4>2. a.wnd > 0 BY <3>1
      <4>. HIDE DEF more
      <4>. QED BY <1>3, <4>1, <4>2, NatPred
    <3>2. CASE ~("SYN" \in kinds /\ a.wnd > 0)
      <4>1. more = 0 BY <3>2
      <4>. QED BY <4>1
    <3>. QED BY <3>1, <3>2
  <2>3. d.window_free = c.window_free + n + more
    BY DEF Release, ClientOK, ClientTyped, ClientFields
  <2>. HIDE DEF more, d
  <2>. QED BY <1>1, <2>1, <2>2, <2>3
<1>5. d = [f \in ClientFields |-> d[f]] BY DEF Release, ClientOK, ClientTyped
<1>6. ClientTyped(d)
  <2>. HIDE DEF d
  <2>1. d.at = c.at /\ d.state = c.state /\ d.nextseqnum = c.nextseqnum /\ d.cwnd = c.cwnd
        /\ d.eof_send = c.eof_send /\ d.eof_sent = c.eof_sent
    BY DEF d, Release, ClientOK, ClientTyped, ClientFields
  <2>2. d.stdin = c.stdin /\ d.eof = c.eof /\ d.nbuf = c.nbuf /\ d.datalen = c.datalen
        /\ d.packed = c.packed /\ d.older = c.older /\ d.rcvbuf = c.rcvbuf /\ d.sndbuf = c.sndbuf
    BY DEF d, Release, ClientOK, ClientTyped, ClientFields
  <2>3. d.window \in WindowList /\ d.window_size \in Byte /\ d.eof_rcvd \in BOOLEAN
    BY <1>2, <1>3 DEF d, Release, ClientOK, ClientTyped, ClientFields
  <2>. QED BY <1>4, <1>5, <2>1, <2>2, <2>3 DEF ClientOK, ClientTyped
<1>7. Conserves(d) BY DEF Release, ClientOK, ClientTyped, ClientFields, Conserves
<1>. QED BY <1>6, <1>7 DEF ClientOK

\* The input half of the client's step keeps the client type correct.
LEMMA ReceiveOK ==
  ASSUME NEW c, ClientOK(c)
  PROVE  ClientOK(Receive(c))
<1>1. CASE c.rcvbuf = {} BY <1>1 DEF Receive
<1>2. CASE c.rcvbuf # {}
  <2> DEFINE a == CHOOSE x \in c.rcvbuf : TRUE
             m == MarkAcked(c, a)
             r == Release(m, a, Leading(m.window))
             d == Receive(c)
  <2>1. a \in Ack BY <1>2 DEF ClientOK, ClientTyped
  <2>2. ClientOK(m) BY <2>1, MarkAckedOK
  <2>3. Leading(m.window) \in 0 .. Len(m.window)
    BY <2>2, LeadingInWindow DEF ClientOK, ClientTyped
  <2>4. ClientOK(r) BY <2>1, <2>2, <2>3, ReleaseOK
  <2>5. d = [r EXCEPT !.rcvbuf = {}] BY <1>2 DEF Receive
  <2>. HIDE DEF r, d
  <2>6. d = [f \in ClientFields |-> d[f]] BY <2>4, <2>5 DEF ClientOK, ClientTyped
  <2>. QED BY <2>4, <2>5, <2>6 DEF ClientOK, ClientTyped, ClientFields, Conserves, d
<1>. QED BY <1>1, <1>2

-----------------------------------------------------------------------------
\* New packets carry the next chunks, numbered on from nextseqnum.
LEMMA DataEntriesOK ==
  ASSUME NEW c, ClientOK(c), NEW n \in 0 .. c.datalen
  PROVE  DataEntries(c, n) \in WindowList
<1>1. /\ c.nextseqnum \in SeqNums /\ c.packed \in 0 .. Chunks /\ c.datalen \in Nat
      /\ c.packed + c.datalen <= Chunks /\ Chunks \in Nat
  BY TransferAssumption, ClientAssumption DEF ClientOK, ClientTyped, Conserves
<1>2. ASSUME NEW i \in 1 .. n
      PROVE  NewEntry("DATA", (c.nextseqnum + i - 1) % SeqSpace, c.packed + i) \in Entry
  <2>1. c.packed + i \in 0 .. Chunks BY <1>1
  <2>2. (c.nextseqnum + i - 1) % SeqSpace \in SeqNums BY <1>1, SeqAssumption DEF SeqNums
  <2>3. 0 \in 0 .. MaxResend BY TransferAssumption
  <2>. QED BY <2>1, <2>2, <2>3 DEF NewEntry, Entry, Packet, Kinds, Flags
<1>3. n \in Nat BY <1>1
<1>. QED BY <1>2, <1>3, SeqDef DEF DataEntries, WindowList

\* Turning buffered input into packets keeps the client type correct.
LEMMA AppendDataOK ==
  ASSUME NEW c, ClientOK(c)
  PROVE  ClientOK(AppendData(c))
<1> DEFINE n == Min({c.cwnd, c.window_size, c.window_free, c.datalen})
           d == AppendData(c)
<1>1. /\ c.cwnd \in Nat /\ c.window_size \in Nat /\ c.window_free \in Nat
      /\ c.datalen \in Nat /\ c.window \in WindowList
  BY ClientAssumption DEF ClientOK, ClientTyped, Byte
<1>2. n \in Nat /\ n <= c.window_free /\ n <= c.datalen
  <2> DEFINE S == {c.cwnd, c.window_size, c.window_free, c.datalen}
  <2>1. S \in SUBSET Nat /\ S # {} BY <1>1
  <2>. HIDE DEF S
  <2>2. Min(S) \in S /\ \A y \in S : Min(S) <= y BY <2>1, MinIsLeast
  <2>3. c.window_free \in S /\ c.datalen \in S BY DEF S
  <2>. QED BY <2>1, <2>2, <2>3 DEF S
<1>. HIDE DEF n
<1>3. DataEntries(c, n) \in WindowList BY <1>1, <1>2, DataEntriesOK
<1>4. c.window \o DataEntries(c, n) \in WindowList
  BY <1>1, <1>3, ConcatProperties DEF WindowList
<1>5. d = [c EXCEPT !.window      = c.window \o DataEntries(c, n),
                    !.window_free = c.window_free - n,
                    !.nextseqnum  = (c.nextseqnum + n) % SeqSpace,
                    !.datalen     = c.datalen - n,
                    !.packed      = c.packed + n]
  BY DEF AppendData, ClientOK, ClientTyped, n
<1>6. (c.nextseqnum + n) % SeqSpace \in SeqNums
  BY <1>2, SeqAssumption DEF ClientOK, ClientTyped, SeqNums
<1>. HIDE DEF d
<1>7. /\ c.window_free - n \in Nat
      /\ c.datalen - n \in 0 .. CliDataMax
      /\ c.packed + n \in 0 .. Chunks
      /\ c.stdin + c.nbuf + (c.datalen - n) + (c.packed + n) = Chunks
  BY <1>1, <1>2, TransferAssumption, ClientAssumption DEF ClientOK, ClientTyped, Conserves
<1>8. d = [f \in ClientFields |-> d[f]] BY <1>5 DEF ClientOK, ClientTyped
<1>9. ClientTyped(d)
  BY <1>4, <1>5, <1>6, <1>7, <1>8 DEF ClientOK, ClientTyped, ClientFields
<1>10. Conserves(d) BY <1>5, <1>7 DEF ClientOK, ClientTyped, ClientFields, Conserves
<1>. QED BY <1>9, <1>10 DEF ClientOK, d

\* So does making the FIN.
LEMMA AppendFinOK ==
  ASSUME NEW c, ClientOK(c), c.window_free > 0
  PROVE  ClientOK(AppendFin(c))
<1> DEFINE e == NewEntry("FIN", c.nextseqnum, 0)
           d == AppendFin(c)
<1>1. e \in Entry
  BY TransferAssumption DEF ClientOK, ClientTyped, NewEntry, Entry, Packet, Kinds, Flags
<1>2. Append(c.window, e) \in WindowList
  BY <1>1, AppendProperties DEF WindowList, ClientOK, ClientTyped
<1>3. Succ(c.nextseqnum) \in SeqNums
  BY SeqAssumption DEF ClientOK, ClientTyped, SeqNums, Succ
<1>. HIDE DEF e
<1>4. d = [c EXCEPT !.window      = Append(c.window, e),
                    !.window_free = c.window_free - 1,
                    !.nextseqnum  = Succ(c.nextseqnum),
                    !.eof_sent    = TRUE]
  BY DEF AppendFin, ClientOK, ClientTyped, e
<1>. HIDE DEF d
<1>5. d = [f \in ClientFields |-> d[f]] BY <1>4 DEF ClientOK, ClientTyped
<1>6. ClientTyped(d)
  <2>1. c.window_free - 1 \in Nat BY DEF ClientOK, ClientTyped
  <2> DEFINE w == Append(c.window, e)
             s == Succ(c.nextseqnum)
  <2>. HIDE DEF w, s
  <2>2. d = [c EXCEPT !.window = w, !.window_free = c.window_free - 1,
                      !.nextseqnum = s, !.eof_sent = TRUE]
    BY <1>4 DEF w, s
  <2>3. w \in WindowList /\ s \in SeqNums BY <1>2, <1>3 DEF w, s
  <2>. QED BY <1>5, <2>1, <2>2, <2>3 DEF ClientOK, ClientTyped, ClientFields
<1>7. Conserves(d) BY <1>4 DEF ClientOK, ClientTyped, ClientFields, Conserves
<1>. QED BY <1>6, <1>7 DEF ClientOK, d

LEMMA PacketiseOK ==
  ASSUME NEW c, ClientOK(c)
  PROVE  ClientOK(Packetise(c))
<1>1. CASE c.datalen > 0 /\ c.window_free > 0 BY <1>1, AppendDataOK DEF Packetise
<1>2. CASE /\ ~(c.datalen > 0 /\ c.window_free > 0)
           /\ c.eof_send /\ ~c.eof_sent /\ c.window_free > 0
  BY <1>2, AppendFinOK DEF Packetise
<1>3. CASE /\ ~(c.datalen > 0 /\ c.window_free > 0)
           /\ ~(c.eof_send /\ ~c.eof_sent /\ c.window_free > 0)
  BY <1>3 DEF Packetise
<1>. QED BY <1>1, <1>2, <1>3

-----------------------------------------------------------------------------
LEMMA FirstUsablePositive ==
  ASSUME NEW w \in WindowList
  PROVE  FirstUsable(w) \in Nat \ {0}
<1> DEFINE usable == {i \in DOMAIN w : w[i].flag = "usable"}
<1>1. DOMAIN w = 1 .. Len(w) /\ Len(w) \in Nat BY EntryOfWindow
<1>2. usable \in SUBSET Nat BY <1>1
<1>3. CASE usable = {} BY <1>1, <1>3 DEF FirstUsable
<1>4. CASE usable # {}
  <2>1. Min(usable) \in usable BY <1>2, <1>4, MinIsLeast
  <2>. QED BY <1>1, <1>4, <2>1 DEF FirstUsable
<1>. QED BY <1>3, <1>4

\* The scan of the window, with any set of expired timers, keeps the client
\* type correct: in particular sent_times never exceeds MaxResend.
LEMMA TransmitOK ==
  ASSUME NEW c, ClientOK(c), NEW expired
  PROVE  ClientOK(Transmit(c, expired))
<1> DEFINE timed == TimedOut(c.window, expired)
           dead  == \E i \in timed : c.window[i].pkt.sent_times >= MaxResend
           sent  == Sent(c.window)
           older == SentOrderAfter(c, timed)
           w     == Scanned(c.window, timed)
           cwnd  == IF timed = {} THEN c.cwnd ELSE 1
           d     == Transmit(c, expired)
<1>0. d = IF dead THEN [c EXCEPT !.state = "failed"]
          ELSE [c EXCEPT !.cwnd = cwnd, !.sndbuf = sent, !.older = older, !.window = w]
  BY DEF Transmit
<1>1. /\ c.window \in WindowList /\ c.cwnd \in Byte \ {0} /\ c.older \in SentOrder
      /\ Len(c.window) \in Nat /\ DOMAIN c.window = 1 .. Len(c.window)
      /\ \A i \in DOMAIN c.window : c.window[i] \in Entry
  BY EntryOfWindow DEF ClientOK, ClientTyped
<1>2. CASE dead
  <2>1. d = [c EXCEPT !.state = "failed"] BY <1>0, <1>2
  <2>. HIDE DEF d
  <2>2. d = [f \in ClientFields |-> d[f]] BY <2>1 DEF ClientOK, ClientTyped
  <2>. QED BY <2>1, <2>2 DEF ClientOK, ClientTyped, ClientFields, Conserves, d
<1>3. CASE ~dead
  <2>1. sent \subseteq Packet BY <1>1 DEF Entry, Sent
  <2>2. older \in SentOrder
    <3>1. Without(c.older, {c.window[i].pkt.seq : i \in timed}) \in SentOrder
      BY <1>1 DEF Without, SentOrder
    <3>2. {c.window[i].pkt.seq : i \in {i \in DOMAIN c.window : c.window[i].flag = "buffered"} \ timed}
            \subseteq SeqNums
      BY <1>1 DEF Entry, Packet
    <3>3. {p.seq : p \in Sent(c.window)} \subseteq SeqNums BY <2>1 DEF Packet
    <3>. QED BY <3>1, <3>2, <3>3 DEF SentOrder, SentOrderAfter
  <2>3. ASSUME NEW i \in DOMAIN c.window PROVE w[i] \in Entry
    <3> DEFINE e == c.window[i]
    <3>1. e \in Entry BY <1>1
    <3>2. CASE i \in timed
      <4>1. w[i] = [e EXCEPT !.flag = "usable", !.pkt.sent_times = @ + 1]
        BY <3>2 DEF Scanned
      <4>2. ~(e.pkt.sent_times >= MaxResend) BY <1>3, <3>2
      <4>. HIDE DEF e, w
      <4>3. e.pkt.sent_times + 1 \in 0 .. MaxResend
        BY <3>1, <4>2, TransferAssumption DEF Entry, Packet
      <4>4. [e.pkt EXCEPT !.sent_times = @ + 1] \in Packet BY <3>1, <4>3 DEF Entry, Packet
      <4>. QED BY <3>1, <4>1, <4>4 DEF Entry, Flags
    <3>3. CASE i \notin timed /\ i = FirstUsable(c.window)
      <4>1. w[i] = [e EXCEPT !.flag = "buffered"] BY <3>3 DEF Scanned
      <4>. HIDE DEF e, w
      <4>. QED BY <3>1, <4>1 DEF Entry, Flags
    <3>4. CASE i \notin timed /\ i # FirstUsable(c.window)
      <4>1. w[i] = e BY <3>4 DEF Scanned
      <4>. QED BY <3>1, <4>1
    <3>. QED BY <3>2, <3>3, <3>4
  <2>. HIDE DEF timed, dead, sent, older
  <2>4. w \in WindowList
    <3>1. DOMAIN w = 1 .. Len(c.window) BY <1>1 DEF Scanned
    <3>2. w = [i \in 1 .. Len(c.window) |-> w[i]] BY <1>1 DEF Scanned
    <3>. HIDE DEF w
    <3>3. w \in [1 .. Len(c.window) -> Entry] BY <1>1, <2>3, <3>2
    <3>. QED BY <1>1, <3>3, SeqDef DEF WindowList
  <2>5. d = [c EXCEPT !.cwnd = cwnd, !.sndbuf = sent, !.older = older, !.window = w]
    BY <1>0, <1>3
  <2>. HIDE DEF w, d, cwnd
  <2>6. d = [f \in ClientFields |-> d[f]] BY <2>5 DEF ClientOK, ClientTyped
  <2>7. d.cwnd \in Byte \ {0}
    BY <1>1, <2>5 DEF ClientOK, ClientTyped, ClientFields, Byte, cwnd
  <2>8. ClientTyped(d)
    BY <2>1, <2>2, <2>4, <2>5, <2>6, <2>7 DEF ClientOK, ClientTyped, ClientFields
  <2>9. Conserves(d) BY <2>5 DEF ClientOK, ClientTyped, ClientFields, Conserves
  <2>. QED BY <2>8, <2>9 DEF ClientOK, d
<1>. QED BY <1>2, <1>3

LEMMA ClientStepOK ==
  ASSUME NEW c, ClientOK(c), NEW expired
  PROVE  ClientOK(ClientStep(c, expired))
BY ReceiveOK, PacketiseOK, TransmitOK DEF ClientStep

-----------------------------------------------------------------------------
LEMMA FeedOK ==
  ASSUME NEW c, ClientOK(c)
  PROVE  ClientOK(Feed(c))
<1> DEFINE d == Feed(c)
<1>1. CASE c.nbuf > 0 /\ c.nbuf + c.datalen <= CliDataMax
  <2>1. d = [c EXCEPT !.datalen = c.datalen + c.nbuf, !.nbuf = 0]
    BY <1>1 DEF Feed, ClientOK, ClientTyped
  <2>. HIDE DEF d
  <2>2. c.datalen + c.nbuf \in 0 .. CliDataMax /\ 0 \in 0 .. CliBufMax
    BY <1>1, ClientAssumption DEF ClientOK, ClientTyped
  <2>3. d = [f \in ClientFields |-> d[f]] BY <2>1 DEF ClientOK, ClientTyped
  <2>4. ClientTyped(d) BY <2>1, <2>2, <2>3 DEF ClientOK, ClientTyped, ClientFields
  <2>5. Conserves(d)
    BY <2>1, TransferAssumption, ClientAssumption
    DEF ClientOK, ClientTyped, ClientFields, Conserves
  <2>. QED BY <2>4, <2>5 DEF ClientOK, d
<1>2. CASE d = c BY <1>2
<1>3. CASE d = [c EXCEPT !.state = "done"] \/ d = [c EXCEPT !.eof_send = TRUE]
  <2>. HIDE DEF d
  <2>1. d = [f \in ClientFields |-> d[f]] BY <1>3 DEF ClientOK, ClientTyped
  <2>. QED BY <1>3, <2>1 DEF ClientOK, ClientTyped, ClientFields, Conserves, d
<1>. QED BY <1>1, <1>2, <1>3 DEF Feed

LEMMA ReadStdinOK ==
  ASSUME NEW c, ClientOK(c)
  PROVE  ClientOK(ReadStdin(c))
<1> DEFINE room == CliBufMax - c.nbuf
           n == Min({room, c.stdin})
           eof == n < room
           d == ReadStdin(c)
<1>1. /\ c.nbuf \in Nat /\ c.nbuf <= CliBufMax /\ CliBufMax \in Nat
      /\ c.stdin \in Nat /\ c.stdin <= Chunks /\ Chunks \in Nat
  BY ClientAssumption, TransferAssumption DEF ClientOK, ClientTyped
<1>2. n \in Nat /\ n <= room /\ n <= c.stdin
  <2> DEFINE S == {room, c.stdin}
  <2>1. S \in SUBSET Nat /\ S # {} BY <1>1
  <2>. HIDE DEF S
  <2>2. Min(S) \in S /\ \A y \in S : Min(S) <= y BY <2>1, MinIsLeast
  <2>3. room \in S /\ c.stdin \in S BY DEF S
  <2>. QED BY <2>1, <2>2, <2>3 DEF S
<1>3. d = [c EXCEPT !.nbuf = c.nbuf + n, !.stdin = c.stdin - n, !.eof = eof]
  BY Zenon DEF ReadStdin
<1>. HIDE DEF n, eof, d
<1>4. c.nbuf + n \in 0 .. CliBufMax /\ c.stdin - n \in 0 .. Chunks /\ eof \in BOOLEAN
  BY <1>1, <1>2 DEF eof
<1>5. d = [f \in ClientFields |-> d[f]] BY <1>3 DEF ClientOK, ClientTyped
<1>6. ClientTyped(d) BY <1>3, <1>4, <1>5 DEF ClientOK, ClientTyped, ClientFields
<1>7. Conserves(d)
  BY <1>1, <1>2, <1>3, ClientAssumption DEF ClientOK, ClientTyped, ClientFields, Conserves
<1>. QED BY <1>6, <1>7 DEF ClientOK, d

-----------------------------------------------------------------------------
LEMMA ServerStartOK == ServerOK(ServerStart)
<1>. USE SeqAssumption, TransferAssumption, ServerAssumption
<1>1. <<>> \in ChunkSeq /\ <<>> \in AckStack /\ Len(<<>>) = 0
  BY EmptySeq DEF ChunkSeq, AckStack
<1>2. ServerStart = [f \in ServerFields |-> ServerStart[f]] BY DEF ServerStart, ServerFields
<1>3. ServerTyped(ServerStart)
  BY <1>1, <1>2 DEF ServerTyped, ServerStart, Byte, SeqNums
<1>4. IsFiniteSet(ServerStart.window) BY FS_EmptySet DEF ServerStart
<1>5. Len(ServerStart.buf) <= SrvBufMax BY <1>1 DEF ServerStart
<1>. QED BY <1>3, <1>4, <1>5 DEF ServerOK

\* The loop stops, and every number it has passed is in the window.
LEMMA RunLengthOK ==
  ASSUME NEW s, ServerOK(s), NEW w \in SUBSET Packet
  PROVE  /\ RunLength(s, w) \in Nat
         /\ s.nextseqnum + RunLength(s, w) <= SeqSpace
         /\ \A m \in 0 .. RunLength(s, w) - 1 : \E q \in w : q.seq = s.nextseqnum + m
<1> DEFINE stop == {n \in 0 .. SeqSpace - s.nextseqnum : ~Processable(s, w, n)}
           n == RunLength(s, w)
<1>1. s.nextseqnum \in Nat /\ s.nextseqnum < SeqSpace /\ SeqSpace \in Nat
  BY SeqAssumption DEF ServerOK, ServerTyped, SeqNums
<1>2. SeqSpace - s.nextseqnum \in stop
  <2>1. \A q \in w : q.seq # s.nextseqnum + (SeqSpace - s.nextseqnum)
    BY <1>1 DEF Packet, SeqNums
  <2>. QED BY <1>1, <2>1 DEF Processable
<1>3. stop \in SUBSET Nat /\ stop # {} BY <1>1, <1>2
<1>4. n = Min(stop) BY DEF RunLength
<1>5. n \in stop /\ \A y \in stop : n <= y BY <1>3, <1>4, MinIsLeast
<1>6. n \in 0 .. SeqSpace - s.nextseqnum BY <1>5
<1>. HIDE DEF n
<1>7. \A m \in 0 .. n - 1 : m \in 0 .. SeqSpace - s.nextseqnum /\ m \notin stop
  BY <1>1, <1>5, <1>6
<1>8. \A m \in 0 .. n - 1 : Processable(s, w, m) BY <1>7
<1>9. \A m \in 0 .. n - 1 : \E q \in w : q.seq = s.nextseqnum + m BY <1>8 DEF Processable
<1>. QED BY <1>1, <1>6, <1>9 DEF n

\* The data of a run of packets of the window is a sequence of chunks.
LEMMA PayloadOK ==
  ASSUME NEW w \in SUBSET Packet, NEW first \in Nat, NEW n \in Nat,
         \A m \in 0 .. n - 1 : \E q \in w : q.seq = first + m
  PROVE  Payload(w, first, n) \in ChunkSeq
<1> DEFINE syn == IF n > 0 /\ At(w, first).kind = "SYN" THEN 1 ELSE 0
           fin == IF n > 0 /\ At(w, first + n - 1).kind = "FIN" THEN 1 ELSE 0
           len == n - syn - fin
<1>1. syn \in 0 .. 1 /\ fin \in 0 .. 1 OBVIOUS
<1>2. len \in Nat
  <2>1. CASE n = 0 BY <2>1
  <2>2. CASE n = 1
    <3>1. first + n - 1 = first BY <2>2
    <3>2. ~(syn = 1 /\ fin = 1) BY <3>1
    <3>. HIDE DEF syn, fin
    <3>. QED BY <1>1, <2>2, <3>2
  <2>3. CASE n > 1
    <3>. HIDE DEF syn, fin
    <3>. QED BY <1>1, <2>3
  <2>. QED BY <2>1, <2>2, <2>3
<1>. HIDE DEF syn, fin
<1>3. ASSUME NEW i \in 1 .. len PROVE At(w, first + syn + i - 1).idx \in 0 .. Chunks
  <2>1. syn + i - 1 \in 0 .. n - 1 BY <1>1, <1>2
  <2>2. first + (syn + i - 1) = first + syn + i - 1 BY <1>1, <1>2
  <2>3. \E q \in w : q.seq = first + syn + i - 1 BY <2>1, <2>2
  <2>4. At(w, first + syn + i - 1) \in w BY <2>3 DEF At
  <2>. QED BY <2>4 DEF Packet
<1>4. [i \in 1 .. len |-> At(w, first + syn + i - 1).idx] \in [1 .. len -> 0 .. Chunks]
  BY <1>3
<1>5. Payload(w, first, n) = [i \in 1 .. len |-> At(w, first + syn + i - 1).idx]
  BY DEF Payload, syn, fin
<1>. HIDE DEF len
<1>. QED BY <1>2, <1>4, <1>5, SeqDef DEF ChunkSeq

LEMMA ProcessOK ==
  ASSUME NEW s, ServerOK(s), NEW w \in SUBSET Packet, IsFiniteSet(w), NEW below \in Nat
  PROVE  ServerOK(Process(s, w, below))
<1> DEFINE n == RunLength(s, w)
           left == {q \in w : q.seq \notin s.nextseqnum .. s.nextseqnum + n - 1}
           data == s.data \o Payload(w, s.nextseqnum, n)
           next == (s.nextseqnum + n) % SeqSpace
           cwnd == (WindowSize - below + n) % 256
           d == Process(s, w, below)
<1>0. d = [s EXCEPT !.window = left, !.data = data, !.nextseqnum = next, !.cwnd = cwnd]
  BY DEF Process
<1>1. /\ n \in Nat /\ s.nextseqnum \in Nat
      /\ \A m \in 0 .. n - 1 : \E q \in w : q.seq = s.nextseqnum + m
  <2>1. s.nextseqnum \in Nat BY SeqAssumption DEF ServerOK, ServerTyped, SeqNums
  <2>. QED BY <2>1, RunLengthOK
<1>. HIDE DEF n
<1>2. left \subseteq w /\ left \in SUBSET Packet OBVIOUS
<1>3. IsFiniteSet(left) BY <1>2, FS_Subset
<1>4. data \in ChunkSeq
  <2>1. Payload(w, s.nextseqnum, n) \in ChunkSeq BY <1>1, PayloadOK
  <2>. QED BY <2>1, ConcatProperties DEF ServerOK, ServerTyped, ChunkSeq
<1>5. next \in SeqNums BY <1>1, SeqAssumption DEF SeqNums
<1>6. cwnd \in Byte BY <1>1, SeqAssumption DEF Byte
<1>. HIDE DEF left, data, next, cwnd, d
<1>7. d = [f \in ServerFields |-> d[f]] BY <1>0 DEF ServerOK, ServerTyped
<1>8. ServerTyped(d)
  BY <1>0, <1>2, <1>4, <1>5, <1>6, <1>7 DEF ServerOK, ServerTyped, ServerFields
<1>9. d.window = left /\ d.buf = s.buf BY <1>0 DEF ServerOK, ServerTyped, ServerFields
<1>. QED BY <1>3, <1>8, <1>9 DEF ServerOK, d

LEMMA InsertOK ==
  ASSUME NEW s, ServerOK(s), NEW p \in Packet
  PROVE  ServerOK(Insert(s, p))
<1> DEFINE lower == {q \in s.window : q.seq < p.seq}
           below == Cardinality(lower)
           d == Insert(s, p)
<1>1. s.window \in SUBSET Packet /\ IsFiniteSet(s.window) BY DEF ServerOK, ServerTyped
<1>2. below \in Nat BY <1>1, FS_Subset, FS_CardinalityType
<1>3. CASE d = Process(s, s.window, below) BY <1>1, <1>2, <1>3, ProcessOK
<1>4. CASE d = [s EXCEPT !.state = "aborted"]
  <2>. HIDE DEF d
  <2>1. d = [f \in ServerFields |-> d[f]] BY <1>4 DEF ServerOK, ServerTyped
  <2>. QED BY <1>4, <2>1 DEF ServerOK, ServerTyped, ServerFields, d
<1>5. CASE d = Process(s, s.window \cup {p}, below)
  <2>1. s.window \cup {p} \in SUBSET Packet /\ IsFiniteSet(s.window \cup {p})
    BY <1>1, FS_AddElement
  <2>. QED BY <1>2, <1>5, <2>1, ProcessOK
<1>. QED BY <1>3, <1>4, <1>5 DEF Insert

LEMMA AcceptOK ==
  ASSUME NEW s, ServerOK(s), NEW p \in Packet
  PROVE  ServerOK(Accept(s, p))
<1> DEFINE t == IF p.kind = "SYN" THEN [s EXCEPT !.nextseqnum = p.seq] ELSE s
           a == [ack |-> Succ(p.seq), wnd |-> t.cwnd, sent_times |-> p.sent_times]
           u == [t EXCEPT !.acks = <<a>> \o t.acks]
<1>1. ServerOK(t)
  <2>1. p.seq \in SeqNums BY DEF Packet
  <2>2. CASE t = s BY <2>2
  <2>3. CASE t = [s EXCEPT !.nextseqnum = p.seq]
    <3>. HIDE DEF t
    <3>1. t = [f \in ServerFields |-> t[f]] BY <2>3 DEF ServerOK, ServerTyped
    <3>. QED BY <2>1, <2>3, <3>1 DEF ServerOK, ServerTyped, ServerFields
  <2>. QED BY <2>2, <2>3
<1>. HIDE DEF t
<1>2. ServerOK(u)
  <2>1. a \in Ack
    BY <1>1, SeqAssumption DEF Ack, Packet, ServerOK, ServerTyped, Succ, SeqNums
  <2>. HIDE DEF a
  <2> DEFINE l == <<a>> \o t.acks
  <2>2. l \in AckStack
    BY <1>1, <2>1, ConcatProperties DEF ServerOK, ServerTyped, AckStack
  <2>. HIDE DEF l
  <2>3. u = [t EXCEPT !.acks = l] BY DEF l
  <2>. HIDE DEF u
  <2>4. u = [f \in ServerFields |-> u[f]] BY <1>1, <2>3 DEF ServerOK, ServerTyped
  <2>. QED BY <1>1, <2>2, <2>3, <2>4 DEF ServerOK, ServerTyped, ServerFields
<1>3. Accept(s, p) = IF ~InRange(p.seq, t.nextseqnum) THEN t
                     ELSE IF p.seq < t.nextseqnum THEN u ELSE Insert(u, p)
  BY DEF Accept, t
<1>. HIDE DEF u
<1>. QED BY <1>1, <1>2, <1>3, InsertOK

LEMMA ServerStepOK ==
  ASSUME NEW s, ServerOK(s)
  PROVE  ServerOK(ServerStep(s))
<1> DEFINE p == CHOOSE q \in s.rcvbuf : TRUE
           a == Accept(s, p)
           t == IF s.rcvbuf = {} THEN s ELSE [a EXCEPT !.rcvbuf = {}]
           d == PopAck(t)
<1>1. ServerOK(t)
  <2>1. CASE s.rcvbuf = {} BY <2>1
  <2>2. CASE s.rcvbuf # {}
    <3>1. p \in Packet BY <2>2 DEF ServerOK, ServerTyped
    <3>. HIDE DEF p
    <3>2. ServerOK(a) BY <3>1, AcceptOK
    <3>3. t = [a EXCEPT !.rcvbuf = {}] BY <2>2
    <3>. HIDE DEF a, t
    <3>4. t = [f \in ServerFields |-> t[f]] BY <3>2, <3>3 DEF ServerOK, ServerTyped
    <3>. QED BY <3>2, <3>3, <3>4 DEF ServerOK, ServerTyped, ServerFields
  <2>. QED BY <2>1, <2>2
<1>2. ServerStep(s) = t \/ ServerStep(s) = d BY DEF ServerStep
<1>. HIDE DEF t
<1>3. ServerOK(d)
  <2>1. CASE t.acks = <<>> BY <1>1, <2>1 DEF PopAck
  <2>2. CASE t.acks # <<>>
    <3> DEFINE h == {Head(t.acks)}
               l == Tail(t.acks)
    <3>1. h \in SUBSET Ack /\ l \in AckStack
      BY <1>1, <2>2, HeadTailProperties DEF ServerOK, ServerTyped, AckStack
    <3>2. d = [t EXCEPT !.sndbuf = h, !.acks = l] BY <2>2 DEF PopAck
    <3>. HIDE DEF h, l, d
    <3>3. d = [f \in ServerFields |-> d[f]] BY <1>1, <3>2 DEF ServerOK, ServerTyped
    <3>. QED BY <1>1, <3>1, <3>2, <3>3 DEF ServerOK, ServerTyped, ServerFields
  <2>. QED BY <2>1, <2>2
<1>. QED BY <1>1, <1>2, <1>3

\* The beginning and the rest of a sequence of chunks.
LEMMA SplitChunks ==
  ASSUME NEW q \in ChunkSeq, NEW n \in 0 .. Len(q)
  PROVE  /\ Len(q) \in Nat
         /\ SubSeq(q, 1, n) \in ChunkSeq /\ Len(SubSeq(q, 1, n)) = n
         /\ SubSeq(q, n + 1, Len(q)) \in ChunkSeq
         /\ Len(SubSeq(q, n + 1, Len(q))) = Len(q) - n
<1>1. Len(q) \in Nat /\ \A i \in 1 .. Len(q) : q[i] \in 0 .. Chunks
  BY LenProperties, ElementOfSeq DEF ChunkSeq
<1>2. n \in Int /\ n + 1 \in Int /\ Len(q) \in Int /\ 1 \in Int BY <1>1
<1>3. /\ \A i \in 1 .. n : q[i] \in 0 .. Chunks
      /\ \A i \in n + 1 .. Len(q) : q[i] \in 0 .. Chunks
  BY <1>1
<1>4. /\ SubSeq(q, 1, n) \in Seq(0 .. Chunks)
      /\ Len(SubSeq(q, 1, n)) = IF 1 <= n THEN n - 1 + 1 ELSE 0
  BY <1>2, <1>3, SubSeqProperties
<1>5. /\ SubSeq(q, n + 1, Len(q)) \in Seq(0 .. Chunks)
      /\ Len(SubSeq(q, n + 1, Len(q)))
           = IF n + 1 <= Len(q) THEN Len(q) - (n + 1) + 1 ELSE 0
  BY <1>2, <1>3, SubSeqProperties
<1>. QED BY <1>1, <1>4, <1>5 DEF ChunkSeq

LEMMA DataReadOK ==
  ASSUME NEW s, ServerOK(s)
  PROVE  ServerOK(DataRead(s))
<1> DEFINE n == Min({SrvBufMax - Len(s.buf), Len(s.data)})
           b == s.buf \o SubSeq(s.data, 1, n)
           r == SubSeq(s.data, n + 1, Len(s.data))
           d == DataRead(s)
<1>0. d = [s EXCEPT !.buf = b, !.data = r] BY DEF DataRead
<1>1. /\ s.buf \in ChunkSeq /\ s.data \in ChunkSeq
      /\ Len(s.buf) \in Nat /\ Len(s.data) \in Nat /\ Len(s.buf) <= SrvBufMax
      /\ SrvBufMax \in Nat
  BY ServerAssumption, LenProperties DEF ServerOK, ServerTyped, ChunkSeq
<1>2. n \in 0 .. Len(s.data) /\ Len(s.buf) + n <= SrvBufMax
  <2> DEFINE S == {SrvBufMax - Len(s.buf), Len(s.data)}
  <2>1. S \in SUBSET Nat /\ S # {} BY <1>1
  <2>. HIDE DEF S
  <2>2. Min(S) \in S /\ \A y \in S : Min(S) <= y BY <2>1, MinIsLeast
  <2>3. SrvBufMax - Len(s.buf) \in S /\ Len(s.data) \in S BY DEF S
  <2>4. n = Min(S) BY DEF S
  <2>. HIDE DEF n
  <2>5. n \in Nat /\ n <= SrvBufMax - Len(s.buf) /\ n <= Len(s.data)
    BY <2>1, <2>2, <2>3, <2>4
  <2>. QED BY <1>1, <2>5
<1>. HIDE DEF n
<1>3. b \in ChunkSeq /\ Len(b) <= SrvBufMax /\ r \in ChunkSeq
  <2>1. SubSeq(s.data, 1, n) \in ChunkSeq /\ Len(SubSeq(s.data, 1, n)) = n
    BY <1>1, <1>2, SplitChunks
  <2>2. b \in ChunkSeq /\ Len(b) = Len(s.buf) + n
    BY <1>1, <2>1, ConcatProperties DEF ChunkSeq
  <2>3. r \in ChunkSeq BY <1>1, <1>2, SplitChunks
  <2>. QED BY <1>2, <2>2, <2>3
<1>. HIDE DEF b, r, d
<1>4. d = [f \in ServerFields |-> d[f]] BY <1>0 DEF ServerOK, ServerTyped
<1>. QED BY <1>0, <1>3, <1>4 DEF ServerOK, ServerTyped, ServerFields, d

LEMMA WriteStdoutOK ==
  ASSUME NEW s, ServerOK(s), NEW n \in 0 .. Len(s.buf)
  PROVE  ServerOK(WriteStdout(s, n))
<1> DEFINE o == s.out \o SubSeq(s.buf, 1, n)
           b == SubSeq(s.buf, 1, Len(s.buf) - n)
           d == WriteStdout(s, n)
<1>0. d = [s EXCEPT !.out = o, !.buf = b] BY DEF WriteStdout
<1>1. /\ s.buf \in ChunkSeq /\ s.out \in ChunkSeq /\ Len(s.buf) \in Nat
      /\ Len(s.buf) <= SrvBufMax /\ SrvBufMax \in Nat
  BY ServerAssumption, LenProperties DEF ServerOK, ServerTyped, ChunkSeq
<1>2. Len(s.buf) - n \in 0 .. Len(s.buf) BY <1>1
<1>3. o \in ChunkSeq
  <2>1. SubSeq(s.buf, 1, n) \in ChunkSeq BY <1>1, SplitChunks
  <2>. QED BY <1>1, <2>1, ConcatProperties DEF ChunkSeq
<1>4. b \in ChunkSeq /\ Len(b) <= SrvBufMax
  <2>1. b \in ChunkSeq /\ Len(b) = Len(s.buf) - n BY <1>1, <1>2, SplitChunks
  <2>. QED BY <1>1, <2>1
<1>. HIDE DEF o, b, d
<1>5. d = [f \in ServerFields |-> d[f]] BY <1>0 DEF ServerOK, ServerTyped
<1>. QED BY <1>0, <1>3, <1>4, <1>5 DEF ServerOK, ServerTyped, ServerFields, d

-----------------------------------------------------------------------------
\* What the two loops do around select: one buffer, and the program counter.
LEMMA ClientBuffers ==
  ASSUME NEW c, ClientOK(c), NEW a \in {"step", "select"},
         NEW r \in SUBSET Ack, NEW b \in SUBSET Packet
  PROVE  /\ ClientOK([c EXCEPT !.at = a])
         /\ ClientOK([c EXCEPT !.sndbuf = b])
         /\ ClientOK([c EXCEPT !.at = a, !.rcvbuf = r])
<1>1. ASSUME NEW d, \/ d = [c EXCEPT !.at = a]
                    \/ d = [c EXCEPT !.sndbuf = b]
                    \/ d = [c EXCEPT !.at = a, !.rcvbuf = r]
      PROVE  ClientOK(d)
  <2>1. d = [f \in ClientFields |-> d[f]] BY <1>1 DEF ClientOK, ClientTyped
  <2>2. ClientTyped(d) BY <1>1, <2>1 DEF ClientOK, ClientTyped, ClientFields
  <2>3. Conserves(d) BY <1>1 DEF ClientOK, ClientTyped, ClientFields, Conserves
  <2>. QED BY <2>2, <2>3 DEF ClientOK
<1>. QED BY <1>1

LEMMA ServerBuffers ==
  ASSUME NEW s, ServerOK(s), NEW a \in {"step", "select"},
         NEW r \in SUBSET Packet, NEW b \in SUBSET Ack
  PROVE  /\ ServerOK([s EXCEPT !.at = a])
         /\ ServerOK([s EXCEPT !.sndbuf = b])
         /\ ServerOK([s EXCEPT !.at = a, !.rcvbuf = r])
<1>1. ASSUME NEW d, \/ d = [s EXCEPT !.at = a]
                    \/ d = [s EXCEPT !.sndbuf = b]
                    \/ d = [s EXCEPT !.at = a, !.rcvbuf = r]
      PROVE  ServerOK(d)
  <2>1. d = [f \in ServerFields |-> d[f]] BY <1>1 DEF ServerOK, ServerTyped
  <2>. QED BY <1>1, <2>1 DEF ServerOK, ServerTyped, ServerFields
<1>. QED BY <1>1

-----------------------------------------------------------------------------
\* The inductive invariant.
TypeInv ==
  /\ ClientOK(cli) /\ ServerOK(srv)
  /\ toServer \subseteq Packet /\ toClient \subseteq Ack
  /\ lost \in 0 .. MaxLoss

LEMMA TypeInvInit == Init => TypeInv
BY ClientStartOK, ServerStartOK, LossAssumption DEF Init, TypeInv

LEMMA TypeInvNext == TypeInv /\ [Next]_vars => TypeInv'
<1> SUFFICES ASSUME TypeInv, [Next]_vars PROVE TypeInv'
  OBVIOUS
<1>1. ASSUME NEW expired \in Expirations, ClientTurn(expired) PROVE TypeInv'
  <2>1. ClientOK(ClientStep(cli, expired)) BY ClientStepOK DEF TypeInv
  <2>2. ClientOK(cli') BY <1>1, <2>1, ClientBuffers DEF ClientTurn
  <2>. QED BY <1>1, <2>2 DEF ClientTurn, TypeInv
<1>2. ASSUME NEW ready \in SUBSET {"stdin", "out", "in"}, ClientSelect(ready)
      PROVE  TypeInv'
  <2> DEFINE c == Feed(cli)
             d == IF "stdin" \in ready THEN ReadStdin(c) ELSE c
             e == IF "out" \in ready THEN [d EXCEPT !.sndbuf = {}] ELSE d
  <2>1. ClientOK(d) BY FeedOK, ReadStdinOK DEF TypeInv
  <2>. HIDE DEF d
  <2>2. ClientOK(e) BY <2>1, ClientBuffers
  <2>. HIDE DEF e
  <2>3. toServer' \subseteq Packet
    BY <1>2 DEF ClientSelect, TypeInv, ClientOK, ClientTyped
  <2>4. CASE cli' = [e EXCEPT !.at = "step"] /\ toClient' = toClient
    <3>1. ClientOK(cli') BY <2>2, <2>4, ClientBuffers
    <3>. QED BY <1>2, <2>3, <2>4, <3>1 DEF ClientSelect, TypeInv
  <2>5. ASSUME NEW a \in toClient, cli' = [e EXCEPT !.at = "step", !.rcvbuf = {a}],
               toClient' = toClient \ {a}
        PROVE  TypeInv'
    <3>1. {a} \in SUBSET Ack BY DEF TypeInv
    <3>2. ClientOK(cli') BY <2>2, <2>5, <3>1, ClientBuffers
    <3>. QED BY <1>2, <2>3, <2>5, <3>2 DEF ClientSelect, TypeInv
  <2>. QED BY <1>2, <2>4, <2>5 DEF ClientSelect, c, d, e
<1>3. ASSUME ServerTurn PROVE TypeInv'
  <2>1. ServerOK(ServerStep(srv)) BY ServerStepOK DEF TypeInv
  <2>2. ServerOK(srv') BY <1>3, <2>1, ServerBuffers DEF ServerTurn
  <2>. QED BY <1>3, <2>2 DEF ServerTurn, TypeInv
<1>4. ASSUME NEW ready \in SUBSET {"stdout", "out", "in"}, ServerSelect(ready)
      PROVE  TypeInv'
  <2> DEFINE s == DataRead(srv)
             t(n) == IF "stdout" \in ready THEN WriteStdout(s, n) ELSE s
             u(n) == IF "out" \in ready THEN [t(n) EXCEPT !.sndbuf = {}] ELSE t(n)
  <2>1. ServerOK(s) BY DataReadOK DEF TypeInv
  <2>2. PICK n \in IF "stdout" \in ready THEN WriteLengths(s) ELSE {0} :
          \/ srv' = [u(n) EXCEPT !.at = "step"] /\ toServer' = toServer
          \/ \E p \in toServer : /\ srv' = [u(n) EXCEPT !.at = "step", !.rcvbuf = {p}]
                                 /\ toServer' = toServer \ {p}
    BY <1>4 DEF ServerSelect
  <2>3. toClient' \subseteq Ack
    BY <1>4 DEF ServerSelect, TypeInv, ServerOK, ServerTyped
  <2>. HIDE DEF s
  <2>4. ServerOK(t(n))
    <3>1. CASE "stdout" \notin ready BY <2>1, <3>1
    <3>2. CASE "stdout" \in ready
      <4>1. Len(s.buf) \in Nat
        BY <2>1, LenProperties DEF ServerOK, ServerTyped, ChunkSeq
      <4>2. n \in WriteLengths(s) BY <2>2, <3>2
      <4>3. n \in 0 .. Len(s.buf) BY <4>1, <4>2 DEF WriteLengths
      <4>. QED BY <2>1, <3>2, <4>3, WriteStdoutOK
    <3>. QED BY <3>1, <3>2
  <2>5. ServerOK(u(n))
    <3> DEFINE x == t(n)
    <3>1. ServerOK(x) BY <2>4
    <3>2. u(n) = IF "out" \in ready THEN [x EXCEPT !.sndbuf = {}] ELSE x OBVIOUS
    <3>3. ServerOK([x EXCEPT !.sndbuf = {}]) BY <3>1, ServerBuffers
    <3>. HIDE DEF x
    <3>4. CASE "out" \in ready BY <3>2, <3>3, <3>4
    <3>5. CASE "out" \notin ready BY <3>1, <3>2, <3>5
    <3>. QED BY <3>4, <3>5
  <2>. HIDE DEF u
  <2>6. CASE srv' = [u(n) EXCEPT !.at = "step"] /\ toServer' = toServer
    <3>1. ServerOK(srv') BY <2>5, <2>6, ServerBuffers
    <3>. QED BY <1>4, <2>3, <2>6, <3>1 DEF ServerSelect, TypeInv
  <2>7. ASSUME NEW p \in toServer, srv' = [u(n) EXCEPT !.at = "step", !.rcvbuf = {p}],
               toServer' = toServer \ {p}
        PROVE  TypeInv'
    <3>1. {p} \in SUBSET Packet BY DEF TypeInv
    <3>2. ServerOK(srv') BY <2>5, <2>7, <3>1, ServerBuffers
    <3>. QED BY <1>4, <2>3, <2>7, <3>2 DEF ServerSelect, TypeInv
  <2>. QED BY <2>2, <2>6, <2>7
<1>5. ASSUME Lose PROVE TypeInv'
  <2>1. lost' \in 0 .. MaxLoss BY <1>5, LossAssumption DEF Lose, TypeInv
  <2>. QED BY <1>5, <2>1 DEF Lose, TypeInv
<1>6. CASE UNCHANGED vars BY <1>6 DEF vars, TypeInv
<1>. QED BY <1>1, <1>2, <1>3, <1>4, <1>5, <1>6 DEF Next

\* Every reachable state of the transfer is type correct, whatever the network
\* loses and delays and whenever timers are found run out: the client never
\* makes a packet for a chunk beyond its input, never resends one more than
\* MaxResend times, never takes more free nodes than it has, and the server's
\* loop never reads more than its buffer holds.
THEOREM TypeCorrect == Spec => []TypeOK
<1>1. Spec => []TypeInv BY TypeInvInit, TypeInvNext, PTL DEF Spec
<1>2. TypeInv => TypeOK
  BY ClientRecordTyped, ServerRecordTyped DEF TypeInv, TypeOK, ClientOK, ServerOK
<1>. QED BY <1>1, <1>2, PTL

-----------------------------------------------------------------------------
(***************************************************************************)
(* The FIN is last.  rdt_client_done is called as soon as stdin has ended  *)
(* and the write did not happen, even though the loop's buffer may still   *)
(* hold data that did not fit; the FIN is nevertheless not made early,     *)
(* because then rdt->data is not empty at the next step, and data go into  *)
(* packets first.                                                          *)
(***************************************************************************)
EndOfInput(c) ==
  /\ c.eof => c.stdin = 0
  /\ c.eof_send => c.eof
  /\ c.eof_sent => c.packed = Chunks

FinInv ==
  /\ EndOfInput(cli)
  /\ cli.at = "step" /\ cli.eof_send => cli.nbuf = 0 \/ cli.datalen > 0

\* The fields EndOfInput is about.
InputFields(c) ==
  <<c.eof, c.stdin, c.eof_send, c.eof_sent, c.packed, c.nbuf, c.datalen>>

LEMMA MarkAckedInput ==
  ASSUME NEW c, ClientOK(c), NEW a \in Ack
  PROVE  InputFields(MarkAcked(c, a)) = InputFields(c)
<1> DEFINE hits == {i \in DOMAIN c.window : Acknowledges(a, c.window[i])}
           w == [c.window EXCEPT ![Min(hits)].flag = "acked"]
           g == Grow(c.cwnd)
           o == Without(c.older, {c.window[Min(hits)].pkt.seq})
<1>1. MarkAcked(c, a) = IF hits = {} THEN c
                        ELSE [c EXCEPT !.cwnd = g, !.window = w, !.older = o]
  BY DEF MarkAcked
<1>. HIDE DEF hits, w, g, o
<1>. QED BY <1>1 DEF ClientOK, ClientTyped, ClientFields, InputFields

LEMMA ReleaseInput ==
  ASSUME NEW c, ClientOK(c), NEW a, NEW n
  PROVE  InputFields(Release(c, a, n)) = InputFields(c)
BY DEF Release, ClientOK, ClientTyped, ClientFields, InputFields

LEMMA ReceiveInput ==
  ASSUME NEW c, ClientOK(c)
  PROVE  InputFields(Receive(c)) = InputFields(c)
<1>1. CASE c.rcvbuf = {} BY <1>1 DEF Receive
<1>2. CASE c.rcvbuf # {}
  <2> DEFINE a == CHOOSE x \in c.rcvbuf : TRUE
             m == MarkAcked(c, a)
             r == Release(m, a, Leading(m.window))
  <2>1. a \in Ack BY <1>2 DEF ClientOK, ClientTyped
  <2>2. ClientOK(m) /\ InputFields(m) = InputFields(c) BY <2>1, MarkAckedOK, MarkAckedInput
  <2>3. InputFields(r) = InputFields(m) BY <2>2, ReleaseInput
  <2>4. Leading(m.window) \in 0 .. Len(m.window)
    BY <2>2, LeadingInWindow DEF ClientOK, ClientTyped
  <2>5. ClientOK(r) BY <2>1, <2>2, <2>4, ReleaseOK
  <2>6. Receive(c) = [r EXCEPT !.rcvbuf = {}] BY <1>2 DEF Receive
  <2>. HIDE DEF r
  <2>7. InputFields(Receive(c)) = InputFields(r)
    BY <2>5, <2>6 DEF ClientOK, ClientTyped, ClientFields, InputFields
  <2>. QED BY <2>2, <2>3, <2>7
<1>. QED BY <1>1, <1>2

LEMMA TransmitInput ==
  ASSUME NEW c, ClientOK(c), NEW expired
  PROVE  InputFields(Transmit(c, expired)) = InputFields(c)
<1> DEFINE timed == TimedOut(c.window, expired)
           dead  == \E i \in timed : c.window[i].pkt.sent_times >= MaxResend
           sent  == Sent(c.window)
           older == SentOrderAfter(c, timed)
           w     == Scanned(c.window, timed)
           cwnd  == IF timed = {} THEN c.cwnd ELSE 1
           d     == Transmit(c, expired)
<1>1. d = IF dead THEN [c EXCEPT !.state = "failed"]
          ELSE [c EXCEPT !.cwnd = cwnd, !.sndbuf = sent, !.older = older, !.window = w]
  BY DEF Transmit
<1>2. \/ d = [c EXCEPT !.state = "failed"]
      \/ d = [c EXCEPT !.cwnd = cwnd, !.sndbuf = sent, !.older = older, !.window = w]
  BY <1>1
<1>. HIDE DEF timed, sent, older, w, cwnd, d
<1>3. InputFields(d) = InputFields(c)
  BY <1>2 DEF ClientOK, ClientTyped, ClientFields, InputFields
<1>. QED BY <1>3 DEF d

\* Making packets: the FIN only when nothing is left to be packed.
LEMMA PacketiseInput ==
  ASSUME NEW c, ClientOK(c), EndOfInput(c),
         c.eof_send => c.nbuf = 0 \/ c.datalen > 0
  PROVE  EndOfInput(Packetise(c))
<1>1. CASE c.datalen > 0 /\ c.window_free > 0
  <2> DEFINE n == Min({c.cwnd, c.window_size, c.window_free, c.datalen})
             w == c.window \o DataEntries(c, n)
             x == (c.nextseqnum + n) % SeqSpace
             d == AppendData(c)
  <2>1. d = [c EXCEPT !.window = w, !.window_free = c.window_free - n,
                      !.nextseqnum = x, !.datalen = c.datalen - n, !.packed = c.packed + n]
    BY DEF AppendData
  <2>2. ~c.eof_sent
    BY <1>1, TransferAssumption, ClientAssumption
    DEF EndOfInput, ClientOK, ClientTyped, Conserves
  <2>. HIDE DEF n, w, x, d
  <2>3. /\ d.eof = c.eof /\ d.stdin = c.stdin /\ d.eof_send = c.eof_send
        /\ d.eof_sent = c.eof_sent
    BY <2>1 DEF ClientOK, ClientTyped, ClientFields
  <2>4. EndOfInput(d) BY <2>2, <2>3 DEF EndOfInput
  <2>. QED BY <1>1, <2>4 DEF Packetise, d
<1>2. CASE /\ ~(c.datalen > 0 /\ c.window_free > 0)
           /\ c.eof_send /\ ~c.eof_sent /\ c.window_free > 0
  <2> DEFINE w == Append(c.window, NewEntry("FIN", c.nextseqnum, 0))
             x == Succ(c.nextseqnum)
             d == AppendFin(c)
  <2>1. d = [c EXCEPT !.window = w, !.window_free = c.window_free - 1,
                      !.nextseqnum = x, !.eof_sent = TRUE]
    BY DEF AppendFin
  <2>2. c.stdin = 0 /\ c.nbuf = 0 /\ c.datalen = 0
    BY <1>2, ClientAssumption DEF EndOfInput, ClientOK, ClientTyped
  <2>3. c.packed = Chunks
    BY <2>2, TransferAssumption DEF ClientOK, ClientTyped, Conserves
  <2>. HIDE DEF w, x, d
  <2>4. /\ d.eof = c.eof /\ d.stdin = c.stdin /\ d.eof_send = c.eof_send
        /\ d.packed = c.packed
    BY <2>1 DEF ClientOK, ClientTyped, ClientFields
  <2>5. EndOfInput(d) BY <2>3, <2>4 DEF EndOfInput
  <2>. QED BY <1>2, <2>5 DEF Packetise, d
<1>3. CASE /\ ~(c.datalen > 0 /\ c.window_free > 0)
           /\ ~(c.eof_send /\ ~c.eof_sent /\ c.window_free > 0)
  BY <1>3 DEF Packetise
<1>. QED BY <1>1, <1>2, <1>3

LEMMA ClientStepInput ==
  ASSUME NEW c, ClientOK(c), EndOfInput(c), NEW expired,
         c.eof_send => c.nbuf = 0 \/ c.datalen > 0
  PROVE  EndOfInput(ClientStep(c, expired))
<1> DEFINE d == Receive(c)
           p == Packetise(d)
           t == Transmit(p, expired)
<1>1. ClientOK(d) /\ InputFields(d) = InputFields(c) BY ReceiveOK, ReceiveInput
<1>. HIDE DEF d
<1>2. EndOfInput(d) /\ (d.eof_send => d.nbuf = 0 \/ d.datalen > 0)
  BY <1>1 DEF EndOfInput, InputFields
<1>3. ClientOK(p) /\ EndOfInput(p) BY <1>1, <1>2, PacketiseOK, PacketiseInput
<1>. HIDE DEF p
<1>4. InputFields(t) = InputFields(p) BY <1>3, TransmitInput
<1>. HIDE DEF t
<1>5. EndOfInput(t) BY <1>3, <1>4 DEF EndOfInput, InputFields
<1>. QED BY <1>2, <1>5 DEF ClientStep, d, p, t

\* Around select: once the FIN was asked for, the loop's buffer is empty or
\* rdt->data is not.
LEMMA FeedInput ==
  ASSUME NEW c, ClientOK(c), EndOfInput(c)
  PROVE  /\ EndOfInput(Feed(c)) /\ (Feed(c).eof <=> c.eof)
         /\ Feed(c).eof_send => Feed(c).nbuf = 0 \/ Feed(c).datalen > 0
<1> DEFINE d == Feed(c)
<1>0. /\ c.nbuf \in Nat /\ c.datalen \in Nat /\ c.nbuf <= CliBufMax
      /\ CliBufMax \in Nat /\ CliDataMax \in Nat /\ CliBufMax <= CliDataMax
  BY ClientAssumption DEF ClientOK, ClientTyped
<1>1. CASE c.nbuf > 0 /\ c.nbuf + c.datalen <= CliDataMax
  <2>1. d = [c EXCEPT !.datalen = c.datalen + c.nbuf, !.nbuf = 0] BY <1>1 DEF Feed
  <2>. HIDE DEF d
  <2>2. /\ d.eof = c.eof /\ d.stdin = c.stdin /\ d.eof_send = c.eof_send
        /\ d.eof_sent = c.eof_sent /\ d.packed = c.packed /\ d.nbuf = 0
    BY <2>1 DEF ClientOK, ClientTyped, ClientFields
  <2>3. EndOfInput(d) BY <2>2 DEF EndOfInput
  <2>. QED BY <2>2, <2>3 DEF d
<1>2. CASE ~(c.nbuf > 0 /\ c.nbuf + c.datalen <= CliDataMax)
  <2>1. c.nbuf = 0 \/ c.datalen > 0 BY <1>0, <1>2
  <2>2. CASE d = c BY <2>1, <2>2
  <2>3. CASE c.eof /\ (d = [c EXCEPT !.state = "done"] \/ d = [c EXCEPT !.eof_send = TRUE])
    <3>. HIDE DEF d
    <3>1. /\ d.eof = c.eof /\ d.stdin = c.stdin /\ d.eof_sent = c.eof_sent
          /\ d.packed = c.packed /\ d.nbuf = c.nbuf /\ d.datalen = c.datalen
      BY <2>3 DEF ClientOK, ClientTyped, ClientFields
    <3>2. EndOfInput(d) BY <2>3, <3>1 DEF EndOfInput
    <3>. QED BY <2>1, <3>1, <3>2 DEF d
  <2>4. d = c \/ (c.eof /\ (d = [c EXCEPT !.state = "done"] \/ d = [c EXCEPT !.eof_send = TRUE]))
    BY <1>2 DEF Feed
  <2>. QED BY <2>2, <2>3, <2>4
<1>. QED BY <1>1, <1>2

\* A read that comes up short has taken all there was.
LEMMA ReadStdinInput ==
  ASSUME NEW c, ClientOK(c), EndOfInput(c), ~c.eof
  PROVE  EndOfInput(ReadStdin(c)) /\ ~ReadStdin(c).eof_send
<1> DEFINE room == CliBufMax - c.nbuf
           n == Min({room, c.stdin})
           eof == n < room
           k == c.nbuf + n
           l == c.stdin - n
           d == ReadStdin(c)
<1>1. /\ c.nbuf \in Nat /\ c.nbuf <= CliBufMax /\ CliBufMax \in Nat /\ c.stdin \in Nat
  BY ClientAssumption, TransferAssumption DEF ClientOK, ClientTyped
<1>2. n \in Nat /\ (n = room \/ n = c.stdin)
  <2> DEFINE S == {room, c.stdin}
  <2>1. S \in SUBSET Nat /\ S # {} BY <1>1
  <2>. HIDE DEF S
  <2>2. Min(S) \in S BY <2>1, MinIsLeast
  <2>. QED BY <2>1, <2>2 DEF S
<1>3. d = [c EXCEPT !.nbuf = k, !.stdin = l, !.eof = eof] BY Zenon DEF ReadStdin
<1>4. eof => l = 0
  <2>. HIDE DEF n
  <2>. QED BY <1>1, <1>2
<1>5. eof \in BOOLEAN OBVIOUS
<1>. HIDE DEF n, eof, k, l, d
<1>6. /\ d.eof = eof /\ d.stdin = l /\ d.eof_send = c.eof_send
      /\ d.eof_sent = c.eof_sent /\ d.packed = c.packed
  BY <1>3, <1>5 DEF ClientOK, ClientTyped, ClientFields
<1>7. ~c.eof_send BY DEF EndOfInput
<1>8. EndOfInput(d) /\ ~d.eof_send BY <1>4, <1>6, <1>7 DEF EndOfInput
<1>. QED BY <1>8 DEF d

LEMMA FinInvInit == Init => FinInv
BY DEF Init, ClientStart, FinInv, EndOfInput

LEMMA FinInvNext == TypeInv /\ FinInv /\ [Next]_vars => FinInv'
<1> SUFFICES ASSUME TypeInv, FinInv, [Next]_vars PROVE FinInv'
  OBVIOUS
<1>1. ASSUME NEW expired \in Expirations, ClientTurn(expired) PROVE FinInv'
  <2> DEFINE d == ClientStep(cli, expired)
  <2>1. cli.at = "step" /\ cli' = [d EXCEPT !.at = "select"] BY <1>1 DEF ClientTurn
  <2>2. ClientOK(d) /\ EndOfInput(d)
    BY <2>1, ClientStepOK, ClientStepInput DEF TypeInv, FinInv
  <2>. HIDE DEF d
  <2>3. InputFields(cli') = InputFields(d) /\ cli'.at = "select"
    BY <2>1, <2>2 DEF ClientOK, ClientTyped, ClientFields, InputFields
  <2>. QED BY <2>2, <2>3 DEF FinInv, EndOfInput, InputFields
<1>2. ASSUME NEW ready \in SUBSET {"stdin", "out", "in"}, ClientSelect(ready)
      PROVE  FinInv'
  <2> DEFINE c == Feed(cli)
             d == IF "stdin" \in ready THEN ReadStdin(c) ELSE c
             e == IF "out" \in ready THEN [d EXCEPT !.sndbuf = {}] ELSE d
  <2>1. /\ ClientOK(c) /\ EndOfInput(c) /\ (c.eof <=> cli.eof)
        /\ c.eof_send => c.nbuf = 0 \/ c.datalen > 0
    BY FeedOK, FeedInput DEF TypeInv, FinInv
  <2>2. "stdin" \in ready => ~cli.eof
    BY <1>2 DEF ClientSelect, ClientReady, WatchesStdin
  <2>. HIDE DEF c
  <2>3. /\ ClientOK(d) /\ EndOfInput(d)
        /\ d.eof_send => d.nbuf = 0 \/ d.datalen > 0
    <3>1. CASE "stdin" \in ready
      <4>1. ~c.eof BY <2>1, <2>2, <3>1
      <4>. QED BY <2>1, <3>1, <4>1, ReadStdinOK, ReadStdinInput
    <3>2. CASE "stdin" \notin ready BY <2>1, <3>2
    <3>. QED BY <3>1, <3>2
  <2>. HIDE DEF d
  <2>4. ClientOK(e) /\ InputFields(e) = InputFields(d)
    <3>1. CASE "out" \in ready
      <4>1. e = [d EXCEPT !.sndbuf = {}] BY <3>1
      <4>2. ClientOK([d EXCEPT !.sndbuf = {}]) BY <2>3, ClientBuffers
      <4>. HIDE DEF e
      <4>3. InputFields(e) = InputFields(d)
        BY <2>3, <4>1 DEF ClientOK, ClientTyped, ClientFields, InputFields
      <4>. QED BY <4>1, <4>2, <4>3
    <3>2. CASE "out" \notin ready BY <2>3, <3>2
    <3>. QED BY <3>1, <3>2
  <2>. HIDE DEF e
  <2>5. \/ cli' = [e EXCEPT !.at = "step"]
        \/ \E a \in toClient : cli' = [e EXCEPT !.at = "step", !.rcvbuf = {a}]
    BY <1>2 DEF ClientSelect, c, d, e
  <2>6. InputFields(cli') = InputFields(e)
    BY <2>4, <2>5 DEF ClientOK, ClientTyped, ClientFields, InputFields
  <2>7. InputFields(cli') = InputFields(d) BY <2>4, <2>6
  <2>. QED BY <2>3, <2>7 DEF FinInv, EndOfInput, InputFields
<1>3. ASSUME ServerTurn PROVE FinInv' BY <1>3 DEF ServerTurn, FinInv, EndOfInput
<1>4. ASSUME NEW ready \in SUBSET {"stdout", "out", "in"}, ServerSelect(ready)
      PROVE  FinInv'
  BY <1>4 DEF ServerSelect, FinInv, EndOfInput
<1>5. ASSUME Lose PROVE FinInv' BY <1>5 DEF Lose, FinInv, EndOfInput
<1>6. CASE UNCHANGED vars BY <1>6 DEF vars, FinInv, EndOfInput
<1>. QED BY <1>1, <1>2, <1>3, <1>4, <1>5, <1>6 DEF Next

\* The FIN takes the last sequence number of the connection, for every input
\* length and all buffer sizes for which the loop's buffer fits in rdt->data:
\* rdt_client_step never makes it while part of the input is unpacked.
THEOREM FinAfterInput == Spec => []FinIsLast
<1>1. Spec => []TypeInv BY TypeInvInit, TypeInvNext, PTL DEF Spec
<1>2. Spec => [](TypeInv /\ FinInv)
  BY <1>1, FinInvInit, FinInvNext, PTL DEF Spec
<1>3. FinInv => FinIsLast BY DEF FinInv, EndOfInput, FinIsLast
<1>. QED BY <1>2, <1>3, PTL

-----------------------------------------------------------------------------
(***************************************************************************)
(* The safety of the transfer.  First the two windows, each by itself:     *)
(* what a step of the client and a step of the server do to them, for every*)
(* value of the constants for which the numbers suffice.  Sequence numbers *)
(* are taken modulo SeqSpace in the code; within one transfer for which    *)
(* they suffice they never come round, and the lemmas speak of them as of  *)
(* numbers.                                                                *)
(*                                                                         *)
(* Then the two together: DeliveryInv relates the client's window, the     *)
(* datagrams under way and the server's window; it is inductive together   *)
(* with TypeInv and FinInv of the first part.  From it follow those of     *)
(* Rdt, and that Rdt implements ReliableTransfer.                          *)
(***************************************************************************)

(***************************************************************************)
(* When the protocol keeps its promises.  Copies of the SYN do not outlive *)
(* its timer (a late copy sets the server back, run rdt_stale_syn); the    *)
(* input is short enough for its packets' numbers not to come round to 0   *)
(* ("seqnum + 1 == ack" does not hold then); and there are more than three *)
(* windows of numbers, as 2^16 and a window of 5 are, so that the server's *)
(* window test cannot take a packet from ahead for one from behind.        *)
(***************************************************************************)
NumbersSuffice ==
  /\ "SYN" \notin Late
  /\ InitSeq + Chunks + 2 < SeqSpace
  /\ SeqSpace > 3 * WindowSize

\* A packet is numbered after its place in the input.
Shaped(p) ==
  /\ p.kind = "SYN" => p.seq = InitSeq /\ p.idx = 0
  /\ p.kind = "DATA" => p.idx \in 1 .. Chunks /\ p.seq = InitSeq + p.idx
  /\ p.kind = "FIN" => p.idx = 0 /\ p.seq = InitSeq + Chunks + 1

\* The number of the oldest packet in the client's window, and whether it is the
\* SYN's, that is whether the SYN has not been acknowledged yet.
Base(c) == c.nextseqnum - Len(c.window)
Opening(c) == Base(c) = InitSeq

\* The window is a run of packets numbered from base on.
WindowShape(w, base) ==
  \A i \in 1 .. Len(w) : w[i].pkt.seq = base + i - 1 /\ Shaped(w[i].pkt)

\* What stays true of the client by itself.  window_free never lets more than
\* the advertised WindowSize + 1 packets be under way.
ClientShape(c) ==
  /\ c.nextseqnum = InitSeq + 1 + c.packed + (IF c.eof_sent THEN 1 ELSE 0)
  /\ Base(c) >= InitSeq
  /\ WindowShape(c.window, Base(c))
  /\ c.eof_sent => c.packed = Chunks
  /\ c.eof_rcvd => c.eof_sent /\ Len(c.window) = 0
  /\ IF Opening(c)
     THEN c.window_free = 0 /\ Len(c.window) = 1 /\ c.window[1].flag # "acked"
     ELSE Len(c.window) + c.window_free <= WindowSize + 1

\* The numbers the client counts as delivered: those of the packets it has made
\* that are not waiting for their acknowledgement.
Delivered(c) ==
  {x \in InitSeq .. c.nextseqnum - 1 :
     \A i \in 1 .. Len(c.window) : c.window[i].pkt.seq = x => c.window[i].flag = "acked"}

\* One of the acknowledgements in A is for the packet of the entry e.
Answers(A, e) == \E a \in A : Acknowledges(a, e)

-----------------------------------------------------------------------------
\* The types of a client's fields, in the form the arithmetic below needs.
LEMMA ClientNumbers ==
  ASSUME NEW c, ClientOK(c)
  PROVE  /\ c.nextseqnum \in Nat /\ c.nextseqnum < SeqSpace /\ SeqSpace \in Nat
         /\ c.packed \in Nat /\ c.packed <= Chunks /\ Chunks \in Nat
         /\ c.datalen \in Nat /\ c.packed + c.datalen <= Chunks
         /\ c.window_free \in Nat /\ c.window \in WindowList
         /\ Len(c.window) \in Nat /\ DOMAIN c.window = 1 .. Len(c.window)
         /\ InitSeq \in Nat /\ WindowSize \in Nat /\ WindowSize >= 1
         /\ \A i \in 1 .. Len(c.window) :
              /\ c.window[i] \in Entry
              /\ c.window[i].pkt.seq \in Nat /\ c.window[i].pkt.kind \in Kinds
<1>1. c.window \in WindowList BY DEF ClientOK, ClientTyped
<1>2. Len(c.window) \in Nat /\ DOMAIN c.window = 1 .. Len(c.window)
      /\ \A i \in 1 .. Len(c.window) : c.window[i] \in Entry
  BY <1>1, EntryOfWindow
<1>3. \A e \in Entry : e.pkt.seq \in Nat /\ e.pkt.kind \in Kinds
  BY SeqAssumption DEF Entry, Packet, SeqNums
<1>4. /\ c.nextseqnum \in Nat /\ c.nextseqnum < SeqSpace /\ SeqSpace \in Nat
      /\ c.packed \in Nat /\ c.packed <= Chunks /\ Chunks \in Nat
      /\ c.datalen \in Nat /\ c.packed + c.datalen <= Chunks
      /\ c.window_free \in Nat
      /\ InitSeq \in Nat /\ WindowSize \in Nat /\ WindowSize >= 1
  BY SeqAssumption, TransferAssumption, ClientAssumption
  DEF ClientOK, ClientTyped, Conserves, SeqNums
<1>. QED BY <1>1, <1>2, <1>3, <1>4

\* What rdt_client_step's input half does to the window: at most the packet the
\* acknowledgement at hand is for is marked, and the acknowledged packets at the
\* head are released.
Frame(c) == <<c.nextseqnum, c.packed, c.eof_sent, c.sndbuf, c.state, c.eof_send, c.datalen>>

\* Marking changes the flag of at most one packet, one the acknowledgement is for.
LEMMA MarkAckedView ==
  ASSUME NEW c, ClientOK(c), NEW a \in Ack
  PROVE  LET m == MarkAcked(c, a) IN
         /\ ClientOK(m) /\ Frame(m) = Frame(c) /\ m.window_free = c.window_free
         /\ m.eof_rcvd = c.eof_rcvd
         /\ Len(m.window) = Len(c.window)
         /\ \A i \in 1 .. Len(c.window) :
              /\ m.window[i].pkt = c.window[i].pkt
              /\ \/ m.window[i].flag = c.window[i].flag
                 \/ m.window[i].flag = "acked" /\ Acknowledges(a, c.window[i])
         /\ (\E i \in 1 .. Len(c.window) : Acknowledges(a, c.window[i])) =>
            \E i \in 1 .. Len(c.window) : Acknowledges(a, c.window[i]) /\ m.window[i].flag = "acked"
<1> DEFINE hits == {i \in DOMAIN c.window : Acknowledges(a, c.window[i])}
           k    == Min(hits)
           m    == MarkAcked(c, a)
           g    == Grow(c.cwnd)
           o    == Without(c.older, {c.window[k].pkt.seq})
           w    == [c.window EXCEPT ![k].flag = "acked"]
<1>0. /\ c.window \in WindowList /\ Len(c.window) \in Nat /\ DOMAIN c.window = 1 .. Len(c.window)
      /\ \A i \in 1 .. Len(c.window) : c.window[i] \in Entry
  BY ClientNumbers
<1>1. ClientOK(m) BY MarkAckedOK
<1>2. CASE hits = {}
  <2>1. m = c BY <1>2 DEF MarkAcked
  <2>2. \A i \in 1 .. Len(c.window) : ~Acknowledges(a, c.window[i]) BY <1>0, <1>2
  <2>. QED BY <1>0, <1>1, <2>1, <2>2
<1>3. CASE hits # {}
  <2>1. hits \in SUBSET Nat BY <1>0
  <2>2. k \in hits BY <1>3, <2>1, MinIsLeast
  <2>3. m = [c EXCEPT !.cwnd = g, !.window = w, !.older = o] BY <1>3 DEF MarkAcked
  <2>4. k \in 1 .. Len(c.window) /\ Acknowledges(a, c.window[k]) BY <1>0, <2>2
  <2>. HIDE DEF k, g, o, m, hits
  <2>5. /\ Len(w) = Len(c.window)
        /\ \A i \in 1 .. Len(c.window) :
             w[i] = IF i = k THEN [c.window[k] EXCEPT !.flag = "acked"] ELSE c.window[i]
    <3>1. [c.window[k] EXCEPT !.flag = "acked"] \in Entry BY <1>0, <2>4 DEF Entry, Flags
    <3>. QED BY <1>0, <2>4, <3>1, ExceptSeq DEF WindowList
  <2>. HIDE DEF w
  <2>6. /\ m.window = w /\ Frame(m) = Frame(c) /\ m.window_free = c.window_free
        /\ m.eof_rcvd = c.eof_rcvd
    BY <2>3 DEF ClientOK, ClientTyped, ClientFields, Frame
  <2>7. \A i \in 1 .. Len(c.window) :
             w[i].pkt = c.window[i].pkt /\ (w[i].flag = IF i = k THEN "acked" ELSE c.window[i].flag)
    BY <1>0, <2>5 DEF Entry
  <2>. QED BY <1>1, <2>4, <2>5, <2>6, <2>7 DEF m
<1>. QED BY <1>2, <1>3

\* The packet after the leading acknowledged ones is not acknowledged.
LEMMA LeadingStops ==
  ASSUME NEW w \in WindowList, Leading(w) < Len(w)
  PROVE  w[Leading(w) + 1].flag # "acked"
<1> DEFINE open == {i \in DOMAIN w : w[i].flag # "acked"}
<1>1. DOMAIN w = 1 .. Len(w) /\ Len(w) \in Nat BY EntryOfWindow
<1>2. open # {} /\ open \in SUBSET Nat BY <1>1 DEF Leading
<1>3. Min(open) \in open /\ Leading(w) = Min(open) - 1 BY <1>2, MinIsLeast DEF Leading
<1> DEFINE m == Min(open)
<1>4. m \in Nat /\ w[m].flag # "acked" /\ Leading(w) = m - 1 BY <1>2, <1>3
<1>. HIDE DEF m
<1>5. Leading(w) + 1 = m BY <1>4
<1>. QED BY <1>4, <1>5

\* What is left of the window after n packets are released, and the free nodes.
LEMMA ReleaseView ==
  ASSUME NEW c, ClientOK(c), NEW a \in Ack, NEW n \in 0 .. Len(c.window)
  PROVE  LET d == Release(c, a, n) IN
         /\ Frame(d) = Frame(c)
         /\ Len(d.window) = Len(c.window) - n
         /\ \A i \in 1 .. Len(c.window) - n : d.window[i] = c.window[n + i]
         /\ d.eof_rcvd <=> c.eof_rcvd \/ \E i \in 1 .. n : c.window[i].pkt.kind = "FIN"
         /\ \/ d.window_free = c.window_free + n
            \/ /\ \E i \in 1 .. n : c.window[i].pkt.kind = "SYN"
               /\ a.wnd > 0 /\ d.window_free = c.window_free + n + (a.wnd - 1)
<1> DEFINE d == Release(c, a, n)
           kinds == {c.window[i].pkt.kind : i \in 1 .. n}
           more == IF "SYN" \in kinds /\ a.wnd > 0 THEN a.wnd - 1 ELSE 0
           w == SubSeq(c.window, n + 1, Len(c.window))
           z == IF "SYN" \in kinds THEN a.wnd ELSE c.window_size
           e == c.eof_rcvd \/ "FIN" \in kinds
           f == c.window_free + n + more
<1>1. /\ c.window \in WindowList /\ Len(c.window) \in Nat /\ DOMAIN c.window = 1 .. Len(c.window)
      /\ \A i \in 1 .. Len(c.window) : c.window[i] \in Entry
  BY ClientNumbers
<1>2. d = [c EXCEPT !.window = w, !.window_free = f, !.window_size = z, !.eof_rcvd = e]
  BY DEF Release
<1>3. /\ Len(w) = Len(c.window) - n
      /\ \A i \in 1 .. Len(c.window) - n : w[i] = c.window[n + i]
  BY <1>1, SubSeqProperties, n + 1 \in Int
<1>4. e <=> c.eof_rcvd \/ \E i \in 1 .. n : c.window[i].pkt.kind = "FIN" OBVIOUS
<1>5. \/ more = 0
      \/ (\E i \in 1 .. n : c.window[i].pkt.kind = "SYN") /\ a.wnd > 0 /\ more = a.wnd - 1
  OBVIOUS
<1>6. c.window_free \in Nat /\ n \in Nat BY <1>1, ClientNumbers
<1>7. e \in BOOLEAN OBVIOUS
<1>. HIDE DEF w, z, e, more, d, kinds
<1>8. /\ d.window = w /\ d.window_free = f /\ d.eof_rcvd = e /\ Frame(d) = Frame(c)
  BY <1>2, <1>7 DEF ClientOK, ClientTyped, ClientFields, Frame
<1>9. f = c.window_free + n \/
      ((\E i \in 1 .. n : c.window[i].pkt.kind = "SYN") /\ a.wnd > 0 /\ f = c.window_free + n + (a.wnd - 1))
  BY <1>5, <1>6
<1>. HIDE DEF f
<1>. QED BY <1>3, <1>4, <1>8, <1>9 DEF d

\* The whole input half: some n packets leave the window, each of them marked or
\* answered by the acknowledgement just received; the rest stay in place.
LEMMA ReceiveView ==
  ASSUME NEW c, ClientOK(c)
  PROVE  LET d == Receive(c) IN
         /\ ClientOK(d) /\ Frame(d) = Frame(c) /\ d.rcvbuf = {}
         /\ \E n \in 0 .. Len(c.window) :
              /\ Len(d.window) = Len(c.window) - n
              /\ \A i \in 1 .. n :
                   c.window[i].flag = "acked" \/ Answers(c.rcvbuf, c.window[i])
              /\ \A i \in 1 .. Len(d.window) :
                   /\ d.window[i].pkt = c.window[n + i].pkt
                   /\ \/ d.window[i].flag = c.window[n + i].flag
                      \/ d.window[i].flag = "acked" /\ Answers(c.rcvbuf, c.window[n + i])
              /\ Len(d.window) > 0 /\ c.rcvbuf # {} => d.window[1].flag # "acked"
              /\ /\ Len(c.window) = 1 /\ c.rcvbuf # {}
                 /\ \A a \in c.rcvbuf : Acknowledges(a, c.window[1])
                 => n = 1
              /\ d.eof_rcvd <=> c.eof_rcvd \/ \E i \in 1 .. n : c.window[i].pkt.kind = "FIN"
              /\ \/ d.window_free = c.window_free + n
                 \/ \E a \in c.rcvbuf :
                      /\ \E i \in 1 .. n : c.window[i].pkt.kind = "SYN"
                      /\ a.wnd > 0 /\ d.window_free = c.window_free + n + (a.wnd - 1)
<1>0. /\ Len(c.window) \in Nat /\ c.window_free \in Nat /\ c.rcvbuf \in SUBSET Ack
      /\ c.eof_rcvd \in BOOLEAN
  BY ClientNumbers DEF ClientOK, ClientTyped
<1>1. CASE c.rcvbuf = {}
  <2>1. Receive(c) = c BY <1>1 DEF Receive
  <2>2. 0 \in 0 .. Len(c.window) /\ Len(c.window) - 0 = Len(c.window)
        /\ c.window_free = c.window_free + 0
        /\ \A i \in 1 .. Len(c.window) : c.window[i] = c.window[0 + i]
    BY <1>0
  <2>. QED BY <1>1, <2>1, <2>2
<1>2. CASE c.rcvbuf # {}
  <2> DEFINE a == CHOOSE x \in c.rcvbuf : TRUE
             m == MarkAcked(c, a)
             n == Leading(m.window)
             r == Release(m, a, n)
             d == Receive(c)
  <2>1. a \in c.rcvbuf /\ a \in Ack BY <1>0, <1>2
  <2>. HIDE DEF a
  <2>2. /\ ClientOK(m) /\ Frame(m) = Frame(c) /\ m.window_free = c.window_free
        /\ m.eof_rcvd = c.eof_rcvd
        /\ Len(m.window) = Len(c.window)
        /\ \A i \in 1 .. Len(c.window) :
             /\ m.window[i].pkt = c.window[i].pkt
             /\ \/ m.window[i].flag = c.window[i].flag
                \/ m.window[i].flag = "acked" /\ Acknowledges(a, c.window[i])
        /\ (\E i \in 1 .. Len(c.window) : Acknowledges(a, c.window[i])) =>
           \E i \in 1 .. Len(c.window) : Acknowledges(a, c.window[i]) /\ m.window[i].flag = "acked"
    BY <2>1, MarkAckedView
  <2>. HIDE DEF m
  <2>3. m.window \in WindowList BY <2>2 DEF ClientOK, ClientTyped
  <2>4. n \in 0 .. Len(c.window) /\ \A i \in 1 .. n : m.window[i].flag = "acked"
    BY <2>2, <2>3, LeadingInWindow
  <2>5. n < Len(c.window) => m.window[n + 1].flag # "acked" BY <2>2, <2>3, LeadingStops
  <2>. HIDE DEF n
  <2>6. /\ Frame(r) = Frame(m)
        /\ Len(r.window) = Len(m.window) - n
        /\ \A i \in 1 .. Len(m.window) - n : r.window[i] = m.window[n + i]
        /\ r.eof_rcvd <=> m.eof_rcvd \/ \E i \in 1 .. n : m.window[i].pkt.kind = "FIN"
        /\ \/ r.window_free = m.window_free + n
           \/ /\ \E i \in 1 .. n : m.window[i].pkt.kind = "SYN"
              /\ a.wnd > 0 /\ r.window_free = m.window_free + n + (a.wnd - 1)
    BY <2>1, <2>2, <2>4, ReleaseView
  <2>7. ClientOK(r) BY <2>1, <2>2, <2>4, ReleaseOK
  <2>8. d = [r EXCEPT !.rcvbuf = {}] BY <1>2 DEF Receive, a, m, n
  <2>. HIDE DEF r, d
  <2>9. /\ d.window = r.window /\ d.window_free = r.window_free /\ d.eof_rcvd = r.eof_rcvd
        /\ Frame(d) = Frame(r) /\ d.rcvbuf = {}
    BY <2>7, <2>8 DEF ClientOK, ClientTyped, ClientFields, Frame
  <2>10. ClientOK(d) BY ReceiveOK DEF d
  <2>11. \A i \in 1 .. n : i \in 1 .. Len(c.window) BY <1>0, <2>4
  <2>12. \A i \in 1 .. Len(d.window) : n + i \in 1 .. Len(c.window) BY <1>0, <2>2, <2>4, <2>6, <2>9
  <2>13. \A i \in 1 .. n : c.window[i].flag = "acked" \/ Answers(c.rcvbuf, c.window[i])
    BY <2>1, <2>2, <2>4, <2>11 DEF Answers
  <2>14. \A i \in 1 .. Len(d.window) :
           /\ d.window[i].pkt = c.window[n + i].pkt
           /\ \/ d.window[i].flag = c.window[n + i].flag
              \/ d.window[i].flag = "acked" /\ Answers(c.rcvbuf, c.window[n + i])
    BY <2>1, <2>2, <2>6, <2>9, <2>12 DEF Answers
  <2>15. Len(d.window) > 0 => d.window[1].flag # "acked"
    <3>1. CASE n < Len(c.window)
      <4>1. r.window[1] = m.window[n + 1] BY <1>0, <2>2, <2>4, <2>6, <3>1
      <4>. QED BY <2>5, <2>9, <3>1, <4>1
    <3>2. CASE n = Len(c.window)
      <4>1. Len(d.window) = 0 BY <1>0, <2>2, <2>6, <2>9, <3>2
      <4>. QED BY <4>1
    <3>. QED BY <1>0, <2>4, <3>1, <3>2
  <2>16. d.eof_rcvd <=> c.eof_rcvd \/ \E i \in 1 .. n : c.window[i].pkt.kind = "FIN"
    BY <2>2, <2>6, <2>9, <2>11
  <2>17. \/ d.window_free = c.window_free + n
         \/ /\ \E i \in 1 .. n : c.window[i].pkt.kind = "SYN"
            /\ a.wnd > 0 /\ d.window_free = c.window_free + n + (a.wnd - 1)
    BY <2>2, <2>6, <2>9, <2>11
  <2>18. Frame(d) = Frame(c) /\ d.rcvbuf = {} /\ Len(d.window) = Len(c.window) - n
    BY <2>2, <2>6, <2>9
  <2>19. /\ Len(c.window) = 1
         /\ \A b \in c.rcvbuf : Acknowledges(b, c.window[1])
         => n = 1
    BY <1>0, <2>1, <2>2, <2>4, <2>5
  <2>. QED BY <2>1, <2>4, <2>10, <2>13, <2>14, <2>15, <2>16, <2>17, <2>18, <2>19 DEF d
<1>. QED BY <1>1, <1>2

\* The fields of an acknowledgement are numbers.
LEMMA AckNumbers ==
  ASSUME NEW a \in Ack
  PROVE  a.ack \in Nat /\ a.wnd \in Nat
<1>1. a.ack \in SeqNums /\ a.wnd \in 0 .. 255 BY DEF Ack, Byte
<1>. QED BY <1>1, SeqAssumption DEF SeqNums

\* The number after the last one made.
LEMMA NextNumber ==
  ASSUME NEW c, ClientOK(c), ClientShape(c)
  PROVE  /\ Base(c) \in Nat /\ Base(c) >= InitSeq /\ Base(c) + Len(c.window) = c.nextseqnum
         /\ \/ c.eof_sent /\ c.packed = Chunks /\ c.nextseqnum = InitSeq + Chunks + 2
            \/ ~c.eof_sent /\ c.nextseqnum = InitSeq + 1 + c.packed
<1>1. c.nextseqnum \in Nat /\ Len(c.window) \in Nat /\ InitSeq \in Nat /\ Chunks \in Nat
      /\ c.packed \in Nat
  BY ClientNumbers
<1>2. Base(c) = c.nextseqnum - Len(c.window) /\ Base(c) >= InitSeq BY DEF Base, ClientShape
<1>3. CASE c.eof_sent
  <2>1. c.nextseqnum = InitSeq + 1 + c.packed + 1 /\ c.packed = Chunks
    BY <1>3 DEF ClientShape
  <2>. QED BY <1>1, <1>2, <1>3, <2>1
<1>4. CASE ~c.eof_sent
  <2>1. c.nextseqnum = InitSeq + 1 + c.packed + 0
    BY <1>4 DEF ClientShape
  <2>. QED BY <1>1, <1>2, <1>4, <2>1
<1>. QED BY <1>3, <1>4

\* In a window numbered on from the base, which kinds can be where.
LEMMA WindowKinds ==
  ASSUME NEW c, ClientOK(c), ClientShape(c), NEW i \in 1 .. Len(c.window)
  PROVE  /\ c.window[i].pkt.seq = Base(c) + i - 1
         /\ c.window[i].pkt.kind = "SYN" <=> Opening(c) /\ i = 1
         /\ c.window[i].pkt.kind = "FIN" => c.eof_sent /\ c.packed = Chunks /\ i = Len(c.window)
<1> DEFINE p == c.window[i].pkt
           b == Base(c)
<1>1. /\ p.seq = b + i - 1 /\ Shaped(p)
      /\ p.kind \in {"SYN", "DATA", "FIN"}
      /\ Opening(c) <=> b = InitSeq
  BY ClientNumbers DEF ClientShape, WindowShape, Kinds, Opening
<1>2. /\ c.packed \in Nat /\ Chunks \in Nat /\ c.packed <= Chunks
      /\ Len(c.window) \in Nat /\ InitSeq \in Nat
      /\ b \in Nat /\ b >= InitSeq /\ b + Len(c.window) = c.nextseqnum
      /\ \/ c.eof_sent /\ c.packed = Chunks /\ c.nextseqnum = InitSeq + Chunks + 2
         \/ ~c.eof_sent /\ c.nextseqnum = InitSeq + 1 + c.packed
  BY ClientNumbers, NextNumber
<1>. HIDE DEF p, b
<1>3. c.window[i].pkt.kind = "FIN" => c.eof_sent /\ c.packed = Chunks /\ i = Len(c.window)
  <2>1. SUFFICES ASSUME p.kind = "FIN"
                 PROVE  c.eof_sent /\ c.packed = Chunks /\ i = Len(c.window)
    BY DEF p
  <2>2. p.seq = InitSeq + Chunks + 1 BY <1>1, <2>1 DEF Shaped
  <2>. QED BY <1>1, <1>2, <2>2
<1>4. p.kind = "SYN" => Opening(c) /\ i = 1
  BY <1>1, <1>2 DEF Shaped
<1>5. Opening(c) /\ i = 1 => p.kind = "SYN"
  BY <1>1, <1>2 DEF Shaped
<1>. QED BY <1>1, <1>3, <1>4, <1>5 DEF p, b

\* The input half keeps the client's shape, forgets nothing that was delivered and
\* counts as delivered only what the acknowledgement at hand is for.
LEMMA ReceiveShape ==
  ASSUME NEW c, ClientOK(c), ClientShape(c),
         Opening(c) => \A a \in c.rcvbuf : a.ack = InitSeq + 1 /\ a.wnd <= WindowSize + 1
  PROVE  LET d == Receive(c) IN
         /\ ClientOK(d) /\ ClientShape(d) /\ Frame(d) = Frame(c) /\ d.rcvbuf = {}
         /\ Delivered(c) \subseteq Delivered(d)
         /\ \A x \in Delivered(d) : x \in Delivered(c) \/ \E a \in c.rcvbuf : a.ack = x + 1
         /\ Opening(d) => Opening(c) /\ c.rcvbuf = {}
<1> DEFINE d == Receive(c)
<1>1. PICK n \in 0 .. Len(c.window) :
              /\ Len(d.window) = Len(c.window) - n
              /\ \A i \in 1 .. n :
                   c.window[i].flag = "acked" \/ Answers(c.rcvbuf, c.window[i])
              /\ \A i \in 1 .. Len(d.window) :
                   /\ d.window[i].pkt = c.window[n + i].pkt
                   /\ \/ d.window[i].flag = c.window[n + i].flag
                      \/ d.window[i].flag = "acked" /\ Answers(c.rcvbuf, c.window[n + i])
              /\ Len(d.window) > 0 /\ c.rcvbuf # {} => d.window[1].flag # "acked"
              /\ /\ Len(c.window) = 1 /\ c.rcvbuf # {}
                 /\ \A a \in c.rcvbuf : Acknowledges(a, c.window[1])
                 => n = 1
              /\ d.eof_rcvd <=> c.eof_rcvd \/ \E i \in 1 .. n : c.window[i].pkt.kind = "FIN"
              /\ \/ d.window_free = c.window_free + n
                 \/ \E a \in c.rcvbuf :
                      /\ \E i \in 1 .. n : c.window[i].pkt.kind = "SYN"
                      /\ a.wnd > 0 /\ d.window_free = c.window_free + n + (a.wnd - 1)
  BY ReceiveView
<1>2. ClientOK(d) /\ Frame(d) = Frame(c) /\ d.rcvbuf = {} BY ReceiveView
<1>3. /\ d.nextseqnum = c.nextseqnum /\ d.packed = c.packed /\ d.eof_sent = c.eof_sent
  BY <1>2 DEF Frame
<1>. HIDE DEF d
<1>4. /\ c.nextseqnum \in Nat /\ c.packed \in Nat /\ Chunks \in Nat /\ c.packed <= Chunks
      /\ Len(c.window) \in Nat /\ InitSeq \in Nat /\ c.window_free \in Nat /\ WindowSize \in Nat
      /\ c.eof_rcvd \in BOOLEAN /\ d.eof_rcvd \in BOOLEAN /\ c.rcvbuf \in SUBSET Ack
  BY <1>2, ClientNumbers DEF ClientOK, ClientTyped
<1>4a. n \in Nat /\ Len(d.window) \in Nat /\ n + Len(d.window) = Len(c.window)
  BY <1>1, <1>4
<1>5. /\ Base(c) = c.nextseqnum - Len(c.window) /\ Base(c) >= InitSeq
      /\ Base(d) = Base(c) + n
  BY <1>3, <1>4, <1>4a DEF Base, ClientShape
<1>6. \A i \in 1 .. Len(c.window) :
         /\ c.window[i].pkt.seq = Base(c) + i - 1 /\ Shaped(c.window[i].pkt)
         /\ c.window[i].pkt.kind = "SYN" => Opening(c)
         /\ c.window[i].pkt.kind = "FIN" => c.eof_sent /\ i = Len(c.window)
  BY WindowKinds DEF ClientShape, WindowShape
<1>7. \A i \in 1 .. Len(d.window) : n + i \in 1 .. Len(c.window) BY <1>4, <1>4a
<1>8. WindowShape(d.window, Base(d))
  <2>1. SUFFICES ASSUME NEW i \in 1 .. Len(d.window)
                 PROVE  d.window[i].pkt.seq = Base(d) + i - 1 /\ Shaped(d.window[i].pkt)
    BY DEF WindowShape
  <2>2. d.window[i].pkt = c.window[n + i].pkt /\ n + i \in 1 .. Len(c.window) BY <1>1, <1>7
  <2>3. c.window[n + i].pkt.seq = Base(c) + (n + i) - 1 /\ Shaped(c.window[n + i].pkt)
    BY <1>6, <2>2
  <2>. QED BY <1>4, <1>4a, <1>5, <2>2, <2>3
<1>9. Opening(d) => Opening(c) /\ n = 0 BY <1>4, <1>5 DEF Opening
<1>10. ASSUME Opening(c), c.rcvbuf # {} PROVE n = 1
  <2>1. Len(c.window) = 1 /\ Base(c) = InitSeq BY <1>10 DEF ClientShape, Opening
  <2>2. c.window[1].pkt.seq = InitSeq BY <1>4, <1>6, <2>1
  <2>3. \A a \in c.rcvbuf : Acknowledges(a, c.window[1]) BY <1>10, <2>2 DEF Acknowledges
  <2>. QED BY <1>1, <1>10, <2>1, <2>3
<1>11. Opening(d) => Opening(c) /\ c.rcvbuf = {} BY <1>9, <1>10
<1>12. d.eof_rcvd => d.eof_sent /\ Len(d.window) = 0
  <2>1. CASE c.eof_rcvd BY <1>1, <1>3, <1>4, <2>1 DEF ClientShape
  <2>2. ASSUME NEW i \in 1 .. n, c.window[i].pkt.kind = "FIN"
        PROVE  d.eof_sent /\ Len(d.window) = 0
    <3>1. i \in 1 .. Len(c.window) BY <1>1, <1>4
    <3>2. c.eof_sent /\ i = Len(c.window) BY <1>6, <2>2, <3>1
    <3>. QED BY <1>1, <1>3, <1>4, <3>2
  <2>. QED BY <1>1, <2>1, <2>2
<1>13. ASSUME Opening(d) PROVE ClientShape(d)
  <2>1. Opening(c) /\ c.rcvbuf = {} /\ d = c BY <1>11, <1>13 DEF Receive, d
  <2>2. d = c BY <2>1
  <2>. QED BY <2>2, Zenon
<1>14. ASSUME ~Opening(d) PROVE ClientShape(d)
  <2>1. Len(d.window) + d.window_free <= WindowSize + 1
    <3>1. CASE Opening(c)
      <4>1. c.window_free = 0 /\ Len(c.window) = 1 BY <3>1 DEF ClientShape
      <4>2. n # 0 BY <1>4, <1>5, <1>14, <3>1 DEF Opening
      <4>3. n = 1 BY <1>1, <4>1, <4>2
      <4>4. Len(d.window) = 0 BY <1>1, <4>1, <4>3
      <4>5. \A a \in c.rcvbuf : a.wnd <= WindowSize + 1 /\ a.wnd \in Nat
        BY <1>4, <3>1, AckNumbers
      <4>6. d.window_free <= WindowSize + 1
        <5>1. CASE d.window_free = c.window_free + n BY <1>4, <4>1, <4>3, <5>1
        <5>2. CASE \E a \in c.rcvbuf : d.window_free = c.window_free + n + (a.wnd - 1)
          BY <1>4, <4>1, <4>3, <4>5, <5>2
        <5>. QED BY <1>1, <5>1, <5>2
      <4>7. d.window_free \in Nat BY <1>2, ClientNumbers
      <4>. QED BY <1>4, <4>4, <4>6, <4>7
    <3>2. CASE ~Opening(c)
      <4>1. Len(c.window) + c.window_free <= WindowSize + 1 BY <3>2 DEF ClientShape
      <4>2. ~\E i \in 1 .. n : c.window[i].pkt.kind = "SYN"
        <5>1. \A i \in 1 .. n : i \in 1 .. Len(c.window) BY <1>4
        <5>. QED BY <1>6, <3>2, <5>1
      <4>3. d.window_free = c.window_free + n BY <1>1, <4>2
      <4>. QED BY <1>1, <1>4, <4>1, <4>3
    <3>. QED BY <3>1, <3>2
  <2>2. Base(d) >= InitSeq BY <1>4, <1>5
  <2>3. /\ d.nextseqnum = InitSeq + 1 + d.packed + (IF d.eof_sent THEN 1 ELSE 0)
        /\ d.eof_sent => d.packed = Chunks
    BY <1>3 DEF ClientShape
  <2>. QED BY <1>8, <1>12, <1>14, <2>1, <2>2, <2>3, Zenon DEF ClientShape
<1>15. ClientShape(d) BY <1>13, <1>14
<1>16. Delivered(c) \subseteq Delivered(d)
  <2>1. ASSUME NEW x \in Delivered(c), NEW i \in 1 .. Len(d.window), d.window[i].pkt.seq = x
        PROVE  d.window[i].flag = "acked"
    <3>1. n + i \in 1 .. Len(c.window) /\ c.window[n + i].pkt.seq = x BY <1>1, <1>7, <2>1
    <3>2. c.window[n + i].flag = "acked" BY <3>1 DEF Delivered
    <3>. QED BY <1>1, <3>2
  <2>. QED BY <1>3, <2>1 DEF Delivered
<1>17. ASSUME NEW x \in Delivered(d), x \notin Delivered(c)
       PROVE  \E a \in c.rcvbuf : a.ack = x + 1
  <2>1. x \in InitSeq .. c.nextseqnum - 1 BY <1>3 DEF Delivered
  <2>2. PICK i \in 1 .. Len(c.window) : c.window[i].pkt.seq = x /\ c.window[i].flag # "acked"
    BY <1>17, <2>1 DEF Delivered
  <2>3. Answers(c.rcvbuf, c.window[i])
    <3>1. CASE i <= n BY <1>1, <1>4, <2>2, <3>1
    <3>2. CASE i > n
      <4>1. i - n \in 1 .. Len(d.window) /\ n + (i - n) = i BY <1>1, <1>4, <3>2
      <4>2. d.window[i - n].pkt.seq = x BY <1>1, <2>2, <4>1
      <4>3. d.window[i - n].flag = "acked" BY <4>1, <4>2 DEF Delivered
      <4>. QED BY <1>1, <2>2, <4>1, <4>3
    <3>. QED BY <1>1, <1>4, <3>1, <3>2
  <2>. QED BY <2>2, <2>3 DEF Answers, Acknowledges
<1>. QED BY <1>2, <1>11, <1>15, <1>16, <1>17 DEF d
-----------------------------------------------------------------------------
\* A number below the modulus is its own remainder.
LEMMA ModSmall ==
  ASSUME NEW a \in Nat, NEW b \in Nat, a < b
  PROVE  a % b = a
OBVIOUS

\* Intervals from 1 with the same elements have the same end.
LEMMA SameInterval ==
  ASSUME NEW a \in Nat, NEW b \in Nat, 1 .. a = 1 .. b
  PROVE  a = b
<1>1. a > 0 => a \in 1 .. a OBVIOUS
<1>2. b > 0 => b \in 1 .. b OBVIOUS
<1>3. a > 0 => a <= b
  <2>1. a > 0 => a \in 1 .. b BY <1>1
  <2>. QED BY <2>1
<1>4. b > 0 => b <= a
  <2>1. b > 0 => b \in 1 .. a BY <1>2
  <2>. QED BY <2>1
<1>. QED BY <1>3, <1>4

\* d is c with n usable entries, numbered on, added at the end of the window.
Extended(d, c, n) ==
  /\ d.nextseqnum = c.nextseqnum + n
  /\ d.window_free = c.window_free - n
  /\ Len(d.window) = Len(c.window) + n
  /\ \A i \in 1 .. Len(c.window) : d.window[i] = c.window[i]
  /\ \A i \in 1 .. n : /\ d.window[Len(c.window) + i].pkt.seq = c.nextseqnum + i - 1
                       /\ Shaped(d.window[Len(c.window) + i].pkt)
                       /\ d.window[Len(c.window) + i].flag = "usable"

\* An entry of the longer window is one of the old ones or one of the new.
LEMMA ExtendedEntry ==
  ASSUME NEW c, ClientOK(c), NEW n \in Nat, NEW d, Extended(d, c, n), NEW i \in 1 .. Len(d.window)
  PROVE  \/ i \in 1 .. Len(c.window) /\ d.window[i] = c.window[i]
         \/ /\ i > Len(c.window) /\ d.window[i].pkt.seq = c.nextseqnum + (i - Len(c.window)) - 1
            /\ d.window[i].flag = "usable" /\ Shaped(d.window[i].pkt)
<1> DEFINE L == Len(c.window)
           N == c.nextseqnum
<1>1. L \in Nat /\ N \in Nat BY ClientNumbers
<1>2. /\ Len(d.window) = L + n
      /\ \A j \in 1 .. L : d.window[j] = c.window[j]
      /\ \A j \in 1 .. n : /\ d.window[L + j].pkt.seq = N + j - 1
                           /\ Shaped(d.window[L + j].pkt)
                           /\ d.window[L + j].flag = "usable"
  BY DEF Extended
<1>. HIDE DEF L, N
<1>3. CASE i <= L
  <2>1. i \in 1 .. L BY <1>1, <1>2, <1>3
  <2>. QED BY <1>2, <2>1 DEF L
<1>4. CASE i > L
  <2>1. i - L \in 1 .. n /\ L + (i - L) = i BY <1>1, <1>2, <1>4
  <2>2. d.window[i].pkt.seq = N + (i - L) - 1 /\ Shaped(d.window[i].pkt)
        /\ d.window[i].flag = "usable"
    BY <1>2, <2>1
  <2>. QED BY <1>4, <2>2 DEF L, N
<1>. QED BY <1>1, <1>2, <1>3, <1>4

\* Adding packets numbered on keeps the client's shape and delivers nothing.
LEMMA ExtendShape ==
  ASSUME NEW c, ClientOK(c), ClientShape(c), NEW d, ClientOK(d), NEW n \in Nat,
         ~Opening(c), Extended(d, c, n),
         d.nextseqnum = InitSeq + 1 + d.packed + (IF d.eof_sent THEN 1 ELSE 0),
         d.eof_sent => d.packed = Chunks, ~d.eof_rcvd
  PROVE  ClientShape(d) /\ Delivered(d) = Delivered(c) /\ Base(d) = Base(c)
<1> DEFINE L == Len(c.window)
           N == c.nextseqnum
           B == Base(c)
<1>1. /\ N \in Nat /\ L \in Nat /\ c.window_free \in Nat
      /\ B \in Nat /\ B >= InitSeq /\ B + L = N
      /\ InitSeq \in Nat /\ WindowSize \in Nat
      /\ d.nextseqnum = N + n /\ Len(d.window) = L + n /\ d.window_free = c.window_free - n
      /\ L + c.window_free <= WindowSize + 1
  BY ClientNumbers, NextNumber DEF Extended, ClientShape
<1>2. Base(d) = B BY <1>1 DEF Base
<1>3. ~Opening(d) BY <1>2 DEF Opening
<1>4. \A i \in 1 .. L : c.window[i].pkt.seq = B + i - 1 /\ Shaped(c.window[i].pkt)
  BY DEF ClientShape, WindowShape
<1>5. \A i \in 1 .. Len(d.window) :
         \/ i \in 1 .. L /\ d.window[i] = c.window[i]
         \/ /\ i > L /\ d.window[i].pkt.seq = N + (i - L) - 1
            /\ d.window[i].flag = "usable" /\ Shaped(d.window[i].pkt)
  BY ExtendedEntry
<1>. HIDE DEF L, N, B
<1>6. \A i \in 1 .. Len(d.window) : d.window[i].pkt.seq = B + i - 1 /\ Shaped(d.window[i].pkt)
  <2>1. SUFFICES ASSUME NEW i \in 1 .. Len(d.window)
                 PROVE  d.window[i].pkt.seq = B + i - 1 /\ Shaped(d.window[i].pkt)
    OBVIOUS
  <2>2. CASE i \in 1 .. L /\ d.window[i] = c.window[i] BY <1>4, <2>2
  <2>3. CASE d.window[i].pkt.seq = N + (i - L) - 1 /\ Shaped(d.window[i].pkt)
    BY <1>1, <2>3
  <2>. QED BY <1>5, <2>2, <2>3
<1>7. WindowShape(d.window, Base(d)) BY <1>2, <1>6 DEF WindowShape
<1>8. Len(d.window) + d.window_free <= WindowSize + 1 /\ Base(d) >= InitSeq BY <1>1, <1>2
<1>9. ClientShape(d) BY <1>3, <1>7, <1>8, Zenon DEF ClientShape
<1>10. ASSUME NEW x \in Delivered(c) PROVE x \in Delivered(d)
  <2>1. x \in InitSeq .. N - 1 BY DEF Delivered, N
  <2>2. x \in InitSeq .. d.nextseqnum - 1 /\ x < N BY <1>1, <2>1
  <2>3. ASSUME NEW i \in 1 .. Len(d.window), d.window[i].pkt.seq = x
        PROVE  d.window[i].flag = "acked"
    <3>1. CASE i \in 1 .. L /\ d.window[i] = c.window[i] BY <2>3, <3>1 DEF Delivered, L
    <3>2. CASE i > L /\ d.window[i].pkt.seq = N + (i - L) - 1
      BY <1>1, <2>2, <2>3, <3>2
    <3>. QED BY <1>5, <3>1, <3>2
  <2>. QED BY <2>2, <2>3 DEF Delivered
<1>11. ASSUME NEW x \in Delivered(d) PROVE x \in Delivered(c)
  <2>1. x \in InitSeq .. N + n - 1 BY <1>1 DEF Delivered
  <2>2. x < N
    <3>1. SUFFICES ASSUME x >= N PROVE FALSE BY <1>1, <2>1
    <3> DEFINE j == x - N + 1 + L
    <3>2. j \in 1 .. Len(d.window) /\ ~(j \in 1 .. L) /\ N + (j - L) - 1 = x BY <1>1, <2>1, <3>1
    <3>. HIDE DEF j
    <3>3. d.window[j].pkt.seq = x /\ d.window[j].flag = "usable" BY <1>5, <3>2
    <3>. QED BY <3>2, <3>3 DEF Delivered
  <2>3. x \in InitSeq .. c.nextseqnum - 1 BY <1>1, <2>1, <2>2 DEF N
  <2>4. ASSUME NEW i \in 1 .. Len(c.window), c.window[i].pkt.seq = x PROVE c.window[i].flag = "acked"
    <3>1. i \in 1 .. L /\ i \in 1 .. Len(d.window) BY <1>1 DEF L
    <3>2. d.window[i] = c.window[i] BY <1>1, <1>5, <3>1
    <3>. QED BY <2>4, <3>1, <3>2 DEF Delivered
  <2>. QED BY <2>3, <2>4 DEF Delivered
<1>. QED BY <1>2, <1>9, <1>10, <1>11 DEF B
\* What making packets leaves alone.
Unsent(c) == <<c.sndbuf, c.state, c.rcvbuf>>

\* So data packets do, as many as the windows and the free nodes allow,
LEMMA AppendDataShape ==
  ASSUME NumbersSuffice, NEW c, ClientOK(c), ClientShape(c),
         c.datalen > 0, c.window_free > 0
  PROVE  LET d == AppendData(c) IN
         /\ ClientShape(d) /\ Delivered(d) = Delivered(c) /\ Base(d) = Base(c)
         /\ d.nextseqnum >= c.nextseqnum /\ Unsent(d) = Unsent(c)
<1> DEFINE n == Min({c.cwnd, c.window_size, c.window_free, c.datalen})
           l == DataEntries(c, n)
           w == c.window \o l
           x == (c.nextseqnum + n) % SeqSpace
           d == AppendData(c)
           L == Len(c.window)
           N == c.nextseqnum
           P == c.packed
<1>1. /\ N \in Nat /\ L \in Nat /\ c.window_free \in Nat
      /\ P \in Nat /\ c.datalen \in Nat /\ Chunks \in Nat
      /\ P + c.datalen <= Chunks /\ InitSeq \in Nat /\ SeqSpace \in Nat
      /\ InitSeq + Chunks + 2 < SeqSpace /\ c.window \in WindowList
  BY ClientNumbers DEF NumbersSuffice
<1>2. n \in Nat /\ n <= c.window_free /\ n <= c.datalen
  <2> DEFINE S == {c.cwnd, c.window_size, c.window_free, c.datalen}
  <2>0. c.cwnd \in Nat /\ c.window_size \in Nat BY DEF ClientOK, ClientTyped, Byte
  <2>1. S \in SUBSET Nat /\ S # {} BY <1>1, <2>0
  <2>. HIDE DEF S
  <2>2. Min(S) \in S /\ \A y \in S : Min(S) <= y BY <2>1, MinIsLeast
  <2>3. c.window_free \in S /\ c.datalen \in S BY DEF S
  <2>. QED BY <2>1, <2>2, <2>3 DEF S
<1>3. d = [c EXCEPT !.window = w, !.window_free = c.window_free - n,
                    !.nextseqnum = x, !.datalen = c.datalen - n, !.packed = P + n]
  BY DEF AppendData
<1>4. ~c.eof_sent /\ N = InitSeq + 1 + P BY <1>1, NextNumber
<1>5. ~Opening(c) BY DEF ClientShape
<1>6. ~c.eof_rcvd BY <1>4 DEF ClientShape
<1>. HIDE DEF n, N, P, L
<1>7. N + n < SeqSpace /\ N + n \in Nat BY <1>1, <1>2, <1>4
<1>8. x = N + n BY <1>1, <1>7, ModSmall DEF N
<1>9. l \in WindowList /\ Len(l) = n
      /\ \A i \in 1 .. n : l[i] = NewEntry("DATA", N + i - 1, P + i)
  <2>1. l \in WindowList BY <1>1, <1>2, DataEntriesOK
  <2>2. l = [i \in 1 .. n |-> NewEntry("DATA", (N + i - 1) % SeqSpace, P + i)]
    BY DEF DataEntries, N, P
  <2>3. \A i \in 1 .. n : N + i - 1 \in Nat /\ N + i - 1 < SeqSpace BY <1>1, <1>2, <1>7
  <2>4. \A i \in 1 .. n : (N + i - 1) % SeqSpace = N + i - 1
    BY <1>1, <2>3, ModSmall
  <2>5. Len(l) \in Nat /\ DOMAIN l = 1 .. Len(l) BY <2>1, EntryOfWindow
  <2>6. DOMAIN l = 1 .. n BY <2>2
  <2>. HIDE DEF l
  <2>7. Len(l) = n BY <1>2, <2>5, <2>6, SameInterval
  <2>. QED BY <2>1, <2>2, <2>4, <2>7
<1>. HIDE DEF l
<1>10. /\ Len(w) = L + n
       /\ \A i \in 1 .. L : w[i] = c.window[i]
       /\ \A i \in 1 .. n : w[L + i] = l[i]
  <2>1. /\ Len(w) = L + n
        /\ \A i \in 1 .. L + n :
             w[i] = IF i <= L THEN c.window[i] ELSE l[i - L]
    BY <1>1, <1>9, ConcatProperties DEF WindowList, L
  <2>. HIDE DEF w
  <2>2. \A i \in 1 .. L : w[i] = c.window[i] BY <1>1, <1>2, <2>1
  <2>3. ASSUME NEW i \in 1 .. n PROVE w[L + i] = l[i]
    <3>1. L + i \in 1 .. L + n /\ ~(L + i <= L) /\ (L + i) - L = i
      BY <1>1, <1>2
    <3>. QED BY <2>1, <3>1
  <2>. QED BY <2>1, <2>2, <2>3
<1>11. ClientOK(d) BY AppendDataOK
<1>. HIDE DEF w, x, d
<1>12. /\ d.window = w /\ d.window_free = c.window_free - n /\ d.nextseqnum = x
       /\ d.packed = P + n /\ d.eof_sent = c.eof_sent /\ d.eof_rcvd = c.eof_rcvd
       /\ Unsent(d) = Unsent(c)
  BY <1>3 DEF ClientOK, ClientTyped, ClientFields, Unsent
<1>13. ASSUME NEW i \in 1 .. n
       PROVE  /\ l[i].pkt.seq = N + i - 1 /\ Shaped(l[i].pkt)
              /\ l[i].flag = "usable"
  <2>1. /\ l[i].pkt.kind = "DATA" /\ l[i].pkt.seq = N + i - 1
        /\ l[i].pkt.idx = P + i /\ l[i].flag = "usable"
    BY <1>9 DEF NewEntry
  <2>2. P + i \in 1 .. Chunks /\ N + i - 1 = InitSeq + (P + i)
    BY <1>1, <1>2, <1>4
  <2>. QED BY <2>1, <2>2 DEF Shaped
<1>14. Extended(d, c, n) BY <1>8, <1>10, <1>12, <1>13 DEF Extended, N, L
<1>15. d.nextseqnum = InitSeq + 1 + d.packed + (IF d.eof_sent THEN 1 ELSE 0)
  <2>1. d.nextseqnum = InitSeq + 1 + d.packed BY <1>1, <1>2, <1>4, <1>8, <1>12
  <2>2. d.packed \in Nat /\ ~d.eof_sent BY <1>1, <1>2, <1>4, <1>12
  <2>. QED BY <1>1, <2>1, <2>2
<1>16. ~d.eof_sent /\ ~d.eof_rcvd BY <1>4, <1>6, <1>12
<1>18. ClientShape(d) /\ Delivered(d) = Delivered(c) /\ Base(d) = Base(c)
  BY <1>2, <1>5, <1>11, <1>14, <1>15, <1>16, ExtendShape
<1>19. d.nextseqnum >= c.nextseqnum BY <1>1, <1>2, <1>8, <1>12 DEF N
<1>. QED BY <1>12, <1>18, <1>19 DEF d

\* and so the FIN does, which is made when all the data are packed.
LEMMA AppendFinShape ==
  ASSUME NumbersSuffice, NEW c, ClientOK(c), ClientShape(c),
         c.packed = Chunks, ~c.eof_sent, c.window_free > 0
  PROVE  LET d == AppendFin(c) IN
         /\ ClientShape(d) /\ Delivered(d) = Delivered(c) /\ Base(d) = Base(c)
         /\ d.nextseqnum >= c.nextseqnum /\ Unsent(d) = Unsent(c)
<1> DEFINE e == NewEntry("FIN", c.nextseqnum, 0)
           w == Append(c.window, e)
           x == Succ(c.nextseqnum)
           d == AppendFin(c)
           L == Len(c.window)
           N == c.nextseqnum
<1>1. /\ N \in Nat /\ L \in Nat /\ c.window_free \in Nat /\ Chunks \in Nat
      /\ InitSeq \in Nat /\ SeqSpace \in Nat
      /\ InitSeq + Chunks + 2 < SeqSpace /\ c.window \in WindowList
      /\ N = InitSeq + 1 + Chunks
  BY ClientNumbers, NextNumber DEF NumbersSuffice
<1>2. d = [c EXCEPT !.window = w, !.window_free = c.window_free - 1,
                    !.nextseqnum = x, !.eof_sent = TRUE]
  BY DEF AppendFin
<1>3. e \in Entry
  BY TransferAssumption DEF ClientOK, ClientTyped, NewEntry, Entry, Packet, Kinds, Flags
<1>4. e.pkt.seq = N /\ e.pkt.kind = "FIN" /\ e.pkt.idx = 0 /\ e.flag = "usable"
  BY DEF NewEntry
<1>5. ~Opening(c) /\ ~c.eof_rcvd BY DEF ClientShape
<1>. HIDE DEF e
<1>6. Len(w) = L + 1 /\ (\A i \in 1 .. L : w[i] = c.window[i]) /\ w[L + 1] = e
  BY <1>1, <1>3, AppendProperties DEF WindowList
<1>7. x = N + 1
  <2>1. N + 1 \in Nat /\ N + 1 < SeqSpace BY <1>1
  <2>. QED BY <1>1, <2>1, ModSmall DEF Succ
<1>8. ClientOK(d) BY AppendFinOK
<1>. HIDE DEF w, x, d, N, L
<1>9. /\ d.window = w /\ d.window_free = c.window_free - 1 /\ d.nextseqnum = x
      /\ d.packed = c.packed /\ d.eof_sent = TRUE /\ d.eof_rcvd = c.eof_rcvd
      /\ Unsent(d) = Unsent(c)
  BY <1>2 DEF ClientOK, ClientTyped, ClientFields, Unsent
<1>10. Shaped(e.pkt) /\ N = N + 1 - 1 BY <1>1, <1>4 DEF Shaped
<1>11. Extended(d, c, 1)
  <2>1. ASSUME NEW i \in 1 .. 1
        PROVE  /\ d.window[L + i].pkt.seq = N + i - 1
               /\ Shaped(d.window[L + i].pkt) /\ d.window[L + i].flag = "usable"
    <3>1. i = 1 OBVIOUS
    <3>. QED BY <1>4, <1>6, <1>9, <1>10, <3>1
  <2>. QED BY <1>6, <1>7, <1>9, <2>1 DEF Extended, N, L
<1>12. d.nextseqnum = InitSeq + 1 + d.packed + (IF d.eof_sent THEN 1 ELSE 0)
  BY <1>1, <1>7, <1>9
<1>13. ClientShape(d) /\ Delivered(d) = Delivered(c) /\ Base(d) = Base(c)
  BY <1>5, <1>8, <1>9, <1>11, <1>12, ExtendShape
<1>14. d.nextseqnum >= c.nextseqnum BY <1>1, <1>7, <1>9 DEF N
<1>. QED BY <1>9, <1>13, <1>14 DEF d

\* Making packets keeps the client's shape; none are made before the SYN is
\* acknowledged, because the SYN takes the only node.
LEMMA PacketiseShape ==
  ASSUME NumbersSuffice, NEW c, ClientOK(c), ClientShape(c), EndOfInput(c),
         c.eof_send => c.nbuf = 0 \/ c.datalen > 0
  PROVE  LET d == Packetise(c) IN
         /\ ClientOK(d) /\ ClientShape(d) /\ Delivered(d) = Delivered(c) /\ Base(d) = Base(c)
         /\ d.nextseqnum >= c.nextseqnum /\ Unsent(d) = Unsent(c)
         /\ Opening(c) => d = c
<1>0. ClientOK(Packetise(c)) BY PacketiseOK
<1>1. CASE c.datalen > 0 /\ c.window_free > 0
  BY <1>0, <1>1, AppendDataShape DEF Packetise, ClientShape
<1>2. CASE /\ ~(c.datalen > 0 /\ c.window_free > 0)
           /\ c.eof_send /\ ~c.eof_sent /\ c.window_free > 0
  <2>1. c.stdin = 0 /\ c.nbuf = 0 /\ c.datalen = 0
    BY <1>2, ClientAssumption DEF EndOfInput, ClientOK, ClientTyped
  <2>2. c.packed = Chunks
    BY <2>1, TransferAssumption DEF ClientOK, ClientTyped, Conserves
  <2>3. Packetise(c) = AppendFin(c) BY <1>2 DEF Packetise
  <2>4. ~Opening(c) BY <1>2 DEF ClientShape
  <2>. QED BY <1>0, <1>2, <2>2, <2>3, <2>4, AppendFinShape
<1>3. CASE /\ ~(c.datalen > 0 /\ c.window_free > 0)
           /\ ~(c.eof_send /\ ~c.eof_sent /\ c.window_free > 0)
  <2>1. Packetise(c) = c BY <1>3 DEF Packetise
  <2>2. c.nextseqnum >= c.nextseqnum BY ClientNumbers
  <2>. QED BY <2>1, <2>2
<1>. QED BY <1>1, <1>2, <1>3
-----------------------------------------------------------------------------
\* The packet the scan sends is one that may be sent.
LEMMA FirstUsableIsUsable ==
  ASSUME NEW w \in WindowList, FirstUsable(w) \in DOMAIN w
  PROVE  w[FirstUsable(w)].flag = "usable"
<1> DEFINE usable == {i \in DOMAIN w : w[i].flag = "usable"}
<1>1. DOMAIN w = 1 .. Len(w) /\ Len(w) \in Nat BY EntryOfWindow
<1>2. CASE usable = {} BY <1>1, <1>2 DEF FirstUsable
<1>3. CASE usable # {}
  <2>1. usable \in SUBSET Nat BY <1>1
  <2>2. Min(usable) \in usable BY <1>3, <2>1, MinIsLeast
  <2>. QED BY <1>3, <2>2 DEF FirstUsable
<1>. QED BY <1>2, <1>3

\* What the scan of the window does: it changes the flags of packets that are
\* not acknowledged, and what it sends was usable and no longer is.
LEMMA TransmitView ==
  ASSUME NEW c, ClientOK(c), c.sndbuf = {}, NEW expired
  PROVE  LET d == Transmit(c, expired) IN
         /\ ClientOK(d)
         /\ d.nextseqnum = c.nextseqnum /\ d.packed = c.packed /\ d.eof_sent = c.eof_sent
         /\ d.eof_rcvd = c.eof_rcvd /\ d.window_free = c.window_free /\ d.rcvbuf = c.rcvbuf
         /\ d.state \in {c.state, "failed"}
         /\ Len(d.window) = Len(c.window)
         /\ \A i \in 1 .. Len(c.window) :
              /\ d.window[i].pkt.seq = c.window[i].pkt.seq
              /\ d.window[i].pkt.kind = c.window[i].pkt.kind
              /\ d.window[i].pkt.idx = c.window[i].pkt.idx
              /\ d.window[i].flag = "acked" <=> c.window[i].flag = "acked"
              /\ d.window[i].flag = "usable" =>
                   \/ c.window[i].flag = "usable"
                   \/ c.window[i].flag = "buffered" /\ c.window[i].pkt.seq \in expired
         /\ \A p \in d.sndbuf : \E i \in 1 .. Len(c.window) :
              /\ p = c.window[i].pkt
              /\ c.window[i].flag = "usable" /\ d.window[i].flag = "buffered"
         /\ \A p, q \in d.sndbuf : p = q
<1> DEFINE timed == TimedOut(c.window, expired)
           dead  == \E i \in timed : c.window[i].pkt.sent_times >= MaxResend
           sent  == Sent(c.window)
           older == SentOrderAfter(c, timed)
           w     == Scanned(c.window, timed)
           cwnd  == IF timed = {} THEN c.cwnd ELSE 1
           d     == Transmit(c, expired)
           f     == FirstUsable(c.window)
<1>0. d = IF dead THEN [c EXCEPT !.state = "failed"]
          ELSE [c EXCEPT !.cwnd = cwnd, !.sndbuf = sent, !.older = older, !.window = w]
  BY DEF Transmit
<1>1. /\ c.window \in WindowList /\ Len(c.window) \in Nat /\ DOMAIN c.window = 1 .. Len(c.window)
      /\ \A i \in 1 .. Len(c.window) : c.window[i] \in Entry
  BY ClientNumbers
<1>2. ClientOK(d) BY TransmitOK
<1>3. f \in Nat \ {0} /\ (f \in 1 .. Len(c.window) => c.window[f].flag = "usable")
  BY <1>1, FirstUsablePositive, FirstUsableIsUsable
<1>4. \A i \in timed : /\ i \in 1 .. f - 1
                       /\ c.window[i].flag = "buffered" /\ c.window[i].pkt.seq \in expired
  BY DEF TimedOut
<1>5. CASE dead
  <2>1. d = [c EXCEPT !.state = "failed"] BY <1>0, <1>5
  <2>. HIDE DEF d
  <2>2. /\ d.nextseqnum = c.nextseqnum /\ d.packed = c.packed /\ d.eof_sent = c.eof_sent
        /\ d.eof_rcvd = c.eof_rcvd /\ d.window_free = c.window_free /\ d.rcvbuf = c.rcvbuf
        /\ d.state = "failed" /\ d.window = c.window /\ d.sndbuf = c.sndbuf
    BY <2>1 DEF ClientOK, ClientTyped, ClientFields
  <2>. QED BY <1>2, <2>2 DEF d
<1>6. CASE ~dead
  <2>1. d = [c EXCEPT !.cwnd = cwnd, !.sndbuf = sent, !.older = older, !.window = w]
    BY <1>0, <1>6
  <2>2. /\ DOMAIN w = 1 .. Len(c.window)
        /\ \A i \in 1 .. Len(c.window) :
             w[i] = IF i \in timed
                      THEN [c.window[i] EXCEPT !.flag = "usable", !.pkt.sent_times = @ + 1]
                    ELSE IF i = f THEN [c.window[i] EXCEPT !.flag = "buffered"]
                    ELSE c.window[i]
    BY <1>1 DEF Scanned
  <2>3. sent = {c.window[i].pkt : i \in {f} \cap (1 .. Len(c.window))} BY <1>1 DEF Sent
  <2>. HIDE DEF timed, dead, sent, older, w, cwnd, d, f
  <2>4. /\ d.nextseqnum = c.nextseqnum /\ d.packed = c.packed /\ d.eof_sent = c.eof_sent
        /\ d.eof_rcvd = c.eof_rcvd /\ d.window_free = c.window_free /\ d.rcvbuf = c.rcvbuf
        /\ d.state = c.state /\ d.window = w /\ d.sndbuf = sent
    BY <2>1 DEF ClientOK, ClientTyped, ClientFields
  <2>5. Len(w) = Len(c.window)
    <3>1. Len(w) \in Nat /\ DOMAIN w = 1 .. Len(w)
      BY <1>2, <2>4, ClientNumbers
    <3>. QED BY <1>1, <2>2, <3>1, SameInterval
  <2>6. ASSUME NEW i \in 1 .. Len(c.window)
        PROVE  /\ w[i].pkt.seq = c.window[i].pkt.seq
               /\ w[i].pkt.kind = c.window[i].pkt.kind
               /\ w[i].pkt.idx = c.window[i].pkt.idx
               /\ w[i].flag = "acked" <=> c.window[i].flag = "acked"
               /\ w[i].flag = "usable" =>
                   \/ c.window[i].flag = "usable"
                   \/ c.window[i].flag = "buffered" /\ c.window[i].pkt.seq \in expired
               /\ i = f => w[i].flag = "buffered"
    <3> DEFINE e == c.window[i]
    <3>1. e \in Entry BY <1>1
    <3>2. CASE i \in timed
      <4>1. w[i] = [e EXCEPT !.flag = "usable", !.pkt.sent_times = @ + 1] BY <2>2, <3>2
      <4>2. i # f /\ e.flag = "buffered" /\ e.pkt.seq \in expired BY <1>3, <1>4, <3>2
      <4>. HIDE DEF e
      <4>3. /\ w[i].pkt.seq = e.pkt.seq /\ w[i].pkt.kind = e.pkt.kind
            /\ w[i].pkt.idx = e.pkt.idx /\ w[i].flag = "usable"
        BY <3>1, <4>1 DEF Entry, Packet
      <4>. QED BY <4>2, <4>3 DEF e
    <3>3. CASE i \notin timed /\ i = f
      <4>1. w[i] = [e EXCEPT !.flag = "buffered"] BY <2>2, <3>3
      <4>2. e.flag = "usable" BY <1>3, <3>3
      <4>. HIDE DEF e
      <4>3. /\ w[i].pkt = e.pkt /\ w[i].flag = "buffered"
        BY <3>1, <4>1 DEF Entry
      <4>. QED BY <4>2, <4>3 DEF e
    <3>4. CASE i \notin timed /\ i # f
      <4>1. w[i] = e BY <2>2, <3>4
      <4>. QED BY <3>4, <4>1
    <3>. QED BY <3>2, <3>3, <3>4
  <2>7. \A p \in sent : \E i \in 1 .. Len(c.window) :
          /\ p = c.window[i].pkt
          /\ c.window[i].flag = "usable" /\ w[i].flag = "buffered"
    BY <1>3, <2>3, <2>6
  <2>8. \A p, q \in sent : p = q BY <2>3
  <2>. QED BY <1>2, <2>4, <2>5, <2>6, <2>7, <2>8 DEF d
<1>. QED BY <1>5, <1>6

\* Sending and timing out keep the client's shape and deliver nothing.
LEMMA TransmitShape ==
  ASSUME NEW c, ClientOK(c), ClientShape(c), c.sndbuf = {}, NEW expired
  PROVE  LET d == Transmit(c, expired) IN
         ClientShape(d) /\ Delivered(d) = Delivered(c) /\ Base(d) = Base(c)
<1> DEFINE d == Transmit(c, expired)
<1>1. /\ d.nextseqnum = c.nextseqnum /\ d.packed = c.packed /\ d.eof_sent = c.eof_sent
      /\ d.eof_rcvd = c.eof_rcvd /\ d.window_free = c.window_free
      /\ Len(d.window) = Len(c.window)
      /\ \A i \in 1 .. Len(c.window) :
              /\ d.window[i].pkt.seq = c.window[i].pkt.seq
              /\ d.window[i].pkt.kind = c.window[i].pkt.kind
              /\ d.window[i].pkt.idx = c.window[i].pkt.idx
              /\ d.window[i].flag = "acked" <=> c.window[i].flag = "acked"
  BY TransmitView
<1>. HIDE DEF d
<1>2. Base(d) = Base(c) /\ (Opening(d) <=> Opening(c)) BY <1>1 DEF Base, Opening
<1>3. WindowShape(d.window, Base(d)) BY <1>1, <1>2 DEF ClientShape, WindowShape, Shaped
<1>4. ClientShape(d)
  <2>1. Opening(c) => c.window_free = 0 /\ Len(c.window) = 1 /\ c.window[1].flag # "acked"
    BY DEF ClientShape
  <2>2. Opening(c) => d.window[1].flag # "acked" BY <1>1, <2>1
  <2>. QED BY <1>1, <1>2, <1>3, <2>1, <2>2, Zenon DEF ClientShape
<1>5. Delivered(d) = Delivered(c) BY <1>1 DEF Delivered
<1>. QED BY <1>2, <1>4, <1>5 DEF d

\* A whole rdt_client_step.  In the opening, while the SYN is not acknowledged, it
\* sends the SYN at most, and lets it become usable again only when its timer has
\* run out.
LEMMA ClientStepShape ==
  ASSUME NumbersSuffice, NEW c, ClientOK(c), ClientShape(c), EndOfInput(c),
         c.eof_send => c.nbuf = 0 \/ c.datalen > 0,
         Opening(c) => \A a \in c.rcvbuf : a.ack = InitSeq + 1 /\ a.wnd <= WindowSize + 1,
         \A p \in c.sndbuf : Shaped(p) /\ p.seq < c.nextseqnum,
         NEW expired
  PROVE  LET d == ClientStep(c, expired) IN
         /\ ClientOK(d) /\ ClientShape(d) /\ d.nextseqnum >= c.nextseqnum
         /\ Delivered(c) \subseteq Delivered(d)
         /\ \A x \in Delivered(d) : x \in Delivered(c) \/ \E a \in c.rcvbuf : a.ack = x + 1
         /\ d.rcvbuf = {} /\ d.state \in {c.state, "failed"}
         /\ \A p \in d.sndbuf : Shaped(p) /\ p.seq < d.nextseqnum
         /\ ~Opening(d) => \A p \in d.sndbuf : p \in c.sndbuf \/ p.kind # "SYN"
         /\ Opening(d) =>
              /\ Opening(c) /\ c.rcvbuf = {}
              /\ c.sndbuf # {} => d = c
              /\ c.sndbuf = {} =>
                   /\ \A p, q \in d.sndbuf : p = q
                   /\ d.sndbuf # {} =>
                        c.window[1].flag = "usable" /\ d.window[1].flag = "buffered"
                   /\ d.window[1].flag = "usable" =>
                        \/ c.window[1].flag = "usable" /\ d.sndbuf = {}
                        \/ /\ c.window[1].flag = "buffered" /\ c.window[1].pkt.seq \in expired
                           /\ d.sndbuf = {}
<1> DEFINE r == Receive(c)
           k == Packetise(r)
           t == Transmit(k, expired)
           d == ClientStep(c, expired)
<1>0. d = IF c.sndbuf # {} THEN r ELSE t BY DEF ClientStep
<1>1. /\ ClientOK(r) /\ ClientShape(r) /\ Frame(r) = Frame(c) /\ r.rcvbuf = {}
      /\ Delivered(c) \subseteq Delivered(r)
      /\ \A x \in Delivered(r) : x \in Delivered(c) \/ \E a \in c.rcvbuf : a.ack = x + 1
      /\ Opening(r) => Opening(c) /\ c.rcvbuf = {}
  BY ReceiveShape
<1>2. r.nextseqnum = c.nextseqnum /\ r.sndbuf = c.sndbuf /\ r.state = c.state
  BY <1>1 DEF Frame
<1>3. c.rcvbuf = {} => r = c BY DEF Receive
<1>4. InputFields(r) = InputFields(c) BY ReceiveInput
<1>. HIDE DEF r
<1>5. EndOfInput(r) /\ (r.eof_send => r.nbuf = 0 \/ r.datalen > 0)
  BY <1>4 DEF EndOfInput, InputFields
<1>6. CASE c.sndbuf # {}
  <2>1. d = r BY <1>0, <1>6
  <2>2. r.nextseqnum >= c.nextseqnum BY <1>2, ClientNumbers
  <2>. HIDE DEF d
  <2>. QED BY <1>1, <1>2, <1>3, <1>6, <2>1, <2>2 DEF d
<1>7. CASE c.sndbuf = {}
  <2>1. /\ ClientOK(k) /\ ClientShape(k) /\ Delivered(k) = Delivered(r) /\ Base(k) = Base(r)
        /\ k.nextseqnum >= r.nextseqnum /\ Unsent(k) = Unsent(r)
        /\ Opening(r) => k = r
    BY <1>1, <1>5, PacketiseShape
  <2>2. k.sndbuf = {} /\ k.state = c.state /\ k.rcvbuf = {} BY <1>1, <1>2, <1>7, <2>1 DEF Unsent
  <2>. HIDE DEF k
  <2>3. /\ ClientShape(t) /\ Delivered(t) = Delivered(k) /\ Base(t) = Base(k)
    BY <2>1, <2>2, TransmitShape
  <2>4. /\ ClientOK(t) /\ t.nextseqnum = k.nextseqnum /\ t.rcvbuf = k.rcvbuf
        /\ t.state \in {k.state, "failed"}
        /\ Len(t.window) = Len(k.window)
        /\ \A i \in 1 .. Len(k.window) :
              t.window[i].flag = "usable" =>
                   \/ k.window[i].flag = "usable"
                   \/ k.window[i].flag = "buffered" /\ k.window[i].pkt.seq \in expired
        /\ \A p \in t.sndbuf : \E i \in 1 .. Len(k.window) :
              /\ p = k.window[i].pkt
              /\ k.window[i].flag = "usable" /\ t.window[i].flag = "buffered"
        /\ \A p, q \in t.sndbuf : p = q
    BY <2>1, <2>2, TransmitView
  <2>. HIDE DEF t
  <2>5. Opening(t) <=> Opening(r) BY <2>1, <2>3 DEF Opening
  <2>6. \A p \in t.sndbuf : Shaped(p) /\ p.seq < t.nextseqnum /\ (p.kind = "SYN" => Opening(t))
    <3>1. SUFFICES ASSUME NEW p \in t.sndbuf
                   PROVE  Shaped(p) /\ p.seq < t.nextseqnum /\ (p.kind = "SYN" => Opening(t))
      OBVIOUS
    <3>2. PICK i \in 1 .. Len(k.window) : p = k.window[i].pkt BY <2>4
    <3>3. Shaped(p) BY <2>1, <3>2 DEF ClientShape, WindowShape
    <3>4. p.seq = Base(k) + i - 1 /\ (p.kind = "SYN" <=> Opening(k) /\ i = 1)
      BY <2>1, <3>2, WindowKinds
    <3>5. Base(k) \in Nat /\ Base(k) + Len(k.window) = k.nextseqnum /\ Len(k.window) \in Nat
      BY <2>1, NextNumber, ClientNumbers
    <3>6. p.seq < k.nextseqnum BY <3>2, <3>4, <3>5
    <3>. QED BY <2>3, <2>4, <3>3, <3>4, <3>6 DEF Opening
  <2>7. t.nextseqnum >= c.nextseqnum BY <1>2, <2>1, <2>4
  <2>8. ASSUME Opening(t)
        PROVE  /\ Opening(c) /\ c.rcvbuf = {}
               /\ t.sndbuf # {} =>
                        c.window[1].flag = "usable" /\ t.window[1].flag = "buffered"
               /\ t.window[1].flag = "usable" =>
                        \/ c.window[1].flag = "usable" /\ t.sndbuf = {}
                        \/ /\ c.window[1].flag = "buffered" /\ c.window[1].pkt.seq \in expired
                           /\ t.sndbuf = {}
    <3>1. Opening(c) /\ c.rcvbuf = {} /\ k = c BY <1>1, <1>3, <2>1, <2>5, <2>8
    <3>2. Len(c.window) = 1 BY <3>1 DEF ClientShape
    <3>3. 1 .. Len(k.window) = {1} BY <3>1, <3>2
    <3>4. t.sndbuf # {} => c.window[1].flag = "usable" /\ t.window[1].flag = "buffered"
      BY <2>4, <3>1, <3>3
    <3>. QED BY <2>4, <3>1, <3>3, <3>4
  <2>9. d = t BY <1>0, <1>7 DEF t, k
  <2>10. Delivered(t) = Delivered(r) BY <2>1, <2>3
  <2>11. t.rcvbuf = {} /\ t.state \in {c.state, "failed"} BY <2>2, <2>4
  <2>12. \A p, q \in t.sndbuf : p = q BY <2>4
  <2>. HIDE DEF d
  <2>. QED BY <1>1, <1>7, <2>3, <2>4, <2>6, <2>7, <2>8, <2>9, <2>10, <2>11, <2>12, Zenon DEF d
<1>. QED BY <1>6, <1>7

-----------------------------------------------------------------------------
(***************************************************************************)
(* The server.                                                             *)
(***************************************************************************)

\* Number of chunks among the packets numbered below n.
PassedTo(n) ==
  IF n <= InitSeq + 1 THEN 0
  ELSE IF n <= InitSeq + Chunks + 1 THEN n - InitSeq - 1
  ELSE Chunks

\* What the server has taken over for its user: written, in the loop's buffer, and
\* in rdt->data.
StreamOf(s) == s.out \o s.buf \o s.data

\* The stream of a server that waits for number n: as long as the packets below n
\* make it, and, unless short writes mix up the buffer, the input in order.
StreamHolds(q, n) ==
  /\ q \in ChunkSeq /\ Len(q) = PassedTo(n)
  /\ ~ShortWrites => \A i \in 1 .. Len(q) : q[i] = i

\* The window of a server that waits for `next': at most one packet of each number,
\* none of them a SYN and none a window or more ahead.
WindowHolds(w, next) ==
  \A q \in w : /\ Shaped(q) /\ q.kind # "SYN"
               /\ next <= q.seq /\ q.seq < next + WindowSize
               /\ \A r \in w : r.seq = q.seq => r = q

\* The numbers the server has accepted: all below the one it waits for, and those
\* in its window.
Taken(s) ==
  {x \in SeqNums : x < s.nextseqnum \/ \E q \in s.window : q.seq = x}

\* What stays true of the server by itself; that it is still running says that the
\* assertion in rdt_server_step has not failed.
ServerShape(s) ==
  /\ s.state = "running"
  /\ WindowHolds(s.window, s.nextseqnum)
  /\ s.nextseqnum <= InitSeq => s.nextseqnum = 0 /\ s.window = {}
  /\ s.nextseqnum <= InitSeq + Chunks + 2
  /\ StreamHolds(StreamOf(s), s.nextseqnum)

\* The server knows of no packet numbered n or more.
Made(s, n) == s.nextseqnum <= n /\ \A q \in s.window : q.seq < n

-----------------------------------------------------------------------------
\* The types of a server's fields, in the form the arithmetic below needs.
LEMMA ServerNumbers ==
  ASSUME NEW s, ServerOK(s)
  PROVE  /\ s.nextseqnum \in Nat /\ s.nextseqnum < SeqSpace /\ SeqSpace \in Nat
         /\ s.window \in SUBSET Packet /\ IsFiniteSet(s.window)
         /\ InitSeq \in Nat /\ Chunks \in Nat /\ WindowSize \in Nat /\ WindowSize >= 1
         /\ \A q \in s.window : q.seq \in Nat /\ q.seq < SeqSpace
         /\ s.acks \in AckStack /\ s.out \in ChunkSeq /\ s.buf \in ChunkSeq /\ s.data \in ChunkSeq
  BY SeqAssumption, TransferAssumption DEF ServerOK, ServerTyped, SeqNums, Packet

\* The fields of a packet.
LEMMA PacketNumbers ==
  ASSUME NEW w \in SUBSET Packet
  PROVE  \A q \in w : q.seq \in Nat /\ q.seq < SeqSpace /\ q.kind \in Kinds
  BY SeqAssumption DEF SeqNums, Packet

\* The window test lets no packet through that is more than a window ahead.
LEMMA InRangeAhead ==
  ASSUME NumbersSuffice, NEW x \in Nat, NEW n \in Nat, n < SeqSpace, x < SeqSpace,
         n <= x, x <= n + 2 * WindowSize, InRange(x, n)
  PROVE  x < n + WindowSize
  BY SeqAssumption DEF NumbersSuffice, InRange, Underflow, Overflow

\* The window test lets the packet through that the server waits for.
LEMMA InRangeHere ==
  ASSUME NEW n \in Nat, n < SeqSpace
  PROVE  InRange(n, n)
  BY SeqAssumption DEF InRange, Underflow, Overflow

\* A packet's kind follows from its number.
LEMMA KindByNumber ==
  ASSUME NEW q \in Packet, Shaped(q), q.kind # "SYN"
  PROVE  /\ q.seq \in Nat /\ q.seq > InitSeq /\ q.seq <= InitSeq + Chunks + 1
         /\ q.kind = "FIN" <=> q.seq = InitSeq + Chunks + 1
         /\ q.seq <= InitSeq + Chunks => q.idx = q.seq - InitSeq
<1>1. q.kind \in {"SYN", "DATA", "FIN"} /\ q.seq \in Nat BY SeqAssumption DEF Packet, Kinds, SeqNums
<1>2. InitSeq \in Nat /\ Chunks \in Nat BY SeqAssumption, TransferAssumption
<1>. QED BY <1>1, <1>2 DEF Shaped

\* At finds the packet of a number that is in the window.
LEMMA AtIsThere ==
  ASSUME NEW w, NEW x, \E q \in w : q.seq = x
  PROVE  At(w, x) \in w /\ At(w, x).seq = x
  BY DEF At

\* The data of a run of packets is what comes next in the input.
LEMMA PayloadHolds ==
  ASSUME NEW w \in SUBSET Packet, NEW first \in Nat, NEW n \in Nat, first > InitSeq,
         WindowHolds(w, first), \A m \in 0 .. n - 1 : \E q \in w : q.seq = first + m,
         first <= InitSeq + Chunks + 2
  PROVE  /\ first + n <= InitSeq + Chunks + 2
         /\ Payload(w, first, n) \in ChunkSeq
         /\ Len(Payload(w, first, n)) = PassedTo(first + n) - PassedTo(first)
         /\ \A i \in 1 .. Len(Payload(w, first, n)) :
              Payload(w, first, n)[i] = PassedTo(first) + i
<1> DEFINE syn == IF n > 0 /\ At(w, first).kind = "SYN" THEN 1 ELSE 0
           fin == IF n > 0 /\ At(w, first + n - 1).kind = "FIN" THEN 1 ELSE 0
           len == n - syn - fin
           p == Payload(w, first, n)
<1>1. InitSeq \in Nat /\ Chunks \in Nat BY SeqAssumption, TransferAssumption
<1>2. \A m \in 0 .. n - 1 : /\ At(w, first + m) \in w /\ At(w, first + m).seq = first + m
  BY AtIsThere
<1>3. \A m \in 0 .. n - 1 :
         /\ At(w, first + m).kind # "SYN"
         /\ first + m <= InitSeq + Chunks + 1
         /\ At(w, first + m).kind = "FIN" <=> first + m = InitSeq + Chunks + 1
         /\ first + m <= InitSeq + Chunks => At(w, first + m).idx = first + m - InitSeq
  <2>1. \A q \in w : /\ q.kind # "SYN" /\ q.seq <= InitSeq + Chunks + 1
                     /\ q.kind = "FIN" <=> q.seq = InitSeq + Chunks + 1
                     /\ q.seq <= InitSeq + Chunks => q.idx = q.seq - InitSeq
    BY KindByNumber DEF WindowHolds
  <2>2. SUFFICES ASSUME NEW m \in 0 .. n - 1
                 PROVE  /\ At(w, first + m).kind # "SYN"
                        /\ first + m <= InitSeq + Chunks + 1
                        /\ At(w, first + m).kind = "FIN" <=> first + m = InitSeq + Chunks + 1
                        /\ first + m <= InitSeq + Chunks
                             => At(w, first + m).idx = first + m - InitSeq
    OBVIOUS
  <2> DEFINE e == At(w, first + m)
  <2>3. e \in w /\ e.seq = first + m BY <1>2
  <2>. HIDE DEF e
  <2>4. /\ e.kind # "SYN" /\ first + m <= InitSeq + Chunks + 1
        /\ e.kind = "FIN" <=> first + m = InitSeq + Chunks + 1
        /\ first + m <= InitSeq + Chunks => e.idx = first + m - InitSeq
    BY <1>1, <2>1, <2>3
  <2>. QED BY <2>4 DEF e
<1>4. syn = 0
  <2>1. n > 0 => 0 \in 0 .. n - 1 /\ first + 0 = first OBVIOUS
  <2>. QED BY <1>3, <2>1
<1>5. first + n <= InitSeq + Chunks + 2
  <2>1. n > 0 => n - 1 \in 0 .. n - 1 OBVIOUS
  <2>2. n > 0 => first + (n - 1) <= InitSeq + Chunks + 1 BY <1>3, <2>1
  <2>. QED BY <1>1, <2>2
<1>6. fin = IF n > 0 /\ first + n = InitSeq + Chunks + 2 THEN 1 ELSE 0
  <2>1. n > 0 => n - 1 \in 0 .. n - 1 /\ first + (n - 1) = first + n - 1 OBVIOUS
  <2>2. n > 0 => (At(w, first + n - 1).kind = "FIN" <=> first + (n - 1) = InitSeq + Chunks + 1)
    BY <1>3, <2>1
  <2>. QED BY <1>1, <2>2
<1>7. p = [i \in 1 .. len |-> At(w, first + syn + i - 1).idx] BY DEF Payload
<1>8. p \in ChunkSeq BY <1>2, PayloadOK
<1>. HIDE DEF syn, fin
<1>9. /\ len \in Nat /\ len = PassedTo(first + n) - PassedTo(first)
      /\ \A i \in 1 .. len : i - 1 \in 0 .. n - 1 /\ first + (i - 1) <= InitSeq + Chunks
      /\ \A i \in 1 .. len : PassedTo(first) + i = first + (i - 1) - InitSeq
  BY <1>1, <1>4, <1>5, <1>6 DEF PassedTo
<1>. HIDE DEF len
<1>10. Len(p) = len
  <2>1. Len(p) \in Nat /\ DOMAIN p = 1 .. Len(p) BY <1>8, LenProperties DEF ChunkSeq
  <2>2. DOMAIN p = 1 .. len BY <1>7
  <2>. QED BY <1>9, <2>1, <2>2, SameInterval
<1>11. ASSUME NEW i \in 1 .. len PROVE p[i] = PassedTo(first) + i
  <2>1. p[i] = At(w, first + syn + i - 1).idx BY <1>7
  <2>2. first + syn + i - 1 = first + (i - 1) BY <1>4, <1>9
  <2>3. i - 1 \in 0 .. n - 1 /\ first + (i - 1) <= InitSeq + Chunks BY <1>9
  <2>4. At(w, first + (i - 1)).idx = first + (i - 1) - InitSeq BY <1>3, <2>3
  <2>. QED BY <1>9, <2>1, <2>2, <2>4
<1>. QED BY <1>5, <1>8, <1>9, <1>10, <1>11

\* The number of chunks passed is that of chunks.
LEMMA PassedNat ==
  ASSUME NEW n \in Nat
  PROVE  PassedTo(n) \in Nat /\ PassedTo(n) <= Chunks
  BY SeqAssumption, TransferAssumption DEF PassedTo

\* The stream goes on with the chunks that come next.
LEMMA StreamGrows ==
  ASSUME NEW q \in ChunkSeq, NEW p \in ChunkSeq, NEW a \in Nat, NEW b \in Nat,
         StreamHolds(q, a), Len(p) = PassedTo(b) - PassedTo(a),
         \A i \in 1 .. Len(p) : p[i] = PassedTo(a) + i
  PROVE  StreamHolds(q \o p, b)
<1>1. /\ q \o p \in ChunkSeq /\ Len(q \o p) = Len(q) + Len(p)
      /\ \A i \in 1 .. Len(q) + Len(p) :
           (q \o p)[i] = IF i <= Len(q) THEN q[i] ELSE p[i - Len(q)]
  BY ConcatProperties DEF ChunkSeq
<1>2. Len(q) \in Nat /\ Len(p) \in Nat BY LenProperties DEF ChunkSeq
<1>3. PassedTo(a) \in Nat /\ PassedTo(b) \in Nat BY PassedNat
<1>4. Len(q) = PassedTo(a) BY DEF StreamHolds
<1>5. Len(q \o p) = PassedTo(b) BY <1>1, <1>2, <1>3, <1>4
<1>6. ASSUME ~ShortWrites, NEW i \in 1 .. Len(q \o p) PROVE (q \o p)[i] = i
  <2>1. \A j \in 1 .. Len(q) : q[j] = j BY <1>6 DEF StreamHolds
  <2>2. i \in 1 .. Len(q) + Len(p) BY <1>1
  <2>3. CASE i <= Len(q) BY <1>1, <1>2, <2>1, <2>2, <2>3
  <2>4. CASE ~(i <= Len(q))
    <3>1. i - Len(q) \in 1 .. Len(p) BY <1>2, <2>2, <2>4
    <3>2. (q \o p)[i] = p[i - Len(q)] BY <1>1, <2>2, <2>4
    <3>3. p[i - Len(q)] = PassedTo(a) + (i - Len(q)) BY <3>1
    <3>. QED BY <1>2, <1>4, <2>2, <3>2, <3>3
  <2>. QED BY <2>3, <2>4
<1>. QED BY <1>1, <1>5, <1>6 DEF StreamHolds

\* The stream is a sequence of chunks, as long as its three parts.
LEMMA StreamChunks ==
  ASSUME NEW s, ServerOK(s)
  PROVE  StreamOf(s) \in ChunkSeq /\ Len(StreamOf(s)) = Len(s.out) + Len(s.buf) + Len(s.data)
<1>1. s.out \in ChunkSeq /\ s.buf \in ChunkSeq /\ s.data \in ChunkSeq BY ServerNumbers
<1>2. s.out \o s.buf \in ChunkSeq /\ Len(s.out \o s.buf) = Len(s.out) + Len(s.buf)
  BY <1>1, ConcatProperties DEF ChunkSeq
<1>. QED BY <1>1, <1>2, ConcatProperties DEF ChunkSeq, StreamOf

\* The fields processing leaves alone.
ServerView(s) == <<s.acks, s.rcvbuf, s.sndbuf, s.out, s.buf, s.state>>

\* What is left of a window after n packets from the one numbered `first' on.
RestOf(w, first, n) == {q \in w : q.seq \notin first .. first + n - 1}

\* What processing does, field by field.
LEMMA ProcessView ==
  ASSUME NEW s, ServerOK(s), NEW w \in SUBSET Packet, NEW below \in Nat
  PROVE  LET d == Process(s, w, below)
             n == RunLength(s, w)
         IN /\ ServerView(d) = ServerView(s)
            /\ d.window = RestOf(w, s.nextseqnum, n)
            /\ d.data = s.data \o Payload(w, s.nextseqnum, n)
            /\ d.nextseqnum = (s.nextseqnum + n) % SeqSpace
            /\ d.cwnd = (WindowSize - below + n) % 256
<1> DEFINE n == RunLength(s, w)
           left == RestOf(w, s.nextseqnum, n)
           data == s.data \o Payload(w, s.nextseqnum, n)
           next == (s.nextseqnum + n) % SeqSpace
           cwnd == (WindowSize - below + n) % 256
           d == Process(s, w, below)
<1>1. d = [s EXCEPT !.window = left, !.data = data, !.nextseqnum = next, !.cwnd = cwnd]
  BY DEF Process, RestOf
<1>. HIDE DEF left, data, next, cwnd, d
<1>2. /\ d.window = left /\ d.data = data /\ d.nextseqnum = next /\ d.cwnd = cwnd
      /\ ServerView(d) = ServerView(s)
  BY <1>1 DEF ServerOK, ServerTyped, ServerFields, ServerView
<1>. QED BY <1>2 DEF left, data, next, cwnd, d

\* Processing in order: what the server has taken over stays the same, the
\* packets of the run move from the window into the stream.
LEMMA ProcessShape ==
  ASSUME NumbersSuffice, NEW s, ServerOK(s), s.state = "running", s.nextseqnum > InitSeq,
         NEW w \in SUBSET Packet, IsFiniteSet(w), WindowHolds(w, s.nextseqnum),
         s.nextseqnum <= InitSeq + Chunks + 2, StreamHolds(StreamOf(s), s.nextseqnum),
         NEW below \in Nat
  PROVE  LET d == Process(s, w, below) IN
         /\ ServerOK(d) /\ ServerShape(d) /\ ServerView(d) = ServerView(s)
         /\ Taken(d) = {x \in SeqNums : x < s.nextseqnum \/ \E q \in w : q.seq = x}
         /\ d.nextseqnum >= s.nextseqnum
         /\ \A m \in Nat : s.nextseqnum <= m /\ (\A q \in w : q.seq < m) => Made(d, m)
<1> DEFINE d == Process(s, w, below)
           n == RunLength(s, w)
           next == s.nextseqnum
           p == Payload(w, next, n)
<1>1. /\ next \in Nat /\ next < SeqSpace /\ SeqSpace \in Nat
      /\ InitSeq \in Nat /\ Chunks \in Nat /\ WindowSize \in Nat /\ WindowSize >= 1
      /\ s.data \in ChunkSeq /\ s.out \in ChunkSeq /\ s.buf \in ChunkSeq
      /\ InitSeq + Chunks + 2 < SeqSpace
  BY ServerNumbers DEF NumbersSuffice
<1>2. n \in Nat /\ \A m \in 0 .. n - 1 : \E q \in w : q.seq = next + m
  BY RunLengthOK
<1>3. /\ ServerView(d) = ServerView(s)
      /\ d.window = RestOf(w, next, n)
      /\ d.data = s.data \o p
      /\ d.nextseqnum = (next + n) % SeqSpace
  <2>1. ServerView(d) = ServerView(s) BY ProcessView
  <2>2. d.window = RestOf(w, next, n) BY ProcessView
  <2>3. d.data = s.data \o p BY ProcessView
  <2>4. d.nextseqnum = (next + n) % SeqSpace BY ProcessView
  <2>. QED BY <2>1, <2>2, <2>3, <2>4
<1>4. ServerOK(d) BY ProcessOK
<1>. HIDE DEF d, n
<1>4a. WindowHolds(w, next) /\ next > InitSeq /\ next <= InitSeq + Chunks + 2
       /\ StreamHolds(StreamOf(s), next)
  OBVIOUS
<1>. HIDE DEF next
<1>5. /\ next + n <= InitSeq + Chunks + 2 /\ p \in ChunkSeq
      /\ Len(p) = PassedTo(next + n) - PassedTo(next)
      /\ \A i \in 1 .. Len(p) : p[i] = PassedTo(next) + i
  BY <1>1, <1>2, <1>4a, PayloadHolds
<1>. HIDE DEF p
<1>6. d.nextseqnum = next + n
  <2>1. next + n \in Nat /\ next + n < SeqSpace BY <1>1, <1>2, <1>5
  <2>. QED BY <1>3, <2>1, <1>1, ModSmall
<1>7. d.out = s.out /\ d.buf = s.buf /\ d.state = "running" BY <1>3 DEF ServerView
<1>8. StreamOf(d) = StreamOf(s) \o p
  <2> DEFINE q == s.out \o s.buf
             b == s.data
  <2>1. q \in Seq(0 .. Chunks) /\ b \in Seq(0 .. Chunks) /\ p \in Seq(0 .. Chunks)
    BY <1>1, <1>5, ConcatProperties DEF ChunkSeq
  <2>2. StreamOf(d) = q \o (b \o p) /\ StreamOf(s) = q \o b BY <1>3, <1>7 DEF StreamOf
  <2>. HIDE DEF q, b
  <2>3. q \o (b \o p) = (q \o b) \o p BY <2>1, ConcatAssociative
  <2>. QED BY <2>2, <2>3
<1>9. StreamHolds(StreamOf(d), next + n)
  <2>1. next + n \in Nat BY <1>1, <1>2
  <2>2. StreamOf(s) \in ChunkSeq BY <1>4a DEF StreamHolds
  <2>. QED BY <1>1, <1>4a, <1>5, <1>8, <2>1, <2>2, StreamGrows
<1>10. \A q \in w : q.seq \in Nat BY PacketNumbers
<1>11. \A q \in w : q.seq >= next /\ (q.seq < next + n => q.seq \in next .. next + n - 1)
  BY <1>1, <1>2, <1>4a, <1>10 DEF WindowHolds
<1>12. WindowHolds(d.window, next + n)
  BY <1>1, <1>2, <1>3, <1>4a, <1>10, <1>11 DEF WindowHolds, RestOf
<1>13. ServerShape(d) BY <1>1, <1>2, <1>5, <1>6, <1>7, <1>9, <1>12 DEF ServerShape, next
<1>14. Taken(d) = {x \in SeqNums : x < next \/ \E q \in w : q.seq = x}
  <2>1. ASSUME NEW x \in SeqNums
        PROVE  (x < next + n \/ \E q \in d.window : q.seq = x)
                 <=> (x < next \/ \E q \in w : q.seq = x)
    <3>1. x \in Nat BY SeqAssumption DEF SeqNums
    <3>2. ASSUME x < next + n, ~(x < next) PROVE \E q \in w : q.seq = x
      <4>1. x - next \in 0 .. n - 1 /\ next + (x - next) = x BY <1>1, <1>2, <3>1, <3>2
      <4>. QED BY <1>2, <4>1
    <3>3. ASSUME NEW q \in w, q.seq = x, ~(x < next + n) PROVE q \in d.window
      BY <1>1, <1>2, <1>3, <3>1, <3>3 DEF RestOf
    <3>4. d.window \subseteq w BY <1>3 DEF RestOf
    <3>5. x < next => x < next + n BY <1>1, <1>2, <3>1
    <3>. QED BY <3>2, <3>3, <3>4, <3>5
  <2>. QED BY <1>6, <2>1 DEF Taken
<1>15. d.nextseqnum >= next BY <1>1, <1>2, <1>6
<1>16. ASSUME NEW m \in Nat, next <= m, \A q \in w : q.seq < m PROVE Made(d, m)
  <2>1. next + n <= m
    <3>1. CASE n = 0 BY <1>1, <1>16, <3>1
    <3>2. CASE n > 0
      <4>1. n - 1 \in 0 .. n - 1 BY <1>2, <3>2
      <4>2. PICK q \in w : q.seq = next + (n - 1) BY <1>2, <4>1
      <4>3. q.seq < m BY <1>16
      <4>. QED BY <1>1, <1>2, <4>2, <4>3
    <3>. QED BY <1>2, <3>1, <3>2
  <2>2. d.window \subseteq w BY <1>3 DEF RestOf
  <2>. QED BY <1>6, <1>16, <2>1, <2>2 DEF Made
<1>. QED BY <1>3, <1>4, <1>13, <1>14, <1>15, <1>16 DEF d, next
\* The window never holds more packets than there are numbers in it.
LEMMA WindowFits ==
  ASSUME NEW w \in SUBSET Packet, NEW next \in Nat, WindowHolds(w, next)
  PROVE  Cardinality(w) <= WindowSize
<1> DEFINE T == next .. next + WindowSize - 1
           f == [q \in w |-> q.seq]
<1>1. WindowSize \in Nat /\ WindowSize >= 1 BY SeqAssumption
<1>2. IsFiniteSet(T) /\ Cardinality(T) = WindowSize
  <2> DEFINE last == next + WindowSize - 1
  <2>1. next \in Int /\ last \in Int /\ next <= last /\ last - next + 1 = WindowSize
    BY <1>1
  <2>. HIDE DEF last
  <2>2. IsFiniteSet(next .. last) /\ Cardinality(next .. last) = last - next + 1
    BY <2>1, FS_Interval
  <2>. QED BY <2>1, <2>2 DEF last
<1>3. \A q \in w : q.seq \in T BY <1>1, PacketNumbers DEF WindowHolds
<1>4. f \in [w -> T] BY <1>3
<1>5. \A a, b \in w : f[a] = f[b] => a = b BY DEF WindowHolds
<1>. HIDE DEF T, f
<1>6. f \in Injection(w, T) BY <1>4, <1>5 DEF Injection, IsInjective
<1>. QED BY <1>2, <1>6, FS_Injection

-----------------------------------------------------------------------------
\* The acknowledgements waiting to be sent.
AckSet(s) == {s.acks[i] : i \in DOMAIN s.acks}

\* Pushing an acknowledgement on the stack adds just that one.
LEMMA Pushed ==
  ASSUME NEW s, ServerOK(s), NEW a \in Ack
  PROVE  LET u == [s EXCEPT !.acks = <<a>> \o @] IN
         /\ ServerOK(u)
         /\ AckSet(u) \subseteq AckSet(s) \cup {a}
         /\ u.nextseqnum = s.nextseqnum /\ u.window = s.window /\ u.state = s.state
         /\ u.rcvbuf = s.rcvbuf /\ u.sndbuf = s.sndbuf /\ StreamOf(u) = StreamOf(s)
<1> DEFINE l == <<a>> \o s.acks
           u == [s EXCEPT !.acks = l]
<1>1. s.acks \in Seq(Ack) /\ <<a>> \in Seq(Ack) BY DEF ServerOK, ServerTyped, AckStack
<1>2. /\ l \in Seq(Ack) /\ Len(l) = 1 + Len(s.acks) /\ Len(s.acks) \in Nat
      /\ \A i \in 1 .. 1 + Len(s.acks) : l[i] = IF i <= 1 THEN a ELSE s.acks[i - 1]
  <2>1. Len(<<a>>) = 1 /\ <<a>>[1] = a OBVIOUS
  <2>2. /\ l \in Seq(Ack) /\ Len(l) = Len(<<a>>) + Len(s.acks)
        /\ \A i \in 1 .. Len(<<a>>) + Len(s.acks) :
             l[i] = IF i <= Len(<<a>>) THEN <<a>>[i] ELSE s.acks[i - Len(<<a>>)]
    BY <1>1, ConcatProperties
  <2>3. Len(s.acks) \in Nat BY <1>1, LenProperties
  <2>. HIDE DEF l
  <2>4. ASSUME NEW i \in 1 .. 1 + Len(s.acks)
        PROVE  l[i] = IF i <= 1 THEN a ELSE s.acks[i - 1]
    <3>1. l[i] = IF i <= 1 THEN <<a>>[i] ELSE s.acks[i - 1] BY <2>1, <2>2
    <3>2. i <= 1 => i = 1 BY <2>3
    <3>. QED BY <2>1, <3>1, <3>2
  <2>. QED BY <2>1, <2>2, <2>3, <2>4
<1>3. DOMAIN l = 1 .. 1 + Len(s.acks) /\ DOMAIN s.acks = 1 .. Len(s.acks)
  BY <1>1, <1>2, LenProperties
<1>. HIDE DEF l, u
<1>4. u = [f \in ServerFields |-> u[f]] BY DEF ServerOK, ServerTyped, u
<1>5. /\ u.acks = l
      /\ u.at = s.at /\ u.cwnd = s.cwnd /\ u.data = s.data /\ u.buf = s.buf /\ u.out = s.out
      /\ u.nextseqnum = s.nextseqnum /\ u.window = s.window /\ u.state = s.state
      /\ u.rcvbuf = s.rcvbuf /\ u.sndbuf = s.sndbuf
  BY DEF u, ServerOK, ServerTyped, ServerFields
<1>6. ServerOK(u) BY <1>2, <1>4, <1>5 DEF ServerOK, ServerTyped, AckStack
<1>7. StreamOf(u) = StreamOf(s) BY <1>5 DEF StreamOf
<1>8. AckSet(u) \subseteq AckSet(s) \cup {a}
  <2>1. ASSUME NEW i \in 1 .. 1 + Len(s.acks) PROVE l[i] \in AckSet(s) \cup {a}
    <3>1. CASE i <= 1 BY <1>2, <3>1
    <3>2. CASE ~(i <= 1)
      <4>1. i - 1 \in DOMAIN s.acks BY <1>2, <1>3, <3>2
      <4>. QED BY <1>2, <3>2, <4>1 DEF AckSet
    <3>. QED BY <3>1, <3>2
  <2>. QED BY <1>3, <1>5, <2>1 DEF AckSet
<1>. QED BY <1>5, <1>6, <1>7, <1>8 DEF u, l

\* The acknowledgement of the packet p.
AnswerTo(s, p) == [ack |-> Succ(p.seq), wnd |-> s.cwnd, sent_times |-> p.sent_times]

\* The acknowledgement names the number after the packet's: it does not wrap.
LEMMA AnswerNumber ==
  ASSUME NumbersSuffice, NEW s, ServerOK(s), NEW p \in Packet, Shaped(p)
  PROVE  /\ AnswerTo(s, p) \in Ack /\ AnswerTo(s, p).ack = p.seq + 1
         /\ AnswerTo(s, p).wnd = s.cwnd
<1>1. p.seq \in Nat /\ InitSeq \in Nat /\ Chunks \in Nat /\ SeqSpace \in Nat
      /\ p.kind \in {"SYN", "DATA", "FIN"}
  BY SeqAssumption, TransferAssumption DEF Packet, SeqNums, Kinds
<1>2. p.seq + 1 \in Nat /\ p.seq + 1 < SeqSpace BY <1>1 DEF NumbersSuffice, Shaped
<1>3. Succ(p.seq) = p.seq + 1 BY <1>1, <1>2, ModSmall DEF Succ
<1>4. p.seq + 1 \in SeqNums BY <1>1, <1>2 DEF SeqNums
<1>5. s.cwnd \in Byte /\ p.sent_times \in 0 .. MaxResend BY DEF Packet, ServerOK, ServerTyped
<1>. QED BY <1>3, <1>4, <1>5 DEF AnswerTo, Ack
\* rdt_server_step's input half for a packet that is not the SYN.
LEMMA AcceptShape ==
  ASSUME NumbersSuffice, NEW s, ServerOK(s), ServerShape(s), s.nextseqnum > InitSeq,
         NEW p \in Packet, Shaped(p), p.kind # "SYN", p.seq <= s.nextseqnum + 2 * WindowSize
  PROVE  LET d == Accept(s, p) IN
         /\ ServerOK(d) /\ ServerShape(d) /\ d.nextseqnum >= s.nextseqnum
         /\ Taken(s) \subseteq Taken(d) /\ Taken(d) \subseteq Taken(s) \cup {p.seq}
         /\ d.sndbuf = s.sndbuf /\ d.rcvbuf = s.rcvbuf
         /\ \/ AckSet(d) \subseteq AckSet(s)
            \/ /\ AckSet(d) \subseteq AckSet(s) \cup {AnswerTo(s, p)}
               /\ p.seq \in Taken(d)
         /\ \A m \in Nat : Made(s, m) /\ p.seq < m => Made(d, m)
<1> DEFINE a == AnswerTo(s, p)
           u == [s EXCEPT !.acks = <<a>> \o @]
           d == Accept(s, p)
           below == Cardinality({q \in s.window : q.seq < p.seq})
<1>1. d = IF ~InRange(p.seq, s.nextseqnum) THEN s
          ELSE IF p.seq < s.nextseqnum THEN u ELSE Insert(u, p)
  BY DEF Accept, AnswerTo
<1>2. a \in Ack BY AnswerNumber
<1>. HIDE DEF a
<1>3. /\ ServerOK(u) /\ AckSet(u) \subseteq AckSet(s) \cup {a}
      /\ u.nextseqnum = s.nextseqnum /\ u.window = s.window /\ u.state = s.state
      /\ u.rcvbuf = s.rcvbuf /\ u.sndbuf = s.sndbuf /\ StreamOf(u) = StreamOf(s)
  BY <1>2, Pushed
<1>. HIDE DEF u, d
<1>4. /\ s.nextseqnum \in Nat /\ s.nextseqnum < SeqSpace /\ SeqSpace \in Nat
      /\ s.window \in SUBSET Packet /\ IsFiniteSet(s.window)
      /\ InitSeq \in Nat /\ Chunks \in Nat /\ WindowSize \in Nat /\ WindowSize >= 1
      /\ p.seq \in Nat /\ p.seq < SeqSpace /\ p.seq \in SeqNums
  BY ServerNumbers, PacketNumbers DEF Packet
<1>5. /\ s.state = "running" /\ WindowHolds(s.window, s.nextseqnum)
      /\ s.nextseqnum <= InitSeq + Chunks + 2 /\ StreamHolds(StreamOf(s), s.nextseqnum)
  BY DEF ServerShape
<1>6. ServerShape(u) BY <1>3 DEF ServerShape
<1>7. Taken(u) = Taken(s) BY <1>3 DEF Taken
<1>8. CASE ~InRange(p.seq, s.nextseqnum)
  <2>1. d = s BY <1>1, <1>8
  <2>. QED BY <1>4, <2>1 DEF d
<1>9. CASE InRange(p.seq, s.nextseqnum) /\ p.seq < s.nextseqnum
  <2>1. d = u BY <1>1, <1>9
  <2>2. p.seq \in Taken(u) BY <1>3, <1>4, <1>9 DEF Taken
  <2>3. \A m \in Nat : Made(s, m) => Made(u, m) BY <1>3 DEF Made
  <2>. QED BY <1>3, <1>4, <1>6, <1>7, <2>1, <2>2, <2>3 DEF d, a
<1>10. CASE InRange(p.seq, s.nextseqnum) /\ ~(p.seq < s.nextseqnum)
  <2>1. d = Insert(u, p) BY <1>1, <1>10
  <2>2. s.nextseqnum <= p.seq /\ p.seq < s.nextseqnum + WindowSize
    BY <1>4, <1>10, InRangeAhead
  <2>3. below \in Nat
    <3>1. {q \in s.window : q.seq < p.seq} \in SUBSET s.window OBVIOUS
    <3>. QED BY <1>4, <3>1, FS_Subset, FS_CardinalityType
  <2>4. PICK w \in SUBSET Packet :
          /\ d = Process(u, w, below) /\ IsFiniteSet(w) /\ WindowHolds(w, s.nextseqnum)
          /\ \A q \in w : q \in s.window \/ q = p
          /\ \A q \in s.window : q \in w
          /\ \E q \in w : q.seq = p.seq
    <3>. HIDE DEF below
    <3>1. CASE \E q \in s.window : q.seq = p.seq
      <4>1. d = Process(u, s.window, below) BY <1>3, <2>1, <3>1 DEF Insert, below
      <4>. QED BY <1>4, <1>5, <3>1, <4>1
    <3>2. CASE ~\E q \in s.window : q.seq = p.seq
      <4>1. Cardinality(s.window) <= WindowSize BY <1>4, <1>5, WindowFits
      <4>2. Cardinality(s.window) \in Nat BY <1>4, FS_CardinalityType
      <4>3. ~(Cardinality(s.window) > WindowSize) BY <1>4, <4>1, <4>2
      <4>4. d = Process(u, s.window \cup {p}, below) BY <1>3, <2>1, <3>2, <4>3 DEF Insert, below
      <4>5. s.window \cup {p} \in SUBSET Packet /\ IsFiniteSet(s.window \cup {p})
        BY <1>4, FS_AddElement
      <4>6. WindowHolds(s.window \cup {p}, s.nextseqnum)
        BY <1>5, <2>2, <3>2 DEF WindowHolds
      <4>. QED BY <4>4, <4>5, <4>6
    <3>. QED BY <3>1, <3>2
  <2>. HIDE DEF below
  <2>5. /\ ServerOK(d) /\ ServerShape(d) /\ ServerView(d) = ServerView(u)
        /\ Taken(d) = {x \in SeqNums : x < u.nextseqnum \/ \E q \in w : q.seq = x}
        /\ d.nextseqnum >= u.nextseqnum
        /\ \A m \in Nat : u.nextseqnum <= m /\ (\A q \in w : q.seq < m) => Made(d, m)
    BY <1>3, <1>5, <2>3, <2>4, ProcessShape
  <2>6. Taken(s) \subseteq Taken(d) BY <1>3, <2>4, <2>5 DEF Taken
  <2>7. Taken(d) \subseteq Taken(s) \cup {p.seq} BY <1>3, <2>4, <2>5 DEF Taken
  <2>8. p.seq \in Taken(d) BY <1>4, <2>4, <2>5
  <2>9. d.acks = u.acks /\ d.sndbuf = s.sndbuf /\ d.rcvbuf = s.rcvbuf
    BY <1>3, <2>5 DEF ServerView
  <2>10. AckSet(d) \subseteq AckSet(s) \cup {a} BY <1>3, <2>9 DEF AckSet
  <2>11. ASSUME NEW m \in Nat, Made(s, m), p.seq < m PROVE Made(d, m)
    BY <1>3, <2>4, <2>5, <2>11 DEF Made
  <2>. QED BY <1>3, <2>5, <2>6, <2>7, <2>8, <2>9, <2>10, <2>11 DEF d, a
<1>. QED BY <1>8, <1>9, <1>10
\* A run of one packet, the SYN, ends with it and has no data.
LEMMA SynAlone ==
  ASSUME NEW s, ServerOK(s), s.nextseqnum = InitSeq, NEW p \in Packet,
         p.kind = "SYN", p.seq = InitSeq
  PROVE  RunLength(s, {p}) = 1 /\ Payload({p}, InitSeq, 1) = <<>>
<1>1. /\ InitSeq \in Nat /\ InitSeq < SeqSpace /\ SeqSpace \in Nat
  BY SeqAssumption
<1>2. RunLength(s, {p}) = 1
  <2> DEFINE stop == {n \in 0 .. SeqSpace - s.nextseqnum : ~Processable(s, {p}, n)}
  <2>1. Processable(s, {p}, 0) BY <1>1 DEF Processable
  <2>2. ~Processable(s, {p}, 1) BY <1>1 DEF Processable
  <2>3. 0 \notin stop /\ 1 \in stop /\ stop \in SUBSET Nat BY <1>1, <2>1, <2>2
  <2>4. RunLength(s, {p}) = Min(stop) BY DEF RunLength
  <2>. HIDE DEF stop
  <2>5. Min(stop) \in stop /\ Min(stop) <= 1 BY <2>3, MinIsLeast
  <2> DEFINE m == Min(stop)
  <2>6. m \in Nat /\ m <= 1 /\ m # 0 BY <2>3, <2>5
  <2>. HIDE DEF m
  <2>7. m = 1 BY <2>6
  <2>. QED BY <2>4, <2>7 DEF m
<1>3. Payload({p}, InitSeq, 1) = <<>>
  <2> DEFINE q == Payload({p}, InitSeq, 1)
             e == At({p}, InitSeq)
  <2>1. e \in {p} BY AtIsThere
  <2>2. e.kind = "SYN" BY <2>1
  <2>3. InitSeq + 1 - 1 = InitSeq BY <1>1
  <2>4. DOMAIN q = 1 .. (1 - 1 - 0) BY <2>2, <2>3 DEF Payload
  <2>5. q \in ChunkSeq
    <3>1. {p} \in SUBSET Packet /\ \A m \in 0 .. 1 - 1 : \E r \in {p} : r.seq = InitSeq + m
      BY <1>1
    <3>. QED BY <1>1, <3>1, PayloadOK
  <2>. HIDE DEF q
  <2>6. q \in Seq(0 .. Chunks) BY <2>5 DEF ChunkSeq
  <2>7. Len(q) \in Nat /\ DOMAIN q = 1 .. Len(q) BY <2>6, LenProperties
  <2>8. Len(q) = 0 BY <2>4, <2>7
  <2>9. q = <<>> BY <2>6, <2>8, EmptySeq
  <2>. QED BY <2>9 DEF q
<1>. QED BY <1>2, <1>3

\* The same for the SYN, while nothing else has been sent.
LEMMA AcceptSyn ==
  ASSUME NumbersSuffice, NEW s, ServerOK(s), ServerShape(s), Made(s, InitSeq + 1),
         NEW p \in Packet, Shaped(p), p.kind = "SYN"
  PROVE  LET d == Accept(s, p) IN
         /\ ServerOK(d) /\ ServerShape(d) /\ Made(d, InitSeq + 1)
         /\ InitSeq \in Taken(d) /\ Taken(s) \subseteq Taken(d)
         /\ Taken(d) \subseteq Taken(s) \cup 0 .. InitSeq
         /\ d.sndbuf = s.sndbuf /\ d.rcvbuf = s.rcvbuf /\ d.cwnd = WindowSize + 1
         /\ AckSet(d) \subseteq AckSet(s) \cup {AnswerTo(s, p)}
<1> DEFINE a == AnswerTo(s, p)
           t == [s EXCEPT !.nextseqnum = InitSeq]
           u == [t EXCEPT !.acks = <<a>> \o @]
           d == Accept(s, p)
<1>1. /\ s.nextseqnum \in Nat /\ s.nextseqnum < SeqSpace /\ SeqSpace \in Nat
      /\ s.window \in SUBSET Packet /\ InitSeq \in Nat /\ Chunks \in Nat
      /\ WindowSize \in Nat /\ WindowSize >= 1 /\ WindowSize < 128
      /\ p.seq = InitSeq /\ InitSeq \in SeqNums /\ InitSeq < SeqSpace
      /\ InitSeq + Chunks + 2 < SeqSpace
  BY SeqAssumption, ServerNumbers DEF Shaped, SeqNums, NumbersSuffice
<1>2. s.nextseqnum <= InitSeq + 1 /\ s.window = {} /\ s.state = "running"
  <2>1. \A q \in s.window : q \in Packet /\ Shaped(q) /\ q.kind # "SYN"
    BY <1>1 DEF ServerShape, WindowHolds
  <2>1a. \A q \in s.window : q.seq > InitSeq BY <2>1, KindByNumber
  <2>2. \A q \in s.window : q.seq < InitSeq + 1 /\ q.seq \in Nat BY PacketNumbers, <1>1 DEF Made
  <2>3. s.window = {} BY <1>1, <2>1a, <2>2
  <2>. QED BY <2>3 DEF Made, ServerShape
<1>3. a \in Ack BY AnswerNumber
<1>4. /\ ServerOK(t) /\ t.nextseqnum = InitSeq /\ t.window = {} /\ t.state = "running"
      /\ t.cwnd = s.cwnd /\ t.acks = s.acks /\ t.rcvbuf = s.rcvbuf /\ t.sndbuf = s.sndbuf
      /\ t.out = s.out /\ t.buf = s.buf /\ t.data = s.data
  <2>1. t = [f \in ServerFields |-> t[f]] BY DEF ServerOK, ServerTyped
  <2>2. /\ t.at = s.at /\ t.nextseqnum = InitSeq /\ t.window = s.window /\ t.state = s.state
        /\ t.cwnd = s.cwnd /\ t.acks = s.acks /\ t.rcvbuf = s.rcvbuf /\ t.sndbuf = s.sndbuf
        /\ t.out = s.out /\ t.buf = s.buf /\ t.data = s.data
    BY DEF ServerOK, ServerTyped, ServerFields
  <2>. HIDE DEF t
  <2>3. ServerOK(t) BY <1>1, <2>1, <2>2 DEF ServerOK, ServerTyped
  <2>. QED BY <1>2, <2>2, <2>3
<1>5. a = [ack |-> Succ(p.seq), wnd |-> t.cwnd, sent_times |-> p.sent_times]
  BY <1>4 DEF AnswerTo
<1>. HIDE DEF a
<1>6. d = IF ~InRange(p.seq, t.nextseqnum) THEN t
          ELSE IF p.seq < t.nextseqnum THEN u ELSE Insert(u, p)
  BY <1>1, <1>5 DEF Accept
<1>. HIDE DEF t
<1>7. /\ ServerOK(u) /\ AckSet(u) \subseteq AckSet(t) \cup {a}
      /\ u.nextseqnum = t.nextseqnum /\ u.window = t.window /\ u.state = t.state
      /\ u.rcvbuf = t.rcvbuf /\ u.sndbuf = t.sndbuf /\ StreamOf(u) = StreamOf(t)
  BY <1>3, <1>4, Pushed
<1>. HIDE DEF u, d
<1>8. d = Insert(u, p)
  <2>1. InRange(p.seq, t.nextseqnum) BY <1>1, <1>4, InRangeHere
  <2>. QED BY <1>1, <1>4, <1>6, <2>1
<1>9. d = Process(u, {p}, 0)
  <2>1. {q \in u.window : q.seq < p.seq} = {} /\ u.window \cup {p} = {p}
        /\ u.window = {}
    BY <1>4, <1>7
  <2>2. Cardinality({}) = 0 BY FS_EmptySet
  <2>3. ~(Cardinality(u.window) > WindowSize) BY <1>1, <2>1, <2>2
  <2>. QED BY <1>8, <2>1, <2>2, <2>3 DEF Insert
<1>10. RunLength(u, {p}) = 1 /\ Payload({p}, InitSeq, 1) = <<>>
  BY <1>1, <1>4, <1>7, SynAlone
<1>11. /\ ServerView(d) = ServerView(u)
       /\ d.window = RestOf({p}, InitSeq, 1)
       /\ d.data = u.data \o <<>>
       /\ d.nextseqnum = (InitSeq + 1) % SeqSpace
       /\ d.cwnd = (WindowSize - 0 + 1) % 256
  <2>0. {p} \in SUBSET Packet /\ 0 \in Nat /\ u.nextseqnum = InitSeq /\ ServerOK(u)
    BY <1>4, <1>7
  <2>1. ServerView(d) = ServerView(u) BY <1>9, <2>0, ProcessView
  <2>2. d.window = RestOf({p}, u.nextseqnum, RunLength(u, {p})) BY <1>9, <2>0, ProcessView
  <2>3. d.data = u.data \o Payload({p}, u.nextseqnum, RunLength(u, {p}))
    BY <1>9, <2>0, ProcessView
  <2>4. d.nextseqnum = (u.nextseqnum + RunLength(u, {p})) % SeqSpace
    BY <1>9, <2>0, ProcessView
  <2>5. d.cwnd = (WindowSize - 0 + RunLength(u, {p})) % 256 BY <1>9, <2>0, ProcessView
  <2>. QED BY <1>10, <2>0, <2>1, <2>2, <2>3, <2>4, <2>5
<1>12. ServerOK(d) BY AcceptOK DEF d
<1>13. d.window = {} /\ d.nextseqnum = InitSeq + 1 /\ d.cwnd = WindowSize + 1
  <2>1. InitSeq \in InitSeq .. InitSeq + 1 - 1 BY <1>1
  <2>2. RestOf({p}, InitSeq, 1) = {} BY <1>1, <2>1 DEF RestOf
  <2>3. InitSeq + 1 \in Nat /\ InitSeq + 1 < SeqSpace BY <1>1
  <2>4. (InitSeq + 1) % SeqSpace = InitSeq + 1 BY <1>1, <2>3, ModSmall
  <2>5. (WindowSize - 0 + 1) % 256 = WindowSize + 1 BY <1>1
  <2>. QED BY <1>11, <2>2, <2>4, <2>5
<1>14. StreamOf(d) = StreamOf(s)
  <2>1. u.data \in Seq(0 .. Chunks) BY <1>7, ServerNumbers DEF ChunkSeq
  <2>2. d.data = u.data BY <1>11, <2>1, ConcatEmptySeq
  <2>3. d.out = u.out /\ d.buf = u.buf BY <1>11 DEF ServerView
  <2>. QED BY <1>4, <1>7, <2>2, <2>3 DEF StreamOf
<1>15. StreamHolds(StreamOf(d), d.nextseqnum)
  <2>1. PassedTo(s.nextseqnum) = 0 /\ PassedTo(InitSeq + 1) = 0 BY <1>1, <1>2 DEF PassedTo
  <2>. QED BY <1>13, <1>14, <2>1 DEF ServerShape, StreamHolds
<1>16. d.state = "running" BY <1>4, <1>7, <1>11 DEF ServerView
<1>17. ServerShape(d) BY <1>1, <1>13, <1>15, <1>16 DEF ServerShape, WindowHolds
<1>18. Made(d, InitSeq + 1) BY <1>1, <1>13 DEF Made
<1>19. \A x \in SeqNums : x \in Nat BY SeqAssumption DEF SeqNums
<1>20. Taken(d) = {x \in SeqNums : x < InitSeq + 1} BY <1>13 DEF Taken
<1>21. Taken(s) = {x \in SeqNums : x < s.nextseqnum} BY <1>2 DEF Taken
<1>22. /\ InitSeq \in Taken(d) /\ Taken(s) \subseteq Taken(d)
       /\ Taken(d) \subseteq Taken(s) \cup 0 .. InitSeq
  <2>1. \A x \in Nat : (x < InitSeq + 1 => x \in 0 .. InitSeq) /\ (x < s.nextseqnum => x < InitSeq + 1)
    BY <1>1, <1>2
  <2>2. InitSeq \in Taken(d) BY <1>1, <1>20
  <2>3. Taken(s) \subseteq Taken(d) BY <1>19, <1>20, <1>21, <2>1
  <2>4. Taken(d) \subseteq 0 .. InitSeq BY <1>19, <1>20, <2>1
  <2>. QED BY <2>2, <2>3, <2>4
<1>23. AckSet(d) \subseteq AckSet(s) \cup {a}
  BY <1>4, <1>7, <1>11 DEF AckSet, ServerView
<1>24. d.sndbuf = s.sndbuf /\ d.rcvbuf = s.rcvbuf BY <1>4, <1>7, <1>11 DEF ServerView
<1>. QED BY <1>12, <1>13, <1>17, <1>18, <1>22, <1>23, <1>24 DEF d, a
-----------------------------------------------------------------------------
\* What the shape of a server depends on, besides the stream.
Core(s) == <<s.nextseqnum, s.window, s.state, s.cwnd>>

\* The server's shape depends on its core and on its stream.
LEMMA SameServer ==
  ASSUME NEW s, NEW d, Core(d) = Core(s)
  PROVE  /\ Taken(d) = Taken(s) /\ d.nextseqnum = s.nextseqnum /\ d.cwnd = s.cwnd
         /\ \A m : Made(d, m) <=> Made(s, m)
         /\ ServerShape(s) /\ StreamHolds(StreamOf(d), s.nextseqnum) => ServerShape(d)
<1>1. d.nextseqnum = s.nextseqnum /\ d.window = s.window /\ d.state = s.state /\ d.cwnd = s.cwnd
  BY DEF Core
<1>. QED BY <1>1 DEF Taken, Made, ServerShape

\* Acknowledgements the server still has, waiting or being sent.
Pending(s) == AckSet(s) \cup s.sndbuf

\* Popping an acknowledgement moves it to the send buffer.
LEMMA PopAckView ==
  ASSUME NEW s, ServerOK(s)
  PROVE  LET d == PopAck(s) IN
         /\ ServerOK(d) /\ Core(d) = Core(s) /\ StreamOf(d) = StreamOf(s)
         /\ d.rcvbuf = s.rcvbuf /\ Pending(d) \subseteq Pending(s)
<1>1. CASE s.acks = <<>> BY <1>1 DEF PopAck
<1>2. CASE s.acks # <<>>
  <2> DEFINE h == {Head(s.acks)}
             l == Tail(s.acks)
             d == PopAck(s)
  <2>1. s.acks \in Seq(Ack) BY DEF ServerOK, ServerTyped, AckStack
  <2>2. /\ h \in SUBSET Ack /\ l \in Seq(Ack) /\ Len(l) = Len(s.acks) - 1
        /\ \A i \in 1 .. Len(l) : l[i] = s.acks[i + 1]
        /\ Len(s.acks) \in Nat \ {0} /\ DOMAIN s.acks = 1 .. Len(s.acks)
        /\ DOMAIN l = 1 .. Len(l)
    BY <1>2, <2>1, HeadTailProperties, LenProperties, EmptySeq
  <2>3. h = {s.acks[1]} BY <1>2
  <2>4. d = [s EXCEPT !.sndbuf = h, !.acks = l] BY <1>2 DEF PopAck
  <2>. HIDE DEF h, l, d
  <2>5. d = [f \in ServerFields |-> d[f]] BY <2>4 DEF ServerOK, ServerTyped
  <2>6. /\ d.sndbuf = h /\ d.acks = l /\ d.at = s.at
        /\ d.nextseqnum = s.nextseqnum /\ d.window = s.window /\ d.state = s.state
        /\ d.cwnd = s.cwnd /\ d.rcvbuf = s.rcvbuf
        /\ d.out = s.out /\ d.buf = s.buf /\ d.data = s.data
    BY <2>4 DEF ServerOK, ServerTyped, ServerFields
  <2>7. ServerOK(d) BY <2>2, <2>5, <2>6 DEF ServerOK, ServerTyped, AckStack
  <2>8. \A i \in 1 .. Len(l) : l[i] \in AckSet(s)
    <3>1. \A i \in 1 .. Len(l) : i + 1 \in DOMAIN s.acks BY <2>2
    <3>. QED BY <2>2, <3>1 DEF AckSet
  <2>9. s.acks[1] \in AckSet(s) BY <2>2 DEF AckSet
  <2>10. AckSet(d) \subseteq AckSet(s) BY <2>2, <2>6, <2>8 DEF AckSet
  <2>11. Pending(d) \subseteq Pending(s) BY <2>3, <2>6, <2>9, <2>10 DEF Pending
  <2>. QED BY <2>6, <2>7, <2>11 DEF Core, StreamOf, d
<1>. QED BY <1>1, <1>2

\* A whole rdt_server_step, for a packet that is at most two windows ahead, or the
\* SYN as long as nothing that follows it has been made: the server keeps its shape,
\* never goes back, accepts at most one number more, and acknowledges only what it
\* has accepted.
LEMMA ServerStepShape ==
  ASSUME NumbersSuffice, NEW s, ServerOK(s), ServerShape(s),
         \A p \in s.rcvbuf : /\ Shaped(p)
                             /\ p.kind = "SYN" => Made(s, InitSeq + 1)
                             /\ p.kind # "SYN" => /\ s.nextseqnum > InitSeq
                                                  /\ p.seq <= s.nextseqnum + 2 * WindowSize
  PROVE  LET d == ServerStep(s) IN
         /\ ServerOK(d) /\ ServerShape(d) /\ d.rcvbuf = {} /\ d.nextseqnum >= s.nextseqnum
         /\ Taken(s) \subseteq Taken(d)
         /\ \E x \in SeqNums : Taken(d) \subseteq Taken(s) \cup 0 .. InitSeq \cup {x}
         /\ \A a \in Pending(d) :
              \/ a \in Pending(s)
              \/ \E p \in s.rcvbuf : p.seq \in Taken(d) /\ a.ack = p.seq + 1 /\ a.wnd = s.cwnd
         /\ s.rcvbuf = {} => Pending(d) \subseteq Pending(s) /\ d.cwnd = s.cwnd
         /\ \A p \in s.rcvbuf : p.kind = "SYN" /\ (\A q \in s.rcvbuf : q = p)
              => d.cwnd = WindowSize + 1 /\ InitSeq \in Taken(d)
         /\ \A m \in Nat : Made(s, m) /\ (\A p \in s.rcvbuf : p.seq < m) => Made(d, m)
<1> DEFINE p == CHOOSE q \in s.rcvbuf : TRUE
           a == Accept(s, p)
           t == IF s.rcvbuf = {} THEN s ELSE [a EXCEPT !.rcvbuf = {}]
           d == ServerStep(s)
<1>1. ServerOK(d) BY ServerStepOK
<1>2. InitSeq \in SeqNums BY SeqAssumption DEF SeqNums
<1>3. /\ ServerOK(t) /\ ServerShape(t) /\ t.rcvbuf = {} /\ t.nextseqnum >= s.nextseqnum
      /\ Taken(s) \subseteq Taken(t)
      /\ \E x \in SeqNums : Taken(t) \subseteq Taken(s) \cup 0 .. InitSeq \cup {x}
      /\ t.sndbuf = s.sndbuf
      /\ \A b \in AckSet(t) :
            \/ b \in AckSet(s)
            \/ \E q \in s.rcvbuf : q.seq \in Taken(t) /\ b.ack = q.seq + 1 /\ b.wnd = s.cwnd
      /\ s.rcvbuf = {} => t = s
      /\ \A x \in s.rcvbuf : x.kind = "SYN" /\ (\A q \in s.rcvbuf : q = x)
              => t.cwnd = WindowSize + 1 /\ InitSeq \in Taken(t)
      /\ \A m \in Nat : Made(s, m) /\ (\A q \in s.rcvbuf : q.seq < m) => Made(t, m)
  <2>1. CASE s.rcvbuf = {} BY <1>2, <2>1, ServerNumbers
  <2>2. CASE s.rcvbuf # {}
    <3>1. p \in s.rcvbuf /\ p \in Packet BY <2>2 DEF ServerOK, ServerTyped
    <3>. HIDE DEF p
    <3>2. /\ ServerOK(a) /\ ServerShape(a) /\ Taken(s) \subseteq Taken(a)
          /\ a.nextseqnum >= s.nextseqnum
          /\ \E x \in SeqNums : Taken(a) \subseteq Taken(s) \cup 0 .. InitSeq \cup {x}
          /\ a.sndbuf = s.sndbuf
          /\ \/ AckSet(a) \subseteq AckSet(s)
             \/ AckSet(a) \subseteq AckSet(s) \cup {AnswerTo(s, p)} /\ p.seq \in Taken(a)
          /\ p.kind = "SYN" => a.cwnd = WindowSize + 1 /\ InitSeq \in Taken(a)
          /\ \A m \in Nat : Made(s, m) /\ p.seq < m => Made(a, m)
      <4>0. p.seq \in SeqNums /\ Shaped(p) BY <3>1 DEF Packet
      <4>1. CASE p.kind = "SYN"
        <5>1. /\ ServerOK(a) /\ ServerShape(a) /\ Made(a, InitSeq + 1)
              /\ InitSeq \in Taken(a) /\ Taken(s) \subseteq Taken(a)
              /\ Taken(a) \subseteq Taken(s) \cup 0 .. InitSeq
              /\ a.sndbuf = s.sndbuf /\ a.cwnd = WindowSize + 1
              /\ AckSet(a) \subseteq AckSet(s) \cup {AnswerTo(s, p)}
          BY <3>1, <4>0, <4>1, AcceptSyn
        <5>2. p.seq = InitSeq BY <4>0, <4>1 DEF Shaped
        <5>3. ASSUME NEW m \in Nat, p.seq < m PROVE Made(a, m)
          <6>1. InitSeq \in Nat /\ a.nextseqnum \in Nat BY <5>1, ServerNumbers
          <6>2. \A q \in a.window : q.seq \in Nat BY <5>1, ServerNumbers
          <6>. QED BY <5>1, <5>2, <5>3, <6>1, <6>2 DEF Made
        <5>4. a.nextseqnum >= s.nextseqnum
          <6>1. Made(s, InitSeq + 1) BY <3>1, <4>1
          <6>2. /\ InitSeq \in Nat /\ a.nextseqnum \in Nat /\ s.nextseqnum \in Nat
                /\ a.window \in SUBSET Packet
            BY <5>1, ServerNumbers
          <6>. HIDE DEF a
          <6>3. \A q \in a.window : q.seq # InitSeq
            <7>1. SUFFICES ASSUME NEW q \in a.window PROVE q.seq # InitSeq OBVIOUS
            <7>2. q \in Packet /\ Shaped(q) /\ q.kind # "SYN"
              BY <5>1, <6>2 DEF ServerShape, WindowHolds
            <7>. QED BY <6>2, <7>2, KindByNumber
          <6>4. InitSeq < a.nextseqnum BY <5>1, <6>3 DEF Taken
          <6>. QED BY <6>1, <6>2, <6>4 DEF Made
        <5>. HIDE DEF a
        <5>. QED BY <1>2, <5>1, <5>2, <5>3, <5>4
      <4>2. CASE p.kind # "SYN"
        <5>1. /\ ServerOK(a) /\ ServerShape(a) /\ a.nextseqnum >= s.nextseqnum
              /\ Taken(s) \subseteq Taken(a) /\ Taken(a) \subseteq Taken(s) \cup {p.seq}
              /\ a.sndbuf = s.sndbuf
              /\ \/ AckSet(a) \subseteq AckSet(s)
                 \/ /\ AckSet(a) \subseteq AckSet(s) \cup {AnswerTo(s, p)}
                    /\ p.seq \in Taken(a)
              /\ \A m \in Nat : Made(s, m) /\ p.seq < m => Made(a, m)
          BY <3>1, <4>0, <4>2, AcceptShape
        <5>. HIDE DEF a
        <5>. QED BY <4>0, <4>2, <5>1
      <4>. QED BY <4>1, <4>2
    <3>3. t = [a EXCEPT !.rcvbuf = {}] BY <2>2
    <3>4. AnswerTo(s, p).ack = p.seq + 1 /\ AnswerTo(s, p).wnd = s.cwnd
      BY <3>1, AnswerNumber
    <3>. HIDE DEF a, t
    <3>5. t = [f \in ServerFields |-> t[f]] BY <3>2, <3>3 DEF ServerOK, ServerTyped
    <3>6. /\ t.at = a.at /\ t.nextseqnum = a.nextseqnum /\ t.window = a.window
          /\ t.state = a.state /\ t.cwnd = a.cwnd /\ t.acks = a.acks /\ t.sndbuf = a.sndbuf
          /\ t.out = a.out /\ t.buf = a.buf /\ t.data = a.data /\ t.rcvbuf = {}
      BY <3>2, <3>3 DEF ServerOK, ServerTyped, ServerFields
    <3>7. ServerOK(t) BY <3>2, <3>5, <3>6 DEF ServerOK, ServerTyped
    <3>8. Core(t) = Core(a) /\ StreamOf(t) = StreamOf(a) /\ AckSet(t) = AckSet(a)
      BY <3>6 DEF Core, StreamOf, AckSet
    <3>9. ServerShape(t) /\ Taken(t) = Taken(a) /\ t.cwnd = a.cwnd
          /\ \A m : Made(t, m) <=> Made(a, m)
      <4>1. StreamHolds(StreamOf(t), a.nextseqnum) BY <3>2, <3>8 DEF ServerShape
      <4>. QED BY <3>2, <3>8, <4>1, SameServer
    <3>10. \A b \in AckSet(t) :
            \/ b \in AckSet(s)
            \/ \E q \in s.rcvbuf : q.seq \in Taken(t) /\ b.ack = q.seq + 1 /\ b.wnd = s.cwnd
      BY <3>1, <3>2, <3>4, <3>8, <3>9
    <3>11. \A x \in s.rcvbuf : x.kind = "SYN" /\ (\A q \in s.rcvbuf : q = x)
              => t.cwnd = WindowSize + 1 /\ InitSeq \in Taken(t)
      BY <3>1, <3>2, <3>9
    <3>12. \A m \in Nat : Made(s, m) /\ (\A q \in s.rcvbuf : q.seq < m) => Made(t, m)
      BY <3>1, <3>2, <3>9
    <3>. QED BY <2>2, <3>2, <3>6, <3>7, <3>9, <3>10, <3>11, <3>12
  <2>. QED BY <2>1, <2>2
<1>4. d = IF s.sndbuf # {} \/ t.state = "aborted" THEN t ELSE PopAck(t) BY DEF ServerStep
<1>. HIDE DEF t, d
<1>5. /\ Core(d) = Core(t) /\ StreamOf(d) = StreamOf(t)
      /\ d.rcvbuf = {} /\ Pending(d) \subseteq Pending(t)
  <2>1. CASE d = t BY <1>3, <2>1
  <2>2. CASE d = PopAck(t) BY <1>3, <2>2, PopAckView
  <2>. QED BY <1>4, <2>1, <2>2
<1>6. /\ ServerShape(d) /\ Taken(d) = Taken(t) /\ d.cwnd = t.cwnd
      /\ d.nextseqnum = t.nextseqnum
      /\ \A m : Made(d, m) <=> Made(t, m)
  <2>1. StreamHolds(StreamOf(d), t.nextseqnum) BY <1>3, <1>5 DEF ServerShape
  <2>. QED BY <1>3, <1>5, <2>1, SameServer
<1>7. \A b \in Pending(d) :
              \/ b \in Pending(s)
              \/ \E q \in s.rcvbuf : q.seq \in Taken(d) /\ b.ack = q.seq + 1 /\ b.wnd = s.cwnd
  BY <1>3, <1>5, <1>6 DEF Pending
<1>. QED BY <1>1, <1>3, <1>5, <1>6, <1>7 DEF d
-----------------------------------------------------------------------------
\* rdt_data_read moves data on towards the user.
LEMMA DataReadShape ==
  ASSUME NEW s, ServerOK(s)
  PROVE  LET d == DataRead(s) IN
         /\ ServerOK(d) /\ Core(d) = Core(s) /\ StreamOf(d) = StreamOf(s)
         /\ d.acks = s.acks /\ d.sndbuf = s.sndbuf /\ d.rcvbuf = s.rcvbuf
<1> DEFINE n == Min({SrvBufMax - Len(s.buf), Len(s.data)})
           h == SubSeq(s.data, 1, n)
           b == s.buf \o h
           r == SubSeq(s.data, n + 1, Len(s.data))
           d == DataRead(s)
<1>0. d = [s EXCEPT !.buf = b, !.data = r] BY DEF DataRead
<1>1. /\ s.buf \in Seq(0 .. Chunks) /\ s.data \in Seq(0 .. Chunks) /\ s.out \in Seq(0 .. Chunks)
      /\ Len(s.buf) \in Nat /\ Len(s.data) \in Nat /\ Len(s.buf) <= SrvBufMax
      /\ SrvBufMax \in Nat
  BY ServerAssumption, LenProperties DEF ServerOK, ServerTyped, ChunkSeq
<1>2. n \in 0 .. Len(s.data)
  <2> DEFINE S == {SrvBufMax - Len(s.buf), Len(s.data)}
  <2>1. S \in SUBSET Nat /\ S # {} BY <1>1
  <2>. HIDE DEF S
  <2>2. Min(S) \in S /\ \A y \in S : Min(S) <= y BY <2>1, MinIsLeast
  <2>3. Len(s.data) \in S BY DEF S
  <2>4. n = Min(S) BY DEF S
  <2>. HIDE DEF n
  <2>5. n \in Nat /\ n <= Len(s.data) BY <2>1, <2>2, <2>3, <2>4
  <2>. QED BY <1>1, <2>5
<1>. HIDE DEF n
<1>3. h \in Seq(0 .. Chunks) /\ r \in Seq(0 .. Chunks)
  <2>1. SubSeq(s.data, 1, n) \in ChunkSeq /\ SubSeq(s.data, n + 1, Len(s.data)) \in ChunkSeq
    BY <1>1, <1>2, SplitChunks DEF ChunkSeq
  <2>. QED BY <2>1 DEF ChunkSeq
<1>4. h \o r = s.data
  <2>1. 1 \in 1 .. Len(s.data) + 1 /\ n \in 1 - 1 .. Len(s.data) /\ Len(s.data) \in n .. Len(s.data)
    BY <1>1, <1>2
  <2>2. h \o r = SubSeq(s.data, 1, Len(s.data)) BY <1>1, <2>1, ConcatAdjacentSubSeq
  <2>. QED BY <1>1, <2>2, SubSeqFull
<1>. HIDE DEF h, r
<1>5. StreamOf(d) = StreamOf(s)
  <2> DEFINE x == s.out
             y == s.buf
             q == s.out \o s.buf
  <2>1. q \in Seq(0 .. Chunks) /\ x \in Seq(0 .. Chunks) /\ y \in Seq(0 .. Chunks)
    BY <1>1, ConcatProperties
  <2>. HIDE DEF q, x, y
  <2>2. (x \o y) \o h = x \o (y \o h) BY <1>3, <2>1, ConcatAssociative
  <2>3. (q \o h) \o r = q \o (h \o r)
    <3>1. q \in Seq(0 .. Chunks) /\ h \in Seq(0 .. Chunks) /\ r \in Seq(0 .. Chunks)
      BY <1>3, <2>1
    <3>. QED BY <3>1, ConcatAssociative
  <2>. HIDE DEF d, b
  <2>4. d.out = s.out /\ d.buf = b /\ d.data = r
    BY <1>0 DEF ServerOK, ServerTyped, ServerFields
  <2>5. StreamOf(d) = (s.out \o b) \o r BY <2>4 DEF StreamOf
  <2>6. s.out \o b = q \o h BY <2>2 DEF b, q, x, y
  <2>7. StreamOf(s) = q \o s.data BY DEF StreamOf, q
  <2>. QED BY <1>4, <2>3, <2>5, <2>6, <2>7
<1>6. ServerOK(d) BY DataReadOK
<1>. HIDE DEF b, d
<1>7. /\ Core(d) = Core(s)
      /\ d.acks = s.acks /\ d.sndbuf = s.sndbuf /\ d.rcvbuf = s.rcvbuf
  BY <1>0 DEF ServerOK, ServerTyped, ServerFields, Core
<1>. QED BY <1>5, <1>6, <1>7 DEF d

\* Writing to stdout: what was taken over keeps its length; when fwrite is
\* never short, it is the same data.
LEMMA WriteStdoutShape ==
  ASSUME NEW s, ServerOK(s), ServerShape(s), NEW n \in WriteLengths(s)
  PROVE  LET d == WriteStdout(s, n) IN
         /\ ServerOK(d) /\ Core(d) = Core(s) /\ ServerShape(d)
         /\ d.acks = s.acks /\ d.sndbuf = s.sndbuf /\ d.rcvbuf = s.rcvbuf
         /\ Len(StreamOf(d)) = Len(StreamOf(s))
         /\ ~ShortWrites => StreamOf(d) = StreamOf(s)
<1> DEFINE h == SubSeq(s.buf, 1, n)
           o == s.out \o h
           b == SubSeq(s.buf, 1, Len(s.buf) - n)
           d == WriteStdout(s, n)
<1>0. d = [s EXCEPT !.out = o, !.buf = b] BY DEF WriteStdout
<1>1. /\ s.buf \in Seq(0 .. Chunks) /\ s.data \in Seq(0 .. Chunks) /\ s.out \in Seq(0 .. Chunks)
      /\ Len(s.buf) \in Nat /\ Len(s.data) \in Nat /\ Len(s.out) \in Nat
  BY LenProperties DEF ServerOK, ServerTyped, ChunkSeq
<1>2. n \in 0 .. Len(s.buf) /\ Len(s.buf) - n \in 0 .. Len(s.buf) /\ n \in Nat
      /\ (~ShortWrites => n = Len(s.buf))
  BY <1>1 DEF WriteLengths
<1>3. h \in Seq(0 .. Chunks) /\ Len(h) = n /\ b \in Seq(0 .. Chunks) /\ Len(b) = Len(s.buf) - n
  <2>1. s.buf \in ChunkSeq BY <1>1 DEF ChunkSeq
  <2>2. h \in ChunkSeq /\ Len(h) = n BY <1>2, <2>1, SplitChunks
  <2>3. b \in ChunkSeq /\ Len(b) = Len(s.buf) - n BY <1>2, <2>1, SplitChunks
  <2>. QED BY <2>2, <2>3 DEF ChunkSeq
<1>4. o \in Seq(0 .. Chunks) /\ Len(o) = Len(s.out) + n BY <1>1, <1>3, ConcatProperties
<1>5. ~ShortWrites => h = s.buf /\ b = <<>>
  <2>1. ASSUME ~ShortWrites PROVE h = s.buf BY <1>1, <1>2, <2>1, SubSeqFull
  <2>2. ASSUME ~ShortWrites PROVE Len(b) = 0 BY <1>1, <1>2, <1>3, <2>2
  <2>3. ASSUME ~ShortWrites PROVE b = <<>> BY <1>3, <2>2, <2>3, EmptySeq
  <2>. QED BY <2>1, <2>3
<1>6. ServerOK(d) BY <1>2, WriteStdoutOK
<1>. HIDE DEF d, h, b
<1>7. /\ Core(d) = Core(s) /\ d.out = o /\ d.buf = b /\ d.data = s.data
      /\ d.acks = s.acks /\ d.sndbuf = s.sndbuf /\ d.rcvbuf = s.rcvbuf
  BY <1>0 DEF ServerOK, ServerTyped, ServerFields, Core
<1>8. Len(StreamOf(d)) = Len(StreamOf(s))
  <2>1. /\ Len(StreamOf(d)) = Len(d.out) + Len(d.buf) + Len(d.data)
        /\ Len(StreamOf(s)) = Len(s.out) + Len(s.buf) + Len(s.data)
    BY <1>6, StreamChunks
  <2> DEFINE k == Len(s.buf)
             j == Len(s.out)
             l == Len(s.data)
  <2>. HIDE DEF o
  <2>2. Len(d.out) = j + n /\ Len(d.buf) = k - n /\ Len(d.data) = l
    BY <1>3, <1>4, <1>7
  <2>3. Len(StreamOf(s)) = j + k + l BY <2>1
  <2>4. j \in Nat /\ k \in Nat /\ l \in Nat /\ n \in Nat BY <1>1, <1>2
  <2>. HIDE DEF j, k, l
  <2>5. j + k + l = (j + n) + (k - n) + l BY <2>4
  <2>. QED BY <2>1, <2>2, <2>3, <2>5
<1>9. ASSUME ~ShortWrites PROVE StreamOf(d) = StreamOf(s)
  <2>1. h = s.buf /\ b = <<>> BY <1>5, <1>9
  <2>2. o = s.out \o s.buf BY <2>1
  <2>3. o \o b = o BY <1>4, <2>1, ConcatEmptySeq
  <2>. QED BY <1>7, <2>2, <2>3 DEF StreamOf
<1>10. StreamOf(d) \in ChunkSeq BY <1>6, StreamChunks
<1>11. StreamHolds(StreamOf(d), s.nextseqnum)
  <2>1. StreamHolds(StreamOf(s), s.nextseqnum) BY DEF ServerShape
  <2>. QED BY <1>8, <1>9, <1>10, <2>1 DEF StreamHolds
<1>12. ServerShape(d) BY <1>7, <1>11, SameServer
<1>. QED BY <1>6, <1>7, <1>8, <1>9, <1>12 DEF d

-----------------------------------------------------------------------------

\* What the shape of a client depends on.
ClientCore(c) ==
  <<c.nextseqnum, c.packed, c.eof_sent, c.eof_rcvd, c.window, c.window_free>>

\* The client's shape depends on its core only.
LEMMA SameClient ==
  ASSUME NEW c, NEW d, ClientCore(d) = ClientCore(c)
  PROVE  /\ ClientShape(d) <=> ClientShape(c)
         /\ Delivered(d) = Delivered(c) /\ Base(d) = Base(c) /\ (Opening(d) <=> Opening(c))
         /\ d.nextseqnum = c.nextseqnum /\ d.window = c.window
<1>1. /\ d.nextseqnum = c.nextseqnum /\ d.packed = c.packed /\ d.eof_sent = c.eof_sent
      /\ d.eof_rcvd = c.eof_rcvd /\ d.window = c.window /\ d.window_free = c.window_free
  BY DEF ClientCore
<1>2. Base(d) = Base(c) BY <1>1 DEF Base
<1>. QED BY <1>1, <1>2, Zenon DEF ClientShape, Delivered, Opening

\* The client's part around select leaves the window alone.
LEMMA FeedView ==
  ASSUME NEW c, ClientOK(c)
  PROVE  LET d == Feed(c) IN
         /\ ClientOK(d) /\ ClientCore(d) = ClientCore(c)
         /\ d.sndbuf = c.sndbuf /\ d.rcvbuf = c.rcvbuf
         /\ d.state = c.state \/ (d.state = "done" /\ c.eof_rcvd)
<1> DEFINE d == Feed(c)
           n == c.datalen + c.nbuf
<1>0. ClientOK(d) BY FeedOK
<1>1. \/ d = [c EXCEPT !.datalen = n, !.nbuf = 0]
      \/ d = c
      \/ d = [c EXCEPT !.state = "done"] /\ c.eof_rcvd
      \/ d = [c EXCEPT !.eof_send = TRUE]
  BY DEF Feed
<1>. HIDE DEF d, n
<1>2. /\ ClientCore(d) = ClientCore(c)
      /\ d.sndbuf = c.sndbuf /\ d.rcvbuf = c.rcvbuf
      /\ d.state = c.state \/ (d.state = "done" /\ c.eof_rcvd)
  BY <1>1 DEF ClientOK, ClientTyped, ClientFields, ClientCore
<1>. QED BY <1>0, <1>2 DEF d

\* Reading stdin leaves the window alone, too,
LEMMA ReadStdinView ==
  ASSUME NEW c, ClientOK(c)
  PROVE  LET d == ReadStdin(c) IN
         /\ ClientOK(d) /\ ClientCore(d) = ClientCore(c)
         /\ d.sndbuf = c.sndbuf /\ d.rcvbuf = c.rcvbuf /\ d.state = c.state
<1> DEFINE room == CliBufMax - c.nbuf
           n == Min({room, c.stdin})
           eof == n < room
           k == c.nbuf + n
           l == c.stdin - n
           d == ReadStdin(c)
<1>0. ClientOK(d) BY ReadStdinOK
<1>1. d = [c EXCEPT !.nbuf = k, !.stdin = l, !.eof = eof] BY Zenon DEF ReadStdin
<1>. HIDE DEF n, eof, k, l, d
<1>2. /\ ClientCore(d) = ClientCore(c)
      /\ d.sndbuf = c.sndbuf /\ d.rcvbuf = c.rcvbuf /\ d.state = c.state
  BY <1>1 DEF ClientOK, ClientTyped, ClientFields, ClientCore
<1>. QED BY <1>0, <1>2 DEF d

\* and so does the client's whole turn around select, which moves datagrams.
LEMMA ClientSelectView ==
  ASSUME TypeInv, NEW ready, ClientSelect(ready)
  PROVE  /\ ClientCore(cli') = ClientCore(cli) /\ UNCHANGED srv
         /\ cli.state = "running"
         /\ cli'.state = "running" \/ (cli'.state = "done" /\ cli.eof_rcvd)
         /\ \/ cli'.sndbuf = cli.sndbuf /\ toServer' = toServer
            \/ cli'.sndbuf = {} /\ toServer' = toServer \cup cli.sndbuf
         /\ \/ cli'.rcvbuf = cli.rcvbuf /\ toClient' = toClient
            \/ \E a \in toClient : cli'.rcvbuf = {a} /\ toClient' = toClient \ {a}
<1> DEFINE c == Feed(cli)
           d == IF "stdin" \in ready THEN ReadStdin(c) ELSE c
           e == IF "out" \in ready THEN [d EXCEPT !.sndbuf = {}] ELSE d
<1>1. /\ ClientOK(c) /\ ClientCore(c) = ClientCore(cli)
      /\ c.sndbuf = cli.sndbuf /\ c.rcvbuf = cli.rcvbuf
      /\ c.state = cli.state \/ (c.state = "done" /\ cli.eof_rcvd)
  BY FeedView DEF TypeInv
<1>2. /\ cli.state = "running" /\ UNCHANGED srv
      /\ toServer' = IF "out" \in ready THEN toServer \cup cli.sndbuf ELSE toServer
      /\ \/ cli' = [e EXCEPT !.at = "step"] /\ toClient' = toClient
         \/ \E a \in toClient : /\ cli' = [e EXCEPT !.at = "step", !.rcvbuf = {a}]
                                /\ toClient' = toClient \ {a}
  BY DEF ClientSelect
<1>. HIDE DEF c
<1>3. /\ ClientOK(d) /\ ClientCore(d) = ClientCore(cli)
      /\ d.sndbuf = cli.sndbuf /\ d.rcvbuf = cli.rcvbuf
      /\ d.state = cli.state \/ (d.state = "done" /\ cli.eof_rcvd)
  <2>1. CASE "stdin" \in ready BY <1>1, <2>1, ReadStdinView
  <2>2. CASE "stdin" \notin ready BY <1>1, <2>2
  <2>. QED BY <2>1, <2>2
<1>. HIDE DEF d
<1>4. /\ ClientOK(e) /\ ClientCore(e) = ClientCore(cli)
      /\ e.sndbuf = (IF "out" \in ready THEN {} ELSE cli.sndbuf) /\ e.rcvbuf = cli.rcvbuf
      /\ e.state = cli.state \/ (e.state = "done" /\ cli.eof_rcvd)
  <2>1. CASE "out" \in ready
    <3>1. e = [d EXCEPT !.sndbuf = {}] BY <2>1
    <3>2. ClientOK([d EXCEPT !.sndbuf = {}]) BY <1>3, ClientBuffers
    <3>. HIDE DEF e
    <3>3. ClientCore(e) = ClientCore(d) /\ e.sndbuf = {} /\ e.rcvbuf = d.rcvbuf
          /\ e.state = d.state
      BY <1>3, <3>1 DEF ClientOK, ClientTyped, ClientFields, ClientCore
    <3>. QED BY <1>3, <2>1, <3>1, <3>2, <3>3
  <2>2. CASE "out" \notin ready BY <1>3, <2>2
  <2>. QED BY <2>1, <2>2
<1>. HIDE DEF e
<1>5. \/ cli' = [e EXCEPT !.at = "step"] /\ toClient' = toClient
      \/ \E a \in toClient : /\ cli' = [e EXCEPT !.at = "step", !.rcvbuf = {a}]
                             /\ toClient' = toClient \ {a}
  BY <1>2
<1>6. ClientCore(cli') = ClientCore(e) /\ cli'.sndbuf = e.sndbuf /\ cli'.state = e.state
      /\ \/ cli'.rcvbuf = e.rcvbuf /\ toClient' = toClient
         \/ \E a \in toClient : cli'.rcvbuf = {a} /\ toClient' = toClient \ {a}
  BY <1>4, <1>5 DEF ClientOK, ClientTyped, ClientFields, ClientCore
<1>. QED BY <1>2, <1>4, <1>6

\* The server's turn around select moves datagrams, and chunks along its stream.
LEMMA ServerSelectView ==
  ASSUME TypeInv, ServerShape(srv), NEW ready, ServerSelect(ready)
  PROVE  /\ ServerShape(srv') /\ Core(srv') = Core(srv) /\ srv'.acks = srv.acks
         /\ UNCHANGED cli
         /\ Len(StreamOf(srv')) = Len(StreamOf(srv))
         /\ ~ShortWrites => StreamOf(srv') = StreamOf(srv)
         /\ \/ srv'.sndbuf = srv.sndbuf /\ toClient' = toClient
            \/ srv'.sndbuf = {} /\ toClient' = toClient \cup srv.sndbuf
         /\ \/ srv'.rcvbuf = srv.rcvbuf /\ toServer' = toServer
            \/ \E p \in toServer : srv'.rcvbuf = {p} /\ toServer' = toServer \ {p}
<1> DEFINE s == DataRead(srv)
           t(n) == IF "stdout" \in ready THEN WriteStdout(s, n) ELSE s
           u(n) == IF "out" \in ready THEN [t(n) EXCEPT !.sndbuf = {}] ELSE t(n)
<1>1. PICK n \in IF "stdout" \in ready THEN WriteLengths(s) ELSE {0} :
        \/ srv' = [u(n) EXCEPT !.at = "step"] /\ toServer' = toServer
        \/ \E p \in toServer : /\ srv' = [u(n) EXCEPT !.at = "step", !.rcvbuf = {p}]
                               /\ toServer' = toServer \ {p}
  BY DEF ServerSelect
<1>2. /\ UNCHANGED cli
      /\ toClient' = IF "out" \in ready THEN toClient \cup srv.sndbuf ELSE toClient
  BY DEF ServerSelect
<1>3. /\ ServerOK(s) /\ Core(s) = Core(srv) /\ StreamOf(s) = StreamOf(srv)
      /\ s.acks = srv.acks /\ s.sndbuf = srv.sndbuf /\ s.rcvbuf = srv.rcvbuf
  BY DataReadShape DEF TypeInv
<1>. HIDE DEF s
<1>4. ServerShape(s) BY <1>3, SameServer DEF ServerShape
<1> DEFINE x == t(n)
           y == u(n)
<1>5. /\ ServerOK(x) /\ Core(x) = Core(srv) /\ ServerShape(x)
      /\ x.acks = srv.acks /\ x.sndbuf = srv.sndbuf /\ x.rcvbuf = srv.rcvbuf
      /\ Len(StreamOf(x)) = Len(StreamOf(srv))
      /\ ~ShortWrites => StreamOf(x) = StreamOf(srv)
  <2>1. CASE "stdout" \in ready
    <3>1. n \in WriteLengths(s) BY <2>1
    <3>2. x = WriteStdout(s, n) BY <2>1
    <3>. HIDE DEF x
    <3>. QED BY <1>3, <1>4, <3>1, <3>2, WriteStdoutShape
  <2>2. CASE "stdout" \notin ready
    <3>1. x = s BY <2>2
    <3>. HIDE DEF x
    <3>. QED BY <1>3, <1>4, <3>1
  <2>. QED BY <2>1, <2>2
<1>6. y = IF "out" \in ready THEN [x EXCEPT !.sndbuf = {}] ELSE x OBVIOUS
<1>7. \/ srv' = [y EXCEPT !.at = "step"] /\ toServer' = toServer
      \/ \E p \in toServer : /\ srv' = [y EXCEPT !.at = "step", !.rcvbuf = {p}]
                             /\ toServer' = toServer \ {p}
  BY <1>1
<1>. HIDE DEF x, y
<1>8. /\ ServerOK(y) /\ Core(y) = Core(srv) /\ StreamOf(y) = StreamOf(x)
      /\ y.acks = srv.acks /\ y.rcvbuf = srv.rcvbuf
      /\ y.sndbuf = IF "out" \in ready THEN {} ELSE srv.sndbuf
  <2>1. CASE "out" \in ready
    <3>1. y = [x EXCEPT !.sndbuf = {}] BY <1>6, <2>1
    <3>2. ServerOK(y) BY <1>5, <3>1, ServerBuffers
    <3>3. Core(y) = Core(x) /\ StreamOf(y) = StreamOf(x) /\ y.acks = x.acks
          /\ y.rcvbuf = x.rcvbuf /\ y.sndbuf = {}
      BY <1>5, <3>1 DEF ServerOK, ServerTyped, ServerFields, Core, StreamOf
    <3>. QED BY <1>5, <2>1, <3>2, <3>3
  <2>2. CASE "out" \notin ready
    <3>1. y = x BY <1>6, <2>2
    <3>. QED BY <1>5, <2>2, <3>1
  <2>. QED BY <2>1, <2>2
<1>9. /\ Core(srv') = Core(y) /\ StreamOf(srv') = StreamOf(y)
      /\ srv'.acks = y.acks /\ srv'.sndbuf = y.sndbuf
      /\ \/ srv'.rcvbuf = y.rcvbuf /\ toServer' = toServer
         \/ \E p \in toServer : srv'.rcvbuf = {p} /\ toServer' = toServer \ {p}
  BY <1>7, <1>8 DEF ServerOK, ServerTyped, ServerFields, Core, StreamOf
<1>10. ServerShape(srv')
  <2>1. Core(srv') = Core(x) BY <1>5, <1>8, <1>9
  <2>2. StreamHolds(StreamOf(srv'), x.nextseqnum) BY <1>5, <1>8, <1>9 DEF ServerShape
  <2>. QED BY <1>5, <2>1, <2>2, SameServer
<1>. QED BY <1>2, <1>5, <1>8, <1>9, <1>10
-----------------------------------------------------------------------------
\* Every packet, and every acknowledgement, that is anywhere between the windows.
Packets == cli.sndbuf \cup toServer \cup srv.rcvbuf

Acks == Pending(srv) \cup toClient \cup cli.rcvbuf

(***************************************************************************)
(* The opening: until its SYN is acknowledged the client has at most one   *)
(* datagram on the whole way there and back.  It sends the SYN, and once   *)
(* its timer has run out, with nothing of it left, sends it again.  The    *)
(* acknowledgement advertises WindowSize nodes, or WindowSize + 1 when the *)
(* first answer was lost.                                                  *)
(***************************************************************************)
OneSyn ==
  /\ \A p, q \in Packets : p = q
  /\ srv.rcvbuf # {} => toServer = {} /\ cli.sndbuf = {}
  /\ toServer # {} => cli.sndbuf = {}
  /\ Acks # {} => Packets = {}
  /\ cli.window[1].flag = "usable" => Packets = {} /\ Acks = {}
  /\ srv.cwnd <= WindowSize + 1
  /\ \A a \in Acks : a.wnd <= WindowSize + 1

(***************************************************************************)
(* The inductive invariant: what each side's window looks like, and how    *)
(* the two are related through the datagrams.  A packet is one the client  *)
(* has made, an acknowledgement is of a packet the server has accepted,    *)
(* and what the client counts as delivered the server has accepted.        *)
(***************************************************************************)
DeliveryInv ==
  /\ ClientShape(cli) /\ ServerShape(srv) /\ Made(srv, cli.nextseqnum)
  /\ \A p \in Packets : Shaped(p) /\ p.seq < cli.nextseqnum
  /\ \A a \in Acks : a.ack > InitSeq /\ a.ack - 1 \in Taken(srv)
  /\ Delivered(cli) \subseteq Taken(srv)
  /\ Opening(cli) => OneSyn
  /\ ~Opening(cli) => \A p \in Packets : p.kind # "SYN"

\* Rdt's own name for the acknowledgements under way.
LEMMA AcksAre == AcksSomewhere = Acks
BY DEF AcksSomewhere, Acks, Pending, AckSet

\* Datagrams are of the types of datagrams.
LEMMA Sorts ==
  ASSUME TypeInv
  PROVE  Packets \subseteq Packet /\ Acks \subseteq Ack
<1>1. srv.acks \in Seq(Ack) BY DEF TypeInv, ServerOK, ServerTyped, AckStack
<1>2. AckSet(srv) \subseteq Ack BY <1>1, ElementOfSeq, LenProperties DEF AckSet
<1>. QED BY <1>2 DEF TypeInv, ClientOK, ClientTyped, ServerOK, ServerTyped, Packets, Acks, Pending

\* The numbers of a client whose SYN has been acknowledged, and of one whose has not.
LEMMA ClientPast ==
  ASSUME NEW c, ClientOK(c), ClientShape(c), ~Opening(c)
  PROVE  InitSeq \in Delivered(c) /\ Base(c) - 1 \in Delivered(c) /\ Base(c) > InitSeq
         /\ c.nextseqnum <= Base(c) + WindowSize + 1
<1> DEFINE B == Base(c)
           N == c.nextseqnum
           L == Len(c.window)
<1>1. /\ B \in Nat /\ B >= InitSeq /\ B + L = N /\ N \in Nat /\ L \in Nat
      /\ InitSeq \in Nat /\ WindowSize \in Nat /\ c.window_free \in Nat
  BY NextNumber, ClientNumbers
<1>2. B > InitSeq BY <1>1 DEF Opening
<1>3. \A i \in 1 .. L : c.window[i].pkt.seq = B + i - 1 BY WindowKinds
<1>4. L + c.window_free <= WindowSize + 1 BY DEF ClientShape
<1>. HIDE DEF B, N, L
<1>5. InitSeq \in InitSeq .. N - 1 /\ B - 1 \in InitSeq .. N - 1 BY <1>1, <1>2
<1>6. \A i \in 1 .. L : c.window[i].pkt.seq # InitSeq /\ c.window[i].pkt.seq # B - 1
  BY <1>1, <1>2, <1>3
<1>7. N <= B + WindowSize + 1 BY <1>1, <1>4
<1>. QED BY <1>2, <1>5, <1>6, <1>7 DEF Delivered, B, N, L

\* In the opening the window holds the SYN alone.
LEMMA ClientOpening ==
  ASSUME NEW c, ClientOK(c), ClientShape(c), Opening(c)
  PROVE  InitSeq \notin Delivered(c) /\ c.nextseqnum = InitSeq + 1 /\ c.window[1].pkt.seq = InitSeq
         /\ Len(c.window) = 1 /\ c.window[1].pkt.kind = "SYN"
<1>1. Len(c.window) = 1 /\ c.window[1].flag # "acked" BY DEF ClientShape
<1>2. Base(c) = InitSeq /\ InitSeq \in Nat /\ Base(c) + Len(c.window) = c.nextseqnum
  BY NextNumber, ClientNumbers DEF Opening
<1>3. 1 \in 1 .. Len(c.window) BY <1>1
<1>4. c.window[1].pkt.seq = Base(c) + 1 - 1 /\ c.window[1].pkt.kind = "SYN"
  BY <1>3, WindowKinds
<1>. QED BY <1>1, <1>2, <1>3, <1>4 DEF Delivered

\* While the SYN is not acknowledged it is the only packet there is.
LEMMA OpeningFacts ==
  ASSUME NumbersSuffice, TypeInv, DeliveryInv, Opening(cli)
  PROVE  /\ \A p \in Packets : p.kind = "SYN" /\ p.seq = InitSeq
         /\ \A a \in Acks : a.ack = InitSeq + 1
         /\ Made(srv, InitSeq + 1)
<1>1. cli.nextseqnum = InitSeq + 1 BY ClientOpening DEF TypeInv, DeliveryInv
<1>2. InitSeq \in Nat /\ Chunks \in Nat BY SeqAssumption, TransferAssumption
<1>3. ASSUME NEW p \in Packets PROVE p.kind = "SYN" /\ p.seq = InitSeq
  <2>1. p \in Packet /\ Shaped(p) /\ p.seq < InitSeq + 1 BY <1>1, Sorts DEF DeliveryInv
  <2>2. p.kind = "SYN" \/ p.seq > InitSeq BY <2>1, KindByNumber
  <2>3. p.seq \in Nat BY <2>1, SeqAssumption DEF Packet, SeqNums
  <2>. QED BY <1>2, <2>1, <2>2, <2>3 DEF Shaped
<1>4. Made(srv, InitSeq + 1) BY <1>1 DEF DeliveryInv
<1>5. \A x \in Taken(srv) : x <= InitSeq
  <2>1. SUFFICES ASSUME NEW x \in Taken(srv) PROVE x <= InitSeq OBVIOUS
  <2>2. x \in Nat /\ (x < srv.nextseqnum \/ \E q \in srv.window : q.seq = x)
    BY SeqAssumption DEF Taken, SeqNums
  <2>3. srv.nextseqnum \in Nat BY ServerNumbers DEF TypeInv
  <2>. QED BY <1>2, <1>4, <2>2, <2>3 DEF Made
<1>6. ASSUME NEW a \in Acks PROVE a.ack = InitSeq + 1
  <2>1. a.ack \in Nat BY Sorts, AckNumbers
  <2>2. a.ack > InitSeq /\ a.ack - 1 <= InitSeq BY <1>5 DEF DeliveryInv
  <2>. QED BY <1>2, <2>1, <2>2
<1>. QED BY <1>3, <1>4, <1>6

\* Afterwards no packet is more than two windows ahead of the server.
LEMMA PastFacts ==
  ASSUME NumbersSuffice, TypeInv, DeliveryInv, ~Opening(cli)
  PROVE  /\ srv.nextseqnum > InitSeq
         /\ \A p \in Packets : p.kind # "SYN" /\ p.seq <= srv.nextseqnum + 2 * WindowSize
         /\ Base(cli) <= srv.nextseqnum + WindowSize
<1> DEFINE B == Base(cli)
           N == srv.nextseqnum
<1>1. /\ InitSeq \in Taken(srv) /\ B - 1 \in Taken(srv) /\ B > InitSeq
      /\ cli.nextseqnum <= B + WindowSize + 1
  BY ClientPast DEF TypeInv, DeliveryInv
<1>2. /\ N \in Nat /\ InitSeq \in Nat /\ WindowSize \in Nat /\ srv.window \in SUBSET Packet
      /\ B \in Nat /\ cli.nextseqnum \in Nat
  BY ServerNumbers, NextNumber, ClientNumbers DEF TypeInv, DeliveryInv
<1>3. \A q \in srv.window : q.seq > InitSeq /\ q.seq < N + WindowSize /\ q.seq \in Nat
  <2>1. SUFFICES ASSUME NEW q \in srv.window
                 PROVE  q.seq > InitSeq /\ q.seq < N + WindowSize /\ q.seq \in Nat OBVIOUS
  <2>2. q \in Packet BY <1>2
  <2>3. Shaped(q) /\ q.kind # "SYN" /\ q.seq < N + WindowSize
    BY DEF DeliveryInv, ServerShape, WindowHolds
  <2>. QED BY <2>2, <2>3, KindByNumber
<1>4. /\ InitSeq < N \/ \E q \in srv.window : q.seq = InitSeq
      /\ B - 1 < N \/ \E q \in srv.window : q.seq = B - 1
  BY <1>1 DEF Taken
<1>. HIDE DEF B, N
<1>5. N > InitSeq BY <1>2, <1>3, <1>4
<1>6. B <= N + WindowSize BY <1>2, <1>3, <1>4, SeqAssumption
<1>7. \A p \in Packets : p.kind # "SYN" /\ p.seq < cli.nextseqnum /\ p.seq \in Nat
  BY Sorts, PacketNumbers DEF DeliveryInv
<1>8. \A p \in Packets : p.seq <= N + 2 * WindowSize BY <1>1, <1>2, <1>6, <1>7
<1>. QED BY <1>5, <1>6, <1>7, <1>8 DEF B, N

\* A step of the client keeps the invariant, and counts as delivered only what the
\* acknowledgement it read is for.
LEMMA ClientTurnDelivery ==
  ASSUME NumbersSuffice, TypeInv, FinInv, DeliveryInv,
         NEW expired \in Expirations, ClientTurn(expired)
  PROVE  /\ DeliveryInv' /\ Delivered(cli) \subseteq Delivered(cli')
         /\ \A x \in Delivered(cli') : x \in Delivered(cli) \/ \E a \in cli.rcvbuf : a.ack = x + 1
         /\ cli.state = "running" /\ cli'.state \in {"running", "failed"} /\ cli'.rcvbuf = {}
         /\ cli'.nextseqnum >= cli.nextseqnum /\ UNCHANGED srv
<1> DEFINE d == ClientStep(cli, expired)
<1>1. /\ cli.at = "step" /\ cli.state = "running" /\ cli' = [d EXCEPT !.at = "select"]
      /\ srv' = srv /\ toServer' = toServer /\ toClient' = toClient
  BY DEF ClientTurn
<1>2. \A p \in cli.sndbuf : Shaped(p) /\ p.seq < cli.nextseqnum BY DEF DeliveryInv, Packets
<1>3. Opening(cli) => \A a \in cli.rcvbuf : a.ack = InitSeq + 1 /\ a.wnd <= WindowSize + 1
  BY OpeningFacts DEF DeliveryInv, OneSyn, Acks
<1>4. /\ ClientOK(cli) /\ ClientShape(cli) /\ EndOfInput(cli)
      /\ cli.eof_send => cli.nbuf = 0 \/ cli.datalen > 0
  BY <1>1 DEF TypeInv, DeliveryInv, FinInv
<1>5. /\ ClientOK(d) /\ ClientShape(d) /\ d.nextseqnum >= cli.nextseqnum
      /\ Delivered(cli) \subseteq Delivered(d)
      /\ \A x \in Delivered(d) : x \in Delivered(cli) \/ \E a \in cli.rcvbuf : a.ack = x + 1
      /\ d.rcvbuf = {} /\ d.state \in {cli.state, "failed"}
      /\ \A p \in d.sndbuf : Shaped(p) /\ p.seq < d.nextseqnum
      /\ ~Opening(d) => \A p \in d.sndbuf : p \in cli.sndbuf \/ p.kind # "SYN"
      /\ Opening(d) =>
              /\ Opening(cli) /\ cli.rcvbuf = {}
              /\ cli.sndbuf # {} => d = cli
              /\ cli.sndbuf = {} =>
                   /\ \A p, q \in d.sndbuf : p = q
                   /\ d.sndbuf # {} =>
                        cli.window[1].flag = "usable" /\ d.window[1].flag = "buffered"
                   /\ d.window[1].flag = "usable" =>
                        \/ cli.window[1].flag = "usable" /\ d.sndbuf = {}
                        \/ /\ cli.window[1].flag = "buffered" /\ cli.window[1].pkt.seq \in expired
                           /\ d.sndbuf = {}
  BY <1>2, <1>3, <1>4, ClientStepShape
<1>. HIDE DEF d
<1>6. /\ ClientCore(cli') = ClientCore(d) /\ cli'.sndbuf = d.sndbuf /\ cli'.rcvbuf = {}
      /\ cli'.state = d.state
  BY <1>1, <1>5 DEF ClientOK, ClientTyped, ClientFields, ClientCore
<1>7. /\ ClientShape(cli') /\ Delivered(cli') = Delivered(d) /\ (Opening(cli') <=> Opening(d))
      /\ cli'.nextseqnum = d.nextseqnum /\ cli'.window = d.window
  BY <1>5, <1>6, SameClient
<1>8. Packets' = d.sndbuf \cup toServer \cup srv.rcvbuf BY <1>1, <1>6 DEF Packets
<1>9. Acks' = Pending(srv) \cup toClient BY <1>1, <1>6 DEF Acks
<1>10. \A x \in Delivered(d) : x \in Nat
  BY <1>5, ClientNumbers DEF Delivered
<1>11. Delivered(d) \subseteq Taken(srv)
  <2>1. SUFFICES ASSUME NEW x \in Delivered(d) PROVE x \in Taken(srv) OBVIOUS
  <2>2. CASE x \in Delivered(cli) BY <2>2 DEF DeliveryInv
  <2>3. ASSUME NEW a \in cli.rcvbuf, a.ack = x + 1 PROVE x \in Taken(srv)
    <3>1. a.ack - 1 \in Taken(srv) BY DEF DeliveryInv, Acks
    <3>2. a.ack - 1 = x BY <1>10, <2>3
    <3>. QED BY <3>1, <3>2
  <2>. QED BY <1>5, <2>2, <2>3
<1>12. Made(srv, d.nextseqnum)
  <2>1. cli.nextseqnum \in Nat /\ d.nextseqnum \in Nat /\ srv.nextseqnum \in Nat
        /\ \A q \in srv.window : q.seq \in Nat
    BY <1>5, ClientNumbers, ServerNumbers DEF TypeInv
  <2>. QED BY <1>5, <2>1 DEF DeliveryInv, Made
<1>13. \A p \in Packets' : Shaped(p) /\ p.seq < d.nextseqnum
  <2>1. \A p \in Packets : Shaped(p) /\ p.seq < cli.nextseqnum /\ p.seq \in Nat
    BY Sorts, PacketNumbers DEF DeliveryInv
  <2>2. cli.nextseqnum \in Nat /\ d.nextseqnum \in Nat BY <1>5, ClientNumbers DEF TypeInv
  <2>3. \A p \in toServer \cup srv.rcvbuf : Shaped(p) /\ p.seq < d.nextseqnum
    BY <1>5, <2>1, <2>2 DEF Packets
  <2>. QED BY <1>5, <1>8, <2>3
<1>14. Acks' \subseteq Acks BY <1>9 DEF Acks
<1>15. ASSUME ~Opening(d) PROVE \A p \in Packets' : p.kind # "SYN"
  <2>1. CASE ~Opening(cli)
    <3>1. \A p \in Packets : p.kind # "SYN" BY <2>1 DEF DeliveryInv
    <3>. QED BY <1>5, <1>8, <1>15, <3>1 DEF Packets
  <2>2. CASE Opening(cli)
    <3>1. InitSeq \in Delivered(d) BY <1>5, <1>15, ClientPast
    <3>2. InitSeq \notin Delivered(cli) BY <1>4, <2>2, ClientOpening
    <3>3. cli.rcvbuf # {} BY <1>5, <3>1, <3>2
    <3>4. Packets = {} BY <2>2, <3>3 DEF DeliveryInv, OneSyn, Acks
    <3>. QED BY <1>5, <1>8, <1>15, <3>4 DEF Packets
  <2>. QED BY <2>1, <2>2
<1>16. ASSUME Opening(d) PROVE OneSyn'
  <2>1. Opening(cli) /\ cli.rcvbuf = {} /\ OneSyn BY <1>5, <1>16 DEF DeliveryInv
  <2>2. Acks' = Acks BY <1>9, <2>1 DEF Acks
  <2>3. srv'.cwnd <= WindowSize + 1 /\ \A a \in Acks' : a.wnd <= WindowSize + 1
    BY <1>1, <2>1, <2>2 DEF OneSyn
  <2>4. CASE cli.sndbuf # {}
    <3>1. d = cli BY <1>5, <1>16, <2>4
    <3>2. Packets' = Packets /\ cli'.sndbuf = cli.sndbuf /\ cli'.window = cli.window
      BY <1>6, <1>7, <1>8, <3>1 DEF Packets
    <3>. QED BY <1>1, <2>1, <2>2, <3>2 DEF OneSyn
  <2>5. CASE cli.sndbuf = {} /\ d.sndbuf # {}
    <3>1. /\ cli.window[1].flag = "usable" /\ d.window[1].flag = "buffered"
          /\ \A p, q \in d.sndbuf : p = q
      BY <1>5, <1>16, <2>5
    <3>2. Packets = {} /\ Acks = {} BY <2>1, <3>1 DEF OneSyn
    <3>3. toServer = {} /\ srv.rcvbuf = {} BY <3>2 DEF Packets
    <3>4. Packets' = d.sndbuf BY <1>8, <3>3
    <3>5. Acks' = {} BY <2>2, <3>2
    <3>6. cli'.window[1].flag # "usable" BY <1>7, <3>1
    <3>. QED BY <1>1, <2>3, <3>1, <3>3, <3>4, <3>5, <3>6 DEF OneSyn
  <2>6. CASE cli.sndbuf = {} /\ d.sndbuf = {}
    <3>1. Packets' = Packets /\ cli'.sndbuf = {} BY <1>6, <1>8, <2>6 DEF Packets
    <3>2. ASSUME d.window[1].flag = "usable" PROVE Packets = {} /\ Acks = {}
      <4>1. CASE cli.window[1].flag = "usable" BY <2>1, <4>1 DEF OneSyn
      <4>2. CASE cli.window[1].pkt.seq \in expired
        <5> DEFINE buffered == {e \in {cli.window[i] : i \in DOMAIN cli.window} : e.flag = "buffered"}
                   able == {e.pkt.seq : e \in {e \in buffered : e.pkt.kind \in Late \/ ~UnderWay(e.pkt)}}
        <5>1. cli.window[1].pkt.seq \in able BY <4>2 DEF Expirations
        <5>2. PICK e \in buffered : e.pkt.seq = cli.window[1].pkt.seq
                                   /\ (e.pkt.kind \in Late \/ ~UnderWay(e.pkt))
          BY <5>1
        <5>3. DOMAIN cli.window = {1} /\ cli.window[1].pkt.kind = "SYN"
              /\ cli.window[1].pkt.seq = InitSeq
          BY <1>4, <2>1, ClientOpening, ClientNumbers
        <5>4. e = cli.window[1] BY <5>2, <5>3
        <5>5. ~UnderWay(cli.window[1].pkt) BY <5>2, <5>3, <5>4 DEF NumbersSuffice
        <5>6. \A p \in Packets : p.seq = InitSeq BY <2>1, OpeningFacts
        <5>7. Packets = {} BY <5>3, <5>5, <5>6 DEF UnderWay, Packets
        <5>8. \A a \in Acks : a.ack = InitSeq + 1 BY <2>1, OpeningFacts
        <5>9. Succ(InitSeq) = InitSeq + 1
          BY SeqAssumption, TransferAssumption, ModSmall DEF Succ, NumbersSuffice
        <5>10. Acks = {} BY <5>3, <5>5, <5>8, <5>9, AcksAre DEF UnderWay
        <5>. QED BY <5>7, <5>10
      <4>. QED BY <1>5, <1>16, <2>6, <3>2, <4>1, <4>2
    <3>3. cli'.window[1].flag = "usable" => Packets' = {} /\ Acks' = {}
      BY <1>7, <2>2, <3>1, <3>2
    <3>. QED BY <1>1, <2>1, <2>2, <3>1, <3>3, <2>6 DEF OneSyn
  <2>. QED BY <2>4, <2>5, <2>6
<1>17. /\ ServerShape(srv') /\ Made(srv', cli'.nextseqnum)
       /\ Delivered(cli') \subseteq Taken(srv')
  BY <1>1, <1>7, <1>11, <1>12 DEF DeliveryInv
<1>18. \A p \in Packets' : Shaped(p) /\ p.seq < cli'.nextseqnum BY <1>7, <1>13
<1>19. \A a \in Acks' : a.ack > InitSeq /\ a.ack - 1 \in Taken(srv')
  BY <1>1, <1>14 DEF DeliveryInv
<1>20. /\ Opening(cli') => OneSyn'
       /\ ~Opening(cli') => \A p \in Packets' : p.kind # "SYN"
  BY <1>7, <1>15, <1>16
<1>21. DeliveryInv' BY <1>7, <1>17, <1>18, <1>19, <1>20 DEF DeliveryInv
<1>. QED BY <1>1, <1>5, <1>6, <1>7, <1>21

\* The rest of the client's turn keeps it,
LEMMA ClientSelectDelivery ==
  ASSUME NumbersSuffice, TypeInv, DeliveryInv, NEW ready, ClientSelect(ready)
  PROVE  DeliveryInv' /\ Delivered(cli') = Delivered(cli)
<1>1. /\ ClientCore(cli') = ClientCore(cli) /\ srv' = srv
      /\ \/ cli'.sndbuf = cli.sndbuf /\ toServer' = toServer
         \/ cli'.sndbuf = {} /\ toServer' = toServer \cup cli.sndbuf
      /\ \/ cli'.rcvbuf = cli.rcvbuf /\ toClient' = toClient
         \/ \E a \in toClient : cli'.rcvbuf = {a} /\ toClient' = toClient \ {a}
  BY ClientSelectView
<1>2. /\ ClientShape(cli') <=> ClientShape(cli)
      /\ Delivered(cli') = Delivered(cli) /\ (Opening(cli') <=> Opening(cli))
      /\ cli'.nextseqnum = cli.nextseqnum /\ cli'.window = cli.window
  BY <1>1, SameClient
<1>3. Packets' = Packets BY <1>1 DEF Packets
<1>4. Acks' \subseteq Acks BY <1>1 DEF Acks
<1>5. OneSyn => OneSyn' BY <1>1, <1>2, <1>3, <1>4 DEF OneSyn, Packets
<1>. QED BY <1>1, <1>2, <1>3, <1>4, <1>5 DEF DeliveryInv

\* a step of the server keeps it, and accepts at most one number more,
LEMMA ServerTurnDelivery ==
  ASSUME NumbersSuffice, TypeInv, DeliveryInv, ServerTurn
  PROVE  /\ DeliveryInv' /\ Taken(srv) \subseteq Taken(srv') /\ srv'.nextseqnum >= srv.nextseqnum
         /\ \E x \in SeqNums : Taken(srv') \subseteq Taken(srv) \cup 0 .. InitSeq \cup {x}
<1> DEFINE d == ServerStep(srv)
<1>1. srv' = [d EXCEPT !.at = "select"] /\ UNCHANGED <<cli, toServer, toClient>>
  BY DEF ServerTurn
<1>2. ServerOK(srv) /\ ServerShape(srv) BY DEF TypeInv, DeliveryInv
<1>3. \A p \in srv.rcvbuf : /\ Shaped(p)
                            /\ p.kind = "SYN" => Made(srv, InitSeq + 1)
                            /\ p.kind # "SYN" => /\ srv.nextseqnum > InitSeq
                                                 /\ p.seq <= srv.nextseqnum + 2 * WindowSize
  <2>1. \A p \in srv.rcvbuf : Shaped(p) BY DEF DeliveryInv, Packets
  <2>2. CASE Opening(cli) BY <2>1, <2>2, OpeningFacts DEF Packets
  <2>3. CASE ~Opening(cli) BY <2>1, <2>3, PastFacts DEF Packets
  <2>. QED BY <2>2, <2>3
<1>4. /\ ServerOK(d) /\ ServerShape(d) /\ d.rcvbuf = {} /\ d.nextseqnum >= srv.nextseqnum
      /\ Taken(srv) \subseteq Taken(d)
      /\ \E x \in SeqNums : Taken(d) \subseteq Taken(srv) \cup 0 .. InitSeq \cup {x}
      /\ \A a \in Pending(d) :
              \/ a \in Pending(srv)
              \/ \E p \in srv.rcvbuf : p.seq \in Taken(d) /\ a.ack = p.seq + 1 /\ a.wnd = srv.cwnd
      /\ srv.rcvbuf = {} => Pending(d) \subseteq Pending(srv) /\ d.cwnd = srv.cwnd
      /\ \A p \in srv.rcvbuf : p.kind = "SYN" /\ (\A q \in srv.rcvbuf : q = p)
              => d.cwnd = WindowSize + 1 /\ InitSeq \in Taken(d)
      /\ \A m \in Nat : Made(srv, m) /\ (\A p \in srv.rcvbuf : p.seq < m) => Made(d, m)
  BY <1>2, <1>3, ServerStepShape
<1>. HIDE DEF d
<1>5. /\ Core(srv') = Core(d) /\ StreamOf(srv') = StreamOf(d) /\ Pending(srv') = Pending(d)
      /\ srv'.rcvbuf = {}
  BY <1>1, <1>4 DEF ServerOK, ServerTyped, ServerFields, Core, StreamOf, Pending, AckSet
<1>6. /\ Taken(srv') = Taken(d) /\ srv'.cwnd = d.cwnd /\ srv'.nextseqnum = d.nextseqnum
      /\ \A m : Made(srv', m) <=> Made(d, m)
      /\ ServerShape(srv')
  <2>1. StreamHolds(StreamOf(srv'), d.nextseqnum) BY <1>4, <1>5 DEF ServerShape
  <2>. QED BY <1>4, <1>5, <2>1, SameServer
<1>7. Made(srv', cli.nextseqnum)
  <2>1. cli.nextseqnum \in Nat BY ClientNumbers DEF TypeInv
  <2>2. Made(d, cli.nextseqnum) BY <1>4, <2>1 DEF DeliveryInv, Packets
  <2>. QED BY <1>6, <2>2
<1>8. Packets' = cli.sndbuf \cup toServer /\ Packets' \subseteq Packets
  BY <1>1, <1>5 DEF Packets
<1>9. Acks' = Pending(d) \cup toClient \cup cli.rcvbuf BY <1>1, <1>5 DEF Acks
<1>10. \A p \in srv.rcvbuf : p.seq \in Nat BY Sorts, PacketNumbers DEF Packets
<1>11. \A a \in Acks' : a.ack > InitSeq /\ a.ack - 1 \in Taken(srv')
  <2>1. SUFFICES ASSUME NEW a \in Acks' PROVE a.ack > InitSeq /\ a.ack - 1 \in Taken(srv')
    OBVIOUS
  <2>2. CASE a \in Acks BY <1>4, <1>6, <2>2 DEF DeliveryInv
  <2>3. ASSUME NEW p \in srv.rcvbuf, p.seq \in Taken(d), a.ack = p.seq + 1
        PROVE  a.ack > InitSeq /\ a.ack - 1 \in Taken(srv')
    <3>1. p.seq \in Nat /\ InitSeq \in Nat /\ p \in Packet /\ Shaped(p)
      BY <1>3, <1>10, Sorts, SeqAssumption DEF Packets
    <3>2. p.seq >= InitSeq BY <3>1, KindByNumber DEF Shaped
    <3>3. a.ack - 1 = p.seq BY <2>3, <3>1
    <3>. QED BY <1>6, <2>3, <3>1, <3>2, <3>3
  <2>. QED BY <1>4, <1>9, <2>2, <2>3 DEF Acks
<1>12. ASSUME Opening(cli) PROVE OneSyn'
  <2>1. OneSyn BY <1>12 DEF DeliveryInv
  <2>2. CASE srv.rcvbuf = {}
    <3>1. Acks' \subseteq Acks /\ srv'.cwnd = srv.cwnd BY <1>4, <1>6, <1>9, <2>2 DEF Acks
    <3>. QED BY <1>1, <1>5, <1>8, <2>1, <3>1 DEF OneSyn
  <2>3. CASE srv.rcvbuf # {}
    <3>1. Packets' = {} BY <1>8, <2>1, <2>3 DEF OneSyn
    <3>2. Packets # {} BY <2>3 DEF Packets
    <3>3. Acks = {} /\ cli.window[1].flag # "usable" BY <2>1, <3>2 DEF OneSyn
    <3>4. PICK p \in srv.rcvbuf : TRUE BY <2>3
    <3>5. p.kind = "SYN" /\ \A q \in srv.rcvbuf : q = p
      BY <1>12, <2>1, OpeningFacts DEF OneSyn, Packets
    <3>6. srv'.cwnd = WindowSize + 1 BY <1>4, <1>6, <3>5
    <3>7. \A a \in Acks' : a.wnd <= WindowSize + 1 BY <1>4, <1>9, <2>1, <3>3 DEF OneSyn, Acks
    <3>8. WindowSize + 1 <= WindowSize + 1 BY SeqAssumption
    <3>9. /\ \A p1, q1 \in Packets' : p1 = q1
          /\ toServer' = {} /\ cli'.sndbuf = {}
          /\ Acks' # {} => Packets' = {}
          /\ cli'.window[1].flag # "usable"
      BY <1>1, <1>8, <3>1, <3>3
    <3>. QED BY <3>6, <3>7, <3>8, <3>9 DEF OneSyn
  <2>. QED BY <2>2, <2>3
<1>13. \A p \in Packets' : Shaped(p) /\ p.seq < cli.nextseqnum BY <1>8 DEF DeliveryInv
<1>14. ~Opening(cli) => \A p \in Packets' : p.kind # "SYN" BY <1>8 DEF DeliveryInv
<1>15. ClientShape(cli) /\ Delivered(cli) \subseteq Taken(srv') BY <1>4, <1>6 DEF DeliveryInv
<1>16. cli' = cli BY <1>1
<1>17. DeliveryInv' BY <1>6, <1>7, <1>11, <1>12, <1>13, <1>14, <1>15, <1>16 DEF DeliveryInv
<1>. QED BY <1>4, <1>6, <1>17

\* the rest of the server's turn keeps it, and the stream,
LEMMA ServerSelectDelivery ==
  ASSUME NumbersSuffice, TypeInv, DeliveryInv, NEW ready, ServerSelect(ready)
  PROVE  /\ DeliveryInv' /\ Taken(srv') = Taken(srv) /\ UNCHANGED cli
         /\ Len(StreamOf(srv')) = Len(StreamOf(srv))
         /\ ~ShortWrites => StreamOf(srv') = StreamOf(srv)
<1>0. ServerShape(srv) BY DEF DeliveryInv
<1>1. /\ ServerShape(srv') /\ Core(srv') = Core(srv) /\ srv'.acks = srv.acks /\ cli' = cli
      /\ Len(StreamOf(srv')) = Len(StreamOf(srv))
      /\ ~ShortWrites => StreamOf(srv') = StreamOf(srv)
      /\ \/ srv'.sndbuf = srv.sndbuf /\ toClient' = toClient
         \/ srv'.sndbuf = {} /\ toClient' = toClient \cup srv.sndbuf
      /\ \/ srv'.rcvbuf = srv.rcvbuf /\ toServer' = toServer
         \/ \E p \in toServer : srv'.rcvbuf = {p} /\ toServer' = toServer \ {p}
  BY <1>0, ServerSelectView
<1>2. /\ Taken(srv') = Taken(srv) /\ srv'.cwnd = srv.cwnd
      /\ \A m : Made(srv', m) <=> Made(srv, m)
  BY <1>1, SameServer
<1>3. Packets' \subseteq Packets BY <1>1 DEF Packets
<1>4. Acks' = Acks BY <1>1 DEF Acks, Pending, AckSet
<1>5. OneSyn => OneSyn'
  <2>1. SUFFICES ASSUME OneSyn PROVE OneSyn' OBVIOUS
  <2>2. srv'.rcvbuf # {} => toServer' = {} /\ cli.sndbuf = {}
    BY <1>1, <2>1 DEF OneSyn, Packets
  <2>3. toServer' # {} => cli.sndbuf = {} BY <1>1, <2>1 DEF OneSyn
  <2>. QED BY <1>1, <1>2, <1>3, <1>4, <2>1, <2>2, <2>3 DEF OneSyn
<1>. QED BY <1>1, <1>2, <1>3, <1>4, <1>5 DEF DeliveryInv

\* and so does the loss of a datagram.
LEMMA LoseDelivery ==
  ASSUME DeliveryInv, Lose
  PROVE  DeliveryInv' /\ UNCHANGED <<cli, srv>>
<1>1. /\ cli' = cli /\ srv' = srv
      /\ toServer' \subseteq toServer /\ toClient' \subseteq toClient
  BY DEF Lose
<1>2. Packets' \subseteq Packets /\ Acks' \subseteq Acks BY <1>1 DEF Packets, Acks
<1>3. OneSyn => OneSyn' BY <1>1, <1>2 DEF OneSyn
<1>. QED BY <1>1, <1>2, <1>3 DEF DeliveryInv

\* So every step keeps the invariant,
LEMMA DeliveryInvNext ==
  NumbersSuffice /\ TypeInv /\ FinInv /\ DeliveryInv /\ [Next]_vars => DeliveryInv'
<1> SUFFICES ASSUME NumbersSuffice, TypeInv, FinInv, DeliveryInv, [Next]_vars PROVE DeliveryInv'
  OBVIOUS
<1>1. ASSUME NEW expired \in Expirations, ClientTurn(expired) PROVE DeliveryInv'
  BY <1>1, ClientTurnDelivery
<1>2. ASSUME NEW ready \in SUBSET {"stdin", "out", "in"}, ClientSelect(ready) PROVE DeliveryInv'
  BY <1>2, ClientSelectDelivery
<1>3. ASSUME ServerTurn PROVE DeliveryInv' BY <1>3, ServerTurnDelivery
<1>4. ASSUME NEW ready \in SUBSET {"stdout", "out", "in"}, ServerSelect(ready) PROVE DeliveryInv'
  BY <1>4, ServerSelectDelivery
<1>5. ASSUME Lose PROVE DeliveryInv' BY <1>5, LoseDelivery
<1>6. CASE UNCHANGED vars BY <1>6 DEF vars, DeliveryInv, OneSyn, Packets, Acks
<1>. QED BY <1>1, <1>2, <1>3, <1>4, <1>5, <1>6 DEF Next

\* which holds when both programs have been started.
LEMMA DeliveryInvInit == NumbersSuffice /\ Init => DeliveryInv
<1> SUFFICES ASSUME NumbersSuffice, Init PROVE DeliveryInv OBVIOUS
<1>1. /\ InitSeq \in Nat /\ Chunks \in Nat /\ WindowSize \in Nat /\ SeqSpace \in Nat
      /\ InitSeq + Chunks + 2 < SeqSpace
  BY SeqAssumption, TransferAssumption DEF NumbersSuffice
<1>2. Succ(InitSeq) = InitSeq + 1 BY <1>1, ModSmall DEF Succ
<1> DEFINE e == NewEntry("SYN", InitSeq, 0)
           w == <<e>>
<1>3. /\ cli.nextseqnum = InitSeq + 1 /\ cli.window = w /\ cli.window_free = 0
      /\ cli.packed = 0 /\ cli.eof_sent = FALSE /\ cli.eof_rcvd = FALSE
      /\ cli.sndbuf = {} /\ cli.rcvbuf = {} /\ toServer = {} /\ toClient = {}
  BY <1>2 DEF Init, ClientStart
<1>4. /\ srv.nextseqnum = 0 /\ srv.window = {} /\ srv.acks = <<>> /\ srv.state = "running"
      /\ srv.out = <<>> /\ srv.buf = <<>> /\ srv.data = <<>> /\ srv.cwnd = WindowSize
      /\ srv.sndbuf = {} /\ srv.rcvbuf = {}
  BY DEF Init, ServerStart
<1>5. e.pkt.seq = InitSeq /\ e.pkt.kind = "SYN" /\ e.pkt.idx = 0 /\ e.flag = "usable"
  BY DEF NewEntry
<1>. HIDE DEF e
<1>6. Len(w) = 1 /\ w[1] = e OBVIOUS
<1>. HIDE DEF w
<1>7. Base(cli) = InitSeq /\ Opening(cli) BY <1>1, <1>3, <1>6 DEF Base, Opening
<1>8. WindowShape(w, InitSeq) BY <1>1, <1>5, <1>6 DEF WindowShape, Shaped
<1>9. ClientShape(cli) BY <1>1, <1>3, <1>5, <1>6, <1>7, <1>8 DEF ClientShape
<1>10. Packets = {} /\ Acks = {} BY <1>3, <1>4 DEF Packets, Acks, Pending, AckSet
<1>11. StreamOf(srv) = <<>> BY <1>4 DEF StreamOf
<1>12. StreamHolds(<<>>, 0)
  <2>1. <<>> \in ChunkSeq /\ Len(<<>>) = 0 BY EmptySeq DEF ChunkSeq
  <2>2. PassedTo(0) = 0 BY <1>1 DEF PassedTo
  <2>. QED BY <2>1, <2>2 DEF StreamHolds
<1>13. ServerShape(srv) BY <1>1, <1>4, <1>11, <1>12 DEF ServerShape, WindowHolds
<1>14. Made(srv, cli.nextseqnum) BY <1>1, <1>3, <1>4 DEF Made
<1>15. Delivered(cli) = {} 
  <2>1. \A x \in InitSeq .. cli.nextseqnum - 1 : x = InitSeq BY <1>1, <1>3
  <2>2. 1 \in 1 .. Len(cli.window) /\ cli.window[1].pkt.seq = InitSeq
        /\ cli.window[1].flag = "usable"
    BY <1>3, <1>5, <1>6
  <2>. QED BY <2>1, <2>2 DEF Delivered
<1>16. OneSyn BY <1>1, <1>3, <1>4, <1>10 DEF OneSyn
<1>. QED BY <1>7, <1>9, <1>10, <1>13, <1>14, <1>15, <1>16 DEF DeliveryInv
-----------------------------------------------------------------------------
\* The client ends well only after the FIN has been acknowledged, and reads one
\* datagram at a time.
Ended ==
  /\ cli.state = "done" => cli.eof_rcvd
  /\ \A a, b \in cli.rcvbuf : a = b

\* Both stay so,
LEMMA EndedNext ==
  NumbersSuffice /\ TypeInv /\ FinInv /\ DeliveryInv /\ Ended /\ [Next]_vars => Ended'
<1> SUFFICES ASSUME NumbersSuffice, TypeInv, FinInv, DeliveryInv, Ended, [Next]_vars PROVE Ended'
  OBVIOUS
<1>1. ASSUME NEW expired \in Expirations, ClientTurn(expired) PROVE Ended'
  <2>1. cli'.state \in {"running", "failed"} /\ cli'.rcvbuf = {} BY <1>1, ClientTurnDelivery
  <2>. QED BY <2>1 DEF Ended
<1>2. ASSUME NEW ready \in SUBSET {"stdin", "out", "in"}, ClientSelect(ready) PROVE Ended'
  <2>1. /\ ClientCore(cli') = ClientCore(cli) /\ cli.state = "running"
        /\ cli'.state = "running" \/ (cli'.state = "done" /\ cli.eof_rcvd)
        /\ cli'.rcvbuf = cli.rcvbuf \/ \E a \in toClient : cli'.rcvbuf = {a}
    BY <1>2, ClientSelectView
  <2>2. cli'.eof_rcvd = cli.eof_rcvd BY <2>1 DEF ClientCore
  <2>. QED BY <2>1, <2>2 DEF Ended
<1>3. ASSUME UNCHANGED cli PROVE Ended' BY <1>3 DEF Ended
<1>. QED BY <1>1, <1>2, <1>3 DEF Next, ServerTurn, ServerSelect, Lose, vars

\* and are so at the start.
LEMMA EndedInit == Init => Ended
BY DEF Init, ClientStart, Ended

\* All that the theorems rest on.
RdtInv == TypeInv /\ FinInv /\ DeliveryInv /\ Ended

\* It holds in every reachable state.
LEMMA RdtInvAlways == NumbersSuffice => (Spec => []RdtInv)
<1>. SUFFICES ASSUME NumbersSuffice PROVE Spec => []RdtInv OBVIOUS
<1>1. Init => RdtInv
  BY TypeInvInit, FinInvInit, DeliveryInvInit, EndedInit DEF RdtInv
<1>2. RdtInv /\ [Next]_vars => RdtInv'
  BY TypeInvNext, FinInvNext, DeliveryInvNext, EndedNext DEF RdtInv
<1>. QED BY <1>1, <1>2, PTL DEF Spec
-----------------------------------------------------------------------------
\* What the server holds, and what the client counts as delivered, by number.
HeldBy(s, k) == k <= Len(StreamOf(s)) \/ \E q \in s.window : q.idx = k

AckedBy(c) ==
  {k \in 1 .. c.packed :
     \A i \in DOMAIN c.window : c.window[i].pkt.idx = k => c.window[i].flag = "acked"}

\* Chunk k travels in the packet numbered InitSeq + k.
LEMMA PacketIndex ==
  ASSUME NEW p \in Packet, Shaped(p), NEW k \in 1 .. Chunks
  PROVE  p.idx = k <=> p.seq = InitSeq + k
<1>1. p.kind \in {"SYN", "DATA", "FIN"} /\ p.seq \in Nat /\ p.idx \in Nat
  BY SeqAssumption, TransferAssumption DEF Packet, Kinds, SeqNums
<1>2. InitSeq \in Nat /\ Chunks \in Nat /\ k \in Nat /\ k >= 1 /\ k <= Chunks
  BY SeqAssumption, TransferAssumption
<1>. QED BY <1>1, <1>2 DEF Shaped

\* The server has chunk k when it has accepted that number,
LEMMA HeldIsTaken ==
  ASSUME NumbersSuffice, NEW s, ServerOK(s), ServerShape(s), NEW k \in 1 .. Chunks
  PROVE  HeldBy(s, k) <=> InitSeq + k \in Taken(s)
<1> DEFINE N == s.nextseqnum
<1>1. /\ InitSeq \in Nat /\ Chunks \in Nat /\ k \in Nat /\ k >= 1 /\ k <= Chunks /\ N \in Nat
      /\ InitSeq + Chunks + 2 < SeqSpace /\ SeqSpace \in Nat
  BY SeqAssumption, TransferAssumption, ServerNumbers DEF NumbersSuffice
<1>2. Len(StreamOf(s)) = PassedTo(N) BY DEF ServerShape, StreamHolds
<1>3. k <= PassedTo(N) <=> InitSeq + k < N BY <1>1 DEF PassedTo
<1>4. \A q \in s.window : q.idx = k <=> q.seq = InitSeq + k
  BY ServerNumbers, PacketIndex DEF ServerShape, WindowHolds
<1>5. InitSeq + k \in SeqNums BY <1>1 DEF SeqNums
<1>. HIDE DEF N
<1>. QED BY <1>2, <1>3, <1>4, <1>5 DEF HeldBy, Taken, N

\* and the client counts it as delivered when it does so with that number.
LEMMA AckedIsDelivered ==
  ASSUME NumbersSuffice, NEW c, ClientOK(c), ClientShape(c)
  PROVE  AckedBy(c) = {k \in 1 .. Chunks : InitSeq + k \in Delivered(c)}
<1> DEFINE N == c.nextseqnum
<1>1. /\ InitSeq \in Nat /\ Chunks \in Nat /\ N \in Nat /\ c.packed \in Nat /\ c.packed <= Chunks
      /\ DOMAIN c.window = 1 .. Len(c.window)
      /\ \A i \in 1 .. Len(c.window) : c.window[i] \in Entry
  BY ClientNumbers
<1>2. N = InitSeq + 1 + c.packed \/ (N = InitSeq + 2 + c.packed /\ c.packed = Chunks)
  BY <1>1, NextNumber
<1>3. ASSUME NEW k \in 1 .. Chunks PROVE k \in AckedBy(c) <=> InitSeq + k \in Delivered(c)
  <2>1. k <= c.packed <=> InitSeq + k <= N - 1 BY <1>1, <1>2
  <2>2. k \in Nat /\ k >= 1 /\ InitSeq + k \in Nat /\ InitSeq + k >= InitSeq BY <1>1
  <2>3. k \in 1 .. c.packed <=> InitSeq + k \in InitSeq .. N - 1 BY <1>1, <2>1, <2>2
  <2>4. \A i \in 1 .. Len(c.window) :
          c.window[i].pkt.idx = k <=> c.window[i].pkt.seq = InitSeq + k
    BY <1>1, PacketIndex DEF ClientShape, WindowShape, Entry
  <2>. HIDE DEF N
  <2>. QED BY <1>1, <2>3, <2>4 DEF AckedBy, Delivered, N
<1>4. AckedBy(c) \subseteq 1 .. Chunks BY <1>1 DEF AckedBy
<1>. QED BY <1>3, <1>4

\* What the invariant says of the properties' own terms.
LEMMA Terms ==
  /\ Stream = StreamOf(srv) /\ AckedChunks = AckedBy(cli)
  /\ \A k : Held(k) <=> HeldBy(srv, k)
BY DEF Stream, StreamOf, AckedChunks, AckedBy, Held, HeldBy

\* Once the FIN has been acknowledged, all chunks have.
LEMMA EndOfTransfer ==
  ASSUME NumbersSuffice, NEW c, ClientOK(c), ClientShape(c), c.eof_rcvd
  PROVE  AckedBy(c) = 1 .. Chunks
<1>1. c.eof_sent /\ c.packed = Chunks /\ Len(c.window) = 0 BY DEF ClientShape
<1>2. DOMAIN c.window = {} BY <1>1, ClientNumbers
<1>. QED BY <1>1, <1>2 DEF AckedBy

\* What is counted as delivered is there.
LEMMA AckedHeld ==
  ASSUME NumbersSuffice, RdtInv
  PROVE  AckedChunks \subseteq {k \in 1 .. Chunks : Held(k)}
<1>1. ClientOK(cli) /\ ClientShape(cli) /\ ServerOK(srv) /\ ServerShape(srv)
      /\ Delivered(cli) \subseteq Taken(srv)
  BY DEF RdtInv, TypeInv, DeliveryInv
<1>. QED BY <1>1, Terms, AckedIsDelivered, HeldIsTaken

\* The client never releases a chunk that the server does not have, whatever is
\* lost, delayed, reordered or sent twice: selective acknowledgements are safe for
\* every window, input and buffer size for which the numbers suffice.
THEOREM AckedIsHeldAlways == NumbersSuffice => (Spec => []AckedIsHeld)
<1>. SUFFICES ASSUME NumbersSuffice PROVE Spec => []AckedIsHeld OBVIOUS
<1>1. Spec => []RdtInv BY RdtInvAlways
<1>2. RdtInv => AckedIsHeld BY AckedHeld DEF AckedIsHeld
<1>. QED BY <1>1, <1>2, PTL

\* When the client exits successfully its whole input has reached the server.
THEOREM DoneIsCompleteAlways == NumbersSuffice => (Spec => []DoneIsComplete)
<1>. SUFFICES ASSUME NumbersSuffice PROVE Spec => []DoneIsComplete OBVIOUS
<1>1. Spec => []RdtInv BY RdtInvAlways
<1>2. RdtInv => DoneIsComplete
  <2>1. SUFFICES ASSUME RdtInv, cli.state = "done", NEW k \in 1 .. Chunks PROVE Held(k)
    BY DEF DoneIsComplete
  <2>2. cli.eof_rcvd /\ ClientOK(cli) /\ ClientShape(cli)
    BY <2>1 DEF RdtInv, Ended, TypeInv, DeliveryInv
  <2>3. AckedChunks = 1 .. Chunks BY <2>2, EndOfTransfer, Terms
  <2>. QED BY <2>1, <2>3, AckedHeld
<1>. QED BY <1>1, <1>2, PTL

\* The assertion "assert(actWnd)" of rdt_server_step never fails: at most WindowSize
\* packets wait in the window of WindowSize + 1 nodes.
THEOREM FreeNodeLeftAlways == NumbersSuffice => (Spec => []FreeNodeLeft)
<1>. SUFFICES ASSUME NumbersSuffice PROVE Spec => []FreeNodeLeft OBVIOUS
<1>1. Spec => []RdtInv BY RdtInvAlways
<1>2. RdtInv => FreeNodeLeft BY DEF RdtInv, DeliveryInv, ServerShape, FreeNodeLeft
<1>. QED BY <1>1, <1>2, PTL

\* The packet the server waits for is never gone: the server has it, the client keeps
\* it, or the client has yet to make it.
THEOREM ExpectedIsAvailableAlways == NumbersSuffice => (Spec => []ExpectedIsAvailable)
<1>. SUFFICES ASSUME NumbersSuffice PROVE Spec => []ExpectedIsAvailable OBVIOUS
<1>1. Spec => []RdtInv BY RdtInvAlways
<1>2. RdtInv => ExpectedIsAvailable
  <2>1. SUFFICES ASSUME RdtInv PROVE ExpectedIsAvailable OBVIOUS
  <2>2. /\ TypeInv /\ DeliveryInv /\ ClientOK(cli) /\ ClientShape(cli) /\ ServerOK(srv)
        /\ Made(srv, cli.nextseqnum) /\ Delivered(cli) \subseteq Taken(srv)
    BY <2>1 DEF RdtInv, TypeInv, DeliveryInv
  <2>3. DOMAIN cli.window = 1 .. Len(cli.window) BY <2>2, ClientNumbers
  <2>4. CASE Opening(cli)
    <3>1. Len(cli.window) = 1 /\ cli.window[1].pkt.kind = "SYN"
      BY <2>2, <2>4, ClientOpening
    <3>2. 1 \in DOMAIN cli.window BY <2>3, <3>1
    <3>. QED BY <3>1, <3>2 DEF ExpectedIsAvailable
  <2>5. CASE ~Opening(cli)
    <3> DEFINE N == srv.nextseqnum
               B == Base(cli)
               L == Len(cli.window)
    <3>1. /\ N > InitSeq /\ N \in Nat /\ InitSeq \in Nat /\ B \in Nat /\ L \in Nat
          /\ cli.nextseqnum = B + L /\ N <= cli.nextseqnum
      BY <2>2, <2>5, PastFacts, ServerNumbers, ClientNumbers, NextNumber DEF Made
    <3>2. \A i \in 1 .. L : cli.window[i].pkt.seq = B + i - 1 BY <2>2, WindowKinds
    <3>. HIDE DEF N, B, L
    <3>3. CASE N = cli.nextseqnum BY <3>3 DEF ExpectedIsAvailable, N
    <3>4. CASE N # cli.nextseqnum /\ B <= N
      <4>1. N - B + 1 \in 1 .. L BY <3>1, <3>4
      <4>2. cli.window[N - B + 1].pkt.seq = N BY <3>1, <3>2, <4>1
      <4>. QED BY <2>3, <4>1, <4>2 DEF ExpectedIsAvailable, N, L
    <3>5. CASE N # cli.nextseqnum /\ N < B
      <4>1. N \in InitSeq .. cli.nextseqnum - 1 BY <3>1, <3>5
      <4>2. \A i \in 1 .. L : cli.window[i].pkt.seq # N BY <3>1, <3>2, <3>5
      <4>3. N \in Delivered(cli) BY <4>1, <4>2 DEF Delivered, L
      <4>4. N \in Taken(srv) /\ ~(N < N) BY <2>2, <3>1, <4>3
      <4>5. \E q \in srv.window : q.seq = N BY <4>4 DEF Taken, N
      <4>. QED BY <4>5 DEF ExpectedIsAvailable, N
    <3>. QED BY <3>1, <3>3, <3>4, <3>5
  <2>. QED BY <2>4, <2>5
<1>. QED BY <1>1, <1>2, PTL

\* A packet leaves the client's window only in a step of the client, which then
\* counts it as delivered.
LEMMA ReleaseStep ==
  ASSUME NumbersSuffice, RdtInv, [Next]_vars, NEW i \in DOMAIN cli.window,
         \A j \in DOMAIN cli'.window : cli'.window[j].pkt.seq # cli.window[i].pkt.seq
  PROVE  Accepted(cli.window[i].pkt)
<1> DEFINE p == cli.window[i].pkt
           x == p.seq
           N == srv.nextseqnum
<1>1. /\ TypeInv /\ FinInv /\ DeliveryInv /\ ClientOK(cli) /\ ClientShape(cli)
      /\ ServerOK(srv) /\ ServerShape(srv)
  BY DEF RdtInv, TypeInv, DeliveryInv
<1>2. i \in 1 .. Len(cli.window) /\ cli.window[i] \in Entry BY <1>1, ClientNumbers
<1>3. cli'.window # cli.window OBVIOUS
<1>4. PICK expired \in Expirations : ClientTurn(expired)
  <2>1. ASSUME NEW ready \in SUBSET {"stdin", "out", "in"}, ClientSelect(ready) PROVE FALSE
    <3>1. cli'.window = cli.window BY <1>1, <2>1, ClientSelectView DEF ClientCore
    <3>. QED BY <1>3, <3>1
  <2>2. ASSUME UNCHANGED cli PROVE FALSE BY <1>3, <2>2
  <2>. QED BY <2>1, <2>2 DEF Next, ServerTurn, ServerSelect, Lose, vars
<1>5. /\ DeliveryInv' /\ UNCHANGED srv /\ cli'.nextseqnum >= cli.nextseqnum
  BY <1>1, <1>4, ClientTurnDelivery
<1>6. TypeInv' BY <1>1, TypeInvNext
<1>7. DOMAIN cli'.window = 1 .. Len(cli'.window) /\ cli'.nextseqnum \in Nat
  BY <1>6, ClientNumbers DEF TypeInv
<1>8. /\ x = Base(cli) + i - 1 /\ Base(cli) \in Nat /\ Base(cli) >= InitSeq
      /\ Base(cli) + Len(cli.window) = cli.nextseqnum /\ InitSeq \in Nat
      /\ cli.nextseqnum \in Nat /\ Len(cli.window) \in Nat
  BY <1>1, <1>2, WindowKinds, NextNumber, ClientNumbers
<1>9. p \in Packet /\ Shaped(p) BY <1>1, <1>2 DEF Entry, ClientShape, WindowShape
<1>. HIDE DEF p, x
<1>10. x \in InitSeq .. cli'.nextseqnum - 1 BY <1>2, <1>5, <1>7, <1>8
<1>11. x \in Delivered(cli') BY <1>7, <1>10 DEF Delivered, x, p
<1>12. x \in Taken(srv) BY <1>5, <1>11 DEF DeliveryInv
<1>13. /\ N \in Nat /\ Chunks \in Nat /\ N <= InitSeq + Chunks + 2
       /\ InitSeq + Chunks + 2 < SeqSpace /\ SeqSpace \in Nat
  BY <1>1, ServerNumbers DEF ServerShape, NumbersSuffice
<1>14. CASE \E q \in srv.window : q.seq = x BY <1>14 DEF Accepted, p, x
<1>15. CASE x < N
  <2>1. CASE p.kind = "SYN" BY <1>9, <2>1 DEF Shaped, Accepted, p
  <2>2. CASE p.kind = "DATA"
    <3>1. p.idx \in 1 .. Chunks /\ x = InitSeq + p.idx BY <1>9, <2>2 DEF Shaped, x
    <3>2. Held(p.idx) BY <1>1, <1>12, <3>1, HeldIsTaken, Terms
    <3>3. p.idx > 0 BY <1>13, <3>1
    <3>. QED BY <3>2, <3>3 DEF Accepted, p
  <2>3. CASE p.kind = "FIN"
    <3>1. x = InitSeq + Chunks + 1 BY <1>9, <2>3 DEF Shaped, x
    <3>. HIDE DEF N
    <3>2. N = x + 1 /\ x \in Nat /\ x + 1 < SeqSpace
      <4>1. InitSeq \in Nat /\ Chunks \in Nat BY SeqAssumption, TransferAssumption
      <4>2. x \in Nat /\ x < N /\ N <= x + 1 /\ x + 1 < SeqSpace /\ N \in Nat
        BY <1>13, <1>15, <3>1, <4>1
      <4>. QED BY <4>2
    <3>3. N = Succ(x) BY <1>13, <3>2, ModSmall DEF Succ
    <3>. QED BY <3>3 DEF Accepted, N, x, p
  <2>. QED BY <1>9, <2>1, <2>2, <2>3 DEF Packet, Kinds
<1>. QED BY <1>12, <1>14, <1>15 DEF Taken, N, p, x

\* The oldest packet leaves the client's window only when the server has accepted
\* it, the SYN and the FIN included.
THEOREM ReleaseIsSafeAlways == NumbersSuffice => (Spec => ReleaseIsSafe)
<1>. SUFFICES ASSUME NumbersSuffice PROVE Spec => ReleaseIsSafe OBVIOUS
<1> DEFINE Released ==
      \A i \in DOMAIN cli.window :
        (\A j \in DOMAIN cli'.window : cli'.window[j].pkt.seq # cli.window[i].pkt.seq)
          => Accepted(cli.window[i].pkt)
<1>1. Spec => []RdtInv BY RdtInvAlways
<1>2. RdtInv /\ [Next]_vars => [Released]_vars BY ReleaseStep
<1>. QED BY <1>1, <1>2, PTL DEF Spec, ReleaseIsSafe
-----------------------------------------------------------------------------
\* A stream as long as n packets make it is that much of the input.
LEMMA StreamIsPrefix ==
  ASSUME ~ShortWrites, NEW q, NEW n \in Nat, StreamHolds(q, n)
  PROVE  /\ Len(q) \in Nat /\ Len(q) = PassedTo(n) /\ PassedTo(n) <= Chunks
         /\ q = [i \in 1 .. PassedTo(n) |-> i]
<1>1. q \in Seq(0 .. Chunks) /\ Len(q) = PassedTo(n) /\ \A i \in 1 .. Len(q) : q[i] = i
  BY DEF StreamHolds, ChunkSeq
<1>2. Len(q) \in Nat /\ q = [i \in 1 .. Len(q) |-> q[i]] BY <1>1, LenProperties
<1>3. PassedTo(n) <= Chunks BY PassedNat
<1>. QED BY <1>1, <1>2, <1>3

\* What the server's user gets is the input from its beginning, in order, without a
\* gap or a repetition, when fwrite writes all it is given.
THEOREM InOrderAlways == NumbersSuffice /\ ~ShortWrites => (Spec => []InOrder)
<1>. SUFFICES ASSUME NumbersSuffice, ~ShortWrites PROVE Spec => []InOrder OBVIOUS
<1>1. Spec => []RdtInv BY RdtInvAlways
<1>2. RdtInv => InOrder
  <2>1. SUFFICES ASSUME RdtInv PROVE InOrder OBVIOUS
  <2> DEFINE n == PassedTo(srv.nextseqnum)
             q == StreamOf(srv)
  <2>2. StreamHolds(q, srv.nextseqnum) /\ srv.nextseqnum \in Nat
    BY <2>1, ServerNumbers DEF RdtInv, DeliveryInv, ServerShape, TypeInv
  <2>3. Len(q) \in Nat /\ Len(q) = n /\ n <= Chunks /\ q = [i \in 1 .. n |-> i]
    BY <2>2, StreamIsPrefix
  <2>4. Chunks \in Nat /\ n \in Nat BY <2>3, TransferAssumption
  <2>. HIDE DEF n, q
  <2>5. Len(Input) = Chunks BY <2>4 DEF Input
  <2>6. SubSeq(q, 1, n) = [i \in 1 .. n |-> i] BY <2>3, <2>4
  <2>7. SubSeq(Input, 1, n) = [i \in 1 .. n |-> i] BY <2>3, <2>4 DEF Input
  <2>. QED BY <2>3, <2>5, <2>6, <2>7, Terms DEF InOrder, IsPrefix, q
<1>. QED BY <1>1, <1>2, PTL

-----------------------------------------------------------------------------
\* The chunks the server has, the abstract receiver's `held'.
HeldChunks(s) == {k \in 1 .. Chunks : HeldBy(s, k)}

\* By number.
LEMMA TransferTerms ==
  ASSUME NumbersSuffice, NEW s, ServerOK(s), ServerShape(s)
  PROVE  HeldChunks(s) = {k \in 1 .. Chunks : InitSeq + k \in Taken(s)}
BY HeldIsTaken DEF HeldChunks

\* A step of the server is the arrival of at most one chunk.
LEMMA ServerReceives ==
  ASSUME NumbersSuffice, ~ShortWrites, RdtInv, ServerTurn
  PROVE  /\ \/ HeldChunks(srv') = HeldChunks(srv)
            \/ \E k \in 1 .. Chunks : HeldChunks(srv') = HeldChunks(srv) \cup {k}
         /\ \E n \in Len(StreamOf(srv)) .. Chunks :
              1 .. n \subseteq HeldChunks(srv') /\ StreamOf(srv') = [i \in 1 .. n |-> i]
         /\ UNCHANGED cli
<1>1. TypeInv /\ FinInv /\ DeliveryInv BY DEF RdtInv
<1>2. /\ DeliveryInv' /\ Taken(srv) \subseteq Taken(srv') /\ srv'.nextseqnum >= srv.nextseqnum
      /\ \E x \in SeqNums : Taken(srv') \subseteq Taken(srv) \cup 0 .. InitSeq \cup {x}
  BY <1>1, ServerTurnDelivery
<1>3. UNCHANGED cli /\ TypeInv' BY <1>1, TypeInvNext DEF ServerTurn, Next
<1>4. /\ ServerOK(srv) /\ ServerShape(srv) /\ ServerOK(srv') /\ ServerShape(srv')
  BY <1>1, <1>2, <1>3 DEF TypeInv, DeliveryInv
<1>5. /\ HeldChunks(srv) = {k \in 1 .. Chunks : InitSeq + k \in Taken(srv)}
      /\ HeldChunks(srv') = {k \in 1 .. Chunks : InitSeq + k \in Taken(srv')}
  BY <1>4, TransferTerms
<1>6. InitSeq \in Nat /\ Chunks \in Nat /\ srv.nextseqnum \in Nat /\ srv'.nextseqnum \in Nat
  BY <1>4, ServerNumbers
<1>7. PICK x \in SeqNums : Taken(srv') \subseteq Taken(srv) \cup 0 .. InitSeq \cup {x} BY <1>2
<1>8. \/ HeldChunks(srv') = HeldChunks(srv)
      \/ \E k \in 1 .. Chunks : HeldChunks(srv') = HeldChunks(srv) \cup {k}
  <2>1. \A k \in 1 .. Chunks : InitSeq + k \notin 0 .. InitSeq BY <1>6
  <2>2. \A k \in HeldChunks(srv') : k \in HeldChunks(srv) \/ InitSeq + k = x
    BY <1>5, <1>7, <2>1
  <2>3. HeldChunks(srv) \subseteq HeldChunks(srv') BY <1>2, <1>5
  <2>4. \A k, l \in 1 .. Chunks : InitSeq + k = InitSeq + l => k = l BY <1>6
  <2>5. HeldChunks(srv') \subseteq 1 .. Chunks BY DEF HeldChunks
  <2>. QED BY <2>2, <2>3, <2>4, <2>5
<1>9. /\ StreamHolds(StreamOf(srv), srv.nextseqnum) /\ StreamHolds(StreamOf(srv'), srv'.nextseqnum)
  BY <1>4 DEF ServerShape
<1> DEFINE m == PassedTo(srv.nextseqnum)
           n == PassedTo(srv'.nextseqnum)
<1>10. Len(StreamOf(srv)) = m /\ m \in Nat BY <1>6, <1>9, StreamIsPrefix
<1>11. /\ Len(StreamOf(srv')) = n /\ n \in Nat /\ n <= Chunks
       /\ StreamOf(srv') = [i \in 1 .. n |-> i]
  BY <1>6, <1>9, StreamIsPrefix
<1>12. m <= n BY <1>2, <1>6 DEF PassedTo
<1>. HIDE DEF m, n
<1>13. n \in Len(StreamOf(srv)) .. Chunks BY <1>6, <1>10, <1>11, <1>12
<1>14. 1 .. n \subseteq HeldChunks(srv')
  <2>1. ASSUME NEW k \in 1 .. n PROVE k \in HeldChunks(srv')
    <3>1. k \in 1 .. Chunks /\ k <= n BY <1>6, <1>11
    <3>. QED BY <1>11, <3>1 DEF HeldChunks, HeldBy
  <2>. QED BY <2>1
<1>. QED BY <1>3, <1>8, <1>11, <1>13, <1>14

\* What the server does around select is a stuttering step of the transfer.
LEMMA ServerSelectKeeps ==
  ASSUME NumbersSuffice, ~ShortWrites, RdtInv, NEW ready, ServerSelect(ready),
         TypeInv'
  PROVE  HeldChunks(srv') = HeldChunks(srv) /\ StreamOf(srv') = StreamOf(srv) /\ UNCHANGED cli
<1>1. TypeInv /\ FinInv /\ DeliveryInv BY DEF RdtInv
<1>2. /\ DeliveryInv' /\ Taken(srv') = Taken(srv) /\ UNCHANGED cli
      /\ StreamOf(srv') = StreamOf(srv)
  BY <1>1, ServerSelectDelivery
<1>3. /\ ServerOK(srv) /\ ServerShape(srv) /\ ServerOK(srv') /\ ServerShape(srv')
  BY <1>1, <1>2 DEF TypeInv, DeliveryInv
<1>. QED BY <1>2, <1>3, TransferTerms

\* A step of the client learns of at most one chunk.
LEMMA ClientLearns ==
  ASSUME NumbersSuffice, RdtInv, NEW expired \in Expirations, ClientTurn(expired), TypeInv'
  PROVE  /\ \/ AckedBy(cli') = AckedBy(cli)
            \/ \E k \in HeldChunks(srv) : AckedBy(cli') = AckedBy(cli) \cup {k}
         /\ cli.state = "running" /\ cli'.state \in {"running", "failed"} /\ UNCHANGED srv
<1>1. TypeInv /\ FinInv /\ DeliveryInv /\ Ended BY DEF RdtInv
<1>2. /\ DeliveryInv' /\ Delivered(cli) \subseteq Delivered(cli')
      /\ \A x \in Delivered(cli') : x \in Delivered(cli) \/ \E a \in cli.rcvbuf : a.ack = x + 1
      /\ cli.state = "running" /\ cli'.state \in {"running", "failed"} /\ UNCHANGED srv
  BY <1>1, ClientTurnDelivery
<1>3. /\ ClientOK(cli) /\ ClientShape(cli) /\ ClientOK(cli') /\ ClientShape(cli')
      /\ ServerOK(srv) /\ ServerShape(srv) /\ Delivered(cli') \subseteq Taken(srv)
  BY <1>1, <1>2 DEF TypeInv, DeliveryInv
<1>4. /\ AckedBy(cli) = {k \in 1 .. Chunks : InitSeq + k \in Delivered(cli)}
      /\ AckedBy(cli') = {k \in 1 .. Chunks : InitSeq + k \in Delivered(cli')}
      /\ HeldChunks(srv) = {k \in 1 .. Chunks : InitSeq + k \in Taken(srv)}
  BY <1>3, AckedIsDelivered, TransferTerms
<1>5. \A a, b \in cli.rcvbuf : a = b BY <1>1 DEF Ended
<1>6. AckedBy(cli) \subseteq AckedBy(cli') /\ AckedBy(cli') \subseteq HeldChunks(srv)
  BY <1>2, <1>3, <1>4
<1>7. ASSUME NEW k \in AckedBy(cli'), NEW l \in AckedBy(cli'),
             k \notin AckedBy(cli), l \notin AckedBy(cli)
      PROVE  k = l
  <2>1. k \in 1 .. Chunks /\ l \in 1 .. Chunks /\ InitSeq \in Nat /\ Chunks \in Nat
    BY <1>4, SeqAssumption, TransferAssumption
  <2>2. PICK a \in cli.rcvbuf : a.ack = InitSeq + k + 1 BY <1>2, <1>4, <1>7, <2>1
  <2>3. PICK b \in cli.rcvbuf : b.ack = InitSeq + l + 1 BY <1>2, <1>4, <1>7, <2>1
  <2>. QED BY <1>5, <2>1, <2>2, <2>3
<1>8. \/ AckedBy(cli') = AckedBy(cli)
      \/ \E k \in HeldChunks(srv) : AckedBy(cli') = AckedBy(cli) \cup {k}
  BY <1>6, <1>7
<1>. QED BY <1>2, <1>8

\* What the client does around select is one, or the successful end.
LEMMA ClientSelectKeeps ==
  ASSUME NumbersSuffice, RdtInv, NEW ready, ClientSelect(ready), TypeInv'
  PROVE  /\ AckedBy(cli') = AckedBy(cli) /\ UNCHANGED srv /\ cli.state = "running"
         /\ \/ cli'.state = "running"
            \/ cli'.state = "done" /\ AckedBy(cli) = 1 .. Chunks
<1>1. TypeInv /\ FinInv /\ DeliveryInv BY DEF RdtInv
<1>2. DeliveryInv' /\ Delivered(cli') = Delivered(cli) BY <1>1, ClientSelectDelivery
<1>3. /\ ClientOK(cli) /\ ClientShape(cli) /\ ClientOK(cli') /\ ClientShape(cli')
  BY <1>1, <1>2 DEF TypeInv, DeliveryInv
<1>4. AckedBy(cli') = AckedBy(cli) BY <1>2, <1>3, AckedIsDelivered
<1>5. /\ UNCHANGED srv /\ cli.state = "running"
      /\ cli'.state = "running" \/ (cli'.state = "done" /\ cli.eof_rcvd)
  BY <1>1, ClientSelectView
<1>. QED BY <1>3, <1>4, <1>5, EndOfTransfer

\* The two programs and the network implement ReliableTransfer: a step of theirs is
\* the arrival of at most one chunk, with the user's stream the input so far; the
\* confirmation of at most one chunk that has arrived; the end, with all chunks
\* confirmed; the failure of a client that has resent too often; or nothing.
THEOREM ReliableAlways == NumbersSuffice /\ ~ShortWrites => (Spec => IsReliable)
<1>. SUFFICES ASSUME NumbersSuffice, ~ShortWrites PROVE Spec => IsReliable OBVIOUS
<1>1. Spec => []RdtInv BY RdtInvAlways
<1>2. Init => Transfer!Init
  <2>1. SUFFICES ASSUME Init PROVE Transfer!Init OBVIOUS
  <2>2. cli.packed = 0 /\ cli.state = "running" BY <2>1 DEF Init, ClientStart
  <2>3. srv.window = {} /\ srv.out = <<>> /\ srv.buf = <<>> /\ srv.data = <<>>
    BY <2>1 DEF Init, ServerStart
  <2>4. Stream = <<>> BY <2>3 DEF Stream
  <2>5. \A k \in 1 .. Chunks : ~Held(k) BY <2>3, <2>4, TransferAssumption DEF Held
  <2>6. AckedChunks = {} BY <2>2 DEF AckedChunks
  <2>. QED BY <2>2, <2>4, <2>5, <2>6 DEF Transfer!Init
<1>3. RdtInv /\ RdtInv' /\ [Next]_vars => [Transfer!Next]_(Transfer!vars)
  <2> SUFFICES ASSUME RdtInv, RdtInv', [Next]_vars PROVE [Transfer!Next]_(Transfer!vars) OBVIOUS
  <2>0. TypeInv' BY DEF RdtInv
  <2>1. /\ {k \in 1 .. Chunks : Held(k)} = HeldChunks(srv)
        /\ {k \in 1 .. Chunks : Held(k)}' = HeldChunks(srv')
        /\ Stream = StreamOf(srv) /\ Stream' = StreamOf(srv')
        /\ AckedChunks = AckedBy(cli) /\ AckedChunks' = AckedBy(cli')
    BY DEF HeldChunks, HeldBy, Held, Stream, StreamOf, AckedChunks, AckedBy
  <2>2. ASSUME NEW expired \in Expirations, ClientTurn(expired)
        PROVE  [Transfer!Next]_(Transfer!vars)
    <3>1. /\ \/ AckedBy(cli') = AckedBy(cli)
             \/ \E k \in HeldChunks(srv) : AckedBy(cli') = AckedBy(cli) \cup {k}
          /\ cli.state = "running" /\ cli'.state \in {"running", "failed"} /\ srv' = srv
      BY <2>0, <2>2, ClientLearns
    <3>2. CASE cli'.state = "failed"
      <4>1. Transfer!GiveUp BY <2>1, <3>1, <3>2 DEF Transfer!GiveUp
      <4>. QED BY <4>1 DEF Transfer!Next
    <3>3. CASE cli'.state = "running" /\ AckedBy(cli') = AckedBy(cli)
      <4>1. UNCHANGED Transfer!vars BY <2>1, <3>1, <3>3 DEF Transfer!vars
      <4>. QED BY <4>1
    <3>4. CASE cli'.state = "running"
               /\ \E k \in HeldChunks(srv) : AckedBy(cli') = AckedBy(cli) \cup {k}
      <4>1. Transfer!Confirm BY <2>1, <3>1, <3>4 DEF Transfer!Confirm
      <4>. QED BY <4>1 DEF Transfer!Next
    <3>. QED BY <3>1, <3>2, <3>3, <3>4
  <2>3. ASSUME NEW ready \in SUBSET {"stdin", "out", "in"}, ClientSelect(ready)
        PROVE  [Transfer!Next]_(Transfer!vars)
    <3>1. /\ AckedBy(cli') = AckedBy(cli) /\ srv' = srv /\ cli.state = "running"
          /\ \/ cli'.state = "running"
             \/ cli'.state = "done" /\ AckedBy(cli) = 1 .. Chunks
      BY <2>0, <2>3, ClientSelectKeeps
    <3>2. CASE cli'.state = "running"
      <4>1. UNCHANGED Transfer!vars BY <2>1, <3>1, <3>2 DEF Transfer!vars
      <4>. QED BY <4>1
    <3>3. CASE cli'.state = "done" /\ AckedBy(cli) = 1 .. Chunks
      <4>1. Transfer!Finish BY <2>1, <3>1, <3>3 DEF Transfer!Finish
      <4>. QED BY <4>1 DEF Transfer!Next
    <3>. QED BY <3>1, <3>2, <3>3
  <2>4. ASSUME ServerTurn PROVE [Transfer!Next]_(Transfer!vars)
    <3>1. /\ \/ HeldChunks(srv') = HeldChunks(srv)
             \/ \E k \in 1 .. Chunks : HeldChunks(srv') = HeldChunks(srv) \cup {k}
          /\ \E n \in Len(StreamOf(srv)) .. Chunks :
               1 .. n \subseteq HeldChunks(srv') /\ StreamOf(srv') = [i \in 1 .. n |-> i]
          /\ cli' = cli
      BY <2>4, ServerReceives
    <3>2. AckedBy(cli') = AckedBy(cli) BY <3>1
    <3>3. Transfer!Receive BY <2>1, <3>1, <3>2 DEF Transfer!Receive, Transfer!Prefix
    <3>. QED BY <3>3 DEF Transfer!Next
  <2>5. ASSUME NEW ready \in SUBSET {"stdout", "out", "in"}, ServerSelect(ready)
        PROVE  [Transfer!Next]_(Transfer!vars)
    <3>1. HeldChunks(srv') = HeldChunks(srv) /\ StreamOf(srv') = StreamOf(srv) /\ cli' = cli
      BY <2>0, <2>5, ServerSelectKeeps
    <3>. QED BY <2>1, <3>1 DEF Transfer!vars
  <2>6. ASSUME UNCHANGED <<cli, srv>> PROVE [Transfer!Next]_(Transfer!vars)
    BY <2>1, <2>6 DEF Transfer!vars
  <2>. QED BY <2>2, <2>3, <2>4, <2>5, <2>6 DEF Next, Lose, vars
<1>. QED BY <1>1, <1>2, <1>3, PTL DEF Spec, IsReliable, Transfer!Spec
=============================================================================
