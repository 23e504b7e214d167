----------------------------- MODULE FatekProofs -----------------------------
(***************************************************************************)
(* The relay's answers keep their order and lag behind the requests by no  *)
(* more than the waits given up, for any number of requests, any set of    *)
(* broken ones, any size of the buffer and any loss on the line.           *)
(*                                                                         *)
(* The two properties speak of what was sent back; they rest on the order  *)
(* of the pieces on their way (OrderInv), on the order of the requests     *)
(* (QueueInv) and on a count: of the requests older than one the PLC still *)
(* answers, at least as many were written as waits ended with a frame      *)
(* (LagInv).  The three hold together and are inductive with TypeOK.       *)
(***************************************************************************)
EXTENDS FatekRelay, TLAPS, FiniteSetTheorems, SequenceTheorems

\* What the code justifies: max_size is 512, the counts are finite.
Bounds == Requests \in Nat /\ MaxNoise \in Nat /\ Room \in Nat \ {0}

\* The pieces of the current answer: what an earlier wait has left in the buffer is
\* not looked at again.
Reading == IF relay = "response" THEN buf ELSE <<>>

\* The place of a piece in all that the PLC ever sends.
Rank(p) == CASE p.is = "STX" -> 0 [] p.is = "data" -> 1 [] OTHER -> 2
Key(p) == 3 * p.of.id + Rank(p)

Rising(s) == \A i, j \in DOMAIN s : i < j => Key(s[i]) < Key(s[j])
Precedes(s, t) == \A i \in DOMAIN s, j \in DOMAIN t : Key(s[i]) < Key(t[j])
Owed(s) == \A i \in DOMAIN s, j \in DOMAIN plc : s[i].of.id < plc[j].id

\* The requests with a piece, or the whole of an answer, still to be looked at.
Ids(s) == {s[i].of.id : i \in DOMAIN s}
Coming == Ids(Reading) \cup Ids(line) \cup Ids(wire) \cup {plc[i].id : i \in DOMAIN plc}

\* Requests whose wait ended with a frame.
Done == (forwarded \ givenUp) \ (IF relay = "response" THEN {request.id} ELSE {})
Before(x) == {k \in forwarded : k < x}

\* Requests are served in the order they arrived, and answered once.
QueueInv ==
  /\ request.id <= arrived
  /\ \A i \in DOMAIN inbox : request.id < inbox[i].id /\ inbox[i].id <= arrived
  /\ \A i, j \in DOMAIN inbox : i < j => inbox[i].id < inbox[j].id
  /\ \A k \in forwarded : k <= request.id
  /\ relay = "response" => request.id \in forwarded \ givenUp
  /\ \A n \in DOMAIN answers : /\ answers[n].to.id <= request.id
                               /\ relay = "response" => answers[n].to.id < request.id

\* All the pieces there are, from the buffer to the PLC, are in the PLC's order, and
\* newer than every answer sent back.
OrderInv ==
  /\ Rising(Reading) /\ Rising(line) /\ Rising(wire)
  /\ Precedes(Reading, line) /\ Precedes(Reading, wire) /\ Precedes(line, wire)
  /\ Owed(Reading) /\ Owed(line) /\ Owed(wire)
  /\ \A i, j \in DOMAIN plc : i < j => plc[i].id < plc[j].id
  /\ \A x \in Coming : x \in forwarded /\ \A n \in DOMAIN answers : answers[n].with.id < x

\* Every wait that ended with a frame took it from an older request.
LagInv == \A x \in Coming : Cardinality(Done) <= Cardinality(Before(x))

Inv == TypeOK /\ QueueInv /\ OrderInv /\ LagInv /\ AnswersInOrder /\ LagIsGivenUp

-----------------------------------------------------------------------------
\* A piece, its request and its key.
LEMMA PieceTypes ==
  ASSUME Bounds, NEW p \in Piece
  PROVE  /\ p.is \in {"STX", "data", "ETX"} /\ p.of \in Datagram
         /\ p.of.id \in Nat /\ p.of.id >= 1 /\ p.of.id <= Requests
         /\ Rank(p) \in 0 .. 2 /\ Key(p) \in Nat
<1>1. p.is \in {"STX", "data", "ETX"} /\ p.of \in Datagram BY DEF Piece
<1>2. p.of.id \in 1 .. Requests BY <1>1 DEF Datagram
<1>. QED BY <1>1, <1>2 DEF Bounds, Rank, Key

\* Keys order pieces first by request.
LEMMA KeyOrder ==
  ASSUME Bounds, NEW p \in Piece, NEW q \in Piece
  PROVE  /\ Key(p) < Key(q) => p.of.id <= q.of.id
         /\ p.of.id < q.of.id => Key(p) < Key(q)
         /\ p.is = "ETX" /\ Key(p) < Key(q) => p.of.id < q.of.id
<1>1. /\ Rank(p) \in 0 .. 2 /\ Rank(q) \in 0 .. 2 /\ p.of.id \in Nat /\ q.of.id \in Nat
  BY PieceTypes
<1>2. p.is = "ETX" => Rank(p) = 2 BY DEF Rank
<1>. QED BY <1>1, <1>2 DEF Key

\* TypeOK holds at the start.
LEMMA TypeInit == Bounds /\ Init => TypeOK
<1> SUFFICES ASSUME Bounds, Init PROVE TypeOK OBVIOUS
<1>1. <<>> \in Seq(Datagram) /\ <<>> \in Seq(Piece)
      /\ <<>> \in Seq([to : Datagram, with : Datagram]) /\ Len(<<>>) = 0
  BY EmptySeq
<1>2. /\ inbox = <<>> /\ arrived = 0 /\ relay = "idle" /\ request = no_request /\ buf = <<>>
      /\ line = <<>> /\ plc = <<>> /\ wire = <<>> /\ noise = 0 /\ stop = FALSE
      /\ forwarded = {} /\ givenUp = {} /\ answers = <<>>
  BY DEF Init
<1>3. arrived \in 0 .. Requests /\ noise \in 0 .. MaxNoise /\ 0 <= Room BY <1>2 DEF Bounds
<1>. QED BY <1>1, <1>2, <1>3 DEF TypeOK

\* A frame is STX, data, ETX of one datagram.
LEMMA FrameType ==
  ASSUME NEW d \in Datagram
  PROVE  /\ Frame(d) \in Seq(Piece) /\ Len(Frame(d)) = 3
         /\ \A i \in 1 .. 3 : Frame(d)[i].of = d
         /\ Frame(d)[1].is = "STX" /\ Frame(d)[2].is = "data" /\ Frame(d)[3].is = "ETX"
<1> DEFINE x == [is |-> "STX", of |-> d]
           y == [is |-> "data", of |-> d]
           z == [is |-> "ETX", of |-> d]
<1>1. x \in Piece /\ y \in Piece /\ z \in Piece BY DEF Piece
<1>2. Frame(d) = <<x, y, z>> BY DEF Frame
<1>3. x.is = "STX" /\ y.is = "data" /\ z.is = "ETX" /\ x.of = d /\ y.of = d /\ z.of = d
  OBVIOUS
<1>. HIDE DEF x, y, z
<1>. QED BY <1>1, <1>2, <1>3

\* Head, tail and the parts of a sequence.
LEMMA TailType ==
  ASSUME NEW S, NEW s \in Seq(S), s # <<>>
  PROVE  /\ Head(s) \in S /\ Head(s) = s[1] /\ Tail(s) \in Seq(S)
         /\ Len(s) \in Nat \ {0} /\ DOMAIN s = 1 .. Len(s)
         /\ Len(Tail(s)) = Len(s) - 1 /\ DOMAIN Tail(s) = 1 .. Len(s) - 1
         /\ \A i \in 1 .. Len(s) - 1 : Tail(s)[i] = s[i + 1]
  BY HeadTailProperties, LenProperties, EmptySeq

\* get_response appends to the buffer what fits of the line (main.cc 229-240): each
\* piece of Read is one of buf or one of the first Taken of the line.
LEMMA ReadParts ==
  ASSUME Bounds, TypeOK, line # <<>>
  PROVE  /\ Taken \in 0 .. Len(line) /\ Len(buf) + Taken <= Room
         /\ Read \in Seq(Piece) /\ Len(Read) = Len(buf) + Taken /\ Len(Read) \in Nat \ {0}
         /\ \A i \in 1 .. Len(Read) : \/ i <= Len(buf) /\ Read[i] = buf[i]
                                      \/ i > Len(buf) /\ Read[i] = line[i - Len(buf)]
         /\ SubSeq(line, Taken + 1, Len(line)) \in Seq(Piece)
         /\ DOMAIN SubSeq(line, Taken + 1, Len(line)) = 1 .. Len(line) - Taken
         /\ \A i \in 1 .. Len(line) - Taken :
              SubSeq(line, Taken + 1, Len(line))[i] = line[Taken + i]
         /\ DOMAIN Read = 1 .. Len(Read) /\ DOMAIN buf = 1 .. Len(buf) /\ DOMAIN line = 1 .. Len(line)
         /\ Len(buf) \in Nat /\ Len(line) \in Nat
<1> DEFINE t == Taken
           h == SubSeq(line, 1, t)
           r == SubSeq(line, t + 1, Len(line))
<1>1. /\ buf \in Seq(Piece) /\ line \in Seq(Piece) /\ Len(buf) \in Nat /\ Len(line) \in Nat \ {0}
      /\ Len(buf) <= Room /\ Room \in Nat \ {0}
      /\ DOMAIN buf = 1 .. Len(buf) /\ DOMAIN line = 1 .. Len(line)
  BY EmptySeq, LenProperties DEF TypeOK, Bounds
<1>2. t \in 0 .. Len(line) /\ Len(buf) + t <= Room /\ Len(buf) + t \in Nat \ {0}
  BY <1>1 DEF Taken, Smaller
<1>. HIDE DEF t
<1>3. /\ h \in Seq(Piece) /\ Len(h) = t /\ \A i \in 1 .. t : h[i] = line[i]
  BY <1>1, <1>2, SubSeqProperties
<1>4. /\ r \in Seq(Piece) /\ Len(r) = Len(line) - t
      /\ \A i \in 1 .. Len(line) - t : r[i] = line[t + i]
  <2>1. \A i \in t + 1 .. Len(line) : line[i] \in Piece BY <1>1, <1>2, ElementOfSeq
  <2>2. r \in Seq(Piece) /\ Len(r) = (IF t + 1 <= Len(line) THEN Len(line) - (t + 1) + 1 ELSE 0)
        /\ \A i \in 1 .. Len(line) - (t + 1) + 1 : r[i] = line[t + 1 + i - 1]
    BY <1>1, <1>2, <2>1, SubSeqProperties
  <2>3. Len(line) \in Nat /\ t \in Nat /\ t <= Len(line) BY <1>1, <1>2
  <2>4. Len(line) - (t + 1) + 1 = Len(line) - t
        /\ (IF t + 1 <= Len(line) THEN Len(line) - (t + 1) + 1 ELSE 0) = Len(line) - t
    BY <2>3
  <2>5. \A i \in 1 .. Len(line) - t : t + 1 + i - 1 = t + i BY <2>3
  <2>. HIDE DEF r
  <2>. QED BY <2>2, <2>4, <2>5
<1>. HIDE DEF h, r
<1>5. Read = buf \o h BY DEF Read, h, t
<1>6. /\ Read \in Seq(Piece) /\ Len(Read) = Len(buf) + t
      /\ \A i \in 1 .. Len(buf) + t :
           Read[i] = IF i <= Len(buf) THEN buf[i] ELSE h[i - Len(buf)]
  BY <1>1, <1>3, <1>5, ConcatProperties
<1>7. DOMAIN Read = 1 .. Len(Read) /\ DOMAIN r = 1 .. Len(r) BY <1>4, <1>6, LenProperties
<1>8. \A i \in 1 .. Len(Read) : \/ i <= Len(buf) /\ Read[i] = buf[i]
                                \/ i > Len(buf) /\ Read[i] = line[i - Len(buf)]
  <2>1. \A i \in 1 .. Len(buf) + t : i > Len(buf) => i - Len(buf) \in 1 .. t BY <1>1, <1>2
  <2>. QED BY <1>1, <1>2, <1>3, <1>6, <2>1
<1>. QED BY <1>1, <1>2, <1>4, <1>6, <1>7, <1>8 DEF r, t

\* Every step keeps TypeOK.
LEMMA TypeNext == Bounds /\ TypeOK /\ QueueInv /\ [Next]_vars => TypeOK'
<1> SUFFICES ASSUME Bounds, TypeOK, QueueInv, [Next]_vars PROVE TypeOK'
  OBVIOUS
<1>1. ASSUME NEW kind \in Kinds, Arrives(kind) PROVE TypeOK'
  <2>1. arrived + 1 \in 1 .. Requests BY <1>1 DEF Arrives, TypeOK, Bounds
  <2>2. [id |-> arrived + 1, kind |-> kind] \in Datagram BY <2>1 DEF Datagram
  <2>. QED BY <1>1, <2>1, <2>2, AppendProperties
       DEF Arrives, TypeOK, history, device
<1>2. ASSUME NEW reply \in BOOLEAN, PlcAnswers(reply) PROVE TypeOK'
  <2>1. Head(plc) \in Datagram /\ Tail(plc) \in Seq(Datagram)
    BY <1>2, TailType DEF PlcAnswers, TypeOK
  <2> DEFINE f == Frame(Head(plc))
  <2>2. f \in Seq(Piece) BY <2>1, FrameType
  <2>. HIDE DEF f
  <2>3. wire \o f \in Seq(Piece) BY <2>2, ConcatProperties DEF TypeOK
  <2>. QED BY <1>2, <2>1, <2>3 DEF PlcAnswers, TypeOK, clients, history, f
<1>3. ASSUME NEW lost \in BOOLEAN, Comes(lost) PROVE TypeOK'
  <2>1. Head(wire) \in Piece /\ Tail(wire) \in Seq(Piece) BY <1>3, TailType DEF Comes, TypeOK
  <2>2. Append(line, Head(wire)) \in Seq(Piece) BY <2>1, AppendProperties DEF TypeOK
  <2>3. noise' \in 0 .. MaxNoise BY <1>3 DEF Comes, TypeOK, Bounds
  <2>. QED BY <1>3, <2>1, <2>2, <2>3 DEF Comes, TypeOK, clients, history
<1>4. CASE Signal BY <1>4 DEF Signal, TypeOK, clients, device, history
<1>5. CASE Refuse
  <2>1. Head(inbox) \in Datagram /\ Tail(inbox) \in Seq(Datagram)
    BY <1>5, TailType DEF Refuse, TypeOK
  <2>. QED BY <1>5, <2>1 DEF Refuse, TypeOK, device, history
<1>6. ASSUME NEW written \in BOOLEAN, Forward(written) PROVE TypeOK'
  <2>1. Head(inbox) \in Datagram /\ Tail(inbox) \in Seq(Datagram) /\ Head(inbox).id \notin Broken
    BY <1>6, TailType DEF Forward, TypeOK
  <2>2. Head(inbox).id \in 1 .. Requests \ Broken BY <2>1 DEF Datagram
  <2>3. Append(plc, Head(inbox)) \in Seq(Datagram) BY <2>1, AppendProperties DEF TypeOK
  <2>4. <<>> \in Seq(Piece) /\ Len(<<>>) = 0 BY EmptySeq
  <2>5. Len(<<>>) <= Room BY <2>4 DEF Bounds
  <2>. HIDE DEF TypeOK
  <2>6. /\ inbox' = Tail(inbox) /\ request' = Head(inbox) /\ arrived' = arrived /\ line' = line
        /\ wire' = wire /\ noise' = noise /\ stop' = stop /\ givenUp' = givenUp /\ answers' = answers
        /\ \/ /\ relay' = "response" /\ buf' = <<>> /\ plc' = Append(plc, Head(inbox))
              /\ forwarded' = forwarded \cup {Head(inbox).id}
           \/ /\ relay' = relay /\ buf' = buf /\ plc' = plc /\ forwarded' = forwarded
    BY <1>6 DEF Forward
  <2>. QED BY <2>1, <2>2, <2>3, <2>4, <2>5, <2>6 DEF TypeOK
<1>7. CASE TimesOut
  BY <1>7 DEF TimesOut, GiveUp, TypeOK, QueueInv, clients, device
<1>8. ASSUME NEW sent \in BOOLEAN, ReadResponse(sent) PROVE TypeOK'
  <2>1. line # <<>> /\ relay = "response" BY <1>8 DEF ReadResponse
  <2>2. /\ Read \in Seq(Piece) /\ Len(Read) <= Room /\ Len(Read) \in Nat \ {0}
        /\ SubSeq(line, Taken + 1, Len(line)) \in Seq(Piece)
    BY <2>1, ReadParts
  <2>3. Head(Read).of \in Datagram
    <3>1. Read # <<>> BY <2>2
    <3>2. Head(Read) \in Piece BY <2>2, <3>1, TailType
    <3>. QED BY <3>2, PieceTypes
  <2> DEFINE a == [to |-> request, with |-> Head(Read).of]
  <2>4. request \in Datagram
    <3>1. request.id \in 1 .. Requests BY <2>1 DEF QueueInv, TypeOK
    <3>. QED BY <3>1 DEF TypeOK, no_request
  <2>5. Append(answers, a) \in Seq([to : Datagram, with : Datagram])
    BY <2>3, <2>4, AppendProperties DEF TypeOK
  <2>. HIDE DEF a
  <2>6. /\ line' = SubSeq(line, Taken + 1, Len(line))
        /\ inbox' = inbox /\ arrived' = arrived /\ request' = request /\ plc' = plc
        /\ wire' = wire /\ noise' = noise /\ stop' = stop /\ forwarded' = forwarded
        /\ \/ GiveUp
           \/ buf' = Read /\ UNCHANGED <<relay, givenUp, answers>>
           \/ Respond(Head(Read).of, sent)
    BY <1>8 DEF ReadResponse, clients, device
  <2>7. CASE GiveUp BY <2>1, <2>2, <2>6, <2>7 DEF GiveUp, TypeOK, QueueInv
  <2>8. CASE buf' = Read /\ UNCHANGED <<relay, givenUp, answers>>
    BY <2>2, <2>6, <2>8 DEF TypeOK
  <2>9. CASE Respond(Head(Read).of, sent)
    <3>1. answers' = Append(answers, a) \/ answers' = answers BY <2>9 DEF Respond, a
    <3>2. relay' = "idle" /\ givenUp' = givenUp /\ buf' = buf BY <2>9 DEF Respond
    <3>. QED BY <2>2, <2>5, <2>6, <3>1, <3>2 DEF TypeOK
  <2>. QED BY <2>6, <2>7, <2>8, <2>9
<1>9. CASE End BY <1>9 DEF End, TypeOK, clients, device, history
<1>10. CASE UNCHANGED vars BY <1>10 DEF vars, TypeOK, clients, device, history
<1>. QED BY <1>1, <1>2, <1>3, <1>4, <1>5, <1>6, <1>7, <1>8, <1>9, <1>10 DEF Next, Relay
-----------------------------------------------------------------------------
\* The members of a queue of datagrams.
LEMMA DatagramIds ==
  ASSUME Bounds, NEW s \in Seq(Datagram), NEW i \in DOMAIN s
  PROVE  s[i] \in Datagram /\ s[i].id \in 1 .. Requests /\ s[i].id \in Nat
<1>1. s[i] \in Datagram BY ElementOfSeq, LenProperties
<1>. QED BY <1>1 DEF Datagram, Bounds

\* The members of a queue of pieces.
LEMMA PieceIds ==
  ASSUME Bounds, NEW s \in Seq(Piece), NEW i \in DOMAIN s
  PROVE  s[i] \in Piece /\ s[i].of.id \in Nat /\ Key(s[i]) \in Nat
<1>1. s[i] \in Piece BY ElementOfSeq, LenProperties
<1>. QED BY <1>1, PieceTypes

\* The members of answers.
LEMMA AnswerIds ==
  ASSUME Bounds, TypeOK, NEW n \in DOMAIN answers
  PROVE  /\ answers[n] \in [to : Datagram, with : Datagram]
         /\ answers[n].to.id \in Nat /\ answers[n].with.id \in Nat
<1>1. answers \in Seq([to : Datagram, with : Datagram]) BY DEF TypeOK
<1>2. answers[n] \in [to : Datagram, with : Datagram] BY <1>1, ElementOfSeq, LenProperties
<1>. QED BY <1>2 DEF Datagram, Bounds

\* QueueInv holds at the start.
LEMMA QueueInit == Bounds /\ Init => QueueInv
<1> SUFFICES ASSUME Bounds, Init PROVE QueueInv OBVIOUS
<1>1. /\ inbox = <<>> /\ arrived = 0 /\ relay = "idle" /\ request.id = 0
      /\ forwarded = {} /\ answers = <<>>
  BY DEF Init, no_request
<1>2. DOMAIN inbox = {} /\ DOMAIN answers = {} BY <1>1
<1>. QED BY <1>1, <1>2 DEF QueueInv

\* The datagram at the head of the socket's queue is newer than all before.
LEMMA HeadIsNewer ==
  ASSUME Bounds, TypeOK, QueueInv, inbox # <<>>
  PROVE  /\ Head(inbox) \in Datagram /\ Head(inbox).id \in 1 .. Requests
         /\ Head(inbox).id <= arrived /\ request.id < Head(inbox).id
         /\ \A i \in DOMAIN Tail(inbox) :
              Head(inbox).id < Tail(inbox)[i].id /\ Tail(inbox)[i].id <= arrived
         /\ \A i, j \in DOMAIN Tail(inbox) : i < j => Tail(inbox)[i].id < Tail(inbox)[j].id
         /\ request.id \in Nat /\ arrived \in Nat
         /\ \A k \in forwarded : k \in Nat /\ k < Head(inbox).id
         /\ \A n \in DOMAIN answers : answers[n].to.id \in Nat /\ answers[n].to.id < Head(inbox).id
<1>1. inbox \in Seq(Datagram) BY DEF TypeOK
<1>2. /\ Head(inbox) \in Datagram /\ Head(inbox) = inbox[1] /\ Tail(inbox) \in Seq(Datagram)
      /\ Len(inbox) \in Nat \ {0} /\ DOMAIN inbox = 1 .. Len(inbox)
      /\ DOMAIN Tail(inbox) = 1 .. Len(inbox) - 1
      /\ \A i \in 1 .. Len(inbox) - 1 : Tail(inbox)[i] = inbox[i + 1]
  BY <1>1, TailType
<1>3. 1 \in DOMAIN inbox /\ \A i \in DOMAIN Tail(inbox) : i + 1 \in DOMAIN inbox /\ 1 < i + 1
  BY <1>2
<1>4. \A i, j \in DOMAIN Tail(inbox) : i < j => i + 1 < j + 1 BY <1>2
<1>5. request.id \in Nat /\ arrived \in Nat /\ Head(inbox).id \in 1 .. Requests
  BY <1>2 DEF TypeOK, Datagram, no_request, Bounds
<1>6. \A n \in DOMAIN answers : answers[n].to.id \in Nat
  <2> SUFFICES ASSUME NEW n \in DOMAIN answers PROVE answers[n].to.id \in Nat OBVIOUS
  <2>1. answers \in Seq([to : Datagram, with : Datagram]) BY DEF TypeOK
  <2>2. answers[n] \in [to : Datagram, with : Datagram] BY <2>1, ElementOfSeq, LenProperties
  <2>. QED BY <2>2 DEF Datagram, Bounds
<1>7. /\ inbox[1].id <= arrived /\ request.id < inbox[1].id
      /\ \A i \in DOMAIN inbox : inbox[i].id <= arrived
      /\ \A i, j \in DOMAIN inbox : i < j => inbox[i].id < inbox[j].id
      /\ \A k \in forwarded : k <= request.id
      /\ \A n \in DOMAIN answers : answers[n].to.id <= request.id
  BY <1>3 DEF QueueInv
<1>8. \A k \in forwarded : k \in Nat BY DEF TypeOK, Bounds
<1>9. \A k \in forwarded : k < Head(inbox).id BY <1>2, <1>5, <1>7, <1>8, Bounds DEF Bounds
<1>10. \A n \in DOMAIN answers : answers[n].to.id < Head(inbox).id
  BY <1>2, <1>5, <1>6, <1>7 DEF Bounds
<1>. QED BY <1>2, <1>3, <1>4, <1>5, <1>6, <1>7, <1>8, <1>9, <1>10

\* Every step keeps QueueInv.
LEMMA QueueNext == Bounds /\ TypeOK /\ QueueInv /\ [Next]_vars => QueueInv'
<1> SUFFICES ASSUME Bounds, TypeOK, QueueInv, [Next]_vars PROVE QueueInv'
  OBVIOUS
<1>1. ASSUME NEW kind \in Kinds, Arrives(kind) PROVE QueueInv'
  <2> DEFINE x == [id |-> arrived + 1, kind |-> kind]
  <2>1. x.id = arrived + 1 OBVIOUS
  <2>. HIDE DEF x
  <2>2. /\ arrived' = arrived + 1 /\ inbox' = Append(inbox, x)
        /\ UNCHANGED <<relay, request, forwarded, givenUp, answers>>
    BY <1>1 DEF Arrives, history, x
  <2>3. inbox \in Seq(Datagram) /\ arrived \in Nat /\ request.id \in Nat
    BY DEF TypeOK, Datagram, no_request, Bounds
  <2>4. Len(inbox) \in Nat /\ DOMAIN inbox = 1 .. Len(inbox) BY <2>3, LenProperties
  <2>5. DOMAIN inbox' = 1 .. Len(inbox) + 1 /\ inbox'[Len(inbox) + 1] = x
        /\ \A i \in DOMAIN inbox : inbox'[i] = inbox[i]
    BY <2>2, <2>3, <2>4
  <2>6. \A i \in DOMAIN inbox : inbox[i].id \in Nat /\ inbox[i].id <= arrived
    BY <2>3, DatagramIds DEF QueueInv
  <2>7. \A i \in DOMAIN inbox' : i \in DOMAIN inbox \/ i = Len(inbox) + 1 BY <2>4, <2>5
  <2>8. \A i \in DOMAIN inbox' : request.id < inbox'[i].id /\ inbox'[i].id <= arrived'
    BY <2>1, <2>2, <2>3, <2>5, <2>6, <2>7 DEF QueueInv
  <2>9. ASSUME NEW i \in DOMAIN inbox', NEW j \in DOMAIN inbox', i < j
        PROVE  inbox'[i].id < inbox'[j].id
    <3>1. i \in DOMAIN inbox BY <2>4, <2>5, <2>9
    <3>2. CASE j \in DOMAIN inbox BY <2>5, <2>9, <3>1, <3>2 DEF QueueInv
    <3>3. CASE j = Len(inbox) + 1 BY <2>1, <2>3, <2>5, <2>6, <3>1, <3>3
    <3>. QED BY <2>7, <3>2, <3>3
  <2>10. request.id <= arrived' BY <2>2, <2>3 DEF QueueInv
  <2>. QED BY <2>2, <2>8, <2>9, <2>10 DEF QueueInv
<1>2. ASSUME NEW reply \in BOOLEAN, PlcAnswers(reply) PROVE QueueInv'
  BY <1>2 DEF PlcAnswers, clients, history, QueueInv
<1>3. ASSUME NEW lost \in BOOLEAN, Comes(lost) PROVE QueueInv'
  BY <1>3 DEF Comes, clients, history, QueueInv
<1>4. CASE Signal BY <1>4 DEF Signal, clients, device, history, QueueInv
<1>5. CASE Refuse
  <2>1. /\ inbox # <<>> /\ relay = "idle"
        /\ inbox' = Tail(inbox) /\ request' = Head(inbox)
        /\ UNCHANGED <<arrived, relay, forwarded, givenUp, answers>>
    BY <1>5 DEF Refuse, history
  <2>. QED BY <2>1, HeadIsNewer DEF QueueInv
<1>6. ASSUME NEW written \in BOOLEAN, Forward(written) PROVE QueueInv'
  <2>1. /\ inbox # <<>> /\ relay = "idle"
        /\ inbox' = Tail(inbox) /\ request' = Head(inbox)
        /\ UNCHANGED <<arrived, givenUp, answers>>
        /\ \/ relay' = relay /\ forwarded' = forwarded
           \/ relay' = "response" /\ forwarded' = forwarded \cup {Head(inbox).id}
    BY <1>6 DEF Forward
  <2>2. Head(inbox).id \notin givenUp BY <2>1, HeadIsNewer DEF TypeOK
  <2>. QED BY <2>1, <2>2, HeadIsNewer DEF QueueInv
<1>7. CASE TimesOut
  BY <1>7 DEF TimesOut, GiveUp, QueueInv, clients
<1>8. ASSUME NEW sent \in BOOLEAN, ReadResponse(sent) PROVE QueueInv'
  <2>1. /\ relay = "response"
        /\ UNCHANGED <<inbox, arrived, request, forwarded>>
        /\ \/ relay' = "idle" /\ answers' = answers
           \/ UNCHANGED <<relay, givenUp, answers>>
           \/ relay' = "idle" /\ answers' = Append(answers, [to |-> request, with |-> Head(Read).of])
    BY <1>8 DEF ReadResponse, clients, GiveUp, Respond
  <2>2. CASE relay' = "idle" /\ answers' = answers BY <2>1, <2>2 DEF QueueInv
  <2>3. CASE UNCHANGED <<relay, givenUp, answers>> BY <2>1, <2>3 DEF QueueInv
  <2>4. CASE /\ relay' = "idle"
             /\ answers' = Append(answers, [to |-> request, with |-> Head(Read).of])
    <3> DEFINE a == [to |-> request, with |-> Head(Read).of]
    <3>1. a.to = request OBVIOUS
    <3>. HIDE DEF a
    <3>2. answers \in Seq([to : Datagram, with : Datagram]) BY DEF TypeOK
    <3>3. Len(answers) \in Nat /\ DOMAIN answers = 1 .. Len(answers) BY <3>2, LenProperties
    <3>4. answers' = Append(answers, a) BY <2>4 DEF a
    <3>5. \A n \in DOMAIN answers' : \/ n \in DOMAIN answers /\ answers'[n] = answers[n]
                                     \/ answers'[n] = a
      BY <3>2, <3>3, <3>4
    <3>6. request.id \in Nat BY DEF TypeOK, Datagram, no_request, Bounds
    <3>. QED BY <2>1, <2>4, <3>1, <3>5, <3>6 DEF QueueInv
  <2>. QED BY <2>1, <2>2, <2>3, <2>4
<1>9. CASE End BY <1>9 DEF End, clients, device, history, QueueInv
<1>10. CASE UNCHANGED vars BY <1>10 DEF vars, QueueInv, clients, device, history
<1>. QED BY <1>1, <1>2, <1>3, <1>4, <1>5, <1>6, <1>7, <1>8, <1>9, <1>10 DEF Next, Relay
-----------------------------------------------------------------------------
\* A frame put at the end of the wire: its keys are those of its datagram.
LEMMA FrameKeys ==
  ASSUME Bounds, NEW d \in Datagram
  PROVE  /\ Frame(d) \in Seq(Piece) /\ Len(Frame(d)) = 3 /\ DOMAIN Frame(d) = 1 .. 3
         /\ \A i \in 1 .. 3 : Frame(d)[i].of = d /\ Key(Frame(d)[i]) = 3 * d.id + i - 1
<1> DEFINE f == Frame(d)
<1>1. /\ f \in Seq(Piece) /\ Len(f) = 3 /\ \A i \in 1 .. 3 : f[i].of = d
      /\ f[1].is = "STX" /\ f[2].is = "data" /\ f[3].is = "ETX"
  BY FrameType
<1>. HIDE DEF f
<1>2. DOMAIN f = 1 .. 3 BY <1>1, LenProperties
<1>3. Rank(f[1]) = 0 /\ Rank(f[2]) = 1 /\ Rank(f[3]) = 2 BY <1>1 DEF Rank
<1>4. d.id \in Nat BY DEF Datagram, Bounds
<1>5. f[1].of = d /\ f[2].of = d /\ f[3].of = d BY <1>1
<1>6. Key(f[1]) = 3 * d.id + 1 - 1 /\ Key(f[2]) = 3 * d.id + 2 - 1 /\ Key(f[3]) = 3 * d.id + 3 - 1
  BY <1>3, <1>4, <1>5 DEF Key
<1>7. \A i \in 1 .. 3 : i = 1 \/ i = 2 \/ i = 3 OBVIOUS
<1>8. \A i \in 1 .. 3 : Key(f[i]) = 3 * d.id + i - 1 BY <1>6, <1>7
<1>. QED BY <1>1, <1>2, <1>8 DEF f

\* The four queues a piece passes, by type.
LEMMA ReadingType ==
  ASSUME TypeOK
  PROVE  Reading \in Seq(Piece) /\ line \in Seq(Piece) /\ wire \in Seq(Piece) /\ plc \in Seq(Datagram)
  BY EmptySeq DEF TypeOK, Reading

\* OrderInv and LagInv hold at the start: nothing comes.
LEMMA OrderInit == Bounds /\ Init => OrderInv /\ LagInv
<1> SUFFICES ASSUME Bounds, Init PROVE OrderInv /\ LagInv OBVIOUS
<1>1. line = <<>> /\ plc = <<>> /\ wire = <<>> /\ Reading = <<>> BY DEF Init, Reading
<1>2. DOMAIN line = {} /\ DOMAIN plc = {} /\ DOMAIN wire = {} /\ DOMAIN Reading = {} BY <1>1
<1>3. Coming = {} BY <1>2 DEF Coming, Ids
<1>. QED BY <1>2, <1>3 DEF OrderInv, LagInv, Rising, Precedes, Owed

\* All the relay reads at once follows the order, and so does what it leaves.
LEMMA ReadOrder ==
  ASSUME Bounds, TypeOK, OrderInv, relay = "response", line # <<>>,
         NEW rest, rest = SubSeq(line, Taken + 1, Len(line))
  PROVE  /\ Rising(Read) /\ Precedes(Read, rest) /\ Precedes(Read, wire) /\ Owed(Read)
         /\ Rising(rest) /\ Precedes(rest, wire) /\ Owed(rest)
         /\ Ids(Read) \cup Ids(rest) \subseteq Coming
<1>1. /\ Taken \in 0 .. Len(line) /\ Len(Read) = Len(buf) + Taken
      /\ \A i \in 1 .. Len(Read) : \/ i <= Len(buf) /\ Read[i] = buf[i]
                                   \/ i > Len(buf) /\ Read[i] = line[i - Len(buf)]
      /\ DOMAIN rest = 1 .. Len(line) - Taken
      /\ \A i \in 1 .. Len(line) - Taken : rest[i] = line[Taken + i]
      /\ DOMAIN Read = 1 .. Len(Read) /\ DOMAIN buf = 1 .. Len(buf) /\ DOMAIN line = 1 .. Len(line)
      /\ Len(buf) \in Nat /\ Len(line) \in Nat
  BY ReadParts
<1>2. Reading = buf BY DEF Reading
<1>3. /\ Rising(buf) /\ Rising(line) /\ Rising(wire)
      /\ Precedes(buf, line) /\ Precedes(buf, wire) /\ Precedes(line, wire)
      /\ Owed(buf) /\ Owed(line)
  BY <1>2 DEF OrderInv
<1>4. \A i \in DOMAIN Read : \/ i \in DOMAIN buf /\ Read[i] = buf[i]
                             \/ /\ i - Len(buf) \in DOMAIN line /\ i - Len(buf) <= Taken
                                /\ i > Len(buf) /\ Read[i] = line[i - Len(buf)]
  <2> SUFFICES ASSUME NEW i \in DOMAIN Read
               PROVE  \/ i \in DOMAIN buf /\ Read[i] = buf[i]
                      \/ /\ i - Len(buf) \in DOMAIN line /\ i - Len(buf) <= Taken
                         /\ i > Len(buf) /\ Read[i] = line[i - Len(buf)]
    OBVIOUS
  <2> DEFINE lb == Len(buf)
             ll == Len(line)
             t == Taken
  <2>0. lb \in Nat /\ ll \in Nat /\ t \in 0 .. ll BY <1>1
  <2>1. i \in 1 .. lb + t BY <1>1
  <2>2. DOMAIN buf = 1 .. lb /\ DOMAIN line = 1 .. ll BY <1>1
  <2>3. \/ i <= lb /\ Read[i] = buf[i]
        \/ i > lb /\ Read[i] = line[i - lb]
    BY <1>1
  <2>. HIDE DEF lb, ll, t
  <2>4. i <= lb => i \in 1 .. lb BY <2>0, <2>1
  <2>5. i > lb => i - lb \in 1 .. ll /\ i - lb <= t BY <2>0, <2>1
  <2>6. CASE i <= lb /\ Read[i] = buf[i] BY <2>2, <2>4, <2>6 DEF lb
  <2>7. CASE i > lb /\ Read[i] = line[i - lb] BY <2>2, <2>5, <2>7 DEF lb, t
  <2>. QED BY <2>3, <2>6, <2>7
<1>5. \A i \in DOMAIN rest : /\ i \in Nat /\ Taken + i \in DOMAIN line /\ Taken + i > Taken
                             /\ rest[i] = line[Taken + i]
  BY <1>1
<1>6. Rising(Read)
  <2> SUFFICES ASSUME NEW i \in DOMAIN Read, NEW j \in DOMAIN Read, i < j
               PROVE  Key(Read[i]) < Key(Read[j])
    BY DEF Rising
  <2>0. i \in Int /\ j \in Int /\ Len(buf) \in Int BY <1>1
  <2>1. CASE i \in DOMAIN buf /\ Read[i] = buf[i] /\ j \in DOMAIN buf /\ Read[j] = buf[j]
    BY <1>3, <2>1 DEF Rising
  <2>2. CASE /\ i \in DOMAIN buf /\ Read[i] = buf[i]
             /\ j - Len(buf) \in DOMAIN line /\ Read[j] = line[j - Len(buf)]
    BY <1>3, <2>2 DEF Precedes
  <2>3. CASE /\ i - Len(buf) \in DOMAIN line /\ Read[i] = line[i - Len(buf)] /\ i > Len(buf)
             /\ j - Len(buf) \in DOMAIN line /\ Read[j] = line[j - Len(buf)]
    <3>1. i - Len(buf) < j - Len(buf) BY <2>0
    <3>. QED BY <1>3, <2>3, <3>1 DEF Rising
  <2>4. ~ (i > Len(buf) /\ j \in DOMAIN buf) BY <1>1, <2>0
  <2>. QED BY <1>4, <2>1, <2>2, <2>3, <2>4
<1>7. Precedes(Read, rest)
  <2> SUFFICES ASSUME NEW i \in DOMAIN Read, NEW j \in DOMAIN rest
               PROVE  Key(Read[i]) < Key(rest[j])
    BY DEF Precedes
  <2>1. CASE i \in DOMAIN buf /\ Read[i] = buf[i] BY <1>3, <1>5, <2>1 DEF Precedes
  <2>2. CASE /\ i - Len(buf) \in DOMAIN line /\ i - Len(buf) <= Taken
             /\ Read[i] = line[i - Len(buf)]
    <3>1. i - Len(buf) < Taken + j /\ Taken + j \in DOMAIN line /\ rest[j] = line[Taken + j]
      BY <1>1, <1>5, <2>2
    <3>. QED BY <1>3, <2>2, <3>1 DEF Rising
  <2>. QED BY <1>4, <2>1, <2>2
<1>8. Precedes(Read, wire) /\ Owed(Read) /\ Ids(Read) \subseteq Coming
  <2>1. \A i \in DOMAIN Read : (\E j \in DOMAIN buf : Read[i] = buf[j])
                               \/ (\E j \in DOMAIN line : Read[i] = line[j])
    BY <1>4
  <2>2. Precedes(Read, wire) BY <1>3, <2>1 DEF Precedes
  <2>3. Owed(Read) BY <1>3, <2>1 DEF Owed
  <2>4. Ids(Read) \subseteq Coming BY <1>2, <2>1 DEF Coming, Ids
  <2>. QED BY <2>2, <2>3, <2>4
<1>9. Precedes(rest, wire) /\ Owed(rest) /\ Ids(rest) \subseteq Coming
  <2>1. \A i \in DOMAIN rest : \E j \in DOMAIN line : rest[i] = line[j] BY <1>5
  <2>2. Precedes(rest, wire) BY <1>3, <2>1 DEF Precedes
  <2>3. Owed(rest) BY <1>3, <2>1 DEF Owed
  <2>4. \A i \in DOMAIN rest : rest[i].of.id \in Ids(line) BY <2>1 DEF Ids
  <2>5. Ids(rest) \subseteq Ids(line) BY <2>4 DEF Ids
  <2>6. Ids(rest) \subseteq Coming BY <2>5 DEF Coming
  <2>. QED BY <2>2, <2>3, <2>6
<1>10. Rising(rest)
  <2> SUFFICES ASSUME NEW i \in DOMAIN rest, NEW j \in DOMAIN rest, i < j
               PROVE  Key(rest[i]) < Key(rest[j])
    BY DEF Rising
  <2>1. Taken + i < Taken + j BY <1>1, <1>5
  <2>. QED BY <1>3, <1>5, <2>1 DEF Rising
<1>. QED BY <1>6, <1>7, <1>8, <1>9, <1>10
-----------------------------------------------------------------------------
\* What is left when the wait ends, or when nothing is done with the pieces.
LEMMA OrderKept ==
  ASSUME OrderInv, UNCHANGED <<line, wire, plc, forwarded, answers>>,
         Reading' = Reading \/ Reading' = <<>>
  PROVE  OrderInv' /\ Coming' \subseteq Coming
<1>1. CASE Reading' = Reading
  BY <1>1 DEF OrderInv, Rising, Precedes, Owed, Coming, Ids
<1>2. CASE Reading' = <<>>
  <2>1. DOMAIN Reading' = {} BY <1>2
  <2>2. Coming' \subseteq Coming BY <2>1 DEF Coming, Ids
  <2>3. Rising(line)' /\ Rising(wire)' /\ Precedes(line, wire)' /\ Owed(line)' /\ Owed(wire)'
    BY DEF OrderInv, Rising, Precedes, Owed
  <2>4. /\ Rising(Reading)' /\ Precedes(Reading, line)' /\ Precedes(Reading, wire)'
        /\ Owed(Reading)'
    BY <2>1 DEF Rising, Precedes, Owed
  <2>. QED BY <2>2, <2>3, <2>4 DEF OrderInv
<1>. QED BY <1>1, <1>2

\* An answer goes to the end of the wire, behind all that was sent before.
LEMMA OrderPlcAnswers ==
  ASSUME Bounds, TypeOK, OrderInv, NEW reply \in BOOLEAN, PlcAnswers(reply)
  PROVE  OrderInv' /\ Coming' \subseteq Coming
<1> DEFINE d == Head(plc)
           f == Frame(Head(plc))
<1>1. /\ plc # <<>> /\ plc' = Tail(plc)
      /\ UNCHANGED <<relay, buf, line, forwarded, answers>>
      /\ wire' = wire \/ wire' = wire \o f
  BY DEF PlcAnswers, history
<1>2. /\ plc \in Seq(Datagram) /\ Reading \in Seq(Piece) /\ line \in Seq(Piece) /\ wire \in Seq(Piece)
  BY ReadingType
<1>3. /\ d \in Datagram /\ d = plc[1] /\ Len(plc) \in Nat \ {0} /\ DOMAIN plc = 1 .. Len(plc)
      /\ DOMAIN Tail(plc) = 1 .. Len(plc) - 1
      /\ \A i \in 1 .. Len(plc) - 1 : Tail(plc)[i] = plc[i + 1]
  BY <1>1, <1>2, TailType
<1>4. /\ f \in Seq(Piece) /\ Len(f) = 3 /\ DOMAIN f = 1 .. 3
      /\ \A i \in 1 .. 3 : f[i].of = d /\ Key(f[i]) = 3 * d.id + i - 1
  BY <1>3, FrameKeys
<1>5. d.id \in Nat BY <1>3 DEF Datagram, Bounds
<1>. HIDE DEF d, f
<1>6. 1 \in DOMAIN plc /\ \A i \in DOMAIN plc' : i \in Nat /\ i + 1 \in DOMAIN plc /\ 1 < i + 1 /\ plc'[i] = plc[i + 1]
  BY <1>1, <1>3
<1>7. Reading' = Reading BY <1>1 DEF Reading
<1>8. \A i, j \in DOMAIN plc' : i < j => plc'[i].id < plc'[j].id
  <2>1. \A i, j \in DOMAIN plc' : i < j => i + 1 < j + 1 BY <1>6
  <2>. QED BY <1>6, <2>1 DEF OrderInv
<1>9. \A i \in DOMAIN plc' : d.id < plc'[i].id BY <1>3, <1>6 DEF OrderInv
\* All the pieces there are come before the answer.
<1>10. ASSUME NEW s \in Seq(Piece), Owed(s)
       PROVE  Precedes(s, f) /\ Owed(s)'
  <2>1. Owed(s)' BY <1>6, <1>10 DEF Owed
  <2>2. ASSUME NEW i \in DOMAIN s, NEW j \in DOMAIN f PROVE Key(s[i]) < Key(f[j])
    <3>1. s[i] \in Piece /\ s[i].of.id \in Nat BY PieceIds
    <3>2. Rank(s[i]) \in 0 .. 2 /\ Key(s[i]) = 3 * s[i].of.id + Rank(s[i])
      BY <3>1, PieceTypes DEF Key
    <3>3. s[i].of.id < d.id BY <1>3, <1>6, <1>10 DEF Owed
    <3>4. j \in 1 .. 3 /\ Key(f[j]) = 3 * d.id + j - 1 BY <1>4
    <3>. QED BY <1>5, <3>1, <3>2, <3>3, <3>4
  <2>. QED BY <2>1, <2>2 DEF Precedes
<1>11. /\ Owed(Reading) /\ Owed(line) /\ Owed(wire) /\ Rising(Reading) /\ Rising(line) /\ Rising(wire)
       /\ Precedes(Reading, line) /\ Precedes(Reading, wire) /\ Precedes(line, wire)
  BY DEF OrderInv
<1>12. /\ Precedes(Reading, f) /\ Precedes(line, f) /\ Precedes(wire, f)
       /\ Owed(Reading)' /\ Owed(line)'
  <2>1. Precedes(Reading, f) /\ Precedes(line, f) /\ Precedes(wire, f) BY <1>2, <1>10, <1>11
  <2>2. Owed(Reading)' BY <1>6, <1>7, <1>11 DEF Owed
  <2>3. Owed(line)' BY <1>1, <1>6, <1>11 DEF Owed
  <2>. QED BY <2>1, <2>2, <2>3
<1>13. DOMAIN wire = 1 .. Len(wire) /\ Len(wire) \in Nat BY <1>2, LenProperties
<1>14. \A i \in DOMAIN wire' : \/ i \in DOMAIN wire /\ wire'[i] = wire[i]
                               \/ /\ i \notin DOMAIN wire /\ i - Len(wire) \in DOMAIN f
                                  /\ wire'[i] = f[i - Len(wire)] /\ i > Len(wire)
  <2>1. CASE wire' = wire BY <2>1
  <2>2. CASE wire' = wire \o f
    <3>1. /\ wire' \in Seq(Piece) /\ Len(wire') = Len(wire) + 3
          /\ \A i \in 1 .. Len(wire) + 3 :
               wire'[i] = IF i <= Len(wire) THEN wire[i] ELSE f[i - Len(wire)]
      <4>1. Len(f) = 3 BY <1>4
      <4>2. /\ wire \o f \in Seq(Piece) /\ Len(wire \o f) = Len(wire) + Len(f)
            /\ \A i \in 1 .. Len(wire) + Len(f) :
                 (wire \o f)[i] = IF i <= Len(wire) THEN wire[i] ELSE f[i - Len(wire)]
        BY <1>2, <1>4, ConcatProperties
      <4>. QED BY <2>2, <4>1, <4>2
    <3>2. DOMAIN wire' = 1 .. Len(wire) + 3 BY <3>1, LenProperties
    <3>3. \A i \in 1 .. Len(wire) + 3 : \/ i \in 1 .. Len(wire) /\ i <= Len(wire)
                                        \/ /\ i \notin 1 .. Len(wire) /\ ~ (i <= Len(wire))
                                           /\ i > Len(wire) /\ i - Len(wire) \in 1 .. 3
      BY <1>13
    <3>. QED BY <1>4, <1>13, <3>1, <3>2, <3>3
  <2>. QED BY <1>1, <2>1, <2>2
<1>15. \A i \in DOMAIN wire' : i \in Int
  <2>1. wire' \in Seq(Piece) BY <1>1, <1>2, <1>4, ConcatProperties
  <2>. QED BY <2>1, LenProperties
<1>16. Rising(wire')
  <2> SUFFICES ASSUME NEW i \in DOMAIN wire', NEW j \in DOMAIN wire', i < j
               PROVE  Key(wire'[i]) < Key(wire'[j])
    BY DEF Rising
  <2>1. CASE i \in DOMAIN wire /\ wire'[i] = wire[i] /\ j \in DOMAIN wire /\ wire'[j] = wire[j]
    BY <1>11, <2>1 DEF Rising
  <2>2. CASE /\ i \in DOMAIN wire /\ wire'[i] = wire[i]
             /\ j - Len(wire) \in DOMAIN f /\ wire'[j] = f[j - Len(wire)]
    BY <1>12, <2>2 DEF Precedes
  <2>3. CASE /\ i - Len(wire) \in DOMAIN f /\ wire'[i] = f[i - Len(wire)]
             /\ j - Len(wire) \in DOMAIN f /\ wire'[j] = f[j - Len(wire)]
    <3> DEFINE a == i - Len(wire)
               b == j - Len(wire)
    <3>1. a < b /\ a \in 1 .. 3 /\ b \in 1 .. 3 BY <1>4, <1>13, <1>15, <2>3
    <3>2. wire'[i] = f[a] /\ wire'[j] = f[b] BY <2>3
    <3>. HIDE DEF a, b
    <3>3. Key(f[a]) = 3 * d.id + a - 1 /\ Key(f[b]) = 3 * d.id + b - 1 BY <1>4, <3>1
    <3>4. Key(f[a]) < Key(f[b]) BY <1>5, <3>1, <3>3
    <3>. QED BY <3>2, <3>4
  <2>4. ~ (i \notin DOMAIN wire /\ i > Len(wire) /\ j \in DOMAIN wire) BY <1>13, <1>15
  <2>. QED BY <1>14, <2>1, <2>2, <2>3, <2>4
<1>17. Precedes(Reading, wire') /\ Precedes(line, wire')
  BY <1>11, <1>12, <1>14 DEF Precedes
<1>18. Owed(wire)'
  <2> SUFFICES ASSUME NEW i \in DOMAIN wire', NEW j \in DOMAIN plc'
               PROVE  wire'[i].of.id < plc'[j].id
    BY DEF Owed
  <2>1. CASE i \in DOMAIN wire /\ wire'[i] = wire[i] BY <1>6, <1>11, <2>1 DEF Owed
  <2>2. CASE i - Len(wire) \in DOMAIN f /\ wire'[i] = f[i - Len(wire)]
    <3>1. wire'[i].of = d BY <1>4, <2>2
    <3>. QED BY <1>9, <3>1
  <2>. QED BY <1>14, <2>1, <2>2
<1>19. Coming' \subseteq Coming
  <2>1. Ids(Reading)' = Ids(Reading) /\ Ids(line)' = Ids(line) BY <1>1, <1>7 DEF Ids
  <2>2. \A i \in DOMAIN wire' : wire'[i].of.id \in Ids(wire) \cup {plc[j].id : j \in DOMAIN plc}
    <3> SUFFICES ASSUME NEW i \in DOMAIN wire'
                 PROVE  wire'[i].of.id \in Ids(wire) \cup {plc[j].id : j \in DOMAIN plc}
      OBVIOUS
    <3>1. CASE i \in DOMAIN wire /\ wire'[i] = wire[i] BY <3>1 DEF Ids
    <3>2. CASE i - Len(wire) \in DOMAIN f /\ wire'[i] = f[i - Len(wire)]
      <4>1. wire'[i].of.id = plc[1].id BY <1>3, <1>4, <3>2
      <4>. QED BY <1>6, <4>1
    <3>. QED BY <1>14, <3>1, <3>2
  <2>3. Ids(wire)' \subseteq Ids(wire) \cup {plc[j].id : j \in DOMAIN plc} BY <2>2 DEF Ids
  <2>4. {plc[j].id : j \in DOMAIN plc}' \subseteq {plc[j].id : j \in DOMAIN plc} BY <1>6
  <2>. QED BY <2>1, <2>3, <2>4 DEF Coming
<1>20. \A x \in Coming' : x \in forwarded' /\ \A n \in DOMAIN answers' : answers'[n].with.id < x
  BY <1>1, <1>19 DEF OrderInv
<1>21. /\ Rising(Reading)' /\ Rising(line)' /\ Rising(wire)'
       /\ Precedes(Reading, line)' /\ Precedes(Reading, wire)' /\ Precedes(line, wire)'
  BY <1>1, <1>7, <1>11, <1>16, <1>17 DEF Rising, Precedes
<1>. QED BY <1>8, <1>12, <1>18, <1>19, <1>20, <1>21 DEF OrderInv

\* A piece comes over the wire or is lost: no two change places.
LEMMA OrderComes ==
  ASSUME Bounds, TypeOK, OrderInv, NEW lost \in BOOLEAN, Comes(lost)
  PROVE  OrderInv' /\ Coming' \subseteq Coming
<1>1. /\ wire # <<>> /\ wire' = Tail(wire)
      /\ line' = line \/ line' = Append(line, Head(wire))
      /\ UNCHANGED <<relay, buf, plc, forwarded, answers>>
  BY DEF Comes, history
<1>2. Reading \in Seq(Piece) /\ line \in Seq(Piece) /\ wire \in Seq(Piece) BY ReadingType
<1>3. /\ Head(wire) = wire[1] /\ Len(wire) \in Nat \ {0} /\ DOMAIN wire = 1 .. Len(wire)
      /\ DOMAIN Tail(wire) = 1 .. Len(wire) - 1
      /\ \A i \in 1 .. Len(wire) - 1 : Tail(wire)[i] = wire[i + 1]
  BY <1>1, <1>2, TailType
<1>4. /\ 1 \in DOMAIN wire
      /\ \A i \in DOMAIN wire' : i \in Nat /\ i + 1 \in DOMAIN wire /\ 1 < i + 1 /\ wire'[i] = wire[i + 1]
  BY <1>1, <1>3
<1>5. DOMAIN line = 1 .. Len(line) /\ Len(line) \in Nat BY <1>2, LenProperties
<1>6. \A i \in DOMAIN line' : \/ i \in DOMAIN line /\ line'[i] = line[i]
                              \/ i = Len(line) + 1 /\ line'[i] = wire[1]
  <2>1. CASE line' = line BY <2>1
  <2>2. CASE line' = Append(line, wire[1])
    <3>1. DOMAIN line' = 1 .. Len(line) + 1 /\ line'[Len(line) + 1] = wire[1]
          /\ \A i \in 1 .. Len(line) : line'[i] = line[i]
      BY <1>2, <1>5, <2>2
    <3>. QED BY <1>5, <3>1
  <2>. QED BY <1>1, <1>3, <2>1, <2>2
<1>7. Reading' = Reading BY <1>1 DEF Reading
<1>8. /\ Owed(Reading) /\ Owed(line) /\ Owed(wire) /\ Rising(Reading) /\ Rising(line) /\ Rising(wire)
      /\ Precedes(Reading, line) /\ Precedes(Reading, wire) /\ Precedes(line, wire)
  BY DEF OrderInv
<1>9. Rising(wire')
  <2>1. \A i, j \in DOMAIN wire' : i < j => i + 1 < j + 1 BY <1>4
  <2>. QED BY <1>4, <1>8, <2>1 DEF Rising
<1>10. Rising(line')
  <2> SUFFICES ASSUME NEW i \in DOMAIN line', NEW j \in DOMAIN line', i < j
               PROVE  Key(line'[i]) < Key(line'[j])
    BY DEF Rising
  <2>1. CASE i \in DOMAIN line /\ line'[i] = line[i] /\ j \in DOMAIN line /\ line'[j] = line[j]
    BY <1>8, <2>1 DEF Rising
  <2>2. CASE i \in DOMAIN line /\ line'[i] = line[i] /\ line'[j] = wire[1]
    BY <1>4, <1>8, <2>2 DEF Precedes
  <2>3. CASE i = Len(line) + 1
    <3>1. j \notin DOMAIN line /\ j # Len(line) + 1 BY <1>5, <2>3
    <3>. QED BY <1>6, <3>1
  <2>. QED BY <1>6, <2>1, <2>2, <2>3
<1>11. Precedes(Reading, line') /\ Precedes(Reading, wire') BY <1>4, <1>6, <1>8 DEF Precedes
<1>12. Precedes(line', wire')
  <2> SUFFICES ASSUME NEW i \in DOMAIN line', NEW j \in DOMAIN wire'
               PROVE  Key(line'[i]) < Key(wire'[j])
    BY DEF Precedes
  <2>1. CASE i \in DOMAIN line /\ line'[i] = line[i] BY <1>4, <1>8, <2>1 DEF Precedes
  <2>2. CASE line'[i] = wire[1] BY <1>4, <1>8, <2>2 DEF Rising
  <2>. QED BY <1>6, <2>1, <2>2
<1>13. Owed(wire)' BY <1>1, <1>4, <1>8 DEF Owed
<1>14. Owed(line)' BY <1>1, <1>4, <1>6, <1>8 DEF Owed
<1>15. Owed(Reading)' BY <1>1, <1>7, <1>8 DEF Owed
<1>16. Coming' \subseteq Coming
  <2>1. Ids(Reading)' = Ids(Reading) BY <1>7 DEF Ids
  <2>2. Ids(wire)' \subseteq Ids(wire) BY <1>4 DEF Ids
  <2>3. Ids(line)' \subseteq Ids(line) \cup Ids(wire)
    <3>1. wire[1].of.id \in Ids(wire) BY <1>4 DEF Ids
    <3>. QED BY <1>6, <3>1 DEF Ids
  <2>4. {plc[j].id : j \in DOMAIN plc}' = {plc[j].id : j \in DOMAIN plc} BY <1>1
  <2>. QED BY <2>1, <2>2, <2>3, <2>4 DEF Coming
<1>17. \A x \in Coming' : x \in forwarded' /\ \A n \in DOMAIN answers' : answers'[n].with.id < x
  BY <1>1, <1>16 DEF OrderInv
<1>18. \A i, j \in DOMAIN plc' : i < j => plc'[i].id < plc'[j].id BY <1>1 DEF OrderInv
<1>19. /\ Rising(Reading)' /\ Rising(line)' /\ Rising(wire)'
       /\ Precedes(Reading, line)' /\ Precedes(Reading, wire)' /\ Precedes(line, wire)'
  BY <1>7, <1>8, <1>9, <1>10, <1>11, <1>12 DEF Rising, Precedes
<1>. QED BY <1>13, <1>14, <1>15, <1>16, <1>17, <1>18, <1>19 DEF OrderInv
\* A request written is newer than all there is.
LEMMA OrderForward ==
  ASSUME Bounds, TypeOK, QueueInv, OrderInv, AnswersInOrder, NEW written \in BOOLEAN, Forward(written)
  PROVE  /\ OrderInv'
         /\ \/ Coming' \subseteq Coming /\ UNCHANGED <<relay, forwarded>>
            \/ /\ Coming' \subseteq Coming \cup {request'.id}
               /\ relay' = "response" /\ forwarded' = forwarded \cup {request'.id}
<1> DEFINE h == Head(inbox)
<1>1. /\ inbox # <<>> /\ relay = "idle" /\ request' = h
      /\ UNCHANGED <<line, wire, answers>>
      /\ \/ UNCHANGED <<relay, buf, plc, forwarded>>
         \/ /\ relay' = "response" /\ buf' = <<>> /\ plc' = Append(plc, h)
            /\ forwarded' = forwarded \cup {h.id}
  BY DEF Forward
<1>2. /\ h \in Datagram /\ h.id \in Nat
      /\ \A k \in forwarded : k \in Nat /\ k < h.id
      /\ \A n \in DOMAIN answers : answers[n].to.id \in Nat /\ answers[n].to.id < h.id
  BY <1>1, HeadIsNewer
<1>. HIDE DEF h
<1>3. Reading = <<>> BY <1>1 DEF Reading
<1>4. CASE UNCHANGED <<relay, buf, plc, forwarded>>
  <2>1. Reading' = <<>> BY <1>1, <1>4 DEF Reading
  <2>. QED BY <1>1, <1>4, <2>1, OrderKept
<1>5. CASE /\ relay' = "response" /\ buf' = <<>> /\ plc' = Append(plc, h)
           /\ forwarded' = forwarded \cup {h.id}
  <2>1. Reading' = <<>> /\ DOMAIN Reading' = {} BY <1>5 DEF Reading
  <2>2. /\ plc \in Seq(Datagram) /\ line \in Seq(Piece) /\ wire \in Seq(Piece) BY ReadingType
  <2>3. Len(plc) \in Nat /\ DOMAIN plc = 1 .. Len(plc) BY <2>2, LenProperties
  <2>4. DOMAIN plc' = 1 .. Len(plc) + 1 /\ plc'[Len(plc) + 1] = h
        /\ \A i \in 1 .. Len(plc) : plc'[i] = plc[i]
    BY <1>5, <2>2, <2>3
  <2>5. \A i \in DOMAIN plc' : \/ i \in DOMAIN plc /\ plc'[i] = plc[i]
                               \/ i = Len(plc) + 1 /\ plc'[i] = h
    BY <2>3, <2>4
  <2>6. \A x \in Coming : x \in Nat /\ x < h.id BY <1>2 DEF OrderInv
  <2>7. ASSUME NEW i \in DOMAIN plc', NEW j \in DOMAIN plc', i < j
        PROVE  plc'[i].id < plc'[j].id
    <3>1. i \in DOMAIN plc /\ plc'[i] = plc[i] BY <2>3, <2>4, <2>7
    <3>2. CASE j \in DOMAIN plc /\ plc'[j] = plc[j] BY <2>7, <3>1, <3>2 DEF OrderInv
    <3>3. CASE plc'[j] = h
      <4>1. plc[i].id \in Coming BY <3>1 DEF Coming
      <4>. QED BY <2>6, <3>1, <3>3, <4>1
    <3>. QED BY <2>5, <3>2, <3>3
  <2>8. ASSUME NEW s, \A i \in DOMAIN s : s[i].of.id \in Coming, Owed(s)
        PROVE  \A i \in DOMAIN s, j \in DOMAIN plc' : s[i].of.id < plc'[j].id
    BY <2>5, <2>6, <2>8 DEF Owed
  <2>9. \A i \in DOMAIN line : line[i].of.id \in Coming BY DEF Coming, Ids
  <2>10. \A i \in DOMAIN wire : wire[i].of.id \in Coming BY DEF Coming, Ids
  <2>11. Owed(line) /\ Owed(wire) BY DEF OrderInv
  <2>12. Owed(line)' /\ Owed(wire)' BY <1>1, <2>8, <2>9, <2>10, <2>11 DEF Owed
  <2>13. /\ Rising(Reading)' /\ Precedes(Reading, line)' /\ Precedes(Reading, wire)'
         /\ Owed(Reading)'
    BY <2>1 DEF Rising, Precedes, Owed
  <2>14. Rising(line)' /\ Rising(wire)' /\ Precedes(line, wire)'
    BY <1>1 DEF OrderInv, Rising, Precedes
  <2>15. Coming' \subseteq Coming \cup {h.id}
    <3>1. Ids(Reading)' = {} BY <2>1 DEF Ids
    <3>2. Ids(line)' = Ids(line) /\ Ids(wire)' = Ids(wire) BY <1>1 DEF Ids
    <3>3. {plc[j].id : j \in DOMAIN plc}' \subseteq {plc[j].id : j \in DOMAIN plc} \cup {h.id}
      BY <2>5
    <3>. QED BY <3>1, <3>2, <3>3 DEF Coming
  <2>16. ASSUME NEW n \in DOMAIN answers PROVE answers[n].with.id < h.id
    <3>1. answers[n].with.id <= answers[n].to.id BY DEF AnswersInOrder
    <3>2. answers[n].with.id \in Nat /\ answers[n].to.id \in Nat BY AnswerIds
    <3>. QED BY <1>2, <3>1, <3>2
  <2>17. \A x \in Coming' : x \in forwarded' /\ \A n \in DOMAIN answers' : answers'[n].with.id < x
    BY <1>1, <1>5, <2>15, <2>16 DEF OrderInv
  <2>. QED BY <1>1, <1>5, <2>7, <2>12, <2>13, <2>14, <2>15, <2>17 DEF OrderInv
<1>. QED BY <1>1, <1>4, <1>5

\* What a read does to the order: when a frame is taken, all that comes is newer.
LEMMA OrderReads ==
  ASSUME Bounds, TypeOK, OrderInv, NEW sent \in BOOLEAN, ReadResponse(sent)
  PROVE  /\ OrderInv' /\ Coming' \subseteq Coming
         /\ \/ GiveUp
            \/ UNCHANGED <<relay, givenUp, answers>>
            \/ /\ Respond(Head(Read).of, sent)
               /\ Head(Read).of \in Datagram /\ Head(Read).of.id \in Coming
               /\ \A x \in Coming' : Head(Read).of.id < x
<1> DEFINE rest == SubSeq(line, Taken + 1, Len(line))
           R == Read
           d == Head(Read).of
<1>1. /\ relay = "response" /\ line # <<>> /\ line' = rest
      /\ UNCHANGED <<wire, plc, forwarded, request>>
      /\ \/ GiveUp
         \/ buf' = R /\ UNCHANGED <<relay, givenUp, answers>>
         \/ Parses(R) /\ Respond(d, sent)
  BY DEF ReadResponse, device
<1>2. /\ Rising(R) /\ Precedes(R, rest) /\ Precedes(R, wire) /\ Owed(R)
      /\ Rising(rest) /\ Precedes(rest, wire) /\ Owed(rest)
      /\ Ids(R) \cup Ids(rest) \subseteq Coming
  BY <1>1, ReadOrder
<1>3. R \in Seq(Piece) /\ Len(R) \in Nat \ {0} /\ DOMAIN R = 1 .. Len(R) /\ rest \in Seq(Piece)
  BY <1>1, ReadParts
<1>. HIDE DEF rest
<1>4. R # <<>> BY <1>3
<1>5. Head(R) = R[1] /\ Head(R) \in Piece /\ 1 \in DOMAIN R BY <1>3, <1>4, TailType
<1>6. d \in Datagram BY <1>5, PieceTypes
<1>7. d.id \in Coming
  <2>1. R[1].of.id \in Ids(R) BY <1>5 DEF Ids
  <2>. QED BY <1>2, <1>5, <2>1
<1>. HIDE DEF R, d
<1>8. Rising(wire) /\ Owed(wire) BY DEF OrderInv
<1>9. Ids(rest) \subseteq Coming /\ Ids(R) \subseteq Coming BY <1>2
<1>10. Ids(line)' = Ids(rest) /\ Ids(wire)' = Ids(wire)
       /\ {plc[j].id : j \in DOMAIN plc}' = {plc[j].id : j \in DOMAIN plc}
  BY <1>1 DEF Ids
<1>11. /\ Rising(line)' /\ Rising(wire)' /\ Precedes(line, wire)' /\ Owed(line)' /\ Owed(wire)'
       /\ \A i, j \in DOMAIN plc' : i < j => plc'[i].id < plc'[j].id
  BY <1>1, <1>2, <1>8 DEF Rising, Precedes, Owed, OrderInv
<1>12. ASSUME Reading' = <<>>
       PROVE  /\ Rising(Reading)' /\ Precedes(Reading, line)' /\ Precedes(Reading, wire)'
              /\ Owed(Reading)' /\ Coming' \subseteq Coming
              /\ Coming' \subseteq Ids(rest) \cup Ids(wire) \cup {plc[j].id : j \in DOMAIN plc}
  <2>1. DOMAIN Reading' = {} BY <1>12
  <2>2. Ids(Reading)' = {} BY <2>1 DEF Ids
  <2>3. Coming' = Ids(rest) \cup Ids(wire) \cup {plc[j].id : j \in DOMAIN plc}
    BY <1>10, <2>2 DEF Coming
  <2>4. Coming' \subseteq Coming BY <1>9, <2>3 DEF Coming
  <2>. QED BY <2>1, <2>3, <2>4 DEF Rising, Precedes, Owed
<1>13. CASE GiveUp
  <2>1. relay' = "idle" /\ answers' = answers BY <1>13 DEF GiveUp
  <2>2. Reading' = <<>> BY <2>1 DEF Reading
  <2>3. \A x \in Coming' : x \in forwarded' /\ \A n \in DOMAIN answers' : answers'[n].with.id < x
    BY <1>1, <1>12, <2>1, <2>2 DEF OrderInv
  <2>4. OrderInv' BY <1>11, <1>12, <2>2, <2>3 DEF OrderInv
  <2>. QED BY <1>12, <1>13, <2>2, <2>4
<1>14. CASE buf' = R /\ UNCHANGED <<relay, givenUp, answers>>
  <2>1. Reading' = R BY <1>1, <1>14 DEF Reading
  <2>2. Ids(Reading)' = Ids(R) BY <2>1 DEF Ids
  <2>3. Coming' \subseteq Coming BY <1>9, <1>10, <2>2 DEF Coming
  <2>4. \A x \in Coming' : x \in forwarded' /\ \A n \in DOMAIN answers' : answers'[n].with.id < x
    BY <1>1, <1>14, <2>3 DEF OrderInv
  <2>5. /\ Rising(Reading)' /\ Precedes(Reading, line)' /\ Precedes(Reading, wire)' /\ Owed(Reading)'
    BY <1>1, <1>2, <2>1 DEF Rising, Precedes, Owed
  <2>6. OrderInv' BY <1>11, <2>4, <2>5 DEF OrderInv
  <2>. QED BY <1>14, <2>3, <2>6
<1>15. CASE Parses(R) /\ Respond(d, sent)
  <2>1. relay' = "idle" BY <1>15 DEF Respond
  <2>2. Reading' = <<>> BY <2>1 DEF Reading
  <2>3. /\ 3 \in DOMAIN R /\ R[3] \in Piece /\ R[3].of = d /\ Key(R[3]) = 3 * d.id + 2
    <3>1. R = Frame(d) BY <1>15 DEF Parses, R, d
    <3>2. /\ Frame(d) \in Seq(Piece) /\ DOMAIN Frame(d) = 1 .. 3
          /\ Frame(d)[3].of = d /\ Key(Frame(d)[3]) = 3 * d.id + 3 - 1
      BY <1>6, FrameKeys
    <3>3. d.id \in Nat BY <1>6 DEF Datagram, Bounds
    <3>4. Frame(d)[3] \in Piece BY <3>2, PieceIds
    <3>. QED BY <3>1, <3>2, <3>3, <3>4
  <2>4. d.id \in Nat BY <1>6 DEF Datagram, Bounds
  <2>5. ASSUME NEW s \in Seq(Piece), Precedes(R, s) PROVE \A x \in Ids(s) : d.id < x
    <3> SUFFICES ASSUME NEW j \in DOMAIN s PROVE d.id < s[j].of.id BY DEF Ids
    <3>1. s[j] \in Piece /\ s[j].of.id \in Nat BY PieceIds
    <3>2. Rank(s[j]) \in 0 .. 2 /\ Key(s[j]) = 3 * s[j].of.id + Rank(s[j])
      BY <3>1, PieceTypes DEF Key
    <3>3. Key(R[3]) < Key(s[j]) BY <2>3, <2>5 DEF Precedes
    <3>. QED BY <2>3, <2>4, <3>1, <3>2, <3>3
  <2>6. wire \in Seq(Piece) BY ReadingType
  <2>7. \A x \in Ids(rest) \cup Ids(wire) : d.id < x BY <1>2, <1>3, <2>5, <2>6
  <2>8. \A j \in DOMAIN plc : d.id < plc[j].id BY <1>2, <2>3 DEF Owed
  <2>9. \A x \in Coming' : d.id < x BY <1>12, <2>2, <2>7, <2>8
  <2>10. \A x \in Coming' : x \in forwarded' /\ \A n \in DOMAIN answers : answers[n].with.id < x
    BY <1>1, <1>12, <2>2 DEF OrderInv
  <2> DEFINE a == [to |-> request, with |-> d]
  <2>11. a.with = d OBVIOUS
  <2>12. answers' = answers \/ answers' = Append(answers, a) BY <1>15 DEF Respond
  <2>. HIDE DEF a
  <2>13. \A n \in DOMAIN answers' : \/ n \in DOMAIN answers /\ answers'[n] = answers[n]
                                    \/ answers'[n] = a
    <3>1. answers \in Seq([to : Datagram, with : Datagram]) BY DEF TypeOK
    <3>2. Len(answers) \in Nat /\ DOMAIN answers = 1 .. Len(answers) BY <3>1, LenProperties
    <3>. QED BY <2>12, <3>1, <3>2
  <2>14. \A x \in Coming' : x \in forwarded' /\ \A n \in DOMAIN answers' : answers'[n].with.id < x
    BY <2>9, <2>10, <2>11, <2>13
  <2>15. OrderInv' BY <1>11, <1>12, <2>2, <2>14 DEF OrderInv
  <2>. QED BY <1>6, <1>7, <1>12, <1>15, <2>2, <2>9, <2>15 DEF d
<1>. QED BY <1>1, <1>13, <1>14, <1>15
-----------------------------------------------------------------------------
\* The sets that are counted are finite.
LEMMA Counted ==
  ASSUME Bounds, TypeOK
  PROVE  /\ IsFiniteSet(forwarded) /\ forwarded \subseteq Nat /\ request.id \in Nat
         /\ Done \subseteq forwarded /\ IsFiniteSet(Done) /\ Cardinality(Done) \in Nat
         /\ \A S : S \subseteq forwarded => IsFiniteSet(S) /\ Cardinality(S) \in Nat
<1>1. IsFiniteSet(1 .. Requests) BY FS_Interval DEF Bounds
<1>2. forwarded \subseteq 1 .. Requests BY DEF TypeOK
<1>3. IsFiniteSet(forwarded) BY <1>1, <1>2, FS_Subset
<1>4. \A S : S \subseteq forwarded => IsFiniteSet(S) /\ Cardinality(S) \in Nat
  BY <1>3, FS_Subset, FS_CardinalityType
<1>5. Done \subseteq forwarded BY DEF Done
<1>6. request.id \in Nat BY DEF TypeOK, Datagram, no_request, Bounds
<1>7. forwarded \subseteq Nat BY <1>2 DEF Bounds
<1>. QED BY <1>3, <1>4, <1>5, <1>6, <1>7

\* Nothing new comes and no wait ends with a frame.
LEMMA LagKept ==
  ASSUME LagInv, Coming' \subseteq Coming, forwarded' = forwarded, Done' = Done
  PROVE  LagInv'
<1>1. \A x : Before(x)' = Before(x) BY DEF Before
<1>. QED BY <1>1 DEF LagInv

\* The new request has every request written before it behind it.
LEMMA LagForward ==
  ASSUME Bounds, TypeOK, QueueInv, OrderInv, LagInv, AnswersInOrder,
         NEW written \in BOOLEAN, Forward(written)
  PROVE  LagInv'
<1>1. /\ inbox # <<>> /\ relay = "idle" /\ request' = Head(inbox) /\ givenUp' = givenUp
  BY DEF Forward
<1>2. request'.id \in Nat /\ \A k \in forwarded : k \in Nat /\ k < request'.id
  BY <1>1, HeadIsNewer
<1>3. Done = forwarded \ givenUp BY <1>1 DEF Done
<1>4. CASE Coming' \subseteq Coming /\ UNCHANGED <<relay, forwarded>>
  <2>1. Done' = Done BY <1>1, <1>4 DEF Done
  <2>. QED BY <1>4, <2>1, LagKept
<1>5. CASE /\ Coming' \subseteq Coming \cup {request'.id}
           /\ relay' = "response" /\ forwarded' = forwarded \cup {request'.id}
  <2>1. request'.id \notin forwarded BY <1>2
  <2>2. Done' = ((forwarded \cup {request'.id}) \ givenUp) \ {request'.id}
    BY <1>1, <1>5 DEF Done
  <2>3. Done' = Done BY <1>3, <2>1, <2>2
  <2>4. \A x \in Coming : x \in forwarded BY DEF OrderInv
  <2>5. ASSUME NEW x \in Coming PROVE Cardinality(Done') <= Cardinality(Before(x)')
    <3>1. x \in Nat /\ x < request'.id BY <1>2, <2>4
    <3>2. Before(x)' = Before(x) BY <1>2, <1>5, <3>1 DEF Before
    <3>. QED BY <2>3, <3>2 DEF LagInv
  <2>6. ASSUME NEW x, x = request'.id PROVE Cardinality(Done') <= Cardinality(Before(x)')
    <3>1. Before(x)' = forwarded
      <4>1. forwarded' = forwarded \cup {x} BY <1>5, <2>6
      <4>2. x \in Nat /\ \A k \in forwarded : k \in Nat /\ k < x BY <1>2, <2>6
      <4>. QED BY <4>1, <4>2 DEF Before
    <3>2. Done \subseteq forwarded /\ IsFiniteSet(forwarded) BY Counted
    <3>3. Cardinality(Done) <= Cardinality(forwarded) BY <3>2, FS_Subset
    <3>. QED BY <2>3, <3>1, <3>3
  <2>7. ASSUME NEW x \in Coming' PROVE Cardinality(Done') <= Cardinality(Before(x)')
    <3>1. x \in Coming \/ x = request'.id BY <1>5
    <3>. QED BY <2>5, <2>6, <3>1
  <2>. QED BY <2>7 DEF LagInv
<1>. QED BY <1>4, <1>5, OrderForward

\* One more wait has ended with a frame, but every frame to come is newer.
LEMMA LagReads ==
  ASSUME Bounds, TypeOK, QueueInv, OrderInv, LagInv, NEW sent \in BOOLEAN, ReadResponse(sent)
  PROVE  LagInv'
<1> DEFINE d == Head(Read).of
<1>1. relay = "response" /\ request' = request /\ forwarded' = forwarded
  BY DEF ReadResponse
<1>2. request.id \in forwarded \ givenUp /\ Done = (forwarded \ givenUp) \ {request.id}
  BY <1>1 DEF QueueInv, Done
<1>3. Coming' \subseteq Coming BY OrderReads
<1>4. CASE GiveUp
  <2>1. relay' = "idle" /\ givenUp' = givenUp \cup {request.id} BY <1>4 DEF GiveUp
  <2>2. Done' = forwarded \ (givenUp \cup {request.id}) BY <1>1, <2>1 DEF Done
  <2>3. Done' = Done BY <1>2, <2>2
  <2>. QED BY <1>1, <1>3, <2>3, LagKept
<1>5. CASE UNCHANGED <<relay, givenUp, answers>>
  <2>1. Done' = Done BY <1>1, <1>5 DEF Done
  <2>. QED BY <1>1, <1>3, <2>1, LagKept
<1>6. CASE /\ Respond(d, sent) /\ d \in Datagram /\ d.id \in Coming
           /\ \A x \in Coming' : d.id < x
  <2>1. relay' = "idle" /\ givenUp' = givenUp BY <1>6 DEF Respond
  <2>2. Done' = forwarded \ givenUp BY <1>1, <2>1 DEF Done
  <2>3. Done' = Done \cup {request.id} /\ request.id \notin Done BY <1>2, <2>2
  <2>4. IsFiniteSet(Done) /\ Cardinality(Done) \in Nat BY Counted
  <2>5. Cardinality(Done') = Cardinality(Done) + 1 BY <2>3, <2>4, FS_AddElement
  <2>6. d.id \in forwarded BY <1>6 DEF OrderInv
  <2>. HIDE DEF d
  <2>7. ASSUME NEW x \in Coming' PROVE Cardinality(Done') <= Cardinality(Before(x)')
    <3>1. x \in forwarded BY <1>3 DEF OrderInv
    <3>2. d.id < x /\ x \in Nat /\ d.id \in Nat BY <1>6, <2>6, <3>1, Counted
    <3>3. Before(x)' = Before(x) BY <1>1 DEF Before
    <3>4. Before(d.id) \cup {d.id} \subseteq Before(x)
      <4>1. \A k \in forwarded : k \in Nat BY Counted
      <4>. QED BY <2>6, <3>2, <4>1 DEF Before
    <3>5. d.id \notin Before(d.id) /\ Before(d.id) \subseteq forwarded /\ Before(x) \subseteq forwarded
      BY <3>2 DEF Before
    <3>6. /\ IsFiniteSet(Before(d.id)) /\ IsFiniteSet(Before(x))
          /\ Cardinality(Before(d.id)) \in Nat /\ Cardinality(Before(x)) \in Nat
      BY <3>5, Counted
    <3>7. Cardinality(Before(d.id) \cup {d.id}) = Cardinality(Before(d.id)) + 1
      BY <3>5, <3>6, FS_AddElement
    <3>8. Cardinality(Before(d.id) \cup {d.id}) <= Cardinality(Before(x))
      BY <3>4, <3>6, FS_Subset
    <3>9. Cardinality(Done) <= Cardinality(Before(d.id)) BY <1>6 DEF LagInv
    <3>. QED BY <2>4, <2>5, <3>3, <3>6, <3>7, <3>8, <3>9
  <2>. QED BY <2>7 DEF LagInv
<1>. QED BY <1>4, <1>5, <1>6, OrderReads
-----------------------------------------------------------------------------
\* Requests written later and waits given up later do not count for an answer.
LEMMA AnswersKept ==
  ASSUME Bounds, TypeOK, QueueInv, AnswersInOrder, LagIsGivenUp, answers' = answers,
         \/ forwarded' = forwarded
         \/ /\ forwarded' = forwarded \cup {request'.id} /\ request'.id \in Nat
            /\ \A n \in DOMAIN answers : answers[n].to.id < request'.id,
         \/ givenUp' = givenUp
         \/ givenUp' = givenUp \cup {request.id} /\ relay = "response"
  PROVE  AnswersInOrder' /\ LagIsGivenUp'
<1>1. AnswersInOrder' BY DEF AnswersInOrder
<1>2. ASSUME NEW n \in DOMAIN answers'
      PROVE  /\ {k \in forwarded' : answers'[n].with.id <= k /\ k < answers'[n].to.id} =
                  {k \in forwarded : answers[n].with.id <= k /\ k < answers[n].to.id}
             /\ {k \in givenUp' : k < answers'[n].to.id} = {k \in givenUp : k < answers[n].to.id}
  <2>1. n \in DOMAIN answers OBVIOUS
  <2>2. answers[n].to.id \in Nat /\ answers[n].with.id \in Nat BY <2>1, AnswerIds
  <2>3. request.id \in Nat BY Counted
  <2>4. /\ answers[n].to.id <= request.id
        /\ relay = "response" => answers[n].to.id < request.id
    BY <2>1 DEF QueueInv
  <2>5. {k \in givenUp' : k < answers[n].to.id} = {k \in givenUp : k < answers[n].to.id}
    BY <2>2, <2>3, <2>4
  <2>6. {k \in forwarded' : answers[n].with.id <= k /\ k < answers[n].to.id} =
           {k \in forwarded : answers[n].with.id <= k /\ k < answers[n].to.id}
    <3>1. CASE forwarded' = forwarded BY <3>1
    <3>2. ASSUME NEW y \in Nat, y = request'.id, forwarded' = forwarded \cup {y}, answers[n].to.id < y
          PROVE  {k \in forwarded' : answers[n].with.id <= k /\ k < answers[n].to.id} =
                   {k \in forwarded : answers[n].with.id <= k /\ k < answers[n].to.id}
      <4>1. ~ (y < answers[n].to.id) BY <2>2, <3>2
      <4>. QED BY <3>2, <4>1
    <3>. QED BY <2>1, <3>1, <3>2
  <2>. QED BY <2>5, <2>6
<1>3. LagIsGivenUp' BY <1>2 DEF LagIsGivenUp
<1>. QED BY <1>1, <1>3
\* The size of the union of two sets with nothing in common.
LEMMA DisjointUnion ==
  ASSUME NEW S, NEW T, IsFiniteSet(S), IsFiniteSet(T), S \cap T = {}
  PROVE  /\ Cardinality(S \cup T) = Cardinality(S) + Cardinality(T)
         /\ Cardinality(S) \in Nat /\ Cardinality(T) \in Nat
<1> DEFINE c == Cardinality(S)
           d == Cardinality(T)
           e == Cardinality(S \cap T)
<1>1. c \in Nat /\ d \in Nat BY FS_CardinalityType
<1>2. e = 0 BY FS_EmptySet
<1>3. Cardinality(S \cup T) = c + d - e BY FS_Union
<1>. HIDE DEF c, d, e
<1>4. c + d - e = c + d BY <1>1, <1>2
<1>. QED BY <1>1, <1>3, <1>4 DEF c, d

\* The counting behind LagIsGivenUp: the requests written before the one that is
\* answered are those the answer passes over and those older than the answer; and
\* they are those whose wait gave a frame and those given up.
LEMMA NewAnswerLags ==
  ASSUME Bounds, TypeOK, QueueInv, LagInv, relay = "response",
         NEW x \in Coming, x \in forwarded
  PROVE  /\ x <= request.id
         /\ Cardinality({k \in forwarded : x <= k /\ k < request.id})
              <= Cardinality({k \in givenUp : k < request.id})
<1> DEFINE r == request.id
           W == {k \in forwarded : x <= k /\ k < r}
           G == {k \in givenUp : k < r}
<1>1. /\ r \in Nat /\ r \in forwarded \ givenUp /\ givenUp \subseteq forwarded
      /\ \A k \in forwarded : k \in Nat /\ k <= r
  BY Counted DEF QueueInv, TypeOK
<1>2. Done = (forwarded \ givenUp) \ {r} BY DEF Done
<1>. HIDE DEF r
<1>. HIDE DEF W, G
<1>20. /\ \A k \in forwarded : k # r => k < r
       /\ \A k \in forwarded : ~ (x <= k) <=> k < x
       /\ \A k \in forwarded : k < x => k < r
       /\ ~ (r < r)
  BY <1>1
<1>3. G = givenUp BY <1>1, <1>20 DEF G
<1>4. W \cup Before(x) = forwarded \ {r} /\ W \cap Before(x) = {}
  <2>1. ~ (r < x) BY <1>1
  <2>. QED BY <1>1, <1>20, <2>1 DEF Before, W
<1>5. Done \cup givenUp = forwarded \ {r} /\ Done \cap givenUp = {} BY <1>1, <1>2
<1>6. W \subseteq forwarded /\ Before(x) \subseteq forwarded /\ Done \subseteq forwarded
  BY <1>2 DEF Before, W
<1>7. /\ IsFiniteSet(W) /\ IsFiniteSet(Before(x)) /\ IsFiniteSet(Done) /\ IsFiniteSet(givenUp)
      /\ Cardinality(W) \in Nat /\ Cardinality(Before(x)) \in Nat
      /\ Cardinality(Done) \in Nat /\ Cardinality(givenUp) \in Nat
  BY <1>1, <1>6, Counted
<1>8. Cardinality(forwarded \ {r}) = Cardinality(W) + Cardinality(Before(x))
  <2>1. Cardinality(W \cup Before(x)) = Cardinality(W) + Cardinality(Before(x))
    BY <1>4, <1>7, DisjointUnion
  <2>. QED BY <1>4, <2>1
<1>9. Cardinality(forwarded \ {r}) = Cardinality(Done) + Cardinality(givenUp)
  <2>1. Cardinality(Done \cup givenUp) = Cardinality(Done) + Cardinality(givenUp)
    BY <1>5, <1>7, DisjointUnion
  <2>. QED BY <1>5, <2>1
<1>10. Cardinality(Done) <= Cardinality(Before(x)) BY DEF LagInv
<1> DEFINE a == Cardinality(W)
           b == Cardinality(Before(x))
           c == Cardinality(Done)
           d == Cardinality(givenUp)
<1>11. a \in Nat /\ b \in Nat /\ c \in Nat /\ d \in Nat /\ a + b = c + d /\ c <= b
  BY <1>7, <1>8, <1>9, <1>10
<1>. HIDE DEF a, b, c, d
<1>12. a <= d BY <1>11
<1>13. Cardinality(W) <= Cardinality(G) BY <1>3, <1>12 DEF a, d
<1>. QED BY <1>1, <1>13 DEF r, W, G

\* A read keeps the two properties, whatever becomes of the wait.
LEMMA AnswersRead ==
  ASSUME Bounds, Inv, NEW sent \in BOOLEAN, ReadResponse(sent)
  PROVE  AnswersInOrder' /\ LagIsGivenUp'
<1> DEFINE d == Head(Read).of
           a == [to |-> request, with |-> d]
<1>. USE DEF Inv
<1>1. relay = "response" /\ request' = request /\ forwarded' = forwarded
  BY DEF ReadResponse
<1>2. CASE GiveUp BY <1>1, <1>2, AnswersKept DEF GiveUp
<1>3. CASE UNCHANGED <<relay, givenUp, answers>> BY <1>1, <1>3, AnswersKept
<1>4. CASE Respond(d, sent) /\ d \in Datagram /\ d.id \in Coming
  <2>1. /\ givenUp' = givenUp
        /\ \/ answers' = answers
           \/ d.kind = request.kind /\ answers' = Append(answers, a)
    BY <1>4 DEF Respond
  <2>2. a.to = request /\ a.with = d OBVIOUS
  <2>. HIDE DEF a, d
  <2>3. CASE answers' = answers BY <1>1, <2>1, <2>3, AnswersKept
  <2>4. CASE d.kind = request.kind /\ answers' = Append(answers, a)
    <3>1. d.id \in forwarded /\ \A n \in DOMAIN answers : answers[n].with.id < d.id
      BY <1>4 DEF OrderInv
    <3>2. /\ d.id <= request.id
          /\ Cardinality({k \in forwarded : d.id <= k /\ k < request.id})
               <= Cardinality({k \in givenUp : k < request.id})
      BY <1>1, <1>4, <3>1, NewAnswerLags
    <3>3. /\ answers \in Seq([to : Datagram, with : Datagram])
          /\ Len(answers) \in Nat /\ DOMAIN answers = 1 .. Len(answers)
      BY LenProperties DEF TypeOK
    <3>4. /\ DOMAIN answers' = 1 .. Len(answers) + 1 /\ answers'[Len(answers) + 1] = a
          /\ \A n \in DOMAIN answers : answers'[n] = answers[n]
      BY <2>4, <3>3
    <3>5. \A n \in DOMAIN answers' : n \in DOMAIN answers \/ n = Len(answers) + 1 BY <3>3, <3>4
    <3>6. \A n \in DOMAIN answers : answers[n].to.id < request.id BY <1>1 DEF QueueInv
    <3>7. ASSUME NEW n \in DOMAIN answers'
          PROVE  /\ answers'[n].with.kind = answers'[n].to.kind
                 /\ answers'[n].with.id <= answers'[n].to.id
                 /\ Cardinality({k \in forwarded : answers'[n].with.id <= k /\ k < answers'[n].to.id})
                      <= Cardinality({k \in givenUp : k < answers'[n].to.id})
      <4>1. CASE n \in DOMAIN answers BY <3>4, <4>1 DEF AnswersInOrder, LagIsGivenUp
      <4>2. CASE n = Len(answers) + 1 BY <2>2, <2>4, <3>2, <3>4, <4>2
      <4>. QED BY <3>5, <4>1, <4>2
    <3>8. ASSUME NEW m \in DOMAIN answers', NEW n \in DOMAIN answers', m < n
          PROVE  /\ answers'[m].to.id < answers'[n].to.id
                 /\ answers'[m].with.id < answers'[n].with.id
      <4>1. m \in DOMAIN answers BY <3>3, <3>4, <3>8
      <4>2. CASE n \in DOMAIN answers BY <3>4, <3>8, <4>1, <4>2 DEF AnswersInOrder
      <4>3. CASE n = Len(answers) + 1 BY <2>2, <3>1, <3>4, <3>6, <4>1, <4>3
      <4>. QED BY <3>5, <4>2, <4>3
    <3>9. AnswersInOrder' BY <3>7, <3>8 DEF AnswersInOrder
    <3>10. LagIsGivenUp' BY <1>1, <2>1, <3>7 DEF LagIsGivenUp
    <3>. QED BY <3>9, <3>10
  <2>. QED BY <2>1, <2>3, <2>4
<1>. QED BY <1>2, <1>3, <1>4, OrderReads

-----------------------------------------------------------------------------
\* The invariant holds at the start.
LEMMA InvInit == Bounds /\ Init => Inv
<1> SUFFICES ASSUME Bounds, Init PROVE Inv OBVIOUS
<1>1. DOMAIN answers = {} BY DEF Init
<1>2. AnswersInOrder /\ LagIsGivenUp BY <1>1 DEF AnswersInOrder, LagIsGivenUp
<1>. QED BY <1>2, TypeInit, QueueInit, OrderInit DEF Inv

\* Every step keeps the invariant.
LEMMA InvNext == Bounds /\ Inv /\ [Next]_vars => Inv'
<1> SUFFICES ASSUME Bounds, Inv, [Next]_vars
             PROVE  OrderInv' /\ LagInv' /\ AnswersInOrder' /\ LagIsGivenUp'
  BY TypeNext, QueueNext DEF Inv
<1>0. TypeOK /\ QueueInv /\ OrderInv /\ LagInv /\ AnswersInOrder /\ LagIsGivenUp BY DEF Inv
\* The steps that neither write a request nor read an answer.
<1>1. ASSUME UNCHANGED <<relay, buf, line, wire, plc, history>>
      PROVE  Reading' = Reading
  BY <1>1 DEF Reading
<1>2. ASSUME Reading' = Reading, UNCHANGED <<line, wire, plc, history>>, Done' = Done
      PROVE  OrderInv' /\ LagInv' /\ AnswersInOrder' /\ LagIsGivenUp'
  <2>1. UNCHANGED <<forwarded, givenUp, answers>> BY <1>2 DEF history
  <2>. QED BY <1>0, <1>2, <2>1, OrderKept, LagKept, AnswersKept
<1>3. ASSUME NEW kind \in Kinds, Arrives(kind)
      PROVE  OrderInv' /\ LagInv' /\ AnswersInOrder' /\ LagIsGivenUp'
  BY <1>1, <1>2, <1>3 DEF Arrives, device, history, Done
<1>4. ASSUME NEW reply \in BOOLEAN, PlcAnswers(reply)
      PROVE  OrderInv' /\ LagInv' /\ AnswersInOrder' /\ LagIsGivenUp'
  <2>1. UNCHANGED <<relay, request, forwarded, givenUp, answers>>
    BY <1>4 DEF PlcAnswers, history
  <2>2. Done' = Done BY <2>1 DEF Done
  <2>. QED BY <1>0, <1>4, <2>1, <2>2, OrderPlcAnswers, LagKept, AnswersKept
<1>5. ASSUME NEW lost \in BOOLEAN, Comes(lost)
      PROVE  OrderInv' /\ LagInv' /\ AnswersInOrder' /\ LagIsGivenUp'
  <2>1. UNCHANGED <<relay, request, forwarded, givenUp, answers>>
    BY <1>5 DEF Comes, history
  <2>2. Done' = Done BY <2>1 DEF Done
  <2>. QED BY <1>0, <1>5, <2>1, <2>2, OrderComes, LagKept, AnswersKept
<1>6. ASSUME Signal PROVE OrderInv' /\ LagInv' /\ AnswersInOrder' /\ LagIsGivenUp'
  BY <1>1, <1>2, <1>6 DEF Signal, device, history, Done
<1>7. ASSUME Refuse PROVE OrderInv' /\ LagInv' /\ AnswersInOrder' /\ LagIsGivenUp'
  <2>1. relay = "idle" /\ UNCHANGED <<relay, buf, line, wire, plc, history>>
    BY <1>7 DEF Refuse, device
  <2>2. Done' = Done BY <2>1 DEF Done, history
  <2>. QED BY <1>1, <1>2, <2>1, <2>2
<1>8. ASSUME NEW written \in BOOLEAN, Forward(written)
      PROVE  OrderInv' /\ LagInv' /\ AnswersInOrder' /\ LagIsGivenUp'
  <2>1. inbox # <<>> /\ request' = Head(inbox) /\ answers' = answers /\ givenUp' = givenUp
    BY <1>8 DEF Forward
  <2>2. request'.id \in Nat /\ \A n \in DOMAIN answers : answers[n].to.id < request'.id
    BY <1>0, <2>1, HeadIsNewer
  <2>3. OrderInv' /\ (forwarded' = forwarded \/ forwarded' = forwarded \cup {request'.id})
    BY <1>0, <1>8, OrderForward
  <2>4. LagInv' BY <1>0, <1>8, LagForward
  <2>. QED BY <1>0, <2>1, <2>2, <2>3, <2>4, AnswersKept
<1>9. ASSUME TimesOut PROVE OrderInv' /\ LagInv' /\ AnswersInOrder' /\ LagIsGivenUp'
  <2>1. /\ relay = "response" /\ relay' = "idle" /\ givenUp' = givenUp \cup {request.id}
        /\ UNCHANGED <<request, line, wire, plc, forwarded, answers>>
    BY <1>9 DEF TimesOut, GiveUp, device
  <2>2. Reading' = <<>> BY <2>1 DEF Reading
  <2>3. Done' = Done BY <2>1 DEF Done
  <2>. QED BY <1>0, <2>1, <2>2, <2>3, OrderKept, LagKept, AnswersKept
<1>10. ASSUME NEW sent \in BOOLEAN, ReadResponse(sent)
       PROVE  OrderInv' /\ LagInv' /\ AnswersInOrder' /\ LagIsGivenUp'
  BY <1>0, <1>10, OrderReads, LagReads, AnswersRead
<1>11. ASSUME End PROVE OrderInv' /\ LagInv' /\ AnswersInOrder' /\ LagIsGivenUp'
  <2>1. /\ relay = "idle" /\ relay' = "ended"
        /\ UNCHANGED <<request, buf, line, wire, plc, forwarded, givenUp, answers>>
    BY <1>11 DEF End, device, history, clients
  <2>2. Reading' = Reading BY <2>1 DEF Reading
  <2>3. Done' = Done BY <2>1 DEF Done
  <2>. QED BY <1>0, <2>1, <2>2, <2>3, OrderKept, LagKept, AnswersKept
<1>12. ASSUME UNCHANGED vars PROVE OrderInv' /\ LagInv' /\ AnswersInOrder' /\ LagIsGivenUp'
  BY <1>1, <1>2, <1>12 DEF vars, device, history, Done, clients
<1>. QED BY <1>3, <1>4, <1>5, <1>6, <1>7, <1>8, <1>9, <1>10, <1>11, <1>12 DEF Next, Relay

\* The types, the order of the requests and of the pieces, the count and the two
\* properties hold in every state.
THEOREM InvAlways == Bounds => (Spec => []Inv)
<1>. SUFFICES ASSUME Bounds PROVE Spec => []Inv OBVIOUS
<1>1. Init => Inv BY InvInit
<1>2. Inv /\ [Next]_vars => Inv' BY InvNext
<1>. QED BY <1>1, <1>2, PTL DEF Spec

\* A client gets at most one answer to a request, of its station and command, and the
\* answers go out in the PLC's order (main.cc 265-358).
THEOREM AnswersInOrderAlways == Bounds => (Spec => []AnswersInOrder)
<1>. SUFFICES ASSUME Bounds PROVE Spec => []AnswersInOrder OBVIOUS
<1>1. Inv => AnswersInOrder BY DEF Inv
<1>. QED BY <1>1, InvAlways, PTL

\* An answer passes over no more requests than waits were given up before; with none
\* given up, everybody gets the answer to his own request (main.cc 224-254).
THEOREM LagIsGivenUpAlways == Bounds => (Spec => []LagIsGivenUp)
<1>. SUFFICES ASSUME Bounds PROVE Spec => []LagIsGivenUp OBVIOUS
<1>1. Inv => LagIsGivenUp BY DEF Inv
<1>. QED BY <1>1, InvAlways, PTL
=============================================================================
