----------------------------- MODULE FatekRelay -----------------------------
(***************************************************************************)
(* fatek-relay: requests that clients send by UDP are written, one at a    *)
(* time, to the serial line of a Fatek PLC, and what the PLC answers is    *)
(* sent back.  The relay waits 1000 ms for each piece of an answer; the    *)
(* PLC may take longer, so an answer may come when nobody waits for it.    *)
(*                                                                         *)
(* A frame is three pieces of the line: STX, the data (station, command,   *)
(* checksum) and ETX.  A request is its number in the order of arrival at  *)
(* the socket and its kind, i.e. its station and command.                  *)
(***************************************************************************)
EXTENDS Integers, Sequences, FiniteSets

CONSTANTS
  Requests,    \* number of datagrams the clients send
  Broken,      \* the numbers of those that are not one well-formed frame
  Kinds,       \* pairs of a station and a command
  Room,        \* buffer::max_size, in pieces
  MaxNoise     \* pieces the serial line may lose

VARIABLES
  inbox,       \* datagrams waiting at the socket
  arrived,     \* number of datagrams sent so far
  relay,       \* where process() is
  request,     \* the datagram being served; its number is also its sender
  buf,         \* what get_response has read
  line,        \* input of the serial port not read yet
  plc,         \* requests the PLC has not answered yet
  wire,        \* pieces the PLC has sent, still under way
  noise,       \* pieces lost
  stop,
  forwarded,   \* numbers of the requests written to the line
  givenUp,     \* those whose wait ended with no frame accepted
  answers      \* what was sent back: the request served and the frame's request

clients == <<inbox, arrived>>
device == <<plc, wire, noise>>
history == <<forwarded, givenUp, answers>>
vars == <<clients, relay, request, buf, line, device, stop, history>>

Datagram == [id : 1 .. Requests, kind : Kinds]
no_request == [id |-> 0, kind |-> 0]
Piece == [is : {"STX", "data", "ETX"}, of : Datagram]
Frame(d) == <<[is |-> "STX", of |-> d], [is |-> "data", of |-> d],
              [is |-> "ETX", of |-> d]>>

Init ==
  /\ inbox = <<>> /\ arrived = 0
  /\ relay = "idle" /\ request = no_request /\ buf = <<>>
  /\ line = <<>> /\ plc = <<>> /\ wire = <<>> /\ noise = 0
  /\ stop = FALSE
  /\ forwarded = {} /\ givenUp = {} /\ answers = <<>>

-----------------------------------------------------------------------------
(***************************************************************************)
(* The clients, the PLC and its line, the operator.                        *)
(***************************************************************************)
Arrives(kind) ==
  /\ arrived < Requests
  /\ arrived' = arrived + 1
  /\ inbox' = Append(inbox, [id |-> arrived + 1, kind |-> kind])
  /\ UNCHANGED <<relay, request, buf, line, device, stop, history>>

\* The PLC works through the requests in order and answers or, as when the
\* station is not its own, stays silent.
PlcAnswers(reply) ==
  /\ plc # <<>>
  /\ plc' = Tail(plc)
  /\ wire' = IF reply THEN wire \o Frame(Head(plc)) ELSE wire
  /\ UNCHANGED <<clients, relay, request, buf, line, noise, stop, history>>

\* The next piece reaches the serial port, or is lost on its way.
Comes(lost) ==
  /\ wire # <<>>
  /\ lost => noise < MaxNoise
  /\ wire' = Tail(wire)
  /\ line' = IF lost THEN line ELSE Append(line, Head(wire))
  /\ noise' = IF lost THEN noise + 1 ELSE noise
  /\ UNCHANGED <<clients, relay, request, buf, plc, stop, history>>

Signal == ~stop /\ stop' = TRUE
          /\ UNCHANGED <<clients, relay, request, buf, line, device, history>>

-----------------------------------------------------------------------------
(***************************************************************************)
(* The relay.  Every error is reported and ends the turn of the loop.      *)
(***************************************************************************)
\* poll sees a datagram, get_request refuses it: it is cut or too long, or its
\* framing or checksum is wrong, or something follows it.
Refuse ==
  /\ relay = "idle" /\ ~stop /\ inbox # <<>>
  /\ Head(inbox).id \in Broken
  /\ inbox' = Tail(inbox)
  /\ request' = Head(inbox)
  /\ UNCHANGED <<arrived, relay, buf, line, device, stop, history>>

\* The datagram is written to the line.  When a part of it cannot be written
\* the turn ends, and the PLC gets no request it could answer.
Forward(written) ==
  /\ relay = "idle" /\ ~stop /\ inbox # <<>>
  /\ Head(inbox).id \notin Broken
  /\ inbox' = Tail(inbox)
  /\ request' = Head(inbox)
  /\ IF written
     THEN /\ relay' = "response" /\ buf' = <<>>
          /\ plc' = Append(plc, Head(inbox))
          /\ forwarded' = forwarded \cup {Head(inbox).id}
     ELSE UNCHANGED <<relay, buf, plc, forwarded>>
  /\ UNCHANGED <<arrived, line, wire, noise, stop, givenUp, answers>>

GiveUp ==
  /\ relay' = "idle"
  /\ givenUp' = givenUp \cup {request.id}
  /\ UNCHANGED <<answers, buf>>

\* Mutant of TimesOut: the wait starts again when nothing comes.
TimesOutWaits ==
  /\ relay = "response" /\ line = <<>>
  /\ UNCHANGED vars

\* Nothing comes for 1000 ms, or a signal ends the poll.
TimesOut ==
  /\ relay = "response" /\ line = <<>>
  /\ GiveUp
  /\ UNCHANGED <<clients, request, line, device, stop, forwarded>>

Smaller(a, b) == IF a < b THEN a ELSE b
Taken == Smaller(Room - Len(buf), Len(line))
Read == buf \o SubSeq(line, 1, Taken)

\* packet_parse and the tests behind it: one whole frame and nothing more.
Parses(s) == s = Frame(Head(s).of)

\* post_response, when the frame is of the kind of the request; sendto may fail.
Respond(response, sent) ==
  /\ relay' = "idle" /\ UNCHANGED <<givenUp, buf>>
  /\ answers' = IF response.kind = request.kind /\ sent
                THEN Append(answers, [to |-> request, with |-> response])
                ELSE answers

\* poll sees input, and read takes all of it that fits.  The wait goes on
\* until the last piece read is an ETX.
ReadResponse(sent) ==
  /\ relay = "response" /\ line # <<>>
  /\ line' = SubSeq(line, Taken + 1, Len(line))
  /\ CASE Head(Read).is # "STX" -> GiveUp
       [] Head(Read).is = "STX" /\ Read[Len(Read)].is # "ETX" ->
            buf' = Read /\ UNCHANGED <<relay, givenUp, answers>>
       [] Parses(Read) -> Respond(Head(Read).of, sent)
       [] OTHER -> GiveUp
  /\ UNCHANGED <<clients, request, device, stop, forwarded>>

End ==
  /\ relay = "idle" /\ stop
  /\ relay' = "ended"
  /\ UNCHANGED <<clients, request, buf, line, device, stop, history>>

Relay ==
  \/ Refuse
  \/ \E written \in BOOLEAN : Forward(written)
  \/ TimesOut
  \/ \E sent \in BOOLEAN : ReadResponse(sent)
  \/ End

Next ==
  \/ \E kind \in Kinds : Arrives(kind)
  \/ \E reply \in BOOLEAN : PlcAnswers(reply)
  \/ \E lost \in BOOLEAN : Comes(lost)
  \/ Signal
  \/ Relay

Spec == Init /\ [][Next]_vars

\* The relay's loop keeps running.  Nothing is assumed of the clients, the PLC
\* or the line.
FairSpec == Spec /\ WF_vars(Relay)

-----------------------------------------------------------------------------
TypeOK ==
  /\ inbox \in Seq(Datagram) /\ arrived \in 0 .. Requests
  /\ relay \in {"idle", "response", "ended"} /\ request \in Datagram \cup {no_request}
  /\ buf \in Seq(Piece) /\ Len(buf) <= Room
  /\ line \in Seq(Piece) /\ plc \in Seq(Datagram) /\ wire \in Seq(Piece)
  /\ noise \in 0 .. MaxNoise /\ stop \in BOOLEAN
  /\ givenUp \subseteq forwarded /\ forwarded \subseteq 1 .. Requests \ Broken
  /\ answers \in Seq([to : Datagram, with : Datagram])

\* main.cc 265-358 keeps one request at a time: a client gets at most one
\* answer to a request, of the request's station and command, and the PLC's
\* answers go out in the order the PLC gave them, none of them twice and none to
\* a request made after it.
AnswersInOrder ==
  /\ \A n \in DOMAIN answers :
       answers[n].with.kind = answers[n].to.kind /\ answers[n].with.id <= answers[n].to.id
  /\ \A m, n \in DOMAIN answers : m < n =>
       answers[m].to.id < answers[n].to.id /\ answers[m].with.id < answers[n].with.id

\* The input is not flushed before a request, so get_response (main.cc 224-254)
\* may take an answer the relay no longer waited for.  How far behind the
\* answers run is bounded by the waits given up before: each leaves at most one
\* answer over.  In particular, as long as no wait was given up, every client
\* gets the answer to its own request.
LagIsGivenUp ==
  \A n \in DOMAIN answers :
    Cardinality({k \in forwarded : answers[n].with.id <= k /\ k < answers[n].to.id})
      <= Cardinality({k \in givenUp : k < answers[n].to.id})

\* The buffer is full, what is in it does not end with an ETX, and more waits.
\* get_response (main.cc 229-240) then reads nothing, over and over.
Overrun ==
  /\ relay = "response" /\ Len(buf) = Room /\ line # <<>>

\* main.cc 276: the loop polls for 3000 ms at a time "because of INT, TERM
\* signals", which are to end it.
Stops == stop ~> relay = "ended"

=============================================================================
