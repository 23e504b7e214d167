-------------------------------- MODULE Rdt --------------------------------
(***************************************************************************)
(* rdtclient and rdtserver, each a single-threaded select loop, connected  *)
(* by two datagram sockets.  A turn of either loop is two actions: the     *)
(* protocol step, then what happens around select.                         *)
(*                                                                         *)
(* The network is a set of datagrams in each direction: it delays and      *)
(* reorders them and loses up to MaxLoss, and never duplicates one (nor    *)
(* does udtproxy).  Copies come from the client: for the kinds of packets  *)
(* in Late the resend timer may run out while a copy, or its               *)
(* acknowledgement, is still on its way; for the others a round trip is    *)
(* shorter than RDT_PACKET_RESEND_INTERVAL.                                *)
(***************************************************************************)
EXTENDS RdtClient, RdtServer, SequencesExt

CONSTANT MaxLoss   \* how many datagrams the network may lose

ASSUME LossAssumption == MaxLoss \in Nat

VARIABLES
  cli,        \* the client, see RdtClient
  srv,        \* the server, see RdtServer
  toServer,   \* packets under way
  toClient,   \* acknowledgements under way
  lost        \* number of datagrams lost so far

vars == <<cli, srv, toServer, toClient, lost>>

Init ==
  /\ cli = ClientStart
  /\ srv = ServerStart
  /\ toServer = {} /\ toClient = {}
  /\ lost = 0

-----------------------------------------------------------------------------
(***************************************************************************)
(* Timers.  An entry is under way while its packet or an acknowledgement   *)
(* of it is anywhere between the two window lists.                         *)
(***************************************************************************)
AcksSomewhere ==
  {srv.acks[i] : i \in DOMAIN srv.acks} \cup srv.sndbuf \cup toClient \cup cli.rcvbuf

UnderWay(p) ==
  \/ \E q \in cli.sndbuf \cup toServer \cup srv.rcvbuf : q.seq = p.seq
  \/ \E a \in AcksSomewhere : a.ack = Succ(p.seq)

\* The sets of packets whose timers may be found run out together.  All timers
\* are of the same length, so those of the packets sent earlier have run out too.
Expirations ==
  LET buffered == {e \in {cli.window[i] : i \in DOMAIN cli.window} : e.flag = "buffered"}
      able     == {e.pkt.seq : e \in {e \in buffered : e.pkt.kind \in Late \/ ~UnderWay(e.pkt)}}
  IN {S \in SUBSET able : \A r \in cli.older : r[2] \in S => r[1] \in S}

-----------------------------------------------------------------------------
\* One rdt_client_step in which the timers of the packets in `expired' have
\* run out (those not "buffered" have no timer running).
ClientTurn(expired) ==
  /\ cli.at = "step" /\ cli.state = "running"
  /\ cli' = [ClientStep(cli, expired) EXCEPT !.at = "select"]
  /\ UNCHANGED <<srv, toServer, toClient, lost>>

\* What select may find ready; nothing is waited for once the loop is left.
ClientReady ==
  IF Feed(cli).state = "done" THEN {}
  ELSE {r \in {"stdin", "out", "in"} :
          CASE r = "stdin" -> WatchesStdin(cli)
            [] r = "out"   -> cli.sndbuf # {}
            [] r = "in"    -> toClient # {}}

\* The rest of the client's turn; `ready' is what select found ready.
ClientSelect(ready) ==
  LET c == Feed(cli)
      d == IF "stdin" \in ready THEN ReadStdin(c) ELSE c
      e == IF "out" \in ready THEN [d EXCEPT !.sndbuf = {}] ELSE d
  IN /\ cli.at = "select" /\ cli.state = "running"
     /\ ready \subseteq ClientReady
     /\ toServer' = IF "out" \in ready THEN toServer \cup cli.sndbuf ELSE toServer
     /\ \/ /\ "in" \notin ready
           /\ cli' = [e EXCEPT !.at = "step"]
           /\ UNCHANGED toClient
        \/ /\ "in" \in ready
           /\ \E a \in toClient :
                /\ cli' = [e EXCEPT !.at = "step", !.rcvbuf = {a}]
                /\ toClient' = toClient \ {a}
     /\ UNCHANGED <<srv, lost>>

ServerTurn ==
  /\ srv.at = "step" /\ srv.state = "running"
  /\ srv' = [ServerStep(srv) EXCEPT !.at = "select"]
  /\ UNCHANGED <<cli, toServer, toClient, lost>>

ServerReady ==
  {r \in {"stdout", "out", "in"} :
     CASE r = "stdout" -> Len(srv.buf) > 0
       [] r = "out"    -> srv.sndbuf # {}
       [] r = "in"     -> toServer # {}}

ServerSelect(ready) ==
  LET s == DataRead(srv)
  IN /\ srv.at = "select" /\ srv.state = "running"
     /\ ready \subseteq ServerReady
     /\ toClient' = IF "out" \in ready THEN toClient \cup srv.sndbuf ELSE toClient
     /\ \E n \in IF "stdout" \in ready THEN WriteLengths(s) ELSE {0} :
        LET t == IF "stdout" \in ready THEN WriteStdout(s, n) ELSE s
            u == IF "out" \in ready THEN [t EXCEPT !.sndbuf = {}] ELSE t
        IN \/ /\ "in" \notin ready
              /\ srv' = [u EXCEPT !.at = "step"]
              /\ UNCHANGED toServer
           \/ /\ "in" \in ready
              /\ \E p \in toServer :
                   /\ srv' = [u EXCEPT !.at = "step", !.rcvbuf = {p}]
                   /\ toServer' = toServer \ {p}
     /\ UNCHANGED <<cli, lost>>

Lose ==
  /\ lost < MaxLoss
  /\ lost' = lost + 1
  /\ \/ \E p \in toServer : toServer' = toServer \ {p} /\ UNCHANGED toClient
     \/ \E a \in toClient : toClient' = toClient \ {a} /\ UNCHANGED toServer
  /\ UNCHANGED <<cli, srv>>

Next ==
  \/ \E expired \in Expirations : ClientTurn(expired)
  \/ \E ready \in SUBSET {"stdin", "out", "in"} : ClientSelect(ready)
  \/ ServerTurn
  \/ \E ready \in SUBSET {"stdout", "out", "in"} : ServerSelect(ready)
  \/ Lose

Spec == Init /\ [][Next]_vars

(***************************************************************************)
(* Fairness.  Both loops keep turning: select's timeout is used up by the  *)
(* first wait, so a later one never blocks.  Again and again select finds  *)
(* all that is ready, and a step finds the timers run out that may have.   *)
(* Strong fairness of each action is written out with its guard, as TLC    *)
(* is slow to find out that a whole step is enabled.                       *)
(***************************************************************************)
OthersFair ==
  /\ []<>(cli.at = "step" /\ cli.state = "running") => []<><<ClientTurn(UNION Expirations)>>_vars
  /\ []<>(cli.at = "select" /\ cli.state = "running") => []<><<ClientSelect(ClientReady)>>_vars
  /\ []<>(srv.at = "select" /\ srv.state = "running") => []<><<ServerSelect(ServerReady)>>_vars

FairSpec ==
  /\ Spec /\ OthersFair
  /\ []<>(srv.at = "step" /\ srv.state = "running") => []<><<ServerTurn>>_vars

\* The same in the small runs: a step of the server stays enabled until taken.
FairSpecSmall == Spec /\ OthersFair /\ WF_vars(ServerTurn)

-----------------------------------------------------------------------------
\* Every field of both records, and every datagram, is of its C type's range.
TypeOK ==
  /\ cli \in ClientRecord
  /\ srv \in ServerRecord
  /\ toServer \subseteq Packet
  /\ toClient \subseteq Ack
  /\ lost \in 0 .. MaxLoss

\* What the server took over for its user, written out or not yet.
Stream == srv.out \o srv.buf \o srv.data

\* The user's data come out complete and in order, without gap or repetition.
InOrder == IsPrefix(Stream, Input)

\* The server has chunk k: in the stream, or in its window.
Held(k) == k <= Len(Stream) \/ \E q \in srv.window : q.idx = k

\* Chunks whose packet the client counts as delivered.
AckedChunks ==
  {k \in 1 .. cli.packed :
     \A i \in DOMAIN cli.window :
        cli.window[i].pkt.idx = k => cli.window[i].flag = "acked"}

\* The client never forgets a chunk that the server does not have.
AckedIsHeld == \A k \in AckedChunks : Held(k)

\* When the client ends, its whole input has reached the server.
DoneIsComplete == cli.state = "done" => \A k \in 1 .. Chunks : Held(k)

\* The transfer implements what ReliableTransfer promises: chunks reach the
\* server's user in order, and the client counts as delivered, and reports as
\* complete, only what the server has.
Transfer == INSTANCE ReliableTransfer WITH
  held      <- {k \in 1 .. Chunks : Held(k)},
  stream    <- Stream,
  confirmed <- AckedChunks,
  verdict   <- cli.state

IsReliable == Transfer!Spec

\* "assert(actWnd)" of rdt_server_step: a free node is there for each insertion.
FreeNodeLeft == srv.state # "aborted"

\* The FIN takes the last number: nothing of the input is still to be packed,
\* although rdt_client_done may be called while the loop's buffer is not empty.
FinIsLast == cli.eof_sent => cli.packed = Chunks

\* Once the client has seen the SYN acknowledged, the packet the server waits
\* for exists: the server has it, the client still keeps it, or it is the next
\* one the client will make.  Otherwise the server would wait for ever.
ExpectedIsAvailable ==
  \/ \E i \in DOMAIN cli.window : cli.window[i].pkt.kind = "SYN"
  \/ srv.nextseqnum = cli.nextseqnum
  \/ \E q \in srv.window : q.seq = srv.nextseqnum
  \/ \E i \in DOMAIN cli.window : cli.window[i].pkt.seq = srv.nextseqnum

\* A step of the client never skips a packet that is not acknowledged: the
\* oldest packet of the window leaves it only when the server has accepted it.
Accepted(p) ==
  \/ p.idx > 0 /\ Held(p.idx)
  \/ p.seq = InitSeq
  \/ \E q \in srv.window : q.seq = p.seq
  \/ srv.nextseqnum = Succ(p.seq)

ReleaseIsSafe ==
  [][ \A i \in DOMAIN cli.window :
        (\A j \in DOMAIN cli'.window : cli'.window[j].pkt.seq # cli.window[i].pkt.seq)
          => Accepted(cli.window[i].pkt) ]_vars

-----------------------------------------------------------------------------
\* The client ends, one way or the other.
Terminates == <>(cli.state # "running")

\* A client that may resend more often than datagrams are lost succeeds.
Completes == <>(cli.state = "done")

\* What the client was told is complete comes out of the server.
DoneIsDelivered == (cli.state = "done") ~> (srv.out = Input)
=============================================================================
