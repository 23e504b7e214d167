---------------------------- MODULE CheckersNet ----------------------------
(***************************************************************************)
(* A game of checkers over TCP (Game_net.cpp, cli/MultiCtx.cpp,             *)
(* gui/wdgmulti.cpp): the host listens, the guest connects, challenges with *)
(* a new or a saved game, and both make a turn on their own board before    *)
(* the other one has answered it.                                           *)
(***************************************************************************)
EXTENDS CheckersGame

CONSTANTS Files,      \* the games the guest may challenge with
          NetTurns,   \* the turns the players try
          MaxNew      \* bound on the turns made after the challenge

Peers == {"host", "guest"}
Peer(p) == IF p = "host" THEN "guest" ELSE "host"

VARIABLES ui,         \* "cli" or "gui"
          addrs,      \* what becomes of a connect() to each address of the host
          socks,      \* how many sockets the host listens on, -1 before listen()
          conn,       \* the guest's conn_ptr, conn_async, peer_sock and O_NONBLOCK
          life,       \* "off", "open", "failing" (an error box is up), "closed" (the window
                      \* is, the socket is not), "gone", "quit" (left unforced) or "crashed"
          file, game, clr,
          started,    \* MultiCtx: the challenge was accepted
          dlg,        \* WdgMulti: the challenge the host is asked about
          chan,       \* the messages on their way to a peer
          verdict,    \* the host's answer to the challenge: "none" yet, "yes" or "no"
          early       \* who moved before that answer
vars == <<ui, addrs, socks, conn, life, file, game, clr, started, dlg, chan, verdict, early>>
player == <<file, clr, started, dlg, verdict, early>>
link == <<ui, addrs, socks, conn, file>>

noConn == [ptr |-> 0, async |-> FALSE, sock |-> "none", nonblock |-> FALSE]
Challenge(c, mvs) == [type |-> "challenge", clr |-> c, game |-> mvs]
noDlg == Challenge("none", <<>>)
Response(ok) == [type |-> "response", ok |-> ok]
MoveMsg(t) == [type |-> "move", turn |-> t]
Ack(ok) == [type |-> "ack", ok |-> ok]
eof == [type |-> "eof"]

\* Game_net::impl leaves myClr uninitialized.
Init ==
    /\ ui \in [Peers -> {"cli", "gui"}]
    /\ addrs \in {<<"now">>, <<"refused", "later">>, <<"dead", "now">>, <<"dead", "dead">>}
    /\ socks = -1 /\ conn = noConn /\ verdict = "none" /\ early = {}
    /\ life = [p \in Peers |-> "off"]
    /\ file \in Files
    /\ game = [p \in Peers |-> IF p = "host" THEN NewGame ELSE Load(file).game]
    /\ clr \in [Peers -> {"white", "junk"}] /\ clr["guest"] = "junk"
    /\ started = [p \in Peers |-> FALSE]
    /\ dlg = noDlg
    /\ chan = [p \in Peers |-> <<>>]

\* listen() succeeds even when no address could be bound; waitAccept() then throws.
Listen == /\ socks = -1 /\ socks' \in {0, 2}
          /\ UNCHANGED <<ui, addrs, conn, life, game, chan, player>>
WaitAccept ==
    /\ life["host"] = "off"
    /\ \/ socks = 0 /\ life' = [life EXCEPT !["host"] = "crashed"] /\ UNCHANGED socks
       \/ socks > 0 /\ conn.sock \in {"now", "later"}
          /\ life' = [life EXCEPT !["host"] = "open"] /\ socks' = 0
    /\ UNCHANGED <<ui, addrs, conn, game, chan, player>>

\* impl::connect from the i-th address on.
ConnectFrom(i) ==
    LET Outcome(j) == IF socks > 0 \/ addrs[j] \notin {"now", "later"} THEN addrs[j]
                      ELSE IF addrs[j] = "now" THEN "refused" ELSE "dead"
        tries == {j \in i .. Len(addrs) : Outcome(j) # "refused"}
        first == CHOOSE j \in tries : \A k \in tries : j <= k
    IN  IF tries = {} THEN noConn
        ELSE [ptr |-> IF Outcome(first) = "now" THEN 0 ELSE first + 1,
              async |-> Outcome(first) # "now", sock |-> Outcome(first), nonblock |-> TRUE]
BeginConnect ==
    /\ life["guest"] = "off" /\ conn.sock = "none"
    /\ conn' = ConnectFrom(1)
    /\ UNCHANGED <<ui, addrs, socks, life, game, chan, player>>

\* sendGame, once endConnect has returned 0.
SendGame(c) ==
    /\ life' = [life EXCEPT !["guest"] = "open"]
    /\ clr' = [clr EXCEPT !["guest"] = c]
    /\ chan' = [chan EXCEPT !["host"] = Append(@, Challenge(Other(c), GetMoves(game["guest"])))]
Wishes == IF ui["guest"] = "cli" THEN {"white"} ELSE Colors
\* An asynchronous connect that succeeds leaves the socket non-blocking.
EndConnect ==
    /\ life["guest"] = "off" /\ conn.sock # "none"
    /\ LET next == IF conn.async /\ conn.sock = "dead" THEN ConnectFrom(conn.ptr) ELSE conn
           failed == conn.async /\ conn.sock = "dead" /\ (next.async \/ next.sock = "none")
       IN  IF failed THEN conn' = next /\ UNCHANGED <<life, clr, chan>>
           ELSE /\ conn' = [next EXCEPT !.async = FALSE, !.ptr = 0, !.nonblock = next.async]
                /\ \E c \in Wishes : SendGame(c)
    /\ UNCHANGED <<ui, addrs, socks, game, file, started, dlg, verdict, early>>

MePulls(p) == clr[p] = game[p].pulls
Typing(p) == ui[p] = "cli" /\ (game[p].isEnd \/ (started[p] /\ MePulls(p)))
\* A turn of the user: the window asks only whose turn it is, the console also
\* whether the challenge was accepted; a box on the screen keeps the window shut.
UserMove(p) ==
    /\ life[p] = "open" /\ MePulls(p) /\ ~game[p].isEnd
    /\ IF ui[p] = "cli" THEN started[p] ELSE p = "guest" \/ dlg = noDlg
    /\ Len(game[p].moves) < Len(Played(file)) + MaxNew
    /\ \E t \in NetTurns :
          /\ Accepts(game[p], t)
          /\ game' = [game EXCEPT ![p] = MakeMove(@, t)]
          /\ chan' = [chan EXCEPT ![Peer(p)] = Append(@, MoveMsg(t))]
    /\ early' = IF verdict = "none" THEN early \cup {p} ELSE early
    /\ UNCHANGED <<link, life, clr, started, dlg, verdict>>

\* The game goes and its socket is closed (~impl): the peer reads what was sent and
\* then the end.  Input left unread makes the close a reset, and the messages that
\* have not gone out yet are lost.
CloseSocket(p, unread) ==
    \E sent \in (IF unread = <<>> THEN {Len(chan[Peer(p)])} ELSE 0 .. Len(chan[Peer(p)])) :
        chan' = [chan EXCEPT ![p] = <<>>, ![Peer(p)] = Append(SubSeq(@, 1, sent), eof)]

\* What the user sees when waitMessage returns an error: the console leaves and
\* closes the socket, the window keeps it.
Fail(p, rest) ==
    IF ui[p] = "cli"
    THEN life' = [life EXCEPT ![p] = "gone"] /\ CloseSocket(p, rest)
    ELSE life' = [life EXCEPT ![p] = "failing"] /\ chan' = [chan EXCEPT ![p] = rest]
Reply(p, rest, m) ==
    chan' = [chan EXCEPT ![p] = rest, ![Peer(p)] = Append(@, m)]

\* handle(MsgChallenge) once the user has answered: the saved turns are made one
\* by one, and the first refused one ends the session without a response.
Answer(p, ok, m, rest) ==
    \E run \in {Replay(game[p], Played(m.game))} :
        /\ verdict' = IF ok THEN "yes" ELSE "no"
        /\ IF ~ok THEN UNCHANGED <<game, clr>>
           ELSE clr' = [clr EXCEPT ![p] = m.clr] /\ game' = [game EXCEPT ![p] = run.game]
        /\ IF ok /\ run.ok THEN Reply(p, rest, Response(TRUE)) /\ UNCHANGED life
           ELSE IF ok THEN Fail(p, rest)
           ELSE /\ life' = [life EXCEPT ![p] = "failing"]
                /\ Reply(p, rest, Response(FALSE))

Listening(p) == life[p] \in {"open", "failing"} /\ chan[p] # <<>> /\ ~Typing(p)
Msg(p, type) == Listening(p) /\ Head(chan[p]).type = type
OnChallenge(p) ==
    /\ Msg(p, "challenge")
    /\ IF ui[p] = "cli"
       THEN /\ started' = [started EXCEPT ![p] = TRUE]
            /\ Answer(p, TRUE, Head(chan[p]), Tail(chan[p]))
            /\ UNCHANGED <<link, dlg, early>>
       ELSE /\ dlg' = Head(chan[p]) /\ chan' = [chan EXCEPT ![p] = Tail(@)]
            /\ UNCHANGED <<link, life, game, clr, started, verdict, early>>
\* The answer to the box; while it is up the timer goes on reading messages, and an
\* error those bring up is a box on top of it.
AnswerChallenge ==
    /\ dlg # noDlg /\ dlg' = noDlg /\ life["host"] # "failing"
    /\ \E ok \in BOOLEAN : Answer("host", ok, dlg, chan["host"])
    /\ UNCHANGED <<link, started, early>>
OnResponse(p) ==
    /\ Msg(p, "response")
    /\ started' = [started EXCEPT ![p] = @ \/ (ui[p] = "cli" /\ Head(chan[p]).ok)]
    /\ IF Head(chan[p]).ok THEN UNCHANGED life /\ chan' = [chan EXCEPT ![p] = Tail(@)]
       ELSE Fail(p, Tail(chan[p]))
    /\ UNCHANGED <<link, game, clr, dlg, early, verdict>>
OnMove(p) ==
    /\ Msg(p, "move")
    /\ LET t == Head(chan[p]).turn
           ok == ~MePulls(p) /\ Accepts(game[p], t)
       IN  /\ game' = IF ok THEN [game EXCEPT ![p] = MakeMove(@, t)] ELSE game
           /\ Reply(p, Tail(chan[p]), Ack(ok))
    /\ UNCHANGED <<link, life, clr, started, dlg, early, verdict>>
\* Mutant of OnAck: a refused turn stays on the board.
OnAckKeep(p) ==
    /\ Msg(p, "ack")
    /\ chan' = [chan EXCEPT ![p] = Tail(@)]
    /\ UNCHANGED <<link, life, game, clr, started, dlg, early, verdict>>
OnAck(p) ==
    /\ Msg(p, "ack")
    /\ game' = IF Head(chan[p]).ok THEN game ELSE [game EXCEPT ![p] = UndoMove(@)]
    /\ chan' = [chan EXCEPT ![p] = Tail(@)]
    /\ UNCHANGED <<link, life, clr, started, dlg, early, verdict>>
\* The end of the stream; or a header that arrives in two parts, which recv gives
\* back short when the socket is non-blocking.
OnEnd(p) ==
    /\ Msg(p, "eof") \/ (Listening(p) /\ p = "guest" /\ conn.nonblock)
    /\ Fail(p, Tail(chan[p]))
    /\ UNCHANGED <<link, game, clr, started, dlg, early, verdict>>
Dismiss(p) ==
    /\ life[p] = "failing"
    /\ life' = [life EXCEPT ![p] = "closed"]
    /\ UNCHANGED <<link, game, clr, started, dlg, chan, early, verdict>>
\* A player leaves: !quit is read at a prompt, and the console deletes the game; the
\* program with the windows ends, unless a box is up (a tab closed alone leaves the
\* socket open and its timer running).
Quit(p) ==
    /\ IF ui[p] = "cli" THEN life[p] = "open" /\ Typing(p)
       ELSE life[p] \in {"open", "closed"} /\ (p = "guest" \/ dlg = noDlg)
    /\ life' = [life EXCEPT ![p] = IF @ = "open" THEN "quit" ELSE "gone"]
    /\ CloseSocket(p, chan[p])
    /\ UNCHANGED <<link, game, clr, started, dlg, early, verdict>>

Next == \/ Listen \/ WaitAccept \/ BeginConnect \/ EndConnect \/ AnswerChallenge
        \/ \E p \in Peers : \/ UserMove(p) \/ OnChallenge(p) \/ OnResponse(p) \/ OnMove(p)
                            \/ OnAck(p) \/ OnEnd(p) \/ Dismiss(p) \/ Quit(p)
Spec == Init /\ [][Next]_vars

Quiet == (\A p \in Peers : chan[p] = <<>> /\ life[p] = "open") /\ dlg = noDlg

(* When nothing is on its way both boards show the same position, whatever turns *)
(* were refused and taken back (handle(MsgMove), handle(MsgMoveAck)) - unless the *)
(* host moved on the color myClr happens to hold before it was challenged.        *)
BoardsAgree ==
    Quiet /\ "host" \notin early => Position(game["host"]) = Position(game["guest"])

(* Then it is never the turn of both players at once (sendGame, mePulls).         *)
OneMover == Quiet /\ "host" \notin early => ~(MePulls("host") /\ MePulls("guest"))

(* undoMove takes back the last turn whatever was refused: it is always one of     *)
(* the player's own (handle(MsgMoveAck), which ignores the sequence number).        *)
OwnTurnUndone ==
    \A p \in Peers :
        Len(game'[p].moves) < Len(game[p].moves) /\ "host" \notin early => game'[p].pulls = clr[p]

(* The session of a player who did not leave ends only when the other one left,      *)
(* when the challenge was refused, when somebody moved before it was answered, or     *)
(* when the guest reads a non-blocking socket: never over a turn that was refused, a    *)
(* saved game that is sent, or a message read while the box is up.                       *)
FailsForAReason ==
    \A p \in Peers : life[p] \in {"failing", "closed", "gone"} =>
        life[Peer(p)] = "quit" \/ verdict = "no" \/ early # {} \/ conn.nonblock
=============================================================================
