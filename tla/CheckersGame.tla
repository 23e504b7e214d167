--------------------------- MODULE CheckersGame ---------------------------
(***************************************************************************)
(* The rules of the checkers program (Game.cpp, GameCmd.cpp, Move.h,        *)
(* CheckerBoardGen.h): a game is a record, a square is <<file, rank>>, a    *)
(* turn is the squares a piece goes through and whether it captures.  The   *)
(* cache _mandatoryMoves is always a function of the board and the player   *)
(* who pulls, so it is computed where the code reads it.                    *)
(***************************************************************************)
EXTENDS Integers, SequencesExt

CONSTANTS BoardSize,      \* 8 in Game_p.h
          MaxHops         \* bound on the captures of one turn

Colors == {"white", "black"}
Other(c) == IF c = "white" THEN "black" ELSE "white"
Empty == <<"nobody", "none">>
Squares == (0 .. BoardSize - 1) \X (0 .. BoardSize - 1)
noTurn == [capture |-> FALSE, position |-> <<>>]
Turn(capt, pos) == [capture |-> capt, position |-> pos]

IsEmpty(b, s) == b[s][1] = "nobody"
IsDama(b, s) == b[s][2] = "dama"
KingsRow(c) == IF c = "white" THEN BoardSize - 1 ELSE 0
Forward(c) == IF c = "white" THEN 1 ELSE -1

\* CheckerBoardGen: black fills the dark squares above the two middle rows, white below.
Stone(s) ==
    LET row == BoardSize - 1 - s[2]
        border == BoardSize \div 2 - 1
    IN  IF (s[1] + row) % 2 = 1 /\ row < border THEN <<"black", "stone">>
        ELSE IF (s[1] + row) % 2 = 1 /\ row > border + 1 THEN <<"white", "stone">>
        ELSE Empty
NewGame == [board |-> [s \in Squares |-> Stone(s)], seqnum |-> 0, pulls |-> "white",
            moves |-> <<>>, isEnd |-> FALSE, looser |-> "black"]

Ray(s, d, k) == <<s[1] + k * d[1], s[2] + k * d[2]>>
\* How many empty squares follow s in direction d.
Free(b, s, d) ==
    LET open(k) == Ray(s, d, k) \in Squares /\ IsEmpty(b, Ray(s, d, k))
    IN  CHOOSE n \in 0 .. BoardSize : ~open(n + 1) /\ \A k \in 1 .. n : open(k)
AtMost(n, dama) == IF dama \/ n = 0 THEN n ELSE 1
Sign(n) == IF n > 0 THEN 1 ELSE IF n < 0 THEN -1 ELSE 0

\* What a piece of player me on the square last meets in direction d: the empty
\* squares before it, the foe's piece it may take, the empty squares behind that.
Look(b, last, d, me, dama) ==
    LET free == Free(b, last, d)
        prey == Ray(last, d, free + 1)
        canTake == /\ dama \/ free = 0
                   /\ prey \in Squares
                   /\ b[prey][1] = Other(me)
    IN  [dir |-> d, free |-> AtMost(free, dama), prey |-> prey,
         land |-> IF canTake THEN AtMost(Free(b, prey, d), dama) ELSE 0]

AllWays == <<<<-1, -1>>, <<-1, 1>>, <<1, -1>>, <<1, 1>>>>
\* A stone goes forward; a dama goes everywhere but back along its last capture.
Directions(b, t) ==
    LET s == t.position[1]
        n == Len(t.position)
        back == <<Sign(t.position[n - 1][1] - t.position[n][1]),
                  Sign(t.position[n - 1][2] - t.position[n][2])>>
    IN  SelectSeq(AllWays, LAMBDA d : IF IsDama(b, s) THEN ~t.capture \/ d # back
                                      ELSE d[2] = Forward(b[s][1]))
Looks(b, t) ==
    LET dirs == Directions(b, t)
        s == t.position[1]
    IN  [i \in DOMAIN dirs |-> Look(b, Last(t.position), dirs[i], b[s][1], IsDama(b, s))]

RECURSIVE Available(_, _, _)
Available(b, t, hops) ==
    LET Slide(l, k) == Turn(FALSE, Append(t.position, Ray(Last(t.position), l.dir, k)))
        Take(l, k) == Turn(TRUE, Append(t.position, Ray(l.prey, l.dir, k)))
        Along(l) ==
            (IF t.capture THEN <<>> ELSE [k \in 1 .. l.free |-> Slide(l, k)])
            \o FlattenSeq([k \in 1 .. l.land |-> Available(b, Take(l, k), hops - 1)])
        From(looks) ==
            IF t.capture /\ \A i \in DOMAIN looks : looks[i].land = 0 THEN <<t>>
            ELSE FlattenSeq([i \in DOMAIN looks |-> Along(looks[i])])
    IN  IF hops = 0 THEN <<t>> ELSE From(Looks(b, t))

GetAvailableMoves(g, s) ==
    IF s \in Squares /\ ~IsEmpty(g.board, s)
    THEN Available(g.board, Turn(FALSE, <<s>>), MaxHops) ELSE <<>>
\* Whether getAvailableMoves finds anything, and whether a capture.
Mobile(b, s) == \E l \in ToSet(Looks(b, Turn(FALSE, <<s>>))) : l.free + l.land > 0
Hungry(b, s) == \E l \in ToSet(Looks(b, Turn(FALSE, <<s>>))) : l.land > 0

\* The squares in the order of the loops over rank and file.
Scan == <<>> \o [i \in 1 .. BoardSize * BoardSize |-> <<(i - 1) % BoardSize, (i - 1) \div BoardSize>>]
Pieces(g, c) == SelectSeq(Scan, LAMBDA s : g.board[s][1] = c)

\* std::remove_if without erase: the turns of damas move to the front, the tail
\* keeps the turns of stones and the emptied shells of the turns moved away.
DamasFirst(b, mvs) ==
    LET Shell(m) == IF IsDama(b, m.position[1]) THEN [m EXCEPT !.position = <<>>] ELSE m
        Moved(kept) ==
            IF kept = <<>> THEN mvs
            ELSE [i \in DOMAIN mvs |-> IF i <= Len(kept) THEN kept[i] ELSE Shell(mvs[i])]
    IN  Moved(SelectSeq(mvs, LAMBDA m : IsDama(b, m.position[1])))
GetMandatoryMoves(g) ==
    LET hungry == SelectSeq(Pieces(g, g.pulls), LAMBDA s : Hungry(g.board, s))
        Takes(ss) == FlattenSeq([i \in DOMAIN ss |->
                         SelectSeq(GetAvailableMoves(g, ss[i]), LAMBDA m : m.capture)])
    IN  DamasFirst(g.board, Takes(hungry))

\* The commands of one hop, or none when the hop is refused.
HopCmds(g, dama, capt, f, t) ==
    LET dx == t[1] - f[1]
        dy == t[2] - f[2]
        d == <<Sign(dx), Sign(dy)>>
        dist == IF dx < 0 THEN -dx ELSE dx
        stepOk(n) == IF dama THEN dx = dy \/ dx = -dy ELSE dist = n /\ dy = n * Forward(g.pulls)
        foe(s) == g.board[s][1] = Other(g.pulls)
        path == IF dama THEN [k \in 1 .. dist |-> Ray(f, d, k)] ELSE <<Ray(f, d, 1)>>
        prey == SelectSeq(path, foe)
        jump == [op |-> "jump", at |-> f, to |-> t, piece |-> Empty]
    IN  IF ~IsEmpty(g.board, t) \/ ~stepOk(IF capt THEN 2 ELSE 1) THEN <<>>
        ELSE IF ~capt THEN <<jump>>
        ELSE IF Len(prey) # 1 THEN <<>>
        ELSE <<jump, [op |-> "capture", at |-> prey[1], to |-> prey[1], piece |-> Empty]>>

\* prepareTurn: the commands of a turn the player who pulls may make, or none.
PrepareTurn(g, t) ==
    LET n == Len(t.position)
        Allowed(mand) == mand = <<>> \/ Contains(mand, t)
        s == t.position[1]
        hops == [i \in 1 .. n - 1 |->
                    HopCmds(g, IsDama(g.board, s), t.capture, t.position[i], t.position[i + 1])]
        promote == [op |-> "promote", at |-> t.position[n], to |-> t.position[n], piece |-> Empty]
    IN  IF \/ n < 2 \/ (~t.capture /\ n # 2)
           \/ \E i \in 1 .. n : t.position[i] \notin Squares
           \/ g.board[s][1] # g.pulls
           \/ ~Allowed(GetMandatoryMoves(g))
           \/ \E i \in 1 .. n - 1 : hops[i] = <<>>
        THEN <<>>
        ELSE FlattenSeq(hops) \o
             (IF t.position[n][2] = KingsRow(g.pulls) THEN <<promote>> ELSE <<>>)

\* A command of GameCmd.cpp done to a board; a capture remembers the piece.
Exec(st, c) ==
    LET b == st.board
    IN  CASE c.op = "jump" -> [board |-> [b EXCEPT ![c.to] = b[c.at], ![c.at] = Empty],
                               done |-> Append(st.done, c)]
          [] c.op = "capture" -> [board |-> [b EXCEPT ![c.at] = Empty],
                                  done |-> Append(st.done, [c EXCEPT !.piece = b[c.at]])]
          [] c.op = "promote" -> [board |-> [b EXCEPT ![c.at][2] = "dama"],
                                  done |-> Append(st.done, c)]
Unexec(b, c) ==
    CASE c.op = "jump" -> [b EXCEPT ![c.at] = b[c.to], ![c.to] = Empty]
      [] c.op = "capture" -> [b EXCEPT ![c.at] = c.piece]
      [] c.op = "promote" -> [b EXCEPT ![c.at][2] = "stone"]

CheckEnd(g) ==
    LET Loses(c) == ~\E s \in Squares : g.board[s][1] = c /\ Mobile(g.board, s)
        Ended(losers) == [g EXCEPT !.isEnd = losers # {},
                                   !.looser = IF "white" \in losers THEN "white"
                                              ELSE IF "black" \in losers THEN "black" ELSE @]
    IN  Ended({c \in Colors : Loses(c)})

MakeMove(g, t) ==
    LET Made(run) == CheckEnd([g EXCEPT !.board = run.board,
                                        !.moves = Append(@, [turn |-> t, cmds |-> run.done]),
                                        !.pulls = Other(@),
                                        !.seqnum = IF g.pulls = "black" THEN @ + 1 ELSE @])
        By(cmds) == IF cmds = <<>> THEN g
                    ELSE Made(FoldLeft(Exec, [board |-> g.board, done |-> <<>>], cmds))
    IN  IF g.isEnd THEN g ELSE By(PrepareTurn(g, t))
\* What makeMove returns: whether the turn was recorded.
Accepts(g, t) == Len(MakeMove(g, t).moves) > Len(g.moves)
\* Mutant of UndoMove: the commands are undone in the order they were done.
UndoForward(g) ==
    IF g.moves = <<>> THEN g
    ELSE [g EXCEPT !.board = FoldLeft(Unexec, @, Last(g.moves).cmds),
                   !.moves = Front(@),
                   !.seqnum = IF g.pulls = "white" THEN @ - 1 ELSE @,
                   !.pulls = Other(@)]
\* undoMove leaves _isEnd and _looser as they are.
UndoMove(g) ==
    IF g.moves = <<>> THEN g
    ELSE [g EXCEPT !.board = FoldLeft(Unexec, @, Reverse(Last(g.moves).cmds)),
                   !.moves = Front(@),
                   !.seqnum = IF g.pulls = "white" THEN @ - 1 ELSE @,
                   !.pulls = Other(@)]

\* getMoves pairs the turns; load makes them again until one is missing.
TurnsOf(g) == [i \in DOMAIN g.moves |-> g.moves[i].turn]
GetMoves(g) ==
    LET ts == TurnsOf(g)
    IN  [i \in 1 .. (Len(ts) + 1) \div 2 |->
            [seqnum |-> i, white |-> ts[2 * i - 1],
             black |-> IF 2 * i <= Len(ts) THEN ts[2 * i] ELSE noTurn]]
\* Mutant of Played: a missing turn is made like any other.
PlayedAll(mvs) == FlattenSeq([i \in DOMAIN mvs |-> <<mvs[i].white, mvs[i].black>>])
Played(mvs) ==
    LET flat == FlattenSeq([i \in DOMAIN mvs |-> <<mvs[i].white, mvs[i].black>>])
        stop == {i \in DOMAIN flat : flat[i].position = <<>>}
    IN  IF stop = {} THEN flat
        ELSE SubSeq(flat, 1, (CHOOSE i \in stop : \A j \in stop : i <= j) - 1)
\* The game after as many of the turns as are accepted, and whether all were.
Replay(g, ts) ==
    LET After(st, next) == IF st.ok /\ Len(next.moves) > Len(st.game.moves)
                           THEN [st EXCEPT !.game = next] ELSE [st EXCEPT !.ok = FALSE]
    IN  FoldLeft(LAMBDA st, t : After(st, MakeMove(st.game, t)), [game |-> g, ok |-> TRUE], ts)
Load(mvs) == Replay(NewGame, Played(mvs))
Position(g) == [board |-> g.board, pulls |-> g.pulls, seqnum |-> g.seqnum]
===========================================================================
