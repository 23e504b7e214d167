--------------------------- MODULE CheckersDesk ---------------------------
(***************************************************************************)
(* The sessions of the checkers program on one computer: two people at one  *)
(* board, a person against the random player, and the replay of a saved     *)
(* game with its slider (cli/LocalCtx, cli/SingleCtx, gui/wdglocal,         *)
(* gui/wdgsingle, gui/wdgreplay, Game_bot.cpp, AiRandom.cpp,                *)
(* Game_replay.cpp, Game_io.h).                                             *)
(***************************************************************************)
EXTENDS CheckersGame

CONSTANTS Files,      \* the saved games a session may be opened with
          Typed,      \* turns a player of the text interface may type
          MaxBack,    \* bound on the turns a replay goes back
          MaxNew      \* bound on the turns a session makes after the load

VARIABLES kind,       \* "local", "single", "replay" (the slider) or "console"
          file,       \* the saved game the session is opened with
          game,
          fwd,        \* Game_replay: the turns taken back, the next one last
          curTurn     \* WdgReplay: where the slider stands
vars == <<kind, file, game, fwd, curTurn>>

BotColor == "black"
MaxTurn(g) == g.seqnum * 2 - 1 + (IF g.pulls = "black" THEN 1 ELSE 0)

Init ==
    /\ kind \in {"local", "single", "replay", "console"}
    /\ file \in Files
    /\ game = Load(file).game
    /\ fwd = <<>>
    /\ curTurn = IF kind = "replay" THEN MaxTurn(game) ELSE 0

\* WdgGame::onSelectedLoc: of the turns between two squares the first longest one.
Longest(ts) == SelectSeq(ts, LAMBDA t : \A i \in DOMAIN ts : Len(ts[i].position) <= Len(t.position))[1]
GuiTurns(g) ==
    LET mine == Pieces(g, g.pulls)
        Between(s, e) == SelectSeq(GetAvailableMoves(g, s), LAMBDA t : Last(t.position) = e)
        Ends(s) == {Last(t.position) : t \in ToSet(GetAvailableMoves(g, s))}
    IN  UNION {{Longest(Between(mine[i], e)) : e \in Ends(mine[i])} : i \in DOMAIN mine}

\* Mutant of BotTurns: captures are not asked for first.
BotTurnsAny(g) == UNION {ToSet(GetAvailableMoves(g, Pieces(g, g.pulls)[i])) : i \in DOMAIN Pieces(g, g.pulls)}
\* AiRandom::think: the first longest mandatory turn, else any turn of any piece.
BotTurns(g) ==
    LET OfAny == UNION {ToSet(GetAvailableMoves(g, s)) : s \in ToSet(Pieces(g, g.pulls))}
        Of(mand) == IF mand # <<>> THEN {Longest(mand)} ELSE OfAny
    IN  Of(GetMandatoryMoves(g))

New == Len(game.moves) - Len(Played(file))

LocalMove ==
    /\ kind = "local" /\ ~game.isEnd /\ New < MaxNew
    /\ \E t \in GuiTurns(game) \cup Typed : game' = MakeMove(game, t)
    /\ UNCHANGED <<kind, file, fwd, curTurn>>
HumanMove ==
    /\ kind = "single" /\ game.pulls # BotColor /\ ~game.isEnd /\ New < MaxNew
    /\ \E t \in GuiTurns(game) \cup Typed : game' = MakeMove(game, t)
    /\ UNCHANGED <<kind, file, fwd, curTurn>>
BotThink ==
    /\ kind = "single" /\ game.pulls = BotColor /\ ~game.isEnd /\ New < MaxNew
    /\ \E t \in BotTurns(game) : game' = MakeMove(game, t)
    /\ UNCHANGED <<kind, file, fwd, curTurn>>
\* Game_io::save and the load of what was saved.
SaveAndLoad ==
    /\ kind \in {"local", "single"} /\ New > 0
    /\ game' = Load(GetMoves(game)).game
    /\ UNCHANGED <<kind, file, fwd, curTurn>>

\* Game_replay::back and forward on <<game, fwd>>; ok is what they return.
Back(r) ==
    IF r.game.moves = <<>> THEN [r EXCEPT !.ok = FALSE]
    ELSE [game |-> UndoMove(r.game), fwd |-> Append(r.fwd, Last(r.game.moves).turn), ok |-> TRUE]
Fwd(r) ==
    IF r.fwd = <<>> THEN [r EXCEPT !.ok = FALSE]
    ELSE [game |-> MakeMove(r.game, Last(r.fwd)), fwd |-> Front(r.fwd), ok |-> TRUE]
Steps(r, forward, n) ==
    LET one(q, i) == IF ~q.ok THEN q ELSE IF forward THEN Fwd(q) ELSE Back(q)
    IN FoldLeft(one, r, [i \in 1 .. n |-> i])
\* Game_replay::go: when a step fails the steps made are taken back.
Go(r, dx) ==
    LET Made(n) == IF n < 0 THEN -n ELSE n
        End(there) ==
            IF there.ok THEN there
            ELSE [Steps([there EXCEPT !.ok = TRUE], dx < 0, Made(Len(there.fwd) - Len(r.fwd))) EXCEPT !.ok = FALSE]
    IN  End(Steps(r, dx > 0, Made(dx)))

Near(g) == Len(g.moves) >= Len(Played(file)) - MaxBack
Here == [game |-> game, fwd |-> fwd, ok |-> TRUE]
\* WdgReplay::onValueChanged.
Slide ==
    /\ kind = "replay"
    /\ \E index \in 0 .. Len(Played(file)) - 1 :
          /\ index # curTurn
          /\ \E r \in {Go(Here, index - curTurn)} : game' = r.game /\ fwd' = r.fwd
          /\ curTurn' = index
          /\ Near(game')
    /\ UNCHANGED <<kind, file>>
\* ReplayCtx::process, which has no slider.
Step(r) ==
    /\ kind = "console" /\ game' = r.game /\ fwd' = r.fwd /\ Near(game')
    /\ UNCHANGED <<kind, file, curTurn>>

Next == LocalMove \/ HumanMove \/ BotThink \/ SaveAndLoad \/ Slide \/ Step(Back(Here)) \/ Step(Fwd(Here))
Spec == Init /\ [][Next]_vars

(* A game saved in the middle of a session is loaded as it was: the same board,   *)
(* player and number (getMoves, Game::load), also after captures and promotions.    *)
SavedGameLoads ==
    kind \in {"local", "single"} =>
        \E saved \in {Load(GetMoves(game))} :
            saved.ok /\ Position(saved.game) = Position(game)

(* Whenever the random player is to move it has a turn, and makeMove accepts         *)
(* whichever it takes (AiRandom.cpp, prepareTurn): its loop ends and the console     *)
(* never leaves the program for it.                                                   *)
BotIsNeverStuck ==
    kind # "replay" /\ ~game.isEnd =>
        \E turns \in {BotTurns(game)} : turns # {} /\ \A t \in turns : Accepts(game, t)

(* No stone stands on the row where it should have become a dama (prepareTurn).       *)
Crowned ==
    kind \in {"local", "single"} =>
        \A s \in Squares : ~IsEmpty(game.board, s) /\ s[2] = KingsRow(game.board[s][1]) => IsDama(game.board, s)

(* What undoMove does not give back: the end of the game, and a dama that came back   *)
(* to its king's row, which becomes a stone.                                            *)
ReturningDama(i) ==
    LET g == Replay(NewGame, SubSeq(Played(file), 1, i - 1)).game
        t == Played(file)[i]
    IN  IsDama(g.board, t.position[1]) /\ Last(t.position)[2] = KingsRow(g.pulls)
Spoilt == game.isEnd \/ \E i \in Len(game.moves) + 1 .. Len(Played(file)) : ReturningDama(i)

(* Every recorded turn stays in the record, made or waiting, however a replay goes      *)
(* back and forth (Game_replay.cpp).  Not so after the end of a game.                    *)
RecordIsKept ==
    kind \in {"replay", "console"} => TurnsOf(game) \o Reverse(fwd) = Played(file)

(* Up to what undoMove loses, a replay keeps the record and shows the position after   *)
(* the turns made (Game_replay.cpp, undoMove).                                          *)
ReplayKeepsTheRecord ==
    kind \in {"replay", "console"} =>
        \/ RecordIsKept /\ Position(game) = Position(Replay(NewGame, TurnsOf(game)).game)
        \/ Spoilt

(* The slider stands at the turn the board shows (WdgReplay::onValueChanged).           *)
SliderInStep == kind = "replay" => Len(game.moves) = curTurn + 1 \/ Spoilt
===========================================================================
