------------------------------ MODULE Machines ------------------------------
(* The machines that are only to do nothing wrong, one of them at a time: the    *)
(* checkers program at one desk and over the network, the interpreter, the image   *)
(* filter, the compression and the sorting of text, and the matrices.  dev says      *)
(* which; its variables are in the slots a to m, and the slots it does not need       *)
(* hold nothing.                                                                       *)
EXTENDS Integers, Sequences

CONSTANT none

VARIABLES dev, a, b, c, d, e, f, g, h, i, j, k, l, m

vars == <<dev, a, b, c, d, e, f, g, h, i, j, k, l, m>>
Is(name) == dev = name /\ UNCHANGED dev

(* The saved game examples/7.ictf, whole and cut short; squares are written as 33 for c3. *)
Square(n) == <<(n \div 10) - 1, (n % 10) - 1>>
Ply(capt, p) == [capture |-> capt, position |-> [q \in DOMAIN p |-> Square(p[q])]]
M(p) == Ply(FALSE, p)
X(p) == Ply(TRUE, p)
Pairs(ts) ==
    [q \in 1 .. (Len(ts) + 1) \div 2 |->
        [seqnum |-> q, white |-> ts[2 * q - 1],
         black |-> IF 2 * q <= Len(ts) THEN ts[2 * q] ELSE M(<<>>)]]
Example7 ==
    <<M(<<33, 44>>), M(<<86, 75>>), M(<<73, 84>>), M(<<66, 55>>),
      X(<<44, 66>>), X(<<77, 55>>), X(<<84, 66>>), X(<<57, 75>>),
      M(<<82, 73>>), M(<<46, 35>>), M(<<22, 33>>), M(<<26, 15>>),
      M(<<11, 22>>), M(<<15, 24>>), X(<<33, 15>>), M(<<35, 24>>),
      X(<<13, 35>>), M(<<48, 57>>), M(<<73, 64>>), X(<<55, 73>>),
      X(<<62, 84, 66, 48>>), M(<<68, 57>>), X(<<48, 26>>), M(<<28, 37>>),
      X(<<26, 48, 66>>), M(<<17, 26>>), X(<<35, 17>>), M(<<88, 77>>),
      X(<<66, 88>>)>>
Games(lengths) == {Pairs(SubSeq(Example7, 1, n)) : n \in lengths}
Desk == INSTANCE CheckersDesk WITH BoardSize <- 8, MaxHops <- 6, MaxNew <- 2, MaxBack <- 6,
  Files <- Games({0, 20, 25, 29}), Typed <- {M(<<33, 66>>)},
  kind <- a, file <- b, game <- c, fwd <- d, curTurn <- e
Net == INSTANCE CheckersNet WITH BoardSize <- 8, MaxHops <- 6, MaxNew <- 2,
  Files <- Games({0, 1, 2}),
  NetTurns <- {Example7[1], Example7[2], Example7[3], Example7[4], Example7[5]},
  ui <- a, addrs <- b, socks <- c, conn <- d, life <- e, file <- f, game <- g, clr <- h,
  started <- i, dlg <- j, chan <- k, verdict <- l, early <- m

Ifj == INSTANCE IfjPrograms WITH task <- a, text <- b, pos <- c, st <- d, lexeme <- e, line <- f,
  toks <- g, stmts <- h, m <- i, code <- j

Img == INSTANCE ImageChip WITH Rows <- 3, Cols <- 3, Levels <- 4, PosMod <- 8, IntMod <- 4096,
  FrameShift <- 1, Period <- 3, Skip <- 6, MaxFrames <- 17, MaxSw <- 3, MaxIdle <- 1,
  MaxLapses <- 1, Settled <- 3,
  Pictures <- {[size |-> 2, base |-> <<1, 0>>, noise |-> 7, zoom |-> 0],
               [size |-> 1, base |-> <<2, 1>>, noise |-> 5, zoom |-> 1]},
  gen <- a, chip <- b, mcu <- c, mem <- d, cpu <- e, seen <- f, idle <- g, lag <- h, sw <- i

Text == INSTANCE TextCompression WITH RepeatMax <- 3, Blocks <- 1..3,
  Texts <- UNION {[1..n -> {"a", "b"}] : n \in 0..8} \union UNION {[1..n -> {"a", "eol", "2"}] : n \in 0..4},
  text <- a, lBlock <- b, c <- c, d <- d

(* Words that differ by a letter's case, by an accent, by ch, and by the order of the two; ou is    *)
(* in no first table and Tv in no second one of win1250, so their bytes meet values of tables.        *)
Spelling ==
    [a |-> <<"a">>, Ab |-> <<"A", "b">>, aB |-> <<"a", "B">>, aab |-> <<"aa", "b">>,
     ch |-> <<"c", "h">>, cz |-> <<"c", "z">>, Tv |-> <<"Tv">>, T |-> <<"T">>, oub |-> <<"ou", "b">>]
SortCommands ==
    {<<>>, <<"--sort", "in", "out">>, <<"--print", "w", "in", "out">>, <<"--print", "x", "in", "out">>,
     <<"--sort", "--print", "w", "in", "out">>, <<"--usort", "--sort", "--print", "w", "in", "out">>,
     <<"--usort", "--print", "w", "--codepage", "win1250", "in", "out">>,
     <<"--sort", "--print", "w", "--before", "w", "ch", "in", "out">>,
     <<"--sort", "--print", "w", "--codepage", "cp852", "--after", "w", "aab", "in", "out">>}
Table(ws) == <<<<"n", "w">>>> \o [n \in DOMAIN ws |-> <<"a", ws[n]>>]
Czech == INSTANCE CzechSorting WITH Letters <- Spelling, Commands <- SortCommands,
  Files <- {Table(ws) : ws \in UNION {[1..n -> DOMAIN Spelling] : n \in {0, 1, 3}}}
           \union {<<>>, <<<<"n", "w">>, <<"a">>>>},
  args <- a, file <- b, s <- c

(* Vectors and matrices that fit each other and that do not, one too short, one with a      *)
(* negative item, a vector of matrices, and a file that is missing.                            *)
MatrixFiles ==
    [missing |-> <<>>, v2 |-> <<1, 2, 1, 0>>, w2 |-> <<1, 2, 0, 3>>, v3 |-> <<1, 3, 0, 1, 0>>,
     short |-> <<1, 2, 3>>, m23 |-> <<2, 2, 3, 0, 1, 0, 2, 0, 1>>, m32 |-> <<2, 3, 2, 0, 0, 1, 0, 0, 1>>,
     m22 |-> <<2, 2, 2, 1, 0, 0, 1>>, negative |-> <<2, 1, 2, 0, -1>>,
     m33 |-> <<2, 3, 3, 0, 1, 0, 0, 0, 0, 1, 0, 1>>, long |-> <<2, 3, 3, 1, 0, 1, 0, 1, 0, 1, 0, 1, 9>>,
     cube |-> <<3, 2, 1, 2, 4, 5, 6, 7>>,
     grid |-> <<2, 2, 2, 1, 2, 3, 4>>, left |-> <<1, 2, 2, 1>>, rising |-> <<1, 2, 3, 2>>,
     falling |-> <<1, 2, 1, 4>>, back |-> <<1, 2, 4, 1>>, away |-> <<1, 2, 1, 1>>]
MatrixCommands ==
    {<<>>, <<"h">>, <<"h", "h">>, <<"what">>, <<"maze", "m22">>}
    \union {<<o, x>> : o \in {"test", "bubbles"}, x \in DOMAIN MatrixFiles}
    \union {<<o, x, y>> : o \in {"vadd", "vscal", "mmult", "mexpr", "eight"},
                          x \in DOMAIN MatrixFiles, y \in DOMAIN MatrixFiles}
Mat == INSTANCE MatrixOperations WITH Files <- MatrixFiles, Commands <- MatrixCommands, args <- a, s <- b

Absent == j = none /\ k = none /\ l = none /\ m = none
Init ==
    \/ dev = "desk" /\ Desk!Init /\ Absent /\ f = none /\ g = none /\ h = none /\ i = none
    \/ dev = "net" /\ Net!Init
    \/ dev = "img" /\ Img!Init /\ Absent
    \/ dev = "text" /\ Text!Init /\ Absent /\ e = none /\ f = none /\ g = none /\ h = none /\ i = none
    \/ dev = "sort" /\ Czech!Init /\ Absent /\ d = none /\ e = none /\ f = none
                    /\ g = none /\ h = none /\ i = none
    \/ dev = "mat" /\ Mat!Init /\ Absent /\ c = none /\ d = none /\ e = none /\ f = none
                   /\ g = none /\ h = none /\ i = none
    \/ dev = "ifj" /\ Ifj!Init(Ifj!Tasks) /\ k = none /\ l = none /\ m = none

Next ==
    \/ Is("desk") /\ Desk!Next /\ UNCHANGED <<f, g, h, i, j, k, l, m>>
    \/ Is("net") /\ Net!Next
    \/ Is("img") /\ Img!Next /\ UNCHANGED <<j, k, l, m>>
    \/ Is("text") /\ Text!Next /\ UNCHANGED <<e, f, g, h, i, j, k, l, m>>
    \/ Is("sort") /\ Czech!Next /\ UNCHANGED <<d, e, f, g, h, i, j, k, l, m>>
    \/ Is("mat") /\ Mat!Next /\ UNCHANGED <<c, d, e, f, g, h, i, j, k, l, m>>
    \/ Is("ifj") /\ Ifj!Next /\ UNCHANGED <<k, l, m>>

Spec == Init /\ [][Next]_vars
DeskSpec == dev = "desk" /\ Init /\ [][Next]_vars

-----------------------------------------------------------------------------
(* The properties are those of the machines, where they are explained.             *)

(* desk: what was saved is loaded, the random player always has a turn that is accepted,  *)
(* and no stone is left on its king's row (Game.cpp, AiRandom.cpp).                         *)
DeskPlaysOn == dev = "desk" => Desk!SavedGameLoads /\ Desk!BotIsNeverStuck /\ Desk!Crowned

(* desk: a replay keeps the recorded turns but for what undoMove loses, and the slider      *)
(* stands where the board is (Game_replay.cpp, wdgreplay.cpp).                                *)
DeskReplays == dev = "desk" => Desk!ReplayKeepsTheRecord /\ Desk!SliderInStep

(* desk: the turns made are recorded (README.txt of the program): a replay has them all.      *)
DeskRecordIsKept == dev = "desk" => Desk!RecordIsKept

(* net: when nothing is on its way the players see the same board and it is the turn of one    *)
(* of them; a refused turn taken back was the player's own (Game_net.cpp, handle).               *)
NetPlayersAgree ==
    /\ [](dev = "net" => Net!BoardsAgree /\ Net!OneMover)
    /\ [][dev = "net" => Net!OwnTurnUndone]_vars

(* net: a session ends because the other player left or for a failure that is named, never from   *)
(* the course of the play (Game_net.cpp, waitMessage, sendGame and ~impl; ConCtx.cpp, !quit).        *)
NetFailsForAReason == dev = "net" => Net!FailsForAReason

(* ifj: an expression is parsed to the tree it was written from (expr.c, _infix_to_postfix     *)
(* and _postfix_to_tree), and the lines are counted (scanner.c).                                 *)
IfjReads == dev = "ifj" => Ifj!ReadsAsWritten

(* ifj: a program prints what it computes, or ends with the code of its error; only a call with     *)
(* more arguments than parameters and a loop that is meant to never end (semantic.c).                *)
IfjRuns == dev = "ifj" => Ifj!RunsAsMeant

(* img: the circuit and the microcontroller filter as the program they replace while the        *)
(* microcontroller answers in time; after it has fallen behind and kept up again for a while the   *)
(* threshold is again a new one (filter.cpp, main_swhw.c, main_sw.c against cpu.c).                  *)
FilterAsProgram ==
    dev = "img" => Img!MedianOfNine /\ Img!ShowsAsCpu /\ Img!ThresholdNotStale /\ Img!PrintsAsCpu

(* text: what was compressed comes back, or is refused for a line end (proj1.c, compress and       *)
(* decompress).  sort: the words asked for are printed, each as often as it should be and in the        *)
(* order of a comparison that is one (proj4.c, sort, usort and mystrcmp).  mat: the sum, the products,    *)
(* the bubbles and the word found are right, and no block of memory is left (proj3.c, main).                *)
CourseworkIsRight ==
    /\ dev = "text" => Text!TextComesBack
    /\ dev = "sort" => Czech!PrintsInOrder /\ Czech!ComparisonOrders
    /\ dev = "mat" => Mat!NothingLost /\ Mat!RightAnswers
=============================================================================
