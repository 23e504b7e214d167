-------------------------------- MODULE Bench --------------------------------
(* A bench for the parts that must keep going, the two Modbus units, the       *)
(* button trigger, the network proxy and the PLC relay, and for the lap timer,   *)
(* the lock, the output unit, the processor, the colouring of graphs and the cars  *)
(* on the motorway: one of them at a time.  dev says which; its variables are in    *)
(* the slots a to m, and the slots it does not need hold nothing.                    *)
EXTENDS Integers, Sequences

CONSTANT none

VARIABLES dev, a, b, c, d, e, f, g, h, i, j, k, l, m

vars == <<dev, a, b, c, d, e, f, g, h, i, j, k, l, m>>
Is(name) == dev = name /\ UNCHANGED dev

Tqs == INSTANCE TqsAdapter WITH FrameLen <- 2, ReplyLen <- 3, MaxFrames <- 3, MaxFaults <- 1,
  fsm <- a, act <- b, pc <- c, flags <- d, buf <- e, tmr <- f, rcie <- g, tx <- h, line <- i, m <- j

Temp == INSTANCE TempSensor WITH MaxLen <- 2, TConv <- 3, Refresh <- 4, MaxFrames <- 2,
  MaxFaults <- 1, MaxFails <- 1,
  mb <- a, ferr <- b, frame <- c, t2 <- d, pc <- e, w1 <- f, moved <- g, line <- h, m <- i

Btn == INSTANCE ButtonTrigger WITH Buttons <- {1, 2}, MaxChanges <- 4,
  hw <- a, pc <- b, i <- c, samples <- d, btn <- e, io_term <- f

Options == {[delay |-> 1, jitter |-> 0], [delay |-> 2, jitter |-> 0],
            [delay |-> 1, jitter |-> 1], [delay |-> 0, jitter |-> 1]}
Proxy == INSTANCE UdtProxy WITH Sides <- {"alice", "bob"}, QueueSize <- 2, Incoming <- 2, MaxMs <- 3,
  opt <- a, pool <- b, waiting <- c, ready <- d, sent <- e, count <- f, ms <- g

Fatek == INSTANCE FatekRelay WITH Requests <- 3, Broken <- {2}, Kinds <- {1, 2}, Room <- 5, MaxNoise <- 1,
  inbox <- a, arrived <- b, relay <- c, request <- d, buf <- e, line <- f, plc <- g, wire <- h,
  noise <- i, stop <- j, forwarded <- k, givenUp <- l, answers <- m

Lap == INSTANCE LapTimer WITH W <- 6, Compare <- 3, Display <- 2, MaxNow <- 10,
  now <- a, tmr <- b, gt <- c, pc <- d, rd <- e, cnt <- f, lap <- g

Lock == INSTANCE AccessTerminal WITH present_state <- a, typed <- b

Out == INSTANCE OutputUnit WITH B <- 2, BufLen <- 8, Values <- {1, 3}, Others <- {0},
  MaxFrames <- 2, MaxChanged <- 1, MaxLost <- 1,
  st <- a, frame_ok <- b, buffer <- c, outputs <- d, fifo <- e, m <- f

(* All balanced programs of up to three instructions, and some with loops in loops.     *)
Instructions == {">", "<", "+", "-", "[", "]", ".", ","}
Bf == INSTANCE Brainfuck WITH Cells <- 2, Values <- 3, Inputs <- {0, 1}, program <- a, at <- b
Loops == {<<"+", "[", ">", "+", "[", "-", "]", "<", "-", "]", ".">>,
          <<"+", "[", "[", "-", "]", "+", "]">>,
          <<"+", "+", "[", "-", "[", "-", "]", "+", "+", "]", ".">>,
          <<"+", ">", "+", "[", "<", "+", "[", ">", "-", "]", "+", "<", ".", "]">>}
Programs == {p \in Loops \union UNION {[1..n -> Instructions] : n \in 1..3} : Bf!Balanced(p)}
Cpu == INSTANCE BrainfuckCpu WITH Cells <- 2, Values <- 3, Inputs <- {0, 1}, MaxOut <- 2,
  program <- a, at <- b, pstate <- c, reg <- d, ram <- e, data <- f, code <- g, io <- h, wild <- i

Graph == INSTANCE GraphColouring WITH Sizes <- 1..5, edges <- a, g <- b

(* One car to a lane of a section, however long it is.                              *)
Routes == INSTANCE RouteGenerator
D1 == INSTANCE Speedway WITH PerLane <- [delka \in Nat |-> 1], nobody <- none,
  Traffic <- {[cars |-> {1}, routes |-> Routes!getRoute],
              [cars |-> 1..3, routes |-> {<<226, 210>>, <<216, 210>>, <<226, 216>>}]},
  routes <- a, car <- b, used <- c, queue <- d

Spare == k = none /\ l = none /\ m = none
Kept == UNCHANGED <<k, l, m>>

Init ==
    \/ dev = "tqs" /\ Tqs!Init /\ Spare
    \/ dev = "temp" /\ Temp!Init /\ j = none /\ Spare
    \/ dev = "btn" /\ Btn!Init /\ g = none /\ h = none /\ i = none /\ j = none /\ Spare
    \/ dev = "proxy" /\ Proxy!Init /\ h = none /\ i = none /\ j = none /\ Spare
    \/ dev = "fatek" /\ Fatek!Init
    \/ dev = "lap" /\ Lap!Init /\ h = none /\ i = none /\ j = none /\ Spare
    \/ dev = "lock" /\ Lock!Init /\ c = none /\ d = none /\ e = none /\ f = none /\ g = none
                    /\ h = none /\ i = none /\ j = none /\ Spare
    \/ dev = "out" /\ Out!Init /\ g = none /\ h = none /\ i = none /\ j = none /\ Spare
    \/ dev = "cpu" /\ Cpu!Init /\ j = none /\ Spare
    \/ dev = "graph" /\ Graph!Init /\ c = none /\ d = none /\ e = none /\ f = none /\ g = none
                     /\ h = none /\ i = none /\ j = none /\ Spare
    \/ dev = "road" /\ D1!Init /\ e = none /\ f = none /\ g = none /\ h = none /\ i = none /\ j = none
                    /\ Spare

Next ==
    \/ Is("tqs") /\ Tqs!Next /\ Kept
    \/ Is("temp") /\ Temp!Next /\ Kept /\ UNCHANGED j
    \/ Is("btn") /\ Btn!Next /\ Kept /\ UNCHANGED <<g, h, i, j>>
    \/ Is("proxy") /\ Proxy!Next /\ Kept /\ UNCHANGED <<h, i, j>>
    \/ Is("fatek") /\ Fatek!Next
    \/ Is("lap") /\ Lap!Next /\ Kept /\ UNCHANGED <<h, i, j>>
    \/ Is("lock") /\ Lock!Next /\ Kept /\ UNCHANGED <<c, d, e, f, g, h, i, j>>
    \/ Is("out") /\ Out!Next /\ Kept /\ UNCHANGED <<g, h, i, j>>
    \/ Is("cpu") /\ Cpu!Next /\ Kept /\ UNCHANGED j
    \/ Is("graph") /\ Graph!Next /\ Kept /\ UNCHANGED <<c, d, e, f, g, h, i, j>>
    \/ Is("road") /\ D1!Next /\ Kept /\ UNCHANGED <<e, f, g, h, i, j>>

Main ==
    \/ Is("tqs") /\ Tqs!Main /\ Kept
    \/ Is("temp") /\ Temp!Main /\ Kept /\ UNCHANGED j
    \/ Is("btn") /\ Btn!Main /\ Kept /\ UNCHANGED <<g, h, i, j>>
    \/ Is("proxy") /\ Proxy!Main /\ Kept /\ UNCHANGED <<h, i, j>>
    \/ Is("fatek") /\ Fatek!Relay

Interrupt ==
    \/ Is("tqs") /\ Tqs!Interrupt /\ Kept
    \/ Is("temp") /\ Temp!Interrupt /\ Kept /\ UNCHANGED j

Timer ==
    \/ Is("temp") /\ Temp!Tick1 /\ Kept /\ UNCHANGED j
    \/ Is("proxy") /\ Proxy!SigAlrm /\ Kept /\ UNCHANGED <<h, i, j>>

(* The main loops run, and so do the timers that nothing can hold back; an          *)
(* interrupt is masked and unmasked again and again, and comes in between.           *)
Spec == Init /\ [][Next]_vars /\ WF_vars(Main) /\ WF_vars(Timer) /\ SF_vars(Interrupt)

-----------------------------------------------------------------------------
(* The properties are those of the parts, where they are explained.                   *)

(* tqs, temp: a unit answers a request once, with its own answer, and nothing else.    *)
(* Of tqs, also: what piles up in the frame buffer without a broken frame is one frame *)
(* (modbus.c, frame.c); of temp: a conversion is read when its time is over, but for   *)
(* the first (main.c, isr).                                                             *)
UnitsAreSlaves ==
    /\ dev = "tqs" => Tqs!Slave!Init
    /\ dev = "temp" => Temp!Slave!Init
    /\ [][dev = "tqs" => Tqs!Slave!Next \/ UNCHANGED <<j.req, Tqs!rep>>]_vars
    /\ [][dev = "temp" => Temp!Slave!Next \/ UNCHANGED <<i.req, h>>]_vars
    /\ []((dev = "tqs" => Tqs!RoomUnlessBroken) /\ (dev = "temp" => Temp!ReadsConverted))

(* tqs, temp: a whole request for the unit is answered, unless the main loop of temp    *)
(* was at the thermometer; the receiver of tqs comes on again after an answer, and temp *)
(* goes on measuring whatever comes on the line.                                         *)
UnitsKeepAnswering ==
    /\ (dev = "tqs" /\ Tqs!Asked) ~> (dev = "tqs" => Tqs!rep # none \/ j.broken)
    /\ (dev = "tqs" /\ ~ g) ~> (dev = "tqs" => g)
    /\ (dev = "temp" /\ Temp!Asked /\ ~ Temp!Spoilt) ~> (dev = "temp" => h # none \/ Temp!Spoilt)
    /\ []<>(dev = "temp" => e = "read")

(* btn: there is no event for a contact that bounces, and no change is lost, whenever   *)
(* it came (btntrigger.c, io_wait_for_sample).                                           *)
BtnFollows ==
    /\ [][dev = "btn" => Btn!Debounced]_vars
    /\ <>[](dev = "btn" => Btn!Settled)

(* proxy: if the jitter is at most the delay every packet leaves or is dropped            *)
(* (udtproxy.c, sigalrm_handler).                                                           *)
ProxyDelivers == <>[](dev = "proxy" => Proxy!AllLeave)

(* fatek: the answers go out in order, and they lag behind the requests by no more than  *)
(* the waits given up (main.cc, process).                                                 *)
FatekInOrder == dev = "fatek" => Fatek!TypeOK /\ Fatek!AnswersInOrder /\ Fatek!LagIsGivenUp

(* And of the proxy: without jitter packets keep their order (udtproxy.c, sigalrm_handler). *)
OrderIsKept == FatekInOrder /\ (dev = "proxy" => Proxy!InOrder)

(* fatek: a wait ends, and a signal ends the relay, unless the buffer overran (main.cc,   *)
(* get_response).                                                                          *)
FatekEnds ==
    /\ (dev = "fatek" /\ c = "response") ~> (dev = "fatek" => c # "response" \/ Fatek!Overrun)
    /\ (dev = "fatek" /\ j) ~> (dev = "fatek" => c = "ended" \/ Fatek!Overrun)

(* lap: the time shown is exact though interrupts are lost, and the result is not      *)
(* older than a display's period (main.c, get_time and display_idle).                   *)
LapIsExact == dev = "lap" => Lap!TimeIsExact /\ Lap!StopIsClose

(* lock: access for a code typed key by key, and only for a code (fsm.vhd,              *)
(* next_state_logic).                                                                     *)
LockOpensForCode == dev = "lock" => Lock!GrantedOnlyForCode /\ Lock!CodeIsGranted

(* out: the outputs take only values that were sent, and a whole frame is obeyed     *)
(* after any broken ones (output.c, main and control_frame).                           *)
OutObeys ==
    /\ [](dev = "out" => Out!WholeIsObeyed)
    /\ [][dev = "out" => Out!OnlyWhatWasSent]_vars

(* cpu: it does as the interpreter, instruction by instruction (cpu.vhd).                 *)
CpuDoesAsInterpreter == [][dev = "cpu" => Cpu!DoesAsInterpreter]_vars

(* graph: the colouring found is one, and no two of its colours could be one (graph.c,         *)
(* ial_graph_complete, and matrix.c, ial_matrix_delete).                                          *)
GraphIsColoured == dev = "graph" => Graph!Coloured

(* road: the cars hold the sections they are on, each comes to its exit, and there is always   *)
(* one that can move on (vehicle.cc, drive_to).                                                  *)
CarsArrive == dev = "road" => D1!StoresAreHeld /\ D1!ArrivesWhereItWould /\ D1!SomeoneMoves
==============================================================================
