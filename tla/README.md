# Verification of zcsevcik/edu

The repository holds about thirty independent programs: course projects (FIT
VUT), firmware and small network tools. They share no code and have no common
README, so the project is a set of independent developments, one per program.
The names of directories are kept in Czech.

| program (directory) | modules | run | proved |
|---|---|---|---|
| reliable transfer `spolehlivá komunikace` | `RdtPackets` `RdtClient` `RdtServer` `Rdt` `ReliableTransfer` `RdtProofs` | `rdt_*` | all of its safety, and that it implements `ReliableTransfer` |
| sleeping barber `Operační systémy` | `Barber` `BarberProofs` | `barber`, `barber_ends` | type correctness, semaphore lifetime, log order, refusals |
| scan of a network for vendors `ouisearch` | `OuiQueue` `OuiSearch` `OuiProofs` | `ouisearch` | type correctness, nothing skipped, reports |
| UDP to serial relay `fatek-relay` | `FatekRelay` `FatekProofs` `BenchProofs` | `bench`, `fatek_hang` | order and lag of the answers |
| TQS adapter `pic tqs1-tqs3 conv` | `TqsAdapter` `ModbusSlave` `TqsProofs` `BenchProofs` | `bench` | it implements `ModbusSlave` |
| temperature sensor `teplotní čidlo` | `TempSensor` `ModbusSlave` `TempProofs` `BenchProofs` | `bench` | it implements `ModbusSlave` |
| button trigger `rpi btntrigger` | `ButtonTrigger` `BenchProofs` | `bench` | no event for a bounce |
| unreliable network `udtproxy` | `UdtProxy` `DeviceProofs` `BenchProofs` | `bench` | order without jitter |
| output unit `pic modbus_ascii 8ch out` | `OutputUnit` `DeviceProofs` `BenchProofs` | `bench` | only what was sent, whole frames obeyed |
| lap timer `časomíra` | `LapTimer` `DeviceProofs` `BenchProofs` | `bench` | the time is exact, the result fresh |
| lock `přístupový terminál` | `AccessTerminal` `BenchProofs` | `bench` | access exactly for a code |
| BrainFuck in C++, BrainFuck processor | `Brainfuck` `BrainfuckCpu` `DeviceProofs` `BenchProofs` | `bench` | the processor does as the interpreter |
| checkers `dáma Qt` | `CheckersGame` `CheckersDesk` `CheckersNet` | `machines`, `dama_undo` | |
| IFJ12 interpreter | `IfjScanner` `IfjExpr` `IfjParser` `IfjSemantic` `Ifj12` `IfjPrograms` | `machines` | |
| image filter `Hardware/Software Codesign` | `ImageFilter` `ImageChip` | `machines` | |
| traffic on the motorway D1 | `RouteGenerator` `Speedway` `DeviceProofs` `BenchProofs` | `bench` | stores, arrivals, no standstill |
| graph colouring `obarvení grafu` | `GraphColouring` `DeviceProofs` `BenchProofs` | `bench` | the colouring, of any graph |
| text compression, Czech sorting, matrices `Základy programování` | `TextCompression` `CzechSorting` `MatrixOperations` | `machines` | |

How to run: `tlc -config <run>.cfg <module>.tla` for the runs of section 3,
`tlapm <module>.tla` for the eight modules whose names end with `Proofs`.
`RdtProofs` and `DeviceProofs` take eight to nine minutes each, `BenchProofs`
five, the others one to a few.

`Bench` and `Machines` are not programs. They put the small models side by side:
`dev` says which one a behaviour is of, and its variables are given to the slots
`a` to `m` by `INSTANCE ... WITH`; the parts never interact. `Bench` has the
parts that must keep going and states their fairness and liveness. As nothing it
uses is a RECURSIVE operator it can be proved about, so it also has the output
unit, the lap timer, the lock, the processor, the graphs and the motorway;
`Machines` has the others, which must only do nothing wrong. The properties are defined and
explained in the module of each part, and named `dev = "..." => ...` in the two.

## 1. The programs and their models

For each: what it does, what is hard, how the model's state and actions
correspond to the code, and what is left out. `PROJECT.json` maps each
definition to its lines.

### Reliable transfer

`rdt.c` is a library in which a client sends a byte stream to a server over UDP
by selective repeat; `rdtclient.c` and `rdtserver.c` call it from a `select`
loop with buffers for stdin and stdout. Hard: reordering, loss, copies that
outlive a timer, a full buffer on either side, the end of the stream. Correct
when the server's user gets the client's input in order and whole, and the
client reports success only then.

`RdtPackets` holds the packets and the window test, `RdtClient` and `RdtServer`
one operator per part of a step over a record that is the struct of that side
plus the buffers of the program around it. `Rdt` composes them: the variables
`cli` and `srv`, the two sets of datagrams under way and the number lost.

| action | code |
|---|---|
| `ClientTurn(expired)` | `rdt_client_step`: one acknowledgement, new packets, timers, one packet to send; `expired` is the set of timers found run out |
| `ClientSelect(ready)` | rest of the loop in `rdtclient.c`: `rdt_data_write`, `rdt_client_done`, `select` with result `ready`, fread, send, receive |
| `ServerTurn` | `rdt_server_step`: window test, acknowledgement, insertion, processing in order |
| `ServerSelect(ready)` | rest of the loop in `rdtserver.c`: `rdt_data_read`, fwrite, send, receive |
| `Lose` | the network drops a datagram |

Abstractions. A chunk is the data of one packet (285 bytes) and is named by its
position. The buffers count chunks. A set stands for the server's sorted list,
because a number is never inserted twice; the client's list is a sequence. Times
appear only as the order of sending (`older`), because all timers have the same
length. `Late` names the kinds of packets whose timer may run out while a copy
or an acknowledgement is still under way; for other kinds the round trip is
shorter than 300 ms. The network delays, reorders and loses, and does not
duplicate; nor does `udtproxy`. `sent_times` tells copies apart. RST is never
sent by the code and the server's end-of-file flags are never read; both are
left out. XML and base64 are left out: a packet is the values it carries. One
connection is modelled; a second one on the same server is not.

`ReliableTransfer` is the abstract promise: the receiver holds chunks, its
user is given the input in order and never past a gap, and the sender counts as
delivered only what is held and reports success only for everything. In `Rdt`,
`IsReliable` instantiates it with `held` (server's stream and window), `stream`
(what the server took over for its user), `confirmed` (chunks made into packets
and not waiting for an acknowledgement) and the client's state.

### Sleeping barber

`main.c` forks a barber and N customers that share semaphores and counters. Hard:
posts to customers that were called already, an unprotected counter, the
destruction of semaphores. One variable per semaphore and shared counter; the
barber's, the customers' and the parent's place in `do_barber`, `do_customer`
and `main`. Each system call is a step of its own. `++cust_served` is a load and
a store, as no mutex guards it. `lines` counts the log lines that the order
property speaks of. `MaxCalls` bounds how often the barber calls, as he may call
a customer again who has not left the room yet: at the bound he is held in
`BarberLooks`, but only as long as the room is occupied, so he still ends once it
is empty. The proofs need no bound on it.

### ouisearch

It generates the IPv6 addresses of a network for every OUI of a vendor and pushes
them into a bounded queue; a second thread sends echo requests, rate-limited,
and prints who answers. Hard: a condition variable with a timed wait, the end of
the scan, `SIGINT`. `OuiQueue` is the ring of `ouiqueue.c`. `OuiSearch` has the
main thread (push, wait on the condition with its timeout, end of the scan,
join) and the socket thread, whose turn is cut at the places where the other
thread may act (rate limiter, count-down, poll, pop, signal, clock), plus the
clock, the hosts, stray replies and `SIGINT`. Addresses are numbered in the order
in which the three loops generate them. The limiter's clock saturates one above
the interval, as only "more than the interval" is ever tested. The text database
of OUIs, read before the threads start, is left out.

### fatek-relay

One loop forwards UDP requests to a PLC on a serial line and returns the answer.
Hard: late answers, lost bytes, a full buffer, signals. `FatekRelay` has the loop
of `process()` with the datagrams waiting, the input of the serial port as a
sequence of pieces (STX, data, ETX), the PLC and the line. `Refuse` and `Forward`
are a turn up to the write, `ReadResponse` is one poll and read of
`get_response` and everything that follows it, `TimesOut` its timeout. `Comes`
delivers or loses one piece, so that a read may see any part of a frame and
several frames at once. Parsing is "exactly one whole frame": the 8-bit sum is
taken to detect every damage. The request's kind is its station and command. A
hang-up of the device and the options of the line are left out.

### The two Modbus RTU units

`ModbusSlave` is what a unit promises its master: it speaks only when asked,
once, with the answer to the last request, and never to one that is not for it
or reached it broken. Both units are shown to implement it (`Slave ==
INSTANCE ModbusSlave WITH ...`), with a master that may lose a character or
pause within a frame.

`TqsAdapter` (`main.c` and `modbus.c` of `pic tqs1-tqs3 conv`): the interrupt
routine stores characters, sends the rest of an answer and runs the line's timer,
telling the main loop by flags. `modbus_process` tests the flags one by one, so
every test and every clearing is a step: the interrupt comes between a test and
what follows it. Actions starting with `S` are the states of the line's machine,
those with `A` the states of the frame's. A frame has a right CRC when the buffer
holds the characters of one request from first to last. A broken frame
is never taken out of the buffer (modbus.c 288) and the unit does not answer any
more; hence the `broken` in its liveness properties.

`TempSensor` (`main.c` of `teplotní čidlo`): here the interrupt runs the line's
machine itself (`Receive`, `ReceiveBad`, `Tick2`) and the main loop busy-waits
for its states, between frames going to the 1-Wire thermometer (`Detected` to
`Switch`). While it is there a frame may pass unseen (`missed`). The bits on the
1-Wire bus, the registers and the CRC of the thermometer, which is read and not
compared (main.c 353), are left out.

### Button trigger

`btntrigger.c` waits for the inputs of a PiFace board until three readings in a
row agree and runs a command for every button that went down or up. In
`ButtonTrigger` the contacts bounce while the loop is anywhere; the actions are
the returns of the wait (an interrupt, a timeout, a failure), each with the
reading that follows it, the event and the signal. The child processes are left out.

### Network proxy

`udtproxy.c` delays and drops datagrams: the main loop puts them into two pools
of slots while an alarm of every millisecond counts the slots down and sends
them. In `UdtProxy` the main loop's steps have the alarm blocked, as in the code,
and `SigAlrm` is the whole handler. Flipping bits and statistics are left out.

### Output unit

`output.c` polls its receiver, runs an automaton over the characters of a Modbus
ASCII frame and controls LRC and command of a whole one. In `OutputUnit` the
receiver holds two characters and a third, while the frame is controlled, is an
overrun; characters may be lost or changed. Digits have base `B`, 16 in the code
and 2 on the bench. The address, the function and the place, length and count of
the outputs, which all must be what they are, are one byte, the command. The lamps and the parity tables are left out.

### Lap timer

`main.c` of `časomíra` adds a 16-bit hardware counter up to a 32-bit
`global_time` in an interrupt and reads it in the main loop. In `LapTimer` the
hardware, the interrupt and each of the main loop's accesses (masking, the write
that restores the mask, the two halves of the result) are steps; the counter has
`W` values. `TimeIsExact` excepts what the code does not prevent: an
interrupt that carries into the high half between the two reads.

### Lock and processors

`AccessTerminal` is `fsm.vhd`: the set of keys down in a clock, the two codes as
a path through one machine. `Brainfuck` is the interpreter of `main.cpp`, and is
also what the processor of `cpu.vhd` is to do: `BrainfuckCpu` is that machine
clock by clock with its two memories, and `DoesAsInterpreter` says that a finished
instruction is a step of `Brainfuck` - but for what the processor does otherwise,
which `wild` records: it does not skip a loop entered on a zero (cpu.vhd 378). The
template meta-program in the C++ sources is left out.

### Checkers

`CheckersGame` has the rules of `Game.cpp`, `GameCmd.cpp` and
`CheckerBoardGen.h` as operators on a game record: the generation of turns with
forced and repeated captures, the making and undoing of turns by commands, the
loading of a record. `CheckersDesk` has the sessions on one computer: a local
game, a game against the random player and a replay with and without its slider.
`CheckersNet` has a game over TCP: connecting to several addresses, synchronously
or not, the challenge with a saved game, turns made before their acknowledgement,
refusals, the dialogue on the screen while messages go on being read, errors, and
a player who leaves (`Quit`: `!quit` at a prompt, or the end of the program with
the windows). Leaving closes the socket (`CloseSocket`), so the other player reads
the end of the connection after what was sent; a close with input unread is a
reset and may lose what has not gone out. A message is the record it stands for,
but a header may come in two parts. Chat and surrender have no sender in the
program and are left out.

### IFJ12 interpreter

`IfjScanner` is the automaton of `scanner.c`, a character a step. `IfjExpr` is
the precedence parser of `expr.c` (to a postfix form and backwards to a tree),
`IfjParser` the recursive descent of `parser.c`, `IfjSemantic` the interpreter of
statements and expressions with the functions of `ial.c` and `str.c`, `Ifj12` the
program. `IfjPrograms` is the reference: expressions written from a tree, and
programs of which it is known what they print and with which code they end. Of
single operations it has a meaning of its own (`Means`, `Apply`), by which every
operator is tried on operands of every type, and functions are called with fewer
and with more arguments than they have parameters; with more the call never ends,
as in the code (`Bind`, semantic.c 809). Numbers are whole, or the NaN that
0.0/0.0 gives; undefined behaviour (calling `_main`, an input without an end of
line, NaN as a count or an index) and running out of memory are left out.

### Image filter

Three programs that do the same: one for a PC (`cpu.c`), a circuit with a
microcontroller, and the microcontroller alone (`main_sw.c`). `ImageFilter` has
the pipeline of pixels, windows, median and histogram; `ImageChip` the circuit
(`Pixel`, a call of its function), the microcontroller (`McuPoll` to
`McuReport`), the memory they share and, next to them, `cpu.c` on the same
pixels. `NoPixel` are calls without one. The circuit never waits: it writes the
next histogram whatever the microcontroller is doing, also over the one that is
being read, and each read of a word, write of a flag and call of the circuit is a
step of its own. `lag` is history that the properties speak of and no step reads:
whether an exchange was ever late, and how many in a row the microcontroller has
waited for. The one bound is `MaxLapses`, how often in a run an exchange may begin
while the microcontroller is busy; it limits the runs explored and is not in the
code. The video buffer, whose timing is the display's, is left out.

### Motorway D1

`RouteGenerator` has the sections of both directions and the routes a car may
draw; a random choice is the set of what may be chosen. `Speedway` has the cars,
which hold their section until they have the next one and queue for a full one.
How long a section takes, accidents and the number of cars an hour are left open.
`Leave` and `Join` are a car that gives a section's store back, which lets in the
first that waits, and one that comes to a full store; `PerLane` gives for the
length of a section how many cars a lane of it takes, 250 to the kilometre in the
code.

### Graph colouring, text compression, Czech sorting, matrices

Pure algorithms, against a reference. `GraphColouring`: two vertices that are not
neighbours become one, in the triangular matrix of `matrix.c`, a join a step; the
reference is the definition of a colouring. `TextCompression`: `compress` with its
two circular buffers, and `decompress` of what it wrote, a character a step; the
reference is the text itself. `CzechSorting`: options, columns, tables of
letters for three code pages, the comparison, sort and usort of `proj4.c`; the
reference is what it means to be ordered by a total preorder. `MatrixOperations`
(`proj3*.c`): options, loading of files, sums and products, the search for a word
in eight directions and the count of connected zeros, whose recursion is a stack;
any `calloc` may fail, so that the clean-up of every path counts. The reference is
the definition of a product, of a word's line and of a component. A file is the
numbers that can be read from it.

## 2. How the programs become small enough

Everything in the programs that decides what happens next is kept: conditions,
early returns, error paths and their order. Data is what the properties tell
apart: a chunk or an address is its number, a character on a Modbus line its
request and its place in it, a random draw a set to choose from, a time the
order of two events. Where a width matters it is a constant (`SeqSpace` of `Rdt`,
`W` of `LapTimer`, `Values` of `Brainfuck`, `PosMod` and `IntMod` of
`ImageFilter`) and arithmetic is modulo that. Every counter that would grow
without end has a named bound (`Max...`).

Three models are related to an abstract one or to another program:

- `Rdt` implements `ReliableTransfer` (`IsReliable`, a refinement mapping);
- `TqsAdapter` and `TempSensor` implement `ModbusSlave` (`UnitsAreSlaves`);
- `BrainfuckCpu` implements `Brainfuck` up to known exceptions
  (`CpuDoesAsInterpreter`), and the circuit of `ImageChip` shows what `cpu.c`
  shows (`FilterAsProgram`).

Section 4 proves it of all but the image filter.

## 3. The runs

| run | question | bounds, and why they are enough |
|---|---|---|
| `rdt_timely` | With round trips below the resend interval: what the client takes for delivered the server holds; success means the whole input has arrived; the FIN comes last; a node is free for every insertion; a packet leaves the client's window only when accepted | 5 chunks with a window of 2 slide the window past several times; server buffers of one chunk keep packets in the window; one loss and one resend each |
| `rdt_late` | Data packets later than the timer: the pair still implements `ReliableTransfer`, and the packet the server waits for always exists somewhere | 2 chunks and one resend give two copies of each in any order |
| `rdt_progress` | Under fair loops the client ends, succeeds if it may resend more often than datagrams are lost, and its input comes out of the server | 4 chunks, 1 loss, 2 resends: a packet the server refuses uses up a try as well, so one resend would not do; the server's buffer holds all chunks |
| `rdt_stale_syn` | finding: a late SYN copy | 2 chunks, late SYN and DATA |
| `rdt_stuck_tail` | finding: a full buffer at the end | 3 chunks, buffers of 1 |
| `barber` | Semaphores outlive their users, the log is in order, refusal only when the room is full, every customer ends | 3 customers and 2 seats: waiting, refusal and two lost updates occur; 4 calls allow more calls than customers |
| `barber_ends` | finding: the barber may wait for ever | 2 customers suffice for a lost update |
| `ouisearch` | Addresses are probed in order without gap or repetition, reports are of hosts that answered, both threads end | 5 addresses through 3 slots wrap the ring and make the pusher wait |
| `bench` | What must go on: the two Modbus units, the buttons, the proxy, the relay; and what the output unit, the lap timer, the lock, the processor, the graphs and the cars may never do | below |
| `fatek_hang` | finding: the full buffer | as the relay in `bench` |
| `machines` | What must never go wrong: checkers, the interpreter, the image filter, text and matrices | below |
| `dama_undo` | finding: a turn lost by a replay | as checkers at one desk in `machines` |

`bench` asks of each part, and with these bounds:

- *adapter*: it is a `ModbusSlave`, and while no frame was broken its buffer
  holds no more than one; a whole request is answered while no frame was broken;
  the receiver comes on again after an answer. Requests of 2 characters, answers
  of 3, 3 requests and one fault: a fault in the first leaves two to show what
  follows. Shorter frames would not have a first, an inner and a last character
  in an answer.
- *temperature sensor*: it is a `ModbusSlave`; a conversion is not read too
  early, but for the first; a whole request is answered unless the main loop was
  at the thermometer; it goes on measuring. Requests of up to 2 characters, 2 of
  them, one fault, one failed detection; a conversion takes 3 ticks as in the
  code, and is repeated every 4, so that one falls into a frame.
- *buttons*: no event for a bounce, and no change is lost. 2 buttons and 4
  changes: a change may come in each reading and during the event.
- *proxy*: without jitter order is kept; with a jitter up to the delay every
  packet is sent or dropped. 2 slots a side and 2 packets in each direction fill
  a pool; the delays and jitters tried include a jitter above the delay. Order is
  proved for all sizes and delays.
- *relay*: answers go out in order, once, to requests of their kind, and lag by
  no more than the waits given up; a wait and the program end unless the buffer
  overran. 3 datagrams, one broken: an answer may be left over for the next
  request, and a buffer of 5 pieces is overrun by two frames; 2 kinds, one lost
  piece. `fatek_hang` has 4 datagrams and 7 pieces. Order and lag are proved for
  all sizes.
- *output unit*: only values that were sent are put out, and a whole frame is
  obeyed whatever came before. 2 frames, one character changed and one lost,
  which joins the first frame to the second. Proved for any frames and losses
  with one changed character; with two it does not hold, as two may make up for
  each other in the LRC.
- *lap timer*: the time is exact to the tick unless torn, and the result no
  older than one display. A counter of 6 values, of which it turns in 10 ticks
  with interrupts every 3 and displays every 2, so that it turns between the
  start and the stop. Proved for all sizes.
- *cars*: stores count their cars, a car goes the kilometres of its route, and
  one can always move. One car over every route there is, and 3 cars on the three
  routes of one stretch with one place to a lane, so that sections fill up.
  Proved for any cars.
- *lock*: access after a code typed key by key, and only after presses that
  spell one. The codes of the source, one or two keys a press: the whole machine.
- *processor*: each instruction does what the interpreter does. All balanced
  programs of up to three instructions and some with loops in loops. Proved for
  any balanced program and memory.
- *graph*: all graphs of one to five vertices are coloured, and no two colours
  could be one. Minimality is not claimed and does not hold, as the joining is
  greedy. Proved for any graph.

`machines` asks of each part, and with these bounds:

- *checkers at one desk*: a saved game is loaded as it was; the random player
  always has a turn that is accepted; nobody stands uncrowned on the king's row;
  a replay keeps the record up to what `undoMove` loses. The board of 8, the
  repository's example `7.ictf` whole and cut after 0, 20 and 25 turns; after the
  first cut comes a capture of three stones, and the whole game has ended. Two
  more turns, six turns back.
- *checkers over the network*: boards agree whenever nothing is on its way, it is
  never the turn of both, a refused turn taken back was the player's own, and a
  session fails only because the other player left, the challenge was refused,
  somebody moved before it was answered, or the guest's socket is non-blocking
  (section 5). Challenges with games of 0 to 2 turns; five turns tried, legal and
  not; either player may leave at any prompt.
- *interpreter*: expressions are parsed to the tree they were written from, each
  operator within each on the left and on the right (no calls on the right,
  section 5); programs print and end as they should: factorials, greatest common
  divisors, strings, wrong ones, each operator on operands of all types, and calls
  with 0 to 3 arguments of functions with 1 or 2 parameters.
- *image filter*: the pixel is the median of nine; the circuit shows what the PC
  program shows until an exchange is late; once the microcontroller has waited for
  three exchanges in a row no threshold is older than two periods, whatever went
  before (two are not enough: an answer may be lost while an older one is taken);
  what it prints in an exchange it has waited for, and what it prints alone, the
  PC program prints. Pictures of 3 by 3 have edges and an inside; 17 frames are
  five exchanges, so a lapse at the second, in which a histogram is overwritten
  while it is read or lost altogether, is followed by three that are waited for;
  `MaxLapses` is 1.
- *text* (with *matrices* in `CourseworkIsRight`): what was compressed comes back.
  All texts over two letters up to 8 characters with blocks of 1 to 3 (a block is
  repeated past `RepeatMax`), and up to 4 with line ends and digits.
- *matrices*: what is printed is the sum, the scalar product (which is compared
  with the product of a row and a column), the product, the word found or the
  number of components; every block is freed on every path. Vectors and matrices
  up to 3 by 3, with files that are cut short or missing and dimensions that do
  not fit, and any one allocation failing.
- *sorting*: the words asked for come out, each as often as it should, in the
  order of a comparison that is a total preorder and the same in every code page
  but for two letters. 9 words that differ in case, in accents and in "ch"; one
  has a letter that the first tables lack and two compare a letter that the second
  table of win1250 lacks with one it has, so that bytes meet values.

Every property of a passing run has a mutant, a plausible bug in one definition
of the model, under which TLC finds it violated; they are the definitions
commented "Mutant of" and are listed in `PROJECT.json`.

`rdt_progress` and `rdt_timely` have no late packets; with late ones the safety
claims of `rdt_timely` other than those implied by `IsReliable` were not run,
as the state space exceeds the time set for a run.

Runs have `CHECK_DEADLOCK FALSE` where the program really stops: the barber's
processes and the scan end, the relay ends on a signal, and in `bench` and
`machines` requests, presses or input run out.

### Fairness

- `Rdt`: both loops keep turning. `select` is given a timeout that the first
  wait uses up (Linux updates it), so no later one blocks. Whenever a loop is at
  a place again and again, then again and again `select` finds all that is ready
  at once, and a step finds run out all timers that may have. Written as
  `[]<>guard => []<><<A>>_vars`, the guard being when `A` is enabled, i.e. strong
  fairness of `A`; TLC is slow to evaluate ENABLED of a whole step.
  `FairSpecSmall`, for `rdt_stuck_tail`, writes the server's step as `WF_vars`,
  which is the same, as that step stays enabled until it is taken. `Lose` has none.
- `Barber`: weak fairness of each process, i.e. of the scheduler. Waiting on a
  semaphore needs no more: the last waiter competes with nobody for the token he
  needs, and a token posted stays until it is taken.
- `OuiSearch`: weak fairness of both threads and the clock; strong fairness of
  the socket being writable. None of replies, of the signal or of the condition
  being signalled in time.
- `FatekRelay`: weak fairness of the relay's loop. None of clients, PLC or line.
- `Bench`: weak fairness of the main loop of each part (a processor executes its
  program; for the relay as above) and of the timers nothing can hold back (the
  sensor's timer 1 and the proxy's alarm, which stays pending while it is
  blocked); strong fairness of the interrupts of the Modbus units, which are
  masked and unmasked again and again and come in between. None of the master,
  the contacts, signals, faults or arriving packets. As only one part runs in a
  behaviour, the fairness of the disjunction is that of the part.
- `Machines`: none; only safety is claimed.

## 4. What is proved

The theorems hold for every value of the constants that satisfies the named
assumptions of the modules. Where the code itself needs more to be right, the
theorem has it as a named hypothesis and the reason is given here.

### Reliable transfer: `RdtProofs`

- `TypeCorrect`: `Spec => []TypeOK`. The argument needs more than types: the
  client invariant `ClientOK` ties the free list to the window and says that
  chunks on their way (`stdin`, `nbuf`, `datalen`, `packed`) add up to the
  input, so that no packet carries a chunk that does not exist; `ServerOK`
  bounds what processing can put in the buffer.
- `FinAfterInput`: `Spec => []FinIsLast`. `rdt_client_done` may be called while
  the loop's buffer is full, so `eof_send` does not mean that all is packed. The
  invariant `FinInv` says that stdin is empty at its end, and that whenever a step
  begins after the end was asked for, either the loop's buffer is empty or
  `rdt->data` holds data, which the step makes into packets before any FIN.
- `AckedIsHeldAlways`, `DoneIsCompleteAlways`, `FreeNodeLeftAlways`,
  `ExpectedIsAvailableAlways`, `ReleaseIsSafeAlways`: the safety claims of the
  runs, under `NumbersSuffice`.
- `InOrderAlways`, `ReliableAlways`: the user gets a prefix of the input, and the
  two programs with the network implement `ReliableTransfer`, under
  `NumbersSuffice` and `~ShortWrites`.

`NumbersSuffice` has three parts. Copies of the SYN do not outlive its timer:
`rdt_stale_syn` shows what happens otherwise. The packets' numbers do not come
round to 0: the code tests `seqnum + 1 == ack` in `int` and compares numbers as
plain integers, so it is wrong where they do. There are more than three windows
of numbers (in the code 65536 and a window of 5): otherwise the server takes a
packet from ahead for an old one, acknowledges and drops it. Late copies of
data and of the FIN, any loss and any reordering are allowed. `~ShortWrites`
excludes the wrong end of the buffer kept by rdtserver.c 226.

The invariant is `DeliveryInv` with the types and `FinInv`. `ClientShape`: the
window is a run of consecutively numbered packets, each with the chunk of its
place, that ends at `nextseqnum`, and window and advertised free space together
never exceed `WindowSize + 1`. `ServerShape`: the packets in the server's window
lie within `WindowSize` of the one expected and the stream is the input up to
it. Between the two: every packet under way was made by the client and has its
place's number; every acknowledgement under way, waiting to be sent or on the
stack is for a packet the server has taken; so all that the client counts as
delivered is taken. Until the SYN is acknowledged nothing else exists. It needs
what goes on at both ends because the window test is by number only: that a packet
"behind" the window really was taken rests on the client's window being at most
one ahead of what the server acknowledged. The last lemmas map each step: the
arrival of a chunk or the SYN, with all that becomes processable in order; one
confirmation; the end or the failure.

### Sleeping barber: `BarberProofs`, for any number of customers and seats

- `TypeCorrect`: semaphores and counters stay in range.
- `DestroyedUnusedAlways`: no customer is left when `main` destroys the
  semaphores. This rests on `CountIsLow`: lost updates can only make
  `cust_served` too low, never too high, so a barber who leaves has seen every
  customer past the last semaphore.
- `LogOrderAlways`: never more customers ready or served than the barber's lines
  allow. The invariant counts tokens: each post of a semaphore is in the
  semaphore or was consumed by a customer (`TokensAccounted`), and each seat is
  free or taken by somebody (`SeatsAccounted`).
- `RefusedOnlyWhenFullAlways`: a customer is turned away only while all seats are
  taken, an action property from the same account of the seats.

### ouisearch: `OuiProofs`, for a queue of any length, any addresses and any hosts

- `TypeCorrect`, `NothingSkippedAlways`, `FoundAnsweredAlways`: the ring stays
  one; the addresses probed and those in the ring are the addresses generated so
  far, in order; only a host that was probed and answers is reported. The
  back pointer and the size describe the contents twice, so the invariant needs
  that they agree (`Ring`), besides where each thread is when (`Places`) and that
  a reply of ours is of a probed host (`RepliesAnswer`).

### fatek-relay: `FatekProofs`, for any number of requests, kinds, buffer and losses

- `AnswersInOrderAlways`, `LagIsGivenUpAlways`. The relay never flushes its input,
  so what bounds the lag is the order of everything under way. `OrderInv` gives
  each piece from the buffer through the port and the wire to the PLC a place
  (`Key`) and says that the places rise; the relay reads several frames at once,
  or part of one, but takes an answer only if what it read is one frame, so a
  frame taken is older than all that remains. `LagInv` counts: every wait that
  ended with a frame (`Done`) took one away from an older request. The hypothesis
  `Bounds` says that the numbers are numbers and that the buffer is not empty.

### The Modbus units: `TqsProofs` and `TempProofs`

- `AdapterIsSlave`: the adapter implements `ModbusSlave` and its buffer holds no
  more than one frame unless one was broken, for any length of frames from 2 and
  of answers, and any number of frames and faults. In `Inv`, `Timing` and `Places`
  say which flags, states of the timer and of the two machines exclude each other,
  as the interrupt may come between any test of a flag and its clearing;
  `Hearing` says what is known of the buffer (its last character is of the last
  request, and a frame that passed the control is it, whole), `Answering`
  accounts for the characters of the answer in buffer, transmitter and line, and
  `Tidy` is what is true while no frame was broken. A frame of one character
  would not do: the flag of a character may be lost at a clearing
  (modbus.c 188), and the unit must still hear that a frame began.
- `SensorIsSlave`: likewise for the sensor, and a conversion but the first is read
  only when its time is over. `Heard`, `InStep` and `Speaking` relate the place of
  the main loop to the state that the interrupt keeps; `Ageing` compares the count
  of ticks with the age of the conversion, which differ by failed detections.

The hypothesis `Sizes` of both says that the sizes are numbers and that `none`,
which stands for nothing, is not one of the requests or answers.

### Lap timer: `DeviceProofs`, for any counter, interval and period of the display

- `LapTimeAlways`: the time shown is exact to the tick unless torn, and the result
  is not older than a display's period. The main loop restores the mask by a write
  that throws a pending interrupt away, and after that the interrupt is silent for
  a turn of the counter, so nothing can be built on it. What keeps the time is
  the display, which reads it and thereby updates `global_time`. Hence the
  hypothesis `LapSizes`: the counter does not turn from one display to the next.
  In the code a display comes after 500 ms and the counter takes 2 s.
- In `LapInv`, `Age` is what `global_time_update` takes for the time since the
  last update, and `Behind` by how much `global_time` lags behind the clock apart
  from that; `Fresh` bounds `Age` below a turn wherever the main loop is, as long
  as the stopwatch runs or the time is being read. Then an update leaves `Behind`
  as it is, so the difference of two readings is that of the clock (`Reads`,
  `Exact`).

### Motorway: `DeviceProofs`, for any finite number of cars and any routes

- `CarsArriveAlways`: a section's store counts the cars on it and takes no more
  than it has room for; a car that is out has gone the kilometres of its route;
  and as long as a car is on the road one of them can move. The hypothesis
  `RoadSizes` asks that every section takes a car; `CodeSizes` shows it of the 250
  cars to a kilometre and lane of `model_impl.h`.
- The sections are those of the code. `Sections` proves of the two tables that
  each section goes forth and begins where the one before it ends, on which the
  kilometres rest. In `RoadInv`, `StoreOK` says that the queue lists those that
  wait, each once, and that nobody waits where there is room; `CarOK` that a car
  is on its way at the place its kilometres say. That one can move is an
  argument by the farthest section: if all waited, the cars on the section that is
  farthest of those waited for would wait for the one after it.

### Network proxy: `DeviceProofs`, for any pool, packets and delays

- `InOrderAlways`: without jitter the packets of a side leave in the order in which
  they came, up to those of one millisecond, which go out slot by slot. The slots
  of the pool are reused in any order, so nothing follows from where a packet is.
  `InStep` ties a slot's count-down to the clock of the alarm: who came later
  leaves later, who came before this millisecond has been counted down, and what
  was sent came no later than what still waits. So packets due in one alarm
  came in one millisecond, and the slots taken in turn (`CanBeOrdered`) do no harm.

### Processor: `DeviceProofs`, for any balanced program, memory and inputs

- `DoesAsInterpreterAlways`: at every finished instruction what `cpu.vhd` did clock
  by clock is one step of `Brainfuck`, until it enters a loop on a zero or writes
  out a cell it had not read (`wild`). `Abreast` says for each state of the
  machine what it has of the interpreter's state `at` already and what not yet:
  the address that leads, the value on the way from the memory, the count of
  brackets. The hypothesis `CpuSizes` asks for programs with balanced brackets
  and at least one cell. The interpreter jumps to the matching bracket as a set of
  positions picks it; the processor walks back and counts. That both find the same
  place is an argument on the depth of nesting (`GoesBack`): the walk's
  count is the depth above the loop's, and falls to zero at its opening first.

### Graph colouring: `DeviceProofs`, for any number of vertices and any edges

- `GraphColouredAlways`: every vertex gets one colour, neighbours get two, no two
  colours could be one, and the deletion whose count of moves goes below zero
  (matrix.c 254) is met only by a graph without an edge.
- The graph is kept as the upper triangle of a matrix, row after row in one array,
  and a deletion closes up a row and a column by as many moves. `AtIs`, `AtOrder`
  and `AtOnce` say where a pair of vertices lies and that no two lie in one place;
  `JoinIs` and `DeleteIs` what joining two rows and removing one do to every
  entry. The invariant `GraphInv` says that the matrix shows which lists of
  vertices touch, that every vertex is in one list, once, that no edge is within
  a list, and (`Singles`) that behind the list being filled there are only single
  vertices. The last is what the joining rests on: `vertex_join` loses what the
  second list has after its first vertex.

### Output unit: `DeviceProofs`, for any base, frames, losses and overruns

- `ObeysAlways`: the outputs take only a value that the master sent in the last frame
  or the one before, and a frame that comes whole is obeyed whatever came before
  it. The hypothesis `OutSizes` lets one character in all arrive as another: a sum
  is all the LRC is.
- `LrcTells` is why one cannot do harm: sums of two frames that differ in one digit
  differ by less than a byte holds, so not both are zero. `OutInv` says for which
  frame the characters on the line are and what a buffer can be that may still
  pass (`Reception`): the beginning of that frame up to one changed character
  (`Begun`), or the end of a frame too short to pass (`Short`, `Restarted`: a
  colon was lost, or came in the place of another character). So whatever passes
  at the end of a frame is that frame. While it is controlled the next may begin,
  and the receiver may hold its colon: `Controls` and `Receives` say how far that
  can go. `Intact` follows the frame that comes as it was sent.

### In the bench: `BenchProofs`

The bench gives the parts their slots and sizes; the general proofs are taken
over by `INSTANCE` and a behaviour of the bench is one of the part whose turn it is.

- `UnitsAreSlavesAlways`: the property of the run as it is written there.
  `NoneIsNew` is `Sizes` for the bench's `none`.
- `OrderIsKeptAlways`: the relay answers in order and lags no more than it gave
  up (`FatekInOrderAlways`), and the proxy keeps the order (`ProxyKeepsOrder`).
- `LapIsExactAlways`, `CarsOfTheBenchArrive`, `ProcessorDoesAsInterpreter`,
  `GraphIsColouredAlways`, `OutObeysAlways`: likewise for the lap timer, the cars,
  the processor, the graphs and the output unit. `NoneIsNoPlace` says that the bench's `none` is not a section, and
  `RoutesAreWays` that the routes of `route_generator.cc` are pairs of kilometres.
- `LockOpensForCodeAlways`: the lock, whose codes and states are those of
  `fsm.vhd`, grants to whoever types a code key by key, and only after presses
  that spell one. `Spells` says for every state which presses led to it.
- `DebouncedAlways`: no event without two timeouts in which the inputs kept their
  new state, the safety half of `BtnFollows`. `ButtonInv` ties the readings and
  their number to how long the inputs have been quiet.

### What is only model-checked, and why

- Liveness everywhere (`UnitsKeepAnswering`, `ProxyDelivers`, `FatekEnds`,
  `EveryoneLeaves`, what `BtnFollows` says of lost changes, the ends of `ouisearch`
  and of the transfer): fairness and ENABLED are beyond the prover.
- The properties of `Machines`: it reaches modules with RECURSIVE operators
  (`CheckersGame`, `IfjExpr`, `IfjParser`, `IfjPrograms`, `IfjSemantic`), for which
  the prover has no SMT backend. What the folds and recursive functions of the
  others (sorting, compression, products of matrices) compute is an
  induction over data, for which the library's theorems cannot be instantiated.
  Where `DeviceProofs` needs one it is done for its one predicate, as "the set of
  numbers where it fails has no least element" (`Least`); those of `Machines`
  were not done so.
- Numbers that come round and a late SYN in `Rdt`, where the properties do not
  hold (section 5).

## 5. Disagreements between code and text

Kept as runs, each with its source lines in `PROJECT.json`:

1. `rdt_stale_syn`: every SYN sets `nextseqnum` (rdt.c 813); a late copy makes
   the server deliver data twice and then wait for packets the client dropped.
2. `rdt_stuck_tail`: packets that did not fit in `rdt->data` stay in the window,
   acknowledged, and are processed only when another packet comes (rdt.c 935).
   After the FIN none does.
3. `barber_ends`: `++cust_served` without a mutex (main.c 276) may lose an
   update; the barber then never leaves and `main` waits for ever.
4. `fatek_hang`: a full buffer that does not end with ETX makes `get_response`
   (main.cc 233) spin, and a signal does not end it.
5. `dama_undo`: `undoMove` leaves the end of the game set (Game.cpp 590), so a
   replay that goes back from the end and forward again loses the last turn.

Seen while modelling, and where a model has them its properties except them by
name:

- *RDT*: the acknowledgement of packet 65535 never matches (rdt.c 540) and
  numbers are compared as plain integers when they wrap (862); the advertised
  window is too large after a run of packets (953); after a short fwrite the
  wrong end of the buffer is kept (rdtserver.c 226; `ShortWrites` of the model).
- *Barber*: the barber calls into an empty chair (main.c 214, 232).
- *ouisearch*: packets leave in pairs, as `dt` is computed from the time of the
  packet before (ouinetwork.c 324); addresses queued when the scan is done are
  not probed (249, 544); the last address of each OUI is left out (382); the wait
  at the end counts turns and not seconds (258); a process id above 65535 never
  matches a reply (295).
- *Adapter*: a broken frame stays in the buffer and the unit is deaf from then on
  (modbus.c 288). *Sensor*: the first conversion may be read early (main.c 91).
- *Proxy*: with more jitter than delay a timeout may be negative and the slot is
  lost (udtproxy.c 120).
- *Lap timer*: the result may be torn (main.c 49).
- *Processor*: a loop entered on a zero is not skipped (cpu.vhd 378), and a cell
  is written out as it was last read.
- *Checkers*: a dama that comes back to its king's row is a stone after undo; the
  number of an acknowledgement is not compared (Game_net.cpp 152); an
  asynchronous connect leaves the socket non-blocking and a header in two parts
  ends the session (692); the host may move before it was challenged.
- *IFJ12*: in `a + f(b)` the `a` is taken for the function (expr.c 623), arguments
  after the first must be plain operands, and nested lists stay reversed; a
  `return` within a branch or loop does not leave the function (semantic.c 876);
  a loop is tested before its body and run once more; `x = x + 1.0` with a new x
  is a type error rather than an undefined variable (927); `**/` does not close a
  comment; an `if` accepts any keyword for its end; 0.0/0.0 is no error, and the
  NaN is equal to every number; a call with more arguments than parameters never
  ends (809); a minus behind `nil` is read as a sign, so `nil - 1.0` is a syntax
  error (expr.c 441); a program without a final line end is refused.
- *Image filter*: a late answer is kept with its flag and taken for the next
  histogram's, and from then on the circuit may stay one behind (filter.cpp 323);
  a histogram may be overwritten while it is read (main_swhw.c 155); `main_sw.c` counts only each hundredth frame and
  so never applies its threshold.
- *D1*: some exits, such as 1, 298, 366 and 372, have no section, so their cars
  find no way; some branches of the route generator are never drawn.
- *Graph colouring*: a graph without an edge makes the count of places to move
  wrap around (matrix.c 254), and the program crashes.
- *Text compression*: a repeated block with a line end in it is compressed and
  then refused by `decompress` (proj1.c 163).
- *Czech sorting*: the second table of win1250 has ť and Ť at their codes of
  ISO 8859-2 (proj4.c 139); in cp852 č is before Č; `--after COL` as the last
  option takes the file names for its operands.

## 6. What no property covers, and why

Hazards that the models have and that are known to go wrong, so that the property
next to them excepts them by name and does not cover them: the broken frame of the
adapter (modbus.c 288) and the early first conversion of the sensor (main.c 91),
the torn read of the lap timer (main.c 49), the loop entered on a zero (cpu.vhd
378), more jitter than delay (udtproxy.c 120), the non-blocking socket (Game_net.cpp
692), the call as a right operand (expr.c 623) and the variable defined too early
(semantic.c 927), the graph without an edge (matrix.c 254), sequence numbers that
wrap (rdt.c 862). Nothing in the repository says what should happen there, so they
are no findings either.

Lines that may go wrong and that the models leave out:

- a failed `fork` goes to the clean-up while customers use the semaphores
  (barber, main.c 348), a hang-up of the relay's device (main.cc 233): paths after
  a failed system call are not modelled;
- the second session on an RDT server (rdt.c 814): one connection is modelled;
  the ring of bytes of `rdt->data` (1025): it is counted in chunks;
- bits flipped by the proxy inside a number (udtproxy.c 172), the CRC of the
  1-Wire thermometer (main.c 353): contents are abstracted;
- the lap timer stopped before its first display (main.c 107) and its result in
  microseconds beyond 35 minutes (149): formatting is abstracted;
- a signal outside the button trigger's wait (btntrigger.c 239) and children
  reaped only at the next event (70): processes are left out;
- a circle of captures without an end (Game.cpp 433): turns are bounded by
  `MaxHops`; a saved game longer than a message (Game_net.cpp 258) and listening
  without a socket (359): sizes and failed set-up are abstracted.

Components that are not modelled:

- *RDT base64, logging, sockets*: vendored code, output, wrappers of system
  calls. `win32/getopt.c` is vendored as well.
- *Assembly exercises, C course exercises, image processing and Julia set*:
  input, one computation, output; the results are numbers or pictures.
- *Rasteriser, LED driver*: arithmetic on pixels; a counter that shifts rows.
- *Iterated series* of the programming course: floating point in single loops.
- *CSV, highlighting and publication scripts*: text conversion by expressions.
- *Hosting, driver registry, restaurant*: forms over databases and SQL. In the
  restaurant two visitors who see the same table free may both reserve it, as
  rezervace.php checks in one request and inserts in a later one; nothing in the
  program guards this, so there is no property of it to check.
- *Template meta-program* of BrainFuck in C++: it runs in the compiler.
- *distribuce tisku* and *videopůjčovna* hold only documents.
