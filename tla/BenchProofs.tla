----------------------------- MODULE BenchProofs -----------------------------
(***************************************************************************)
(* What is proved of the parts on the bench, for each as the bench has it: *)
(* its invariant holds in its slots while it is the part that runs.  The   *)
(* PLC relay first, then the two Modbus units, the button trigger, the lap *)
(* timer, the cars on the motorway, the lock, the proxy, the processor,    *)
(* the colouring of graphs and the output unit.                            *)
(***************************************************************************)
EXTENDS Bench, TLAPS

FP == INSTANCE FatekProofs WITH Requests <- 3, Broken <- {2}, Kinds <- {1, 2}, Room <- 5, MaxNoise <- 1,
  inbox <- a, arrived <- b, relay <- c, request <- d, buf <- e, line <- f, plc <- g, wire <- h,
  noise <- i, stop <- j, forwarded <- k, givenUp <- l, answers <- m

\* The proofs about FatekRelay are about a second copy of it, FP, over the same
\* slots; the two copies agree, definition by definition.
LEMMA SameInit == Fatek!Init <=> FP!Init
  BY DEF Fatek!Init, FP!Init, Fatek!no_request, FP!no_request

\* The bench's constants are ones the proofs allow.
LEMMA BoundsHere == FP!Bounds
  BY DEF FP!Bounds

\* A client sends.
LEMMA SameArrives == \A kind \in {1, 2} : Fatek!Arrives(kind) <=> FP!Arrives(kind)
  BY DEF Fatek!Arrives, FP!Arrives, Fatek!device, FP!device, Fatek!history, FP!history

\* The PLC answers or stays silent.
LEMMA SamePlc == \A reply \in BOOLEAN : Fatek!PlcAnswers(reply) <=> FP!PlcAnswers(reply)
  BY DEF Fatek!PlcAnswers, FP!PlcAnswers, Fatek!clients, FP!clients, Fatek!history, FP!history, Fatek!Frame, FP!Frame

\* A piece comes.
LEMMA SameComes == \A lost \in BOOLEAN : Fatek!Comes(lost) <=> FP!Comes(lost)
  BY DEF Fatek!Comes, FP!Comes, Fatek!clients, FP!clients, Fatek!history, FP!history

\* A signal.
LEMMA SameSignal == Fatek!Signal <=> FP!Signal
  BY DEF Fatek!Signal, FP!Signal, Fatek!clients, FP!clients, Fatek!history, FP!history, Fatek!device, FP!device

\* A broken datagram.
LEMMA SameRefuse == Fatek!Refuse <=> FP!Refuse
  BY DEF Fatek!Refuse, FP!Refuse, Fatek!history, FP!history, Fatek!device, FP!device

\* A request is written.
LEMMA SameForward == \A written \in BOOLEAN : Fatek!Forward(written) <=> FP!Forward(written)
  BY DEF Fatek!Forward, FP!Forward

\* A wait is over.
LEMMA SameTimesOut == Fatek!TimesOut <=> FP!TimesOut
  BY DEF Fatek!TimesOut, FP!TimesOut, Fatek!GiveUp, FP!GiveUp, Fatek!clients, FP!clients, Fatek!device, FP!device

\* The relay ends.
LEMMA SameEnd == Fatek!End <=> FP!End
  BY DEF Fatek!End, FP!End, Fatek!history, FP!history, Fatek!clients, FP!clients, Fatek!device, FP!device

\* What read returns.
LEMMA SameRead == Fatek!Read = FP!Read /\ Fatek!Taken = FP!Taken
  BY DEF Fatek!Read, FP!Read, Fatek!Taken, FP!Taken, Fatek!Smaller, FP!Smaller

\* What is a frame.
LEMMA SameParses == \A s : Fatek!Parses(s) <=> FP!Parses(s)
  BY DEF Fatek!Parses, FP!Parses, Fatek!Frame, FP!Frame

\* A read.
LEMMA SameResponse == \A sent \in BOOLEAN : Fatek!ReadResponse(sent) <=> FP!ReadResponse(sent)
<1>1. \A x, sent : Fatek!Respond(x, sent) <=> FP!Respond(x, sent) BY DEF Fatek!Respond, FP!Respond
<1>2. Fatek!GiveUp <=> FP!GiveUp BY DEF Fatek!GiveUp, FP!GiveUp
<1>. QED BY <1>1, <1>2, SameRead, SameParses DEF Fatek!ReadResponse, FP!ReadResponse, Fatek!clients, FP!clients, Fatek!device, FP!device

\* The invariant of the relay, when it is the relay that is on the bench.
BInv == dev = "fatek" => FP!Inv

\* Whichever part is on the bench, the invariant holds at the start.
LEMMA BInit == Init => BInv
<1>1. FP!Bounds /\ FP!Init => FP!Inv BY FP!InvInit
<1>. QED BY <1>1, SameInit, BoundsHere DEF Init, BInv

\* All the steps of the relay and of those around it.
LEMMA SameNext == Fatek!Next => FP!Next
  BY SameArrives, SamePlc, SameComes, SameSignal, SameRefuse, SameForward, SameTimesOut, SameResponse, SameEnd
  DEF Fatek!Next, FP!Next, Fatek!Relay, FP!Relay

\* A step of another part says nothing of the relay; one of the relay keeps its invariant.
LEMMA BNext == BInv /\ [Next]_vars => BInv'
<1> SUFFICES ASSUME BInv, [Next]_vars, dev' = "fatek" PROVE FP!Inv'
  BY DEF BInv
<1>1. FP!Bounds /\ FP!Inv /\ [FP!Next]_(FP!vars) => FP!Inv' BY FP!InvNext
<1>2. dev = "fatek" BY DEF Next, Is, vars
<1>3. FP!Next \/ UNCHANGED FP!vars
  BY <1>2, SameNext DEF Next, Is, vars, FP!vars, FP!clients, FP!device, FP!history
<1>. QED BY <1>1, <1>2, <1>3, BoundsHere DEF BInv

\* On the bench the relay answers in order and lags no more than it gave up (main.cc,
\* process).
THEOREM FatekInOrderAlways == Spec => []FatekInOrder
<1>1. Init => BInv BY BInit
<1>2. BInv /\ [Next]_vars => BInv' BY BNext
<1>3. FP!TypeOK => Fatek!TypeOK
  BY DEF FP!TypeOK, Fatek!TypeOK, FP!Datagram, Fatek!Datagram,
         FP!Piece, Fatek!Piece, FP!no_request, Fatek!no_request
<1>4. FP!AnswersInOrder => Fatek!AnswersInOrder BY DEF FP!AnswersInOrder, Fatek!AnswersInOrder
<1>5. \A S : FP!Cardinality(S) = Fatek!Cardinality(S)
  BY DEF FP!Cardinality, Fatek!Cardinality, FP!IsFiniteSet, Fatek!IsFiniteSet
<1>6. FP!LagIsGivenUp => Fatek!LagIsGivenUp BY <1>5 DEF FP!LagIsGivenUp, Fatek!LagIsGivenUp
<1>7. BInv => FatekInOrder BY <1>3, <1>4, <1>6 DEF BInv, FatekInOrder, FP!Inv
<1>. QED BY <1>1, <1>2, <1>7, PTL DEF Spec

-----------------------------------------------------------------------------
TqP == INSTANCE TqsProofs WITH FrameLen <- 2, ReplyLen <- 3, MaxFrames <- 3, MaxFaults <- 1,
  fsm <- a, act <- b, pc <- c, flags <- d, buf <- e, tmr <- f, rcie <- g, tx <- h, line <- i, m <- j

TeP == INSTANCE TempProofs WITH MaxLen <- 2, TConv <- 3, Refresh <- 4, MaxFrames <- 2,
  MaxFaults <- 1, MaxFails <- 1,
  mb <- a, ferr <- b, frame <- c, t2 <- d, pc <- e, w1 <- f, moved <- g, line <- h, m <- i

\* none is no request and no answer of theirs.
NoneIsNew == none \notin {"ID", "LINK", "FUNC", "THEIRS", "id", "link", "echo",
                          "TEMP", "REG", "SETID", "ALL", "temp", "refused"}

\* The bench's constants are ones the proofs about the adapter allow.
LEMMA TqsSizes == NoneIsNew => TqP!Sizes
  BY SMT DEF NoneIsNew, TqP!Sizes, TqP!Requests
\* And those about the sensor.
LEMMA TempSizes == NoneIsNew => TeP!Sizes
  BY SMT DEF NoneIsNew, TeP!Sizes, TeP!Requests

\* TqP is a second copy of the adapter over the same slots; the two agree. At the start,
LEMMA SameTqsInit == Tqs!Init <=> TqP!Init
  BY DEF Tqs!Init, TqP!Init, Tqs!Down, TqP!Down

\* in the interrupts and around the unit,
LEMMA SameTqsInterrupts ==
  /\ Tqs!Ask <=> TqP!Ask
  /\ Tqs!Receive <=> TqP!Receive
  /\ Tqs!ReceiveBad <=> TqP!ReceiveBad
  /\ Tqs!Elapse <=> TqP!Elapse
  /\ Tqs!Sent <=> TqP!Sent
<1>1. (Tqs!Settled <=> TqP!Settled) /\ (Tqs!Hit <=> TqP!Hit) /\ Tqs!HitNow = TqP!HitNow
  BY DEF Tqs!Settled, TqP!Settled, Tqs!Hit, TqP!Hit, Tqs!HitNow, TqP!HitNow
<1>2. Tqs!Ask <=> TqP!Ask
  BY <1>1 DEF Tqs!Ask, TqP!Ask, Tqs!Requests, TqP!Requests
<1>3. (Tqs!Receive <=> TqP!Receive) /\ (Tqs!ReceiveBad <=> TqP!ReceiveBad)
  BY <1>1 DEF Tqs!Receive, TqP!Receive, Tqs!ReceiveBad, TqP!ReceiveBad
<1>4. (Tqs!Elapse <=> TqP!Elapse) /\ (Tqs!Sent <=> TqP!Sent)
  BY <1>1 DEF Tqs!Elapse, TqP!Elapse, Tqs!Sent, TqP!Sent
<1>. QED BY <1>2, <1>3, <1>4

\* in the first switch of modbus_process,
LEMMA SameTqsFirst ==
  /\ Tqs!SInit <=> TqP!SInit
  /\ Tqs!SIdle <=> TqP!SIdle
  /\ Tqs!Clear <=> TqP!Clear
  /\ Tqs!SReception <=> TqP!SReception
  /\ Tqs!SControl <=> TqP!SControl
  /\ Tqs!SEmission <=> TqP!SEmission
<1>1. /\ \A x, s : Tqs!Take(x, s) <=> TqP!Take(x, s)
      /\ \A s : Tqs!Nothing(s) <=> TqP!Nothing(s)
      /\ Tqs!RunOnce <=> TqP!RunOnce
      /\ Tqs!Down = TqP!Down
  BY DEF Tqs!Take, TqP!Take, Tqs!Nothing, TqP!Nothing, Tqs!RunOnce, TqP!RunOnce, Tqs!Down, TqP!Down
<1>2. (Tqs!SInit <=> TqP!SInit) /\ (Tqs!SIdle <=> TqP!SIdle) /\ (Tqs!Clear <=> TqP!Clear)
  BY <1>1 DEF Tqs!SInit, TqP!SInit, Tqs!SIdle, TqP!SIdle, Tqs!Clear, TqP!Clear
<1>3. (Tqs!SReception <=> TqP!SReception) /\ (Tqs!SControl <=> TqP!SControl) /\ (Tqs!SEmission <=> TqP!SEmission)
  BY <1>1 DEF Tqs!SReception, TqP!SReception, Tqs!SControl, TqP!SControl, Tqs!SEmission, TqP!SEmission
<1>. QED BY <1>2, <1>3

\* in the second switch,
LEMMA SameTqsSecond ==
  /\ Tqs!AInit <=> TqP!AInit
  /\ Tqs!AIdle <=> TqP!AIdle
  /\ Tqs!AControl <=> TqP!AControl
  /\ Tqs!AProcess <=> TqP!AProcess
  /\ Tqs!Write <=> TqP!Write
  /\ Tqs!Put <=> TqP!Put
<1>1. Tqs!Requests = TqP!Requests /\ Tqs!AnswerOf = TqP!AnswerOf /\ \A r : Tqs!Whole(r) = TqP!Whole(r)
  BY DEF Tqs!Requests, TqP!Requests, Tqs!AnswerOf, TqP!AnswerOf, Tqs!Whole, TqP!Whole
<1>2. (Tqs!AInit <=> TqP!AInit) /\ (Tqs!AIdle <=> TqP!AIdle) /\ (Tqs!Write <=> TqP!Write) /\ (Tqs!Put <=> TqP!Put)
  BY DEF Tqs!AInit, TqP!AInit, Tqs!AIdle, TqP!AIdle, Tqs!Write, TqP!Write, Tqs!Put, TqP!Put, Tqs!RunOnce, TqP!RunOnce
<1>3. (Tqs!AControl <=> TqP!AControl)
  BY <1>1 DEF Tqs!AControl, TqP!AControl
<1>4. (Tqs!AProcess <=> TqP!AProcess)
  BY <1>1 DEF Tqs!AProcess, TqP!AProcess
<1>. QED BY <1>2, <1>3, <1>4

\* and so in every step.
LEMMA SameTqsNext == Tqs!Next => TqP!Next
  BY SameTqsInterrupts, SameTqsFirst, SameTqsSecond
  DEF Tqs!Next, TqP!Next, Tqs!Main, TqP!Main, Tqs!Interrupt, TqP!Interrupt

\* They agree in what the adapter promises.
LEMMA SameTqsSlave ==
  /\ TqP!Slave!Next => Tqs!Slave!Next
  /\ TqP!rep = Tqs!rep /\ TqP!rep' = Tqs!rep'
  /\ TqP!RoomUnlessBroken => Tqs!RoomUnlessBroken
<1>1. Tqs!Requests = TqP!Requests /\ Tqs!AnswerOf = TqP!AnswerOf /\ TqP!rep = Tqs!rep /\ TqP!rep' = Tqs!rep'
  BY DEF Tqs!Requests, TqP!Requests, Tqs!AnswerOf, TqP!AnswerOf, TqP!rep, Tqs!rep
<1>2. TqP!Slave!Next => Tqs!Slave!Next
  BY <1>1 DEF TqP!Slave!Next, Tqs!Slave!Next, TqP!Slave!Ask, Tqs!Slave!Ask, TqP!Slave!Answer, Tqs!Slave!Answer
<1>. QED BY <1>1, <1>2 DEF TqP!RoomUnlessBroken, Tqs!RoomUnlessBroken
\* TeP is a second copy of the sensor; the two agree. At the start,
LEMMA SameTempInit == Temp!Init <=> TeP!Init
  BY DEF Temp!Init, TeP!Init

\* in the interrupts and around the unit,
LEMMA SameTempInterrupts ==
  /\ Temp!Ask <=> TeP!Ask
  /\ Temp!Receive <=> TeP!Receive
  /\ Temp!ReceiveBad <=> TeP!ReceiveBad
  /\ Temp!Tick2 <=> TeP!Tick2
  /\ Temp!Tick1 <=> TeP!Tick1
<1>1. Temp!Seen <=> TeP!Seen
  BY DEF Temp!Seen, TeP!Seen
<1>2. (\A r : Temp!Length(r) = TeP!Length(r)) /\ Temp!Requests = TeP!Requests
  BY DEF Temp!Length, TeP!Length, Temp!Requests, TeP!Requests
<1>3. \A x : Temp!Stored(x) = TeP!Stored(x)
  BY <1>2 DEF Temp!Stored, TeP!Stored
<1>4. Temp!Ask <=> TeP!Ask
  BY <1>1, <1>2 DEF Temp!Ask, TeP!Ask
<1>5. Temp!Receive <=> TeP!Receive
  BY <1>1, <1>3 DEF Temp!Receive, TeP!Receive
<1>6. (Temp!ReceiveBad <=> TeP!ReceiveBad) /\ (Temp!Tick2 <=> TeP!Tick2) /\ (Temp!Tick1 <=> TeP!Tick1)
  BY <1>1 DEF Temp!ReceiveBad, TeP!ReceiveBad, Temp!Tick2, TeP!Tick2, Temp!Tick1, TeP!Tick1
<1>. QED BY <1>4, <1>5, <1>6

\* at the thermometer,
LEMMA SameTempSensor ==
  /\ Temp!Detected <=> TeP!Detected
  /\ Temp!NotDetected <=> TeP!NotDetected
  /\ Temp!StartRead <=> TeP!StartRead
  /\ Temp!ReadData <=> TeP!ReadData
  /\ Temp!StartConvert <=> TeP!StartConvert
  /\ Temp!Convert <=> TeP!Convert
  BY DEF Temp!Detected, TeP!Detected, Temp!NotDetected, TeP!NotDetected, Temp!StartRead, TeP!StartRead,
     Temp!ReadData, TeP!ReadData, Temp!StartConvert, TeP!StartConvert, Temp!Convert, TeP!Convert

\* in the main loop's work for the line,
LEMMA SameTempLine ==
  /\ Temp!Switch <=> TeP!Switch
  /\ Temp!WaitControl <=> TeP!WaitControl
  /\ Temp!CheckFrame <=> TeP!CheckFrame
  /\ Temp!WaitIdle <=> TeP!WaitIdle
  /\ Temp!ProcessFrame <=> TeP!ProcessFrame
  /\ Temp!Emit <=> TeP!Emit
<1>1. Temp!Requests = TeP!Requests /\ Temp!AnswerOf = TeP!AnswerOf /\ \A r : Temp!Whole(r) = TeP!Whole(r)
  BY DEF Temp!Requests, TeP!Requests, Temp!AnswerOf, TeP!AnswerOf, Temp!Whole, TeP!Whole, Temp!Length, TeP!Length
<1>2. Temp!Accepted <=> TeP!Accepted
  BY <1>1 DEF Temp!Accepted, TeP!Accepted
<1>3. (Temp!Switch <=> TeP!Switch) /\ (Temp!WaitControl <=> TeP!WaitControl) /\ (Temp!WaitIdle <=> TeP!WaitIdle)
      /\ (Temp!Emit <=> TeP!Emit)
  BY DEF Temp!Switch, TeP!Switch, Temp!WaitControl, TeP!WaitControl, Temp!WaitIdle, TeP!WaitIdle, Temp!Emit, TeP!Emit
<1>4. (Temp!CheckFrame <=> TeP!CheckFrame) /\ (Temp!ProcessFrame <=> TeP!ProcessFrame)
  BY <1>1, <1>2 DEF Temp!CheckFrame, TeP!CheckFrame, Temp!ProcessFrame, TeP!ProcessFrame
<1>. QED BY <1>3, <1>4

\* and so in every step.
LEMMA SameTempNext == Temp!Next => TeP!Next
  BY SameTempInterrupts, SameTempSensor, SameTempLine
  DEF Temp!Next, TeP!Next, Temp!Main, TeP!Main, Temp!Interrupt, TeP!Interrupt

\* They agree in what the sensor promises.
LEMMA SameTempSlave ==
  /\ TeP!Slave!Next => Temp!Slave!Next
  /\ TeP!ReadsConverted => Temp!ReadsConverted
<1>1. Temp!Requests = TeP!Requests /\ Temp!AnswerOf = TeP!AnswerOf
  BY DEF Temp!Requests, TeP!Requests, Temp!AnswerOf, TeP!AnswerOf
<1>. QED BY <1>1 DEF TeP!Slave!Next, Temp!Slave!Next, TeP!Slave!Ask, Temp!Slave!Ask, TeP!Slave!Answer,
     Temp!Slave!Answer, TeP!ReadsConverted, Temp!ReadsConverted

\* The invariant of the unit that is on the bench.
UInv == (dev = "tqs" => TqP!Inv) /\ (dev = "temp" => TeP!Inv)

\* The invariant holds at the start.
LEMMA UInit == NoneIsNew /\ Init => UInv
<1>1. TqP!Sizes /\ TqP!Init => TqP!Inv
  BY TqP!InvInit
<1>2. TeP!Sizes /\ TeP!Init => TeP!Inv
  BY TeP!InvInit
<1>. QED BY <1>1, <1>2, SameTqsInit, SameTempInit, TqsSizes, TempSizes DEF Init, UInv

\* A step of the bench is a step of the unit that is on it.
LEMMA UnitSteps ==
  ASSUME [Next]_vars
  PROVE  /\ dev' = dev
         /\ dev = "tqs" => [TqP!Next]_(TqP!vars)
         /\ dev = "temp" => [TeP!Next]_(TeP!vars)
<1>1. dev' = dev
  BY DEF Next, Is, vars
<1>2. dev = "tqs" => TqP!Next \/ UNCHANGED TqP!vars
  BY SameTqsNext DEF Next, Is, vars, TqP!vars
<1>3. dev = "temp" => TeP!Next \/ UNCHANGED TeP!vars
  BY SameTempNext DEF Next, Is, vars, TeP!vars
<1>. QED BY <1>1, <1>2, <1>3

\* Every step of the bench keeps the invariant.
LEMMA UNext == NoneIsNew /\ UInv /\ [Next]_vars => UInv'
<1>. SUFFICES ASSUME NoneIsNew, UInv, [Next]_vars PROVE UInv'
  OBVIOUS
<1>1. TqP!Sizes /\ TqP!Inv /\ [TqP!Next]_(TqP!vars) => TqP!Inv'
  BY TqP!InvNext
<1>2. TeP!Sizes /\ TeP!Inv /\ [TeP!Next]_(TeP!vars) => TeP!Inv'
  BY TeP!InvNext
<1>. QED BY <1>1, <1>2, UnitSteps, TqsSizes, TempSizes DEF UInv

\* What a unit does on the line is a step of ModbusSlave.
LEMMA UnitsSpeak ==
  ASSUME NoneIsNew, UInv, [Next]_vars
  PROVE  /\ [dev = "tqs" => Tqs!Slave!Next \/ UNCHANGED <<j.req, Tqs!rep>>]_vars
         /\ [dev = "temp" => Temp!Slave!Next \/ UNCHANGED <<i.req, h>>]_vars
<1>1. TqP!Sizes /\ TqP!Inv /\ [TqP!Next]_(TqP!vars) => [TqP!Slave!Next]_<<j.req, TqP!rep>>
  BY TqP!SlaveStep
<1>2. TeP!Sizes /\ TeP!Inv /\ [TeP!Next]_(TeP!vars) => [TeP!Slave!Next]_<<i.req, h>>
  BY TeP!SlaveStep
<1>3. dev = "tqs" => Tqs!Slave!Next \/ UNCHANGED <<j.req, Tqs!rep>>
  BY <1>1, UnitSteps, TqsSizes, SameTqsSlave DEF UInv
<1>4. dev = "temp" => Temp!Slave!Next \/ UNCHANGED <<i.req, h>>
  BY <1>2, UnitSteps, TempSizes, SameTempSlave DEF UInv
<1>. QED BY <1>3, <1>4

\* On the bench each Modbus unit implements ModbusSlave: it speaks only when it was
\* asked, once, and with its own answer, wherever the interrupts fall (modbus.c, main.c);
\* the adapter's buffer holds one frame while none was broken, and the sensor reads a
\* conversion when its time is over.
THEOREM UnitsAreSlavesAlways == NoneIsNew => (Spec => UnitsAreSlaves)
<1>. SUFFICES ASSUME NoneIsNew PROVE Spec => UnitsAreSlaves
  OBVIOUS
<1>1. Init => UInv
  BY UInit
<1>2. UInv /\ [Next]_vars => UInv'
  BY UNext
<1>3. Init => (dev = "tqs" => Tqs!Slave!Init)
  <2>1. Tqs!Init => Tqs!Slave!Init
    BY SMT DEF Tqs!Init, Tqs!Slave!Init, Tqs!rep
  <2>. QED BY <2>1 DEF Init
<1>4. Init => (dev = "temp" => Temp!Slave!Init)
  BY DEF Init, Temp!Init, Temp!Slave!Init
<1>5. UInv /\ [Next]_vars => [dev = "tqs" => Tqs!Slave!Next \/ UNCHANGED <<j.req, Tqs!rep>>]_vars
  BY UnitsSpeak
<1>6. UInv /\ [Next]_vars => [dev = "temp" => Temp!Slave!Next \/ UNCHANGED <<i.req, h>>]_vars
  BY UnitsSpeak
<1>7. UInv => (dev = "tqs" => Tqs!RoomUnlessBroken) /\ (dev = "temp" => Temp!ReadsConverted)
  <2>1. TqP!Sizes /\ TqP!Inv => TqP!RoomUnlessBroken
    BY TqP!RoomIsLeft
  <2>2. TeP!Inv => TeP!ReadsConverted
    BY TeP!ConversionsRead
  <2>. QED BY <2>1, <2>2, TqsSizes, SameTqsSlave, SameTempSlave DEF UInv
<1>. QED BY <1>1, <1>2, <1>3, <1>4, <1>5, <1>6, <1>7, PTL DEF Spec, UnitsAreSlaves
-----------------------------------------------------------------------------
Boards == [pressed : SUBSET {1, 2}, irq : BOOLEAN, quiet : Nat, changes : Nat]

\* What the loop of the button trigger has counted: how many readings agree, and so for
\* how long the inputs have kept still, unless a change is waiting to be read.
ButtonInv ==
  dev = "btn" =>
    /\ a \in Boards /\ c \in Nat
    /\ b = "first" => c = 0
    /\ b = "again" /\ ~ a.irq => c <= a.quiet + 1 \/ a.quiet >= 2

\* The loop's invariant holds at the start.
LEMMA ButtonInit == Init => ButtonInv
<1>. SUFFICES ASSUME Init, dev = "btn" PROVE ButtonInv
  BY DEF ButtonInv
<1>1. /\ a = [pressed |-> {}, irq |-> FALSE, quiet |-> 0, changes |-> 0]
      /\ b = "first" /\ c = 0
  BY DEF Init, Btn!Init
<1>2. a \in Boards
  <2>1. {} \in SUBSET {1, 2} /\ 0 \in Nat
    BY SMT
  <2>. QED BY <1>1, <2>1, Zenon DEF Boards
<1>. QED BY <1>1, <1>2 DEF ButtonInv

\* A reading is counted, from n on (btntrigger.c, io_wait_for_sample).
LEMMA ButtonSample ==
  ASSUME NEW n \in Nat, Btn!Sample(n)
  PROVE c' = n + 1 /\ b' \in {"again", "event"} /\ (b' = "event" => n >= 2)
  BY SMT DEF Btn!Sample, Btn!Count

\* Every step of the loop, the inputs and the signals keeps the invariant, and there is
\* an event only when the inputs have kept still for two timeouts.
LEMMA ButtonStep ==
  ASSUME ButtonInv, dev = "btn", dev' = dev, Btn!Next
  PROVE ButtonInv' /\ Btn!Debounced
<1>1. /\ a \in Boards /\ c \in Nat /\ a.quiet \in Nat /\ a.irq \in BOOLEAN
      /\ b = "first" => c = 0
      /\ b = "again" /\ ~ a.irq => c <= a.quiet + 1 \/ a.quiet >= 2
  BY DEF ButtonInv, Boards
<1>2. CASE Btn!Change
  <2>1. a' \in Boards /\ a'.irq /\ b' = b /\ c' = c
    <3>1. PICK x \in {1, 2} :
            a' = [pressed |-> IF x \in a.pressed THEN a.pressed \ {x} ELSE a.pressed \union {x},
                  irq |-> TRUE, quiet |-> 0, changes |-> a.changes + 1]
      BY <1>2 DEF Btn!Change
    <3>. DEFINE p == IF x \in a.pressed THEN a.pressed \ {x} ELSE a.pressed \union {x}
                k1 == a.changes + 1
    <3>2. p \in SUBSET {1, 2} /\ k1 \in Nat /\ 0 \in Nat
      BY <1>1, SMT DEF Boards
    <3>3. a' = [pressed |-> p, irq |-> TRUE, quiet |-> 0, changes |-> k1]
      BY <3>1
    <3>. HIDE DEF p, k1
    <3>. QED BY <3>2, <3>3, <1>2, Zenon DEF Boards, Btn!Change
  <2>. QED BY <2>1, <1>1 DEF ButtonInv, Btn!Debounced
<1>3. CASE Btn!Signal
  <2>1. a' = a /\ c' = c /\ (b' = b \/ b' = "stopped")
    BY <1>3 DEF Btn!Signal
  <2>. QED BY <2>1, <1>1 DEF ButtonInv, Btn!Debounced
<1>4. CASE Btn!Changed
  <2>1. a' \in Boards /\ ~ a'.irq /\ a'.quiet = a.quiet
    BY <1>4, <1>1, Zenon DEF Btn!Changed, Boards
  <2>2. c' = 1 /\ b' = "again"
    <3>1. CASE b = "first"
      <4>1. Btn!Sample(0)
        BY <3>1, <1>1, <1>4 DEF Btn!Changed
      <4>. QED BY <4>1, ButtonSample, SMT
    <3>2. CASE b # "first"
      <4>1. Btn!Sample(0)
        BY <3>2, <1>4 DEF Btn!Changed
      <4>. QED BY <4>1, ButtonSample, SMT
    <3>. QED BY <3>1, <3>2
  <2>. QED BY <2>1, <2>2, <1>1, SMT DEF ButtonInv, Btn!Debounced
<1>5. CASE Btn!TimedOut
  <2>. DEFINE q == IF a.quiet < 3 THEN a.quiet + 1 ELSE a.quiet
  <2>1. q \in Nat /\ (q = a.quiet + 1 \/ (q = a.quiet /\ q >= 2))
    BY <1>1, SMT
  <2>2. a' = [a EXCEPT !.quiet = q]
    BY <1>5 DEF Btn!TimedOut, Btn!Count
  <2>. HIDE DEF q
  <2>3. a' \in Boards /\ a'.irq = a.irq /\ a'.quiet = q
    BY <2>1, <2>2, <1>1, Zenon DEF Boards
  <2>4. c' = c + 1 /\ b' \in {"again", "event"} /\ (b' = "event" => c >= 2)
    BY <1>5, <1>1, ButtonSample DEF Btn!TimedOut
  <2>5. b = "again" /\ ~ a.irq
    BY <1>5 DEF Btn!TimedOut
  <2>6. c' \in Nat /\ (c' <= q + 1 \/ q >= 2)
    BY <1>1, <2>1, <2>4, <2>5, SMT
  <2>7. b' = "event" => q >= 2
    BY <1>1, <2>1, <2>4, <2>5, SMT
  <2>8. ButtonInv'
    BY <2>3, <2>4, <2>6 DEF ButtonInv
  <2>. QED BY <2>3, <2>7, <2>8, SMT DEF Btn!Debounced, Btn!Count
<1>6. CASE Btn!Fail
  <2>1. a' = a /\ c' = c /\ b' = "stopped"
    BY <1>6 DEF Btn!Fail
  <2>. QED BY <2>1, <1>1 DEF ButtonInv, Btn!Debounced
<1>7. CASE Btn!Event
  <2>1. a' = a /\ c' = 0 /\ b' = "first"
    BY <1>7 DEF Btn!Event
  <2>. QED BY <2>1, <1>1 DEF ButtonInv, Btn!Debounced
<1>. QED BY <1>2, <1>3, <1>4, <1>5, <1>6, <1>7 DEF Btn!Next

\* A contact that bounces runs no command: when there is an event, the inputs have kept
\* the new state for two timeouts (btntrigger.c, io_wait_for_sample).
THEOREM DebouncedAlways == Spec => [][dev = "btn" => Btn!Debounced]_vars
<1>1. Init => ButtonInv
  BY ButtonInit
<1>2. ASSUME ButtonInv, [Next]_vars
      PROVE ButtonInv' /\ [dev = "btn" => Btn!Debounced]_vars
  <2>1. CASE UNCHANGED vars
    <3>1. dev' = dev /\ a' = a /\ b' = b /\ c' = c
      BY <2>1 DEF vars
    <3>. QED BY <3>1, <1>2, <2>1 DEF ButtonInv
  <2>2. CASE Next /\ dev = "btn"
    <3>1. Btn!Next /\ dev' = dev
      BY <2>2 DEF Next, Is
    <3>. QED BY <3>1, <2>2, <1>2, ButtonStep
  <2>3. CASE Next /\ dev # "btn"
    <3>1. dev' = dev
      BY <2>3 DEF Next, Is
    <3>. QED BY <3>1, <2>3 DEF ButtonInv
  <2>. QED BY <1>2, <2>1, <2>2, <2>3
<1>3. ButtonInv /\ [Next]_vars => ButtonInv'
  BY <1>2
<1>4. ButtonInv /\ [Next]_vars => [dev = "btn" => Btn!Debounced]_vars
  BY <1>2
<1>. QED BY <1>1, <1>3, <1>4, PTL DEF Spec
-----------------------------------------------------------------------------
\* The proofs about the lap timer, the road, the proxy, the processor, the colouring of
\* graphs and the output unit, for the sizes of the bench.
DP == INSTANCE DeviceProofs WITH W <- 6, Compare <- 3, Display <- 2, MaxNow <- 10,
  now <- a, tmr <- b, gt <- c, pc <- d, rd <- e, cnt <- f, lap <- g,
  PerLane <- [delka \in Nat |-> 1], nobody <- none,
  Traffic <- {[cars |-> {1}, routes |-> Routes!getRoute],
              [cars |-> 1..3, routes |-> {<<226, 210>>, <<216, 210>>, <<226, 216>>}]},
  routes <- a, car <- b, used <- c, queue <- d,
  Sides <- {"alice", "bob"}, QueueSize <- 2, Options <- Options, Incoming <- 2, MaxMs <- 3,
  opt <- a, pool <- b, waiting <- c, ready <- d, sent <- e, count <- f, ms <- g,
  Cells <- 2, Values <- 3, Inputs <- {0, 1}, Signs <- Instructions, Programs <- Programs, MaxOut <- 2,
  program <- a, at <- b, pstate <- c, reg <- d, ram <- e, data <- f, code <- g, io <- h, wild <- i,
  Sizes <- 1..5, edges <- a, g <- b,
  none <- none, B <- 2, BufLen <- 8, Orders <- {1, 3}, Others <- {0}, MaxFrames <- 2, MaxChanged <- 1, MaxLost <- 1,
  st <- a, frame_ok <- b, buffer <- c, outputs <- d, fifo <- e, master <- f

\* The invariant of the lap timer, when it is the one on the bench.
LapInv == dev = "lap" => DP!LapInv

\* Its bounds are ones the proofs allow.
LEMMA LapBounds == DP!LapSizes
  BY SMT DEF DP!LapSizes

\* The lap timer of the bench and that of the proofs are the same, at the start
LEMMA SameLapInit == Lap!Init <=> DP!Lap!Init
  BY DEF Lap!Init, DP!Lap!Init

\* and in each step: the clock,
LEMMA SameLapClock == (Lap!Tick <=> DP!Lap!Tick) /\ (Lap!TimerA <=> DP!Lap!TimerA)
<1>1. Lap!Tick <=> DP!Lap!Tick
  BY DEF Lap!Tick, DP!Lap!Tick
<1>2. Lap!TimerA <=> DP!Lap!TimerA
  BY DEF Lap!TimerA, DP!Lap!TimerA, Lap!Updated, DP!Lap!Updated, Lap!Tar, DP!Lap!Tar
<1>. QED BY <1>1, <1>2

\* the reading of the time,
LEMMA SameLapReads ==
  /\ Lap!Mask <=> DP!Lap!Mask
  /\ Lap!Unmask <=> DP!Lap!Unmask
  /\ Lap!ReadLow <=> DP!Lap!ReadLow
  /\ Lap!ReadHigh <=> DP!Lap!ReadHigh
<1>1. Lap!Mask <=> DP!Lap!Mask
  BY DEF Lap!Mask, DP!Lap!Mask, Lap!Updated, DP!Lap!Updated, Lap!Tar, DP!Lap!Tar
<1>2. Lap!Unmask <=> DP!Lap!Unmask
  BY DEF Lap!Unmask, DP!Lap!Unmask
<1>3. Lap!ReadLow <=> DP!Lap!ReadLow
  BY DEF Lap!ReadLow, DP!Lap!ReadLow
<1>4. Lap!ReadHigh <=> DP!Lap!ReadHigh
  BY DEF Lap!ReadHigh, DP!Lap!ReadHigh
<1>. QED BY <1>1, <1>2, <1>3, <1>4

\* and the main loop.
LEMMA SameLapLoop == Lap!Loop <=> DP!Lap!Loop
<1>1. \A for : Lap!GetTime(for) <=> DP!Lap!GetTime(for)
  BY DEF Lap!GetTime, DP!Lap!GetTime
<1>2. Lap!Go <=> DP!Lap!Go
  BY <1>1 DEF Lap!Go, DP!Lap!Go, Lap!Stop, DP!Lap!Stop
<1>. QED BY <1>1, <1>2 DEF Lap!Loop, DP!Lap!Loop

\* The invariant holds at the start,
LEMMA LapStarts == Init => LapInv
<1>1. DP!LapSizes /\ DP!Lap!Init => DP!LapInv
  BY DP!LapInit
<1>. QED BY <1>1, SameLapInit, LapBounds DEF Init, LapInv

\* and every step of the bench keeps it.
LEMMA LapNext == LapInv /\ [Next]_vars => LapInv'
<1>. SUFFICES ASSUME LapInv, [Next]_vars, dev' = "lap" PROVE DP!LapInv'
  BY DEF LapInv
<1>1. DP!LapSizes /\ DP!LapInv /\ [DP!Lap!Next]_(DP!Lap!vars) => DP!LapInv'
  BY DP!LapStep
<1>2. dev = "lap"
  BY DEF Next, Is, vars
<1>3. Lap!Next => DP!Lap!Next
  BY SameLapClock, SameLapReads, SameLapLoop DEF Lap!Next, DP!Lap!Next
<1>4. DP!Lap!Next \/ UNCHANGED DP!Lap!vars
  BY <1>2, <1>3 DEF Next, Is, vars, DP!Lap!vars
<1>. QED BY <1>1, <1>2, <1>4, LapBounds DEF LapInv

\* On the bench the lap timer shows the time exactly and its result is a display's period
\* old at most (main.c, get_time and display_idle).
THEOREM LapIsExactAlways == Spec => []LapIsExact
<1>1. DP!LapInv => DP!Lap!TimeIsExact /\ DP!Lap!StopIsClose
  BY DEF DP!LapInv, DP!Exact, DP!Close
<1>2. LapInv => LapIsExact
  BY <1>1 DEF LapInv, LapIsExact, Lap!TimeIsExact, DP!Lap!TimeIsExact, Lap!StopIsClose, DP!Lap!StopIsClose
<1>. QED BY <1>2, LapStarts, LapNext, PTL DEF Spec
-----------------------------------------------------------------------------
\* none is no place on the road.
NoneIsNoPlace == none \notin D1!Places

\* The road of the bench and that of the proofs are the same: the sections,
LEMMA SameRoad ==
  /\ \A way : D1!Sections(way) = DP!Road!Sections(way)
  /\ D1!Places = DP!Road!Places
  /\ \A p : D1!At(p) = DP!Road!At(p)
<1>1. \A kms, one : D1!Road(kms, one) = DP!Road!Road(kms, one)
  BY DEF D1!Road, DP!Road!Road, D1!Section, DP!Road!Section
<1>2. D1!kmPraha = DP!Road!kmPraha /\ D1!kmOlomouc = DP!Road!kmOlomouc
  BY Zenon DEF D1!kmPraha, DP!Road!kmPraha, D1!kmOlomouc, DP!Road!kmOlomouc
<1>3. D1!praha = DP!Road!praha
  BY <1>1, <1>2, Zenon DEF D1!praha, DP!Road!praha
<1>4. D1!olomouc = DP!Road!olomouc
  BY <1>1, <1>2, Zenon DEF D1!olomouc, DP!Road!olomouc
<1>5. \A way : D1!Sections(way) = DP!Road!Sections(way)
  BY <1>3, <1>4, Zenon DEF D1!Sections, DP!Road!Sections
<1>6. D1!Places = DP!Road!Places
  BY <1>3, <1>5, Zenon DEF D1!Places, DP!Road!Places
<1>7. \A p : D1!At(p) = DP!Road!At(p)
  BY <1>5, Zenon DEF D1!At, DP!Road!At
<1>. QED BY <1>5, <1>6, <1>7

\* what a store takes, and the ramps,
LEMMA SameStores ==
  /\ \A p : D1!kapacita(p) = DP!Road!kapacita(p)
  /\ \A p : D1!Free(p) <=> DP!Road!Free(p)
  /\ \A p : D1!is_last(p) <=> DP!Road!is_last(p)
  /\ \A p : D1!get_next(p) = DP!Road!get_next(p)
  /\ \A way, km : D1!get_by_strt_exit(way, km) = DP!Road!get_by_strt_exit(way, km)
  /\ \A way, km : D1!get_by_end_exit(way, km) = DP!Road!get_by_end_exit(way, km)
<1>1. \A p : D1!kapacita(p) = DP!Road!kapacita(p)
  BY SameRoad, Zenon DEF D1!kapacita, DP!Road!kapacita
<1>2. \A p : D1!Free(p) <=> DP!Road!Free(p)
  BY <1>1, Zenon DEF D1!Free, DP!Road!Free
<1>3. \A p : D1!is_last(p) <=> DP!Road!is_last(p)
  BY SameRoad, Zenon DEF D1!is_last, DP!Road!is_last
<1>4. \A p : D1!get_next(p) = DP!Road!get_next(p)
  BY DEF D1!get_next, DP!Road!get_next
<1>5. D1!exits = DP!Road!exits
  BY Zenon DEF D1!exits, DP!Road!exits
<1>6. \A way, km : D1!get_by_strt_exit(way, km) = DP!Road!get_by_strt_exit(way, km)
  BY <1>5, SameRoad, Zenon DEF D1!get_by_strt_exit, DP!Road!get_by_strt_exit
<1>7. \A way, km : D1!get_by_end_exit(way, km) = DP!Road!get_by_end_exit(way, km)
  BY <1>5, SameRoad, Zenon DEF D1!get_by_end_exit, DP!Road!get_by_end_exit
<1>. QED BY <1>1, <1>2, <1>3, <1>4, <1>6, <1>7

\* the start,
LEMMA SameRoadInit == D1!Init <=> DP!Road!Init
  BY SameRoad, ZenonT(60) DEF D1!Init, DP!Road!Init

\* a car that leaves a store or waits for one,
LEMMA SameMoves ==
  /\ \A p, v, x, entered : D1!Leave(p, v, x, entered) <=> DP!Road!Leave(p, v, x, entered)
  /\ \A p, v, x : D1!Join(p, v, x) <=> DP!Road!Join(p, v, x)
  /\ \A v : D1!Passed(v) = DP!Road!Passed(v)
  /\ \A v, p : D1!Onto(v, p) = DP!Road!Onto(v, p)
  /\ \A v : D1!Out(v) = DP!Road!Out(v)
  /\ \A v : D1!Ends(v) <=> DP!Road!Ends(v)
<1>1. \A p, v, x, entered : D1!Leave(p, v, x, entered) <=> DP!Road!Leave(p, v, x, entered)
  BY SameRoad, Zenon DEF D1!Leave, DP!Road!Leave
<1>2. \A p, v, x : D1!Join(p, v, x) <=> DP!Road!Join(p, v, x)
  BY Zenon DEF D1!Join, DP!Road!Join
<1>3. \A v : D1!Passed(v) = DP!Road!Passed(v)
  BY SameRoad, Zenon DEF D1!Passed, DP!Road!Passed
<1>4. \A v, p : D1!Onto(v, p) = DP!Road!Onto(v, p)
  BY <1>3, Zenon DEF D1!Onto, DP!Road!Onto
<1>5. \A v : D1!Out(v) = DP!Road!Out(v)
  BY <1>3, Zenon DEF D1!Out, DP!Road!Out
<1>6. \A v : D1!Ends(v) <=> DP!Road!Ends(v)
  BY SameRoad, Zenon DEF D1!Ends, DP!Road!Ends
<1>. QED BY <1>1, <1>2, <1>3, <1>4, <1>5, <1>6

\* and every step.
LEMMA SameRoadNext == D1!Next <=> DP!Road!Next
<1>1. ASSUME NEW v PROVE D1!Behavior(v) <=> DP!Road!Behavior(v)
  <2>. DEFINE way(r) == IF r[1] < r[2] THEN 1 ELSE -1
              x(r) == [b[v] EXCEPT !.route = r]
              lost(r) == /\ b' = [b EXCEPT ![v] = [x(r) EXCEPT !.mode = "no path"]]
                         /\ UNCHANGED <<c, d>>
              rides(r, p) == /\ b' = [b EXCEPT ![v] = [x(r) EXCEPT !.mode = "rides", !.at = p]]
                             /\ c' = [c EXCEPT ![p] = @ + 1]
                             /\ UNCHANGED d
              here(r) == IF r[1] = r[2] \/ D1!get_by_strt_exit(way(r), r[1]) = {}
                                        \/ D1!get_by_end_exit(way(r), r[2]) = {}
                         THEN lost(r)
                         ELSE \E n \in D1!get_by_strt_exit(way(r), r[1]) :
                                IF D1!Free(<<way(r), n>>) THEN rides(r, <<way(r), n>>)
                                                          ELSE D1!Join(<<way(r), n>>, v, x(r))
              there(r) == IF r[1] = r[2] \/ DP!Road!get_by_strt_exit(way(r), r[1]) = {}
                                         \/ DP!Road!get_by_end_exit(way(r), r[2]) = {}
                          THEN lost(r)
                          ELSE \E n \in DP!Road!get_by_strt_exit(way(r), r[1]) :
                                 IF DP!Road!Free(<<way(r), n>>) THEN rides(r, <<way(r), n>>)
                                                                ELSE DP!Road!Join(<<way(r), n>>, v, x(r))
  <2>1. D1!Behavior(v) <=> b[v].mode = "born" /\ (\E r \in a : here(r)) /\ UNCHANGED a
    BY Zenon DEF D1!Behavior
  <2>2. DP!Road!Behavior(v) <=> b[v].mode = "born" /\ (\E r \in a : there(r)) /\ UNCHANGED a
    BY Zenon DEF DP!Road!Behavior
  <2>. HIDE DEF lost, rides, way, x
  <2>3. \A r : here(r) <=> there(r)
    BY SameStores, SameMoves, Zenon
  <2>. HIDE DEF here, there
  <2>. QED BY <2>1, <2>2, <2>3, Zenon
<1>2. \A v : D1!DriveOut(v) <=> DP!Road!DriveOut(v)
  BY SameStores, SameMoves, Zenon DEF D1!DriveOut, DP!Road!DriveOut
<1>3. \A v : D1!DriveOn(v) <=> DP!Road!DriveOn(v)
  BY SameStores, SameMoves, Zenon DEF D1!DriveOn, DP!Road!DriveOn
<1>4. \A v : D1!Granted(v) <=> DP!Road!Granted(v)
  BY SameMoves, Zenon DEF D1!Granted, DP!Road!Granted
<1>. QED BY <1>1, <1>2, <1>3, <1>4, Zenon DEF D1!Next, DP!Road!Next
\* The routes of the program are pairs of kilometres.
LEMMA RoutesAreWays == Routes!getRoute \subseteq Nat \X Nat
<1>1. ASSUME NEW chain \in Seq(Nat \X Nat) PROVE Routes!Drawn(chain) \subseteq Nat
  <2>1. \A n \in DOMAIN chain : chain[n][2] \in Nat
    BY SMT
  <2>. QED BY <2>1, Zenon DEF Routes!Drawn
<1>2. Routes!getOloOkoli \subseteq Nat
  <2>. DEFINE chain == <<<<20, 265>>, <<40, 298>>, <<60, 308>>, <<60, 321>>, <<100, 330>>>>
  <2>1. chain \in Seq(Nat \X Nat)
    BY SMT
  <2>2. Routes!getOloOkoli = Routes!Drawn(chain)
    BY Zenon DEF Routes!getOloOkoli
  <2>. HIDE DEF chain
  <2>. QED BY <2>1, <2>2, <1>1, Zenon
<1>3. Routes!getCity \subseteq Nat
  <2>. DEFINE chain == <<<<50, 311>>, <<10, 253>>, <<15, 226>>, <<20, 230>>, <<25, 354>>, <<30, 357>>, <<35, 6>>,
            <<40, 8>>, <<45, 10>>, <<50, 12>>, <<55, 21>>, <<60, 90>>, <<65, 112>>, <<70, 141>>,
            <<75, 146>>, <<80, 190>>, <<85, 194>>, <<90, 196>>, <<95, 201>>, <<100, 203>>>>
  <2>1. chain \in Seq(Nat \X Nat)
    BY SMT
  <2>2. Routes!getCity = Routes!Drawn(chain)
    BY Zenon DEF Routes!getCity
  <2>. HIDE DEF chain
  <2>. QED BY <2>1, <2>2, <1>1, Zenon
<1>4. /\ Routes!getPrahaOkoli \subseteq Nat /\ Routes!getPraha \subseteq Nat
      /\ Routes!getBeneOkoli \subseteq Nat /\ Routes!getBene \subseteq Nat
      /\ Routes!getHumpOkoli \subseteq Nat /\ Routes!getHump \subseteq Nat
      /\ Routes!getJihlOkoli \subseteq Nat /\ Routes!getJihl \subseteq Nat
      /\ Routes!getValMezOkoli \subseteq Nat
      /\ Routes!getDistantCity \subseteq Nat
  BY SMT DEF Routes!getPrahaOkoli, Routes!getPraha, Routes!getBeneOkoli, Routes!getBene, Routes!getHumpOkoli,
     Routes!getHump, Routes!getJihlOkoli, Routes!getJihl, Routes!getValMezOkoli, Routes!getDistantCity
<1>5. /\ Routes!getBrnoOkoli \subseteq Nat /\ Routes!getBrno \subseteq Nat
      /\ Routes!getVyskovOkoli \subseteq Nat /\ Routes!getVyskov \subseteq Nat
      /\ Routes!getProstOkoli \subseteq Nat /\ Routes!getProst \subseteq Nat
      /\ Routes!getOlo \subseteq Nat
      /\ Routes!getOstOkoli \subseteq Nat /\ Routes!getOst \subseteq Nat
  BY SMT DEF Routes!getBrnoOkoli, Routes!getBrno, Routes!getVyskovOkoli, Routes!getVyskov, Routes!getProstOkoli,
     Routes!getProst, Routes!getOlo, Routes!getOstOkoli, Routes!getOst
<1>6. \A A \in SUBSET Nat, B \in SUBSET Nat : A \X B \subseteq Nat \X Nat
  OBVIOUS
<1>7. Routes!Commuting \subseteq Nat \X Nat
  BY <1>2, <1>4, <1>5, <1>6, SMT DEF Routes!Commuting
<1>8. Routes!getWeekRoute \subseteq Nat \X Nat
  BY <1>7, SMT DEF Routes!getWeekRoute
<1>9. Routes!getCities \subseteq Nat \X Nat
  BY <1>3, <1>6, Zenon DEF Routes!getCities
<1>10. Routes!getDistantRoute \subseteq Nat \X Nat
  BY <1>4, <1>6, Zenon DEF Routes!getDistantRoute
<1>. QED BY <1>8, <1>9, <1>10, SMT DEF Routes!getRoute, Routes!getWeekEndRoute

\* The bench's cars and lanes are ones the proofs allow.
LEMMA RoadBounds == NoneIsNoPlace => DP!RoadSizes
<1>. SUFFICES ASSUME NoneIsNoPlace PROVE DP!RoadSizes
  OBVIOUS
<1>1. \A p \in DP!Road!Places : DP!Road!kapacita(p) \in Nat \ {0}
  <2>1. \A n \in Nat \ {0} : [delka \in Nat |-> 1][n] \in Nat \ {0}
    BY SMT
  <2>. QED BY <2>1, DP!Capacity, Zenon
<1>2. none \notin DP!Road!Places
  BY SameRoad DEF NoneIsNoPlace
<1>3. DP!IsFiniteSet({1}) /\ DP!IsFiniteSet(1 .. 3)
  <2>1. DP!IsFiniteSet({1})
    BY DP!FS_Singleton
  <2>2. DP!IsFiniteSet(1 .. 3)
    <3>1. 1 \in Int /\ 3 \in Int
      BY SMT
    <3>. QED BY <3>1, DP!FS_Interval, Zenon
  <2>. QED BY <2>1, <2>2
<1>4. {<<226, 210>>, <<216, 210>>, <<226, 216>>} \subseteq Nat \X Nat
  BY SMT
<1>. DEFINE one == [cars |-> {1}, routes |-> Routes!getRoute]
            many == [cars |-> 1 .. 3, routes |-> {<<226, 210>>, <<216, 210>>, <<226, 216>>}]
<1>5. /\ DP!IsFiniteSet(one.cars) /\ one.routes \subseteq Nat \X Nat
      /\ DP!IsFiniteSet(many.cars) /\ many.routes \subseteq Nat \X Nat
  BY <1>3, <1>4, RoutesAreWays, ZenonT(60)
<1>6. DP!RoadSizes <=> /\ \A p \in DP!Road!Places : DP!Road!kapacita(p) \in Nat \ {0}
                       /\ none \notin DP!Road!Places
                       /\ \A t \in {one, many} : DP!IsFiniteSet(t.cars) /\ t.routes \subseteq Nat \X Nat
  BY Zenon DEF DP!RoadSizes
<1>. HIDE DEF one, many
<1>. QED BY <1>1, <1>2, <1>5, <1>6, Zenon
\* The road's invariant, when it is the road that is on the bench.
RoadInv == dev = "road" => DP!RoadInv

\* The invariant holds at the start,
LEMMA RoadStarts == NoneIsNoPlace /\ Init => RoadInv
<1>1. DP!RoadSizes /\ DP!Road!Init => DP!RoadInv
  BY DP!RoadInit
<1>. QED BY <1>1, SameRoadInit, RoadBounds DEF Init, RoadInv

\* and every step of the bench keeps it.
LEMMA RoadNext == NoneIsNoPlace /\ RoadInv /\ [Next]_vars => RoadInv'
<1>. SUFFICES ASSUME NoneIsNoPlace, RoadInv, [Next]_vars, dev' = "road" PROVE DP!RoadInv'
  BY DEF RoadInv
<1>1. DP!RoadSizes /\ DP!RoadInv /\ [DP!Road!Next]_(DP!Road!vars) => DP!RoadInv'
  BY DP!RoadStep
<1>2. dev = "road"
  BY DEF Next, Is, vars
<1>3. DP!Road!Next \/ UNCHANGED DP!Road!vars
  BY <1>2, SameRoadNext DEF Next, Is, vars, DP!Road!vars
<1>. QED BY <1>1, <1>2, <1>3, RoadBounds DEF RoadInv

\* What the cars keep to is the same, too.
LEMMA SameArrivals ==
  ASSUME DP!Road!StoresAreHeld, DP!Road!ArrivesWhereItWould, DP!Road!SomeoneMoves
  PROVE  D1!StoresAreHeld /\ D1!ArrivesWhereItWould /\ D1!SomeoneMoves
<1>1. \A S : D1!Cardinality(S) = DP!Road!Cardinality(S)
  BY DEF D1!Cardinality, DP!Road!Cardinality, D1!IsFiniteSet, DP!Road!IsFiniteSet
<1>2. D1!StoresAreHeld
  BY <1>1, SameStores, Zenon DEF D1!StoresAreHeld, DP!Road!StoresAreHeld
<1>3. D1!ArrivesWhereItWould
  BY Zenon DEF D1!ArrivesWhereItWould, DP!Road!ArrivesWhereItWould
<1>4. D1!SomeoneMoves
  BY Zenon DEF D1!SomeoneMoves, DP!Road!SomeoneMoves
<1>. QED BY <1>2, <1>3, <1>4

\* On the bench the cars hold the sections they are on, come to their exits, and one of them
\* can always move on (vehicle.cc, drive_to).
THEOREM CarsOfTheBenchArrive == NoneIsNoPlace => (Spec => []CarsArrive)
<1>. SUFFICES ASSUME NoneIsNoPlace PROVE Spec => []CarsArrive
  OBVIOUS
<1>1. DP!RoadSizes /\ DP!RoadInv => DP!Road!StoresAreHeld
  BY DP!StoresCount
<1>2. DP!RoadInv => DP!Road!ArrivesWhereItWould
  BY DP!WentItsWay
<1>3. DP!RoadSizes /\ DP!RoadInv => DP!Road!SomeoneMoves
  BY DP!OneMoves
<1>4. RoadInv => CarsArrive
  BY <1>1, <1>2, <1>3, RoadBounds, SameArrivals DEF RoadInv, CarsArrive
<1>5. Init => RoadInv
  BY RoadStarts
<1>6. RoadInv /\ [Next]_vars => RoadInv'
  BY RoadNext
<1>. QED BY <1>4, <1>5, <1>6, PTL DEF Spec
-----------------------------------------------------------------------------
(***************************************************************************)
(* The lock, which has no sizes to choose.                                 *)
(***************************************************************************)
Codes == {1, 2}
LockStates ==
  [name : {"PWD_CHECK", "PWD_ERR", "PWD_OK", "MSG_ACCESS_GRANTED", "MSG_ACCESS_DENIED", "FINISH"},
   code : {0}, n : {0}]
  \union [name : {"NUM"}, code : Codes, n : 1 .. 10]
Presses == [n : 0 .. 12, codes : SUBSET Codes, single : BOOLEAN]

\* While a code is entered the state stands for presses that spell its beginning; and
\* if each was of one key, for no others.
Spells ==
  /\ a.name = "PWD_CHECK" => b = Lock!Nothing
  /\ a.name = "NUM" => /\ a.n = b.n /\ a.n < Len(Lock!Code[a.code]) /\ a.code \in b.codes
                       /\ a.n = 1 => a.code = 1 /\ b.codes = Codes
                       /\ a.n > 1 /\ b.single => b.codes = {a.code}
  /\ a.name = "PWD_OK" => \E c1 \in b.codes : /\ b.n = Len(Lock!Code[c1])
                                              /\ b.single => b.codes = {c1}
  /\ a.name = "PWD_ERR" /\ b.single => b.codes = {}

LockInv ==
  dev = "lock" => /\ a \in LockStates /\ b \in Presses
                  /\ Spells /\ Lock!GrantedOnlyForCode /\ Lock!CodeIsGranted

\* The codes: they share the first digit, and part at the second.
LEMMA TheCodes ==
  /\ Len(Lock!Code[1]) = 9 /\ Len(Lock!Code[2]) = 11
  /\ Lock!Code[1][1] = 9 /\ Lock!Code[2][1] = 9 /\ Lock!Code[1][2] = 3 /\ Lock!Code[2][2] = 4
  /\ \A c1 \in Codes : Len(Lock!Code[c1]) \in {9, 11}
  BY SMT DEF Lock!Code, Codes

\* The first of the codes that fit is one that fits, and one that could be meant.
LEMMA TheFits ==
  ASSUME a \in LockStates, b \in Presses, Spells, NEW K, Lock!Expected(a, K) # {}
  PROVE  \E c1 \in Codes :
           /\ c1 = (IF 1 \in Lock!Expected(a, K) THEN 1 ELSE 2) /\ c1 \in b.codes
           /\ Lock!Code[c1][b.n + 1] \in K /\ a.n = b.n
           /\ a.name = "PWD_CHECK" => c1 = 1
           /\ a.name = "NUM" /\ a.n # 1 => c1 = a.code
           /\ a.name = "PWD_CHECK" \/ a.name = "NUM"
           /\ b.n < Len(Lock!Code[c1])
<1>1. Lock!Ways(a) \subseteq Codes /\ (a.name = "PWD_CHECK" \/ a.name = "NUM")
  BY SMT DEF Lock!Ways, Lock!Expected, LockStates, Codes
<1>2. PICK c1 \in Lock!Ways(a) : /\ Lock!Code[c1][a.n + 1] \in K
                                 /\ c1 = (IF 1 \in Lock!Expected(a, K) THEN 1 ELSE 2)
  BY <1>1, SMT DEF Lock!Expected, Lock!Digit, Codes
<1>3. a.n = b.n /\ c1 \in b.codes
  BY <1>1, SMT DEF Lock!Ways, LockStates, Spells, Lock!Nothing, Codes
<1>4. b.n < Len(Lock!Code[c1])
  <2>1. CASE a.name = "PWD_CHECK"
    BY <2>1, <1>1, <1>3, TheCodes, SMT DEF Spells, Lock!Nothing, Codes
  <2>2. CASE a.name = "NUM"
    BY <2>2, <1>1, <1>3, TheCodes, SMT DEF Spells, Lock!Ways, Codes, Presses
  <2>. QED BY <2>1, <2>2, <1>1
<1>. QED BY <1>1, <1>2, <1>3, <1>4, SMT DEF Lock!Ways

\* What has been typed after a press that goes on.
LEMMA TheTyped ==
  ASSUME b \in Presses, NEW k1 \in Lock!Keys, NEW k2 \in Lock!Keys,
         b' = [n |-> IF b.n > Len(Lock!Code[2]) THEN b.n ELSE b.n + 1,
               codes |-> {c1 \in b.codes : b.n < Len(Lock!Code[c1]) /\ Lock!Code[c1][b.n + 1] \in {k1, k2}},
               single |-> b.single /\ k1 = k2]
  PROVE  /\ b' \in Presses
         /\ b.n < 12 => b'.n = b.n + 1
         /\ b'.codes = {c1 \in b.codes : b.n < Len(Lock!Code[c1]) /\ Lock!Code[c1][b.n + 1] \in {k1, k2}}
         /\ b'.single => b.single /\ k1 = k2
<1>1. b'.n = (IF b.n > 11 THEN b.n ELSE b.n + 1) /\ b.n \in 0 .. 12
  BY TheCodes DEF Presses
<1>2. b' \in Presses
  BY TheCodes, SMT DEF Presses
<1>3. b.n < 12 => b'.n = b.n + 1
  BY <1>1, SMT
<1>4. b'.codes = {c1 \in b.codes : b.n < Len(Lock!Code[c1]) /\ Lock!Code[c1][b.n + 1] \in {k1, k2}}
  BY Zenon
<1>5. b'.single = (b.single /\ k1 = k2)
  BY Zenon
<1>. QED BY <1>2, <1>3, <1>4, <1>5, Zenon

\* What a press leads to.
LEMMA LockPress ==
  ASSUME a \in LockStates, b \in Presses, Spells, Lock!Press
  PROVE  (a \in LockStates /\ b \in Presses /\ Spells /\ Lock!GrantedOnlyForCode /\ Lock!CodeIsGranted)'
<1>. PICK k1 \in Lock!Keys, k2 \in Lock!Keys :
       /\ a' = Lock!Pressed(a, {k1, k2})
       /\ b' = IF ~ Lock!Entering(a') THEN b
               ELSE [n |-> IF b.n > Len(Lock!Code[2]) THEN b.n ELSE b.n + 1,
                     codes |-> {c1 \in b.codes : b.n < Len(Lock!Code[c1])
                                                 /\ Lock!Code[c1][b.n + 1] \in {k1, k2}},
                     single |-> b.single /\ k1 = k2]
  BY DEF Lock!Press
<1>. DEFINE K == {k1, k2}
            fits == Lock!Expected(a, K)
<1>1. Lock!Entering(a)
  BY DEF Lock!Press
<1>2. CASE fits # {}
  <2>1. PICK c1 \in Codes :
           /\ c1 = (IF 1 \in fits THEN 1 ELSE 2) /\ c1 \in b.codes
           /\ Lock!Code[c1][b.n + 1] \in K /\ a.n = b.n
           /\ a.name = "PWD_CHECK" => c1 = 1
           /\ a.name = "NUM" /\ a.n # 1 => c1 = a.code
           /\ a.name = "PWD_CHECK" \/ a.name = "NUM"
           /\ b.n < Len(Lock!Code[c1])
    BY <1>2, TheFits
  <2>2. a' = Lock!At(c1, b.n + 1)
    BY <1>2, <2>1 DEF Lock!Pressed
  <2>. HIDE DEF fits
  <2>3. b.n \in Nat /\ b.n < 11
    <3>1. b.n \in Nat /\ Len(Lock!Code[c1]) \in {9, 11}
      BY <2>1, TheCodes DEF Presses
    <3>. DEFINE len == Len(Lock!Code[c1])
    <3>2. b.n < len /\ len \in {9, 11}
      BY <3>1, <2>1
    <3>. HIDE DEF len
    <3>. QED BY <3>1, <3>2, SMT
  <2>4. Lock!Entering(a')
    BY <2>2, SMT DEF Lock!At, Lock!Entering, Lock!State, Lock!Num
  <2>5. /\ b' \in Presses /\ b'.n = b.n + 1
        /\ b'.codes = {x \in b.codes : b.n < Len(Lock!Code[x]) /\ Lock!Code[x][b.n + 1] \in K}
        /\ b'.single => b.single /\ k1 = k2
    BY <2>3, <2>4, TheTyped, SMT
  <2>6. c1 \in b'.codes
    BY <2>1, <2>5
  <2>7. a' \in LockStates
    <3>1. CASE b.n + 1 = Len(Lock!Code[c1])
      BY <3>1, <2>2, SMT DEF Lock!At, LockStates, Lock!State
    <3>2. CASE b.n + 1 # Len(Lock!Code[c1])
      <4>1. a' = Lock!Num(IF b.n + 1 = 1 THEN 1 ELSE c1, b.n + 1)
        BY <3>2, <2>2 DEF Lock!At
      <4>2. b.n + 1 \in 1 .. 10
        <5>. DEFINE len == Len(Lock!Code[c1])
        <5>1. b.n < len /\ len \in {9, 11} /\ b.n + 1 # len
          BY <3>2, <2>1, TheCodes
        <5>. HIDE DEF len
        <5>. QED BY <5>1, <2>3, SMTT(30)
      <4>3. (IF b.n + 1 = 1 THEN 1 ELSE c1) \in Codes
        BY <2>1 DEF Codes
      <4>4. a' \in [name : {"NUM"}, code : Codes, n : 1 .. 10]
        BY <4>1, <4>2, <4>3 DEF Lock!Num
      <4>. QED BY <4>4 DEF LockStates
    <3>. QED BY <3>1, <3>2
  <2>8. b.n >= 1 /\ b'.single => b'.codes = {c1}
    <3>. SUFFICES ASSUME b.n >= 1, b'.single PROVE b'.codes = {c1}
      OBVIOUS
    <3>1. a.name = "NUM"
      BY <2>1, <2>3, SMT DEF Spells, Lock!Nothing
    <3>2. CASE b.n = 1
      <4>1. \A x \in b.codes : x # c1 => Lock!Code[x][2] # Lock!Code[c1][2]
        BY <2>1, TheCodes, SMTT(30) DEF Codes, Presses
      <4>2. b.n + 1 = 2 /\ K = {k1}
        BY <3>2, <2>5
      <4>. QED BY <4>1, <4>2, <2>1, <2>5, <2>6
    <3>3. CASE b.n > 1
      BY <3>3, <3>1, <2>1, <2>3, <2>5, <2>6, SMT DEF Spells
    <3>4. b.n = 1 \/ b.n > 1
      BY <2>3, SMT
    <3>. QED BY <3>2, <3>3, <3>4
  <2>9. b.n = 0 => c1 = 1 /\ b'.codes = Codes
    <3>. SUFFICES ASSUME b.n = 0 PROVE c1 = 1 /\ b'.codes = Codes
      OBVIOUS
    <3>1. a.name = "PWD_CHECK"
      BY <2>1, SMT DEF LockStates, Spells
    <3>2. b.codes = Codes /\ 9 \in K
      BY <3>1, <2>1, TheCodes DEF Spells, Lock!Nothing, Codes
    <3>. QED BY <3>1, <3>2, <2>1, <2>5, TheCodes, SMT DEF Codes
  <2>10. Spells'
    <3>1. CASE b.n + 1 = Len(Lock!Code[c1])
      <4>1. a'.name = "PWD_OK"
        BY <3>1, <2>2 DEF Lock!At, Lock!State
      <4>2. b.n >= 1
        BY <3>1, <2>3, TheCodes, SMT DEF Codes
      <4>3. \E x \in b'.codes : b'.n = Len(Lock!Code[x]) /\ (b'.single => b'.codes = {x})
        BY <4>2, <3>1, <2>5, <2>6, <2>8
      <4>. QED BY <4>1, <4>3, Zenon DEF Spells
    <3>2. CASE b.n + 1 # Len(Lock!Code[c1])
      <4>1. a'.name = "NUM" /\ a'.n = b.n + 1 /\ a'.code = IF b.n = 0 THEN 1 ELSE c1
        BY <3>2, <2>2, <2>3, SMT DEF Lock!At, Lock!Num
      <4>2. a'.code = c1
        BY <4>1, <2>9
      <4>3. b.n + 1 < Len(Lock!Code[c1])
        BY <3>2, <2>1, <2>3, TheCodes, SMT DEF Codes
      <4>4. a'.n = b'.n /\ a'.n < Len(Lock!Code[a'.code]) /\ a'.code \in b'.codes
        BY <4>1, <4>2, <4>3, <2>5, <2>6
      <4>5. a'.n = 1 => a'.code = 1 /\ b'.codes = Codes
        BY <4>1, <2>3, <2>9, SMT
      <4>6. a'.n > 1 /\ b'.single => b'.codes = {a'.code}
        <5>1. a'.n > 1 => b.n >= 1
          BY <4>1, <2>3, SMT
        <5>. QED BY <5>1, <4>2, <2>8
      <4>. QED BY <4>1, <4>4, <4>5, <4>6, Zenon DEF Spells
    <3>. QED BY <3>1, <3>2
  <2>11. Lock!GrantedOnlyForCode' /\ Lock!CodeIsGranted'
    BY <2>4 DEF Lock!Entering, Lock!GrantedOnlyForCode, Lock!CodeIsGranted
  <2>. QED BY <2>5, <2>7, <2>10, <2>11
<1>3. CASE fits = {} /\ Lock!Confirm \in K
  <2>1. a' = IF a.name = "PWD_OK" THEN Lock!State("MSG_ACCESS_GRANTED") ELSE Lock!State("MSG_ACCESS_DENIED")
    BY <1>3 DEF Lock!Pressed
  <2>. HIDE DEF fits
  <2>2. b' = b /\ a'.name = IF a.name = "PWD_OK" THEN "MSG_ACCESS_GRANTED" ELSE "MSG_ACCESS_DENIED"
    BY <2>1 DEF Lock!State, Lock!Entering
  <2>3. a' \in LockStates
    BY <2>1, SMT DEF LockStates, Lock!State
  <2>4. a.name = "PWD_OK" => Lock!Spelt
    BY DEF Spells, Lock!Spelt
  <2>5. a.name # "PWD_OK" => ~ (Lock!Spelt /\ b.single)
    <3>1. CASE a.name = "PWD_CHECK"
      BY <3>1, TheCodes, SMT DEF Spells, Lock!Spelt, Lock!Nothing
    <3>2. CASE a.name = "NUM"
      BY <3>2, TheCodes, SMT DEF Spells, Lock!Spelt, LockStates, Codes
    <3>3. CASE a.name = "PWD_ERR"
      BY <3>3, SMT DEF Spells, Lock!Spelt
    <3>. QED BY <3>1, <3>2, <3>3, <1>1 DEF Lock!Entering
  <2>6. Lock!Spelt' <=> Lock!Spelt
    BY <2>2 DEF Lock!Spelt
  <2>7. Lock!GrantedOnlyForCode' /\ Lock!CodeIsGranted' /\ Spells'
    BY <2>2, <2>4, <2>5, <2>6 DEF Lock!GrantedOnlyForCode, Lock!CodeIsGranted, Spells
  <2>. QED BY <2>2, <2>3, <2>7
<1>4. CASE fits = {} /\ Lock!Confirm \notin K
  <2>1. a' = Lock!State("PWD_ERR")
    BY <1>4 DEF Lock!Pressed
  <2>2. a' \in LockStates /\ a'.name = "PWD_ERR" /\ Lock!Entering(a')
    BY <2>1, SMT DEF LockStates, Lock!State, Lock!Entering
  <2>3. /\ b' \in Presses
        /\ b'.codes = {x \in b.codes : b.n < Len(Lock!Code[x]) /\ Lock!Code[x][b.n + 1] \in K}
        /\ b'.single => b.single /\ k1 = k2
    BY <2>2, TheTyped
  <2>4. b'.single => b'.codes = {}
    <3>. SUFFICES ASSUME b'.single PROVE b'.codes = {}
      OBVIOUS
    <3>1. CASE a.name = "PWD_CHECK"
      <4>1. 9 \notin K /\ b.n = 0 /\ b.codes = Codes
        BY <3>1, <1>4, TheCodes, SMT DEF Lock!Expected, Lock!Ways, Lock!Digit, Spells, Lock!Nothing, LockStates, Codes
      <4>2. \A x \in b.codes : Lock!Code[x][b.n + 1] \notin K
        BY <4>1, TheCodes DEF Codes
      <4>. QED BY <4>2, <2>3
    <3>2. CASE a.name = "NUM" /\ a.n = 1
      <4>1. Lock!Code[1][2] \notin K /\ Lock!Code[2][2] \notin K /\ b.n = 1 /\ b.codes = Codes
        BY <3>2, <1>4, SMT DEF Lock!Expected, Lock!Ways, Lock!Digit, Spells, Codes
      <4>2. \A x \in b.codes : Lock!Code[x][b.n + 1] \notin K
        BY <4>1 DEF Codes
      <4>. QED BY <4>2, <2>3
    <3>3. CASE a.name = "NUM" /\ a.n # 1
      <4>1. b.n = a.n /\ a.n > 1 /\ b.single
        BY <3>3, <2>3, SMT DEF Spells, LockStates
      <4>2. b.codes = {a.code} /\ Lock!Code[a.code][a.n + 1] \notin K
        BY <4>1, <3>3, <1>4, SMT DEF Lock!Expected, Lock!Ways, Lock!Digit, Spells
      <4>. QED BY <4>1, <4>2, <2>3
    <3>4. CASE a.name = "PWD_OK"
      <4>1. PICK c1 \in b.codes : b.n = Len(Lock!Code[c1]) /\ b.codes = {c1}
        BY <3>4, <2>3 DEF Spells
      <4>2. ~ (b.n < Len(Lock!Code[c1]))
        BY <4>1, SMT DEF Presses
      <4>. QED BY <4>1, <4>2, <2>3
    <3>5. CASE a.name = "PWD_ERR"
      BY <3>5, <2>3 DEF Spells
    <3>. QED BY <3>1, <3>2, <3>3, <3>4, <3>5, <1>1 DEF Lock!Entering
  <2>5. Lock!GrantedOnlyForCode' /\ Lock!CodeIsGranted' /\ Spells'
    BY <2>2, <2>4 DEF Lock!GrantedOnlyForCode, Lock!CodeIsGranted, Spells
  <2>. QED BY <2>2, <2>3, <2>5
<1>. QED BY <1>2, <1>3, <1>4

\* The message goes, and the lock waits for the next code.
LEMMA LockMessages ==
  ASSUME LockInv, dev = "lock", Lock!Shown \/ Lock!Finish
  PROVE  (a \in LockStates /\ b \in Presses /\ Spells /\ Lock!GrantedOnlyForCode /\ Lock!CodeIsGranted)'
<1>1. CASE Lock!Shown
  BY <1>1, SMT DEF Lock!Shown, Lock!State, LockInv, LockStates, Spells,
                   Lock!GrantedOnlyForCode, Lock!CodeIsGranted
<1>2. CASE Lock!Finish
  BY <1>2, SMT DEF Lock!Finish, Lock!State, Lock!Nothing, LockStates, Presses, Codes, Spells,
                   Lock!GrantedOnlyForCode, Lock!CodeIsGranted
<1>. QED BY <1>1, <1>2

\* What is invariant holds at the start,
LEMMA LockStarts == Init => LockInv
<1>. SUFFICES ASSUME Init, dev = "lock" PROVE LockInv
  BY DEF LockInv
<1>1. Lock!Init
  BY DEF Init
<1>. QED
  BY <1>1, SMT DEF Lock!Init, Lock!State, Lock!Nothing, LockInv, LockStates, Presses, Codes, Spells,
                   Lock!GrantedOnlyForCode, Lock!CodeIsGranted

\* and every step of the bench keeps it.
LEMMA LockNext == LockInv /\ [Next]_vars => LockInv'
<1>. SUFFICES ASSUME LockInv, [Next]_vars, dev' = "lock" PROVE LockInv'
  BY DEF LockInv
<1>1. dev = "lock"
  BY DEF Next, Is, vars
<1>2. CASE Lock!Next
  BY <1>1, <1>2, LockPress, LockMessages DEF Lock!Next, LockInv
<1>3. CASE UNCHANGED <<a, b>>
  BY <1>1, <1>3 DEF LockInv, Spells, Lock!GrantedOnlyForCode, Lock!CodeIsGranted, Lock!Spelt
<1>. QED BY <1>1, <1>2, <1>3 DEF Next, Is, vars

\* The lock opens after presses that spell a code, and to whoever types one key by key
\* (fsm.vhd, next_state_logic).
THEOREM LockOpensForCodeAlways == Spec => []LockOpensForCode
<1>1. LockInv => LockOpensForCode
  BY DEF LockInv, LockOpensForCode
<1>. QED BY <1>1, LockStarts, LockNext, PTL DEF Spec
-----------------------------------------------------------------------------
\* The proxy's invariant, when it is the proxy that is on the bench.
ProxyInv == dev = "proxy" => DP!ProxyInv

\* Its bounds are ones the proofs allow.
LEMMA ProxyBounds == DP!ProxySizes
<1>1. Options \subseteq [delay : Nat, jitter : Nat]
  BY SMT DEF Options
<1>. QED BY <1>1 DEF DP!ProxySizes

\* The proxy of the bench and that of the proofs are the same: the slots,
LEMMA SameSlots ==
  /\ Proxy!Slots = DP!Proxy!Slots /\ Proxy!Free = DP!Proxy!Free
  /\ \A p : Proxy!Empty(p) = DP!Proxy!Empty(p)
  /\ \A p : Proxy!FirstEmpty(p) = DP!Proxy!FirstEmpty(p)
  /\ \A x : Proxy!Left(x) = DP!Proxy!Left(x)
  /\ \A p : Proxy!Due(p) = DP!Proxy!Due(p)
  /\ \A S : Proxy!Ordered(S) = DP!Proxy!Ordered(S)
<1>1. Proxy!Slots = DP!Proxy!Slots /\ Proxy!Free = DP!Proxy!Free
  BY DEF Proxy!Slots, DP!Proxy!Slots, Proxy!Free, DP!Proxy!Free
<1>2. \A p : Proxy!Empty(p) = DP!Proxy!Empty(p)
  BY <1>1, Zenon DEF Proxy!Empty, DP!Proxy!Empty
<1>3. \A p : Proxy!FirstEmpty(p) = DP!Proxy!FirstEmpty(p)
  BY <1>2, Zenon DEF Proxy!FirstEmpty, DP!Proxy!FirstEmpty
<1>4. \A x : Proxy!Left(x) = DP!Proxy!Left(x)
  BY DEF Proxy!Left, DP!Proxy!Left
<1>5. \A p : Proxy!Due(p) = DP!Proxy!Due(p)
  BY <1>1, <1>4, Zenon DEF Proxy!Due, DP!Proxy!Due
<1>6. \A S : Proxy!Cardinality(S) = DP!Proxy!Cardinality(S)
  BY DEF Proxy!Cardinality, DP!Proxy!Cardinality, Proxy!IsFiniteSet, DP!Proxy!IsFiniteSet
<1>7. \A S : Proxy!Ordered(S) = DP!Proxy!Ordered(S)
  BY <1>6, Zenon DEF Proxy!Ordered, DP!Proxy!Ordered
<1>. QED BY <1>1, <1>2, <1>3, <1>4, <1>5, <1>7

\* the main loop,
LEMMA SameProxyMain == (Proxy!Init <=> DP!Proxy!Init) /\ (Proxy!Main <=> DP!Proxy!Main)
                       /\ (Proxy!Arrive <=> DP!Proxy!Arrive)
<1>1. Proxy!Delays = DP!Proxy!Delays
  BY DEF Proxy!Delays, DP!Proxy!Delays
<1>2. Proxy!Select <=> DP!Proxy!Select
  BY DEF Proxy!Select, DP!Proxy!Select
<1>3. \A S : Proxy!Cardinality(S) = DP!Proxy!Cardinality(S)
  BY DEF Proxy!Cardinality, DP!Proxy!Cardinality, Proxy!IsFiniteSet, DP!Proxy!IsFiniteSet
<1>4. Proxy!Receive <=> DP!Proxy!Receive
  <2>. DEFINE here(w) == [s \in {"alice", "bob"} |->
                            IF s \in d /\ Proxy!Empty(b[s]) # {}
                            THEN [b[s] EXCEPT ![Proxy!FirstEmpty(b[s])] = [timeout |-> w[s], came |-> g]]
                            ELSE b[s]]
              there(w) == [s \in {"alice", "bob"} |->
                            IF s \in d /\ DP!Proxy!Empty(b[s]) # {}
                            THEN [b[s] EXCEPT ![DP!Proxy!FirstEmpty(b[s])] = [timeout |-> w[s], came |-> g]]
                            ELSE b[s]]
              counted == [f EXCEPT !.received = @ + Proxy!Cardinality(d),
                                   !.dropped = @ + Proxy!Cardinality({s \in d : Proxy!Empty(b[s]) = {}})]
              counts == [f EXCEPT !.received = @ + DP!Proxy!Cardinality(d),
                                  !.dropped = @ + DP!Proxy!Cardinality({s \in d : DP!Proxy!Empty(b[s]) = {}})]
              rest == /\ d # {} /\ d' = {}
                      /\ c' = [s \in {"alice", "bob"} |-> IF s \in d THEN [c[s] EXCEPT !.now = @ - 1] ELSE c[s]]
                      /\ UNCHANGED <<a, e, g>>
  <2>1. \A w : here(w) = there(w)
    BY SameSlots, Zenon
  <2>2. counted = counts
    BY <1>3, SameSlots, Zenon
  <2>3. Proxy!Receive <=> rest /\ (\E w \in [d -> Proxy!Delays] : b' = here(w)) /\ f' = counted
    BY Zenon DEF Proxy!Receive
  <2>4. DP!Proxy!Receive <=> rest /\ (\E w \in [d -> DP!Proxy!Delays] : b' = there(w)) /\ f' = counts
    BY Zenon DEF DP!Proxy!Receive
  <2>. HIDE DEF here, there, counted, counts, rest
  <2>. QED BY <2>1, <2>2, <2>3, <2>4, <1>1
<1>5. Proxy!Init <=> DP!Proxy!Init
  BY SameSlots, ZenonT(60) DEF Proxy!Init, DP!Proxy!Init
<1>6. Proxy!Arrive <=> DP!Proxy!Arrive
  BY DEF Proxy!Arrive, DP!Proxy!Arrive
<1>. QED BY <1>2, <1>4, <1>5, <1>6 DEF Proxy!Main, DP!Proxy!Main

\* and the alarm.
LEMMA SameAlarm == Proxy!SigAlrm <=> DP!Proxy!SigAlrm
  BY SameSlots, ZenonT(60) DEF Proxy!SigAlrm, DP!Proxy!SigAlrm

\* The invariant holds at the start,
LEMMA ProxyStarts == Init => ProxyInv
<1>1. DP!ProxySizes /\ DP!Proxy!Init => DP!ProxyInv
  BY DP!ProxyInit
<1>. QED BY <1>1, SameProxyMain, ProxyBounds DEF Init, ProxyInv

\* and every step of the bench keeps it.
LEMMA ProxyNext == ProxyInv /\ [Next]_vars => ProxyInv'
<1>. SUFFICES ASSUME ProxyInv, [Next]_vars, dev' = "proxy" PROVE DP!ProxyInv'
  BY DEF ProxyInv
<1>1. DP!ProxySizes /\ DP!ProxyInv /\ [DP!Proxy!Next]_(DP!Proxy!vars) => DP!ProxyInv'
  BY DP!ProxyStep
<1>2. dev = "proxy"
  BY DEF Next, Is, vars
<1>3. Proxy!Next => DP!Proxy!Next
  BY SameProxyMain, SameAlarm DEF Proxy!Next, DP!Proxy!Next
<1>4. DP!Proxy!Next \/ UNCHANGED DP!Proxy!vars
  BY <1>2, <1>3 DEF Next, Is, vars, DP!Proxy!vars
<1>. QED BY <1>1, <1>2, <1>4, ProxyBounds DEF ProxyInv

\* On the bench: without jitter packets keep their order
\* (udtproxy.c, sigalrm_handler).
THEOREM ProxyKeepsOrder == Spec => [](dev = "proxy" => Proxy!InOrder)
<1>1. DP!ProxyInv => DP!Proxy!InOrder
  BY DP!SentInOrder
<1>2. ProxyInv => (dev = "proxy" => Proxy!InOrder)
  BY <1>1 DEF ProxyInv, Proxy!InOrder, DP!Proxy!InOrder
<1>. QED BY <1>2, ProxyStarts, ProxyNext, PTL DEF Spec
(***************************************************************************)
(* OrderIsKept: the answers of the relay go out in order and lag behind by *)
(* the waits given up (main.cc, process), and the packets of the proxy     *)
(* keep their order without jitter (udtproxy.c, sigalrm_handler).          *)
(***************************************************************************)
THEOREM OrderIsKeptAlways == Spec => []OrderIsKept
<1>1. FatekInOrder /\ (dev = "proxy" => Proxy!InOrder) => OrderIsKept
  BY DEF OrderIsKept
<1>. QED BY <1>1, FatekInOrderAlways, ProxyKeepsOrder, PTL
-----------------------------------------------------------------------------
\* The processor's invariant, when it is the processor that is on the bench.
ProcessorInv == dev = "cpu" => DP!CpuInv

\* The interpreter of the bench and that of the proofs are the same,
LEMMA SameInterpreter ==
  /\ \A p : Bf!Balanced(p) <=> DP!Cpu!Interpreter!Balanced(p)
  /\ Cpu!Interpreter!Cell = DP!Cpu!Interpreter!Cell
  /\ Cpu!Interpreter!Start = DP!Cpu!Interpreter!Start
  /\ \A p, x : Cpu!Interpreter!Fetch(p, x) = DP!Cpu!Interpreter!Fetch(p, x)
  /\ Cpu!Interpreter!Execute <=> DP!Cpu!Interpreter!Execute
<1>1. \A S : /\ Bf!Cardinality(S) = DP!Cpu!Interpreter!Cardinality(S)
             /\ Cpu!Interpreter!Cardinality(S) = DP!Cpu!Interpreter!Cardinality(S)
  BY DEF Bf!Cardinality, Cpu!Interpreter!Cardinality, DP!Cpu!Interpreter!Cardinality,
         Bf!IsFiniteSet, Cpu!Interpreter!IsFiniteSet, DP!Cpu!Interpreter!IsFiniteSet
<1>2. \A p : /\ Bf!Depth(p) = DP!Cpu!Interpreter!Depth(p)
             /\ Cpu!Interpreter!Depth(p) = DP!Cpu!Interpreter!Depth(p)
  BY <1>1, Zenon DEF Bf!Depth, Cpu!Interpreter!Depth, DP!Cpu!Interpreter!Depth
<1>3. \A p : Bf!Balanced(p) <=> DP!Cpu!Interpreter!Balanced(p)
  BY <1>2, Zenon DEF Bf!Balanced, DP!Cpu!Interpreter!Balanced
<1>4. /\ Cpu!Interpreter!Cell = DP!Cpu!Interpreter!Cell
      /\ Cpu!Interpreter!Start = DP!Cpu!Interpreter!Start
      /\ \A p, x : Cpu!Interpreter!Fetch(p, x) = DP!Cpu!Interpreter!Fetch(p, x)
  BY Zenon DEF Cpu!Interpreter!Cell, Cpu!Interpreter!Start, Cpu!Interpreter!Fetch,
               DP!Cpu!Interpreter!Cell, DP!Cpu!Interpreter!Start, DP!Cpu!Interpreter!Fetch
<1>5. \A p, x : Cpu!Interpreter!Close(p, x) = DP!Cpu!Interpreter!Close(p, x)
  BY <1>2, Zenon DEF Cpu!Interpreter!Close, DP!Cpu!Interpreter!Close
<1>6. \A p, x : Cpu!Interpreter!Open(p, x) = DP!Cpu!Interpreter!Open(p, x)
  BY <1>5, Zenon DEF Cpu!Interpreter!Open, DP!Cpu!Interpreter!Open
<1>7. \A x, s : Cpu!Interpreter!Do(x, s) = DP!Cpu!Interpreter!Do(x, s)
  BY <1>5, <1>6, ZenonT(60) DEF Cpu!Interpreter!Do, DP!Cpu!Interpreter!Do
<1>8. Cpu!Interpreter!Execute <=> DP!Cpu!Interpreter!Execute
  BY <1>4, <1>7, Zenon DEF Cpu!Interpreter!Execute, DP!Cpu!Interpreter!Execute
<1>. QED BY <1>3, <1>4, <1>8

\* the programs are ones it is defined for,
LEMMA ProcessorBounds == DP!CpuSizes
<1>1. ASSUME NEW n \in 1 .. 3, NEW p \in [1 .. n -> Instructions] PROVE p \in Seq(Instructions)
  BY SMT
<1>2. Loops \subseteq Seq(Instructions)
  <2>. DEFINE Some == {">", "<", "+", "-", "[", "]", "."}
  <2>1. /\ <<"+", "[", ">", "+", "[", "-", "]", "<", "-", "]", ".">> \in Seq(Some)
        /\ <<"+", "[", "[", "-", "]", "+", "]">> \in Seq(Some)
        /\ <<"+", "+", "[", "-", "[", "-", "]", "+", "+", "]", ".">> \in Seq(Some)
        /\ <<"+", ">", "+", "[", "<", "+", "[", ">", "-", "]", "+", "<", ".", "]">> \in Seq(Some)
    BY SMT
  <2>2. Some \subseteq Instructions
    BY Zenon DEF Instructions
  <2>. HIDE DEF Some
  <2>3. Seq(Some) \subseteq Seq(Instructions)
    BY <2>2, SMT
  <2>4. \A p \in Loops : p \in Seq(Some)
    BY <2>1, Zenon DEF Loops
  <2>. QED BY <2>3, <2>4, Zenon
<1>3. \A p \in Programs : p \in Seq(Instructions) /\ Bf!Balanced(p)
  <2>. SUFFICES ASSUME NEW p \in Programs PROVE p \in Seq(Instructions) /\ Bf!Balanced(p)
    OBVIOUS
  <2>1. /\ p \in Loops \union UNION {[1 .. n -> Instructions] : n \in 1 .. 3}
        /\ Bf!Balanced(p)
    BY Zenon DEF Programs
  <2>2. (\E n \in 1 .. 3 : p \in [1 .. n -> Instructions]) \/ p \in Loops
    <3>1. \A x \in UNION {[1 .. n -> Instructions] : n \in 1 .. 3} : \E n \in 1 .. 3 : x \in [1 .. n -> Instructions]
      BY SMT
    <3>. QED BY <2>1, <3>1, Zenon
  <2>. QED BY <2>1, <2>2, <1>1, <1>2, Zenon
<1>4. 2 \in Nat \ {0}
  OBVIOUS
<1>. QED BY <1>3, <1>4, SameInterpreter DEF DP!CpuSizes

\* and so are the processors.
LEMMA SameProcessor ==
  /\ Cpu!Init <=> DP!Cpu!Init
  /\ Cpu!Next <=> DP!Cpu!Next
  /\ Cpu!DoesAsInterpreter <=> DP!Cpu!DoesAsInterpreter
<1>1. Cpu!Init <=> DP!Cpu!Init
  BY SameInterpreter, Zenon DEF Cpu!Init, DP!Cpu!Init
<1>2. /\ Cpu!Fetched = DP!Cpu!Fetched /\ (Cpu!Read <=> DP!Cpu!Read)
      /\ \A x : (Cpu!Pc(x) <=> DP!Cpu!Pc(x)) /\ (Cpu!Write(x) <=> DP!Cpu!Write(x))
                /\ (Cpu!Goto(x) <=> DP!Cpu!Goto(x))
  BY SameInterpreter, Zenon
     DEF Cpu!Fetched, DP!Cpu!Fetched, Cpu!Read, DP!Cpu!Read, Cpu!Pc, DP!Cpu!Pc,
         Cpu!Write, DP!Cpu!Write, Cpu!Goto, DP!Cpu!Goto
<1>3. Cpu!FetchDecode <=> DP!Cpu!FetchDecode
  BY <1>2, Zenon DEF Cpu!FetchDecode, DP!Cpu!FetchDecode
<1>4. Cpu!Move <=> DP!Cpu!Move
  BY <1>2, SameInterpreter, Zenon DEF Cpu!Move, DP!Cpu!Move
<1>5. Cpu!Count <=> DP!Cpu!Count
  BY <1>2, Zenon DEF Cpu!Count, DP!Cpu!Count
<1>6. Cpu!Getc <=> DP!Cpu!Getc
  BY <1>2, Zenon DEF Cpu!Getc, DP!Cpu!Getc
<1>7. Cpu!Putc <=> DP!Cpu!Putc
  BY <1>2, Zenon DEF Cpu!Putc, DP!Cpu!Putc
<1>8. Cpu!While <=> DP!Cpu!While
  BY <1>2, Zenon DEF Cpu!While, DP!Cpu!While
<1>9. Cpu!EndWhile <=> DP!Cpu!EndWhile
  BY <1>2, Zenon DEF Cpu!EndWhile, DP!Cpu!EndWhile
<1>10. Cpu!Ended <=> DP!Cpu!Ended
  BY Zenon DEF Cpu!Ended, DP!Cpu!Ended
<1>11. Cpu!DoesAsInterpreter <=> DP!Cpu!DoesAsInterpreter
  BY SameInterpreter, Zenon DEF Cpu!DoesAsInterpreter, DP!Cpu!DoesAsInterpreter
<1>. QED
  BY <1>1, <1>3, <1>4, <1>5, <1>6, <1>7, <1>8, <1>9, <1>10, <1>11, Zenon DEF Cpu!Next, DP!Cpu!Next

\* The invariant holds at the start,
LEMMA ProcessorStarts == Init => ProcessorInv
<1>1. DP!CpuSizes /\ DP!Cpu!Init => DP!CpuInv
  BY DP!CpuInit
<1>. QED BY <1>1, SameProcessor, ProcessorBounds DEF Init, ProcessorInv

\* and every step of the bench keeps it and the interpreter's pace.
LEMMA ProcessorNext ==
  ProcessorInv /\ [Next]_vars => ProcessorInv' /\ [dev = "cpu" => Cpu!DoesAsInterpreter]_vars
<1>. SUFFICES ASSUME ProcessorInv, [Next]_vars
              PROVE  ProcessorInv' /\ (dev = "cpu" => Cpu!DoesAsInterpreter)
  OBVIOUS
<1>1. dev' = dev
  BY DEF Next, Is, vars
<1>2. CASE dev # "cpu"
  BY <1>1, <1>2 DEF ProcessorInv
<1>3. CASE dev = "cpu"
  <2>1. DP!CpuSizes /\ DP!CpuInv /\ DP!Cpu!Next => DP!CpuInv' /\ DP!Cpu!DoesAsInterpreter
    BY DP!CpuStep
  <2>2. DP!CpuInv /\ UNCHANGED DP!Cpu!vars => DP!CpuInv' /\ DP!Cpu!DoesAsInterpreter
    BY DP!CpuStutters
  <2>3. DP!Cpu!Next \/ UNCHANGED DP!Cpu!vars
    BY <1>3, SameProcessor DEF Next, Is, vars, DP!Cpu!vars
  <2>. QED BY <2>1, <2>2, <2>3, <1>1, <1>3, ProcessorBounds, SameProcessor DEF ProcessorInv
<1>. QED BY <1>2, <1>3

\* From instruction to instruction the processor does as the interpreter (cpu.vhd, fsm_nsl).
THEOREM ProcessorDoesAsInterpreter == Spec => CpuDoesAsInterpreter
<1>. QED BY ProcessorStarts, ProcessorNext, PTL DEF Spec, CpuDoesAsInterpreter
-----------------------------------------------------------------------------
\* The graph on the bench is coloured as that of the proofs.
GraphOnBench == dev = "graph" => \E all \in Nat : DP!GraphInv(all)

\* The matrices of the two are the same,
LEMMA SameMatrix ==
  /\ \A n, r, c1 : Graph!matrix_at(n, r, c1) = DP!Graph!matrix_at(n, r, c1)
  /\ \A n : Graph!matrix_count(n) = DP!Graph!matrix_count(n)
  /\ \A n : Graph!Pairs(n) = DP!Graph!Pairs(n)
  /\ \A mx, l1, r : Graph!matrix_join(mx, l1, r) = DP!Graph!matrix_join(mx, l1, r)
  /\ \A mx, v : Graph!matrix_delete(mx, v) = DP!Graph!matrix_delete(mx, v)
  /\ \A mx, v : Graph!Deletable(mx, v) <=> DP!Graph!Deletable(mx, v)
<1>1. /\ \A n, r, c1 : Graph!matrix_at(n, r, c1) = DP!Graph!matrix_at(n, r, c1)
      /\ \A n : Graph!matrix_count(n) = DP!Graph!matrix_count(n)
  BY Zenon DEF Graph!matrix_at, DP!Graph!matrix_at, Graph!matrix_count, DP!Graph!matrix_count
<1>2. \A n : Graph!Pairs(n) = DP!Graph!Pairs(n)
  BY Zenon DEF Graph!Pairs, DP!Graph!Pairs
<1>4. \A mx, l1, r : Graph!matrix_join(mx, l1, r) = DP!Graph!matrix_join(mx, l1, r)
  BY Zenon DEF Graph!matrix_join, Graph!matrix_set, Graph!matrix_get, Graph!matrix_at,
               DP!Graph!matrix_join, DP!Graph!matrix_set, DP!Graph!matrix_get, DP!Graph!matrix_at
<1>6. \A mx, v : Graph!matrix_delete(mx, v) = DP!Graph!matrix_delete(mx, v)
  BY SMT DEF Graph!matrix_delete, Graph!Places, Graph!Moves, Graph!memmove, Graph!matrix_at, Graph!matrix_count,
               DP!Graph!matrix_delete, DP!Graph!Places, DP!Graph!Moves, DP!Graph!memmove, DP!Graph!matrix_at,
               DP!Graph!matrix_count
<1>7. \A mx, v : Graph!Deletable(mx, v) <=> DP!Graph!Deletable(mx, v)
  BY Zenon DEF Graph!Deletable, DP!Graph!Deletable, Graph!Moves, DP!Graph!Moves
<1>. QED BY <1>1, <1>2, <1>4, <1>6, <1>7

\* and so are their steps and their colours.
LEMMA SameColouring ==
  /\ Graph!Init <=> DP!Graph!Init
  /\ Graph!Next <=> DP!Graph!Next
  /\ Graph!Coloured <=> DP!Graph!Coloured
<1>1. Graph!Init <=> DP!Graph!Init
  BY Zenon DEF Graph!Init, Graph!Pairs, Graph!matrix_at, Graph!matrix_count,
               DP!Graph!Init, DP!Graph!Pairs, DP!Graph!matrix_at, DP!Graph!matrix_count
<1>2. Graph!non_neighbour_vertices = DP!Graph!non_neighbour_vertices
  BY SameMatrix, Zenon DEF Graph!non_neighbour_vertices, DP!Graph!non_neighbour_vertices
<1>3. /\ \A p, q : Graph!Before(p, q) <=> DP!Graph!Before(p, q)
      /\ \A to, from : Graph!vertex_join(to, from) = DP!Graph!vertex_join(to, from)
      /\ \A s, n : Graph!RemoveAt(s, n) = DP!Graph!RemoveAt(s, n)
      /\ \A s : Graph!ToSet(s) = DP!Graph!ToSet(s)
  BY Zenon DEF Graph!Before, DP!Graph!Before, Graph!vertex_join, DP!Graph!vertex_join,
               Graph!RemoveAt, DP!Graph!RemoveAt, Graph!ToSet, DP!Graph!ToSet
<1>4. Graph!Join <=> DP!Graph!Join
  BY <1>2, <1>3, SameMatrix, Zenon DEF Graph!Join, DP!Graph!Join
<1>5. Graph!Complete <=> DP!Graph!Complete
  BY <1>2, Zenon DEF Graph!Complete, DP!Graph!Complete
<1>6. /\ \A x, y : Graph!Apart(x, y) <=> DP!Graph!Apart(x, y)
      /\ \A n : Graph!Colour(n) = DP!Graph!Colour(n)
  BY <1>3, Zenon DEF Graph!Apart, DP!Graph!Apart, Graph!Colour, DP!Graph!Colour
<1>7. Graph!OneColour <=> DP!Graph!OneColour
  BY Zenon DEF Graph!OneColour, Graph!Colour, Graph!ToSet, DP!Graph!OneColour, DP!Graph!Colour, DP!Graph!ToSet
<1>8. Graph!Coloured <=> DP!Graph!Coloured
  BY <1>6, <1>7, Zenon DEF Graph!Coloured, DP!Graph!Coloured
<1>. QED BY <1>1, <1>4, <1>5, <1>8 DEF Graph!Next, DP!Graph!Next

\* The invariant holds at the start, and every step of the bench keeps it.
LEMMA GraphOfBenchInit == Init => GraphOnBench
<1>1. 1 .. 5 \subseteq Nat /\ DP!Graph!Init => \E all \in Nat : DP!GraphInv(all)
  BY DP!GraphStarts
<1>2. 1 .. 5 \subseteq Nat
  BY SMT
<1>. QED BY <1>1, <1>2, SameColouring DEF Init, GraphOnBench

LEMMA GraphOfBenchNext == GraphOnBench /\ [Next]_vars => GraphOnBench'
<1>. SUFFICES ASSUME GraphOnBench, [Next]_vars, dev' = "graph" PROVE \E all \in Nat : DP!GraphInv(all)'
  BY DEF GraphOnBench
<1>1. dev = "graph"
  BY DEF Next, Is, vars
<1>2. DP!Graph!Next \/ UNCHANGED DP!Graph!vars
  BY <1>1, SameColouring DEF Next, Is, vars, DP!Graph!vars
<1>3. PICK all \in Nat : DP!GraphInv(all)
  BY <1>1 DEF GraphOnBench
<1>4. DP!GraphInv(all) /\ [DP!Graph!Next]_(DP!Graph!vars) => DP!GraphInv(all)'
  BY DP!GraphSteps
<1>. QED BY <1>2, <1>3, <1>4

\* Every vertex has one colour, neighbours have two, and no two colours could be one; only a
\* graph without an edge is not coloured (graph.c, ial_graph_complete, matrix.c, ial_matrix_delete).
THEOREM GraphIsColouredAlways == Spec => []GraphIsColoured
<1>1. ASSUME NEW all \in Nat PROVE DP!GraphInv(all) => DP!Graph!Coloured
  BY DP!GraphShows
<1>2. GraphOnBench => GraphIsColoured
  BY <1>1, SameColouring DEF GraphOnBench, GraphIsColoured
<1>. QED BY <1>2, GraphOfBenchInit, GraphOfBenchNext, PTL DEF Spec

-----------------------------------------------------------------------------
\* The invariant of the output unit, for the frame on its line.
OutOnBench == dev = "out" => \E fr \in DP!Frames : DP!OutInv(fr)

\* Its sizes are ones the proofs allow.
LEMMA OutBounds == DP!OutSizes
  BY SMT DEF DP!OutSizes, DP!Out!FrameChars

\* The output unit of the bench and that of the proofs are the same.
LEMMA SameOutSigns ==
  /\ Out!Colon = DP!Out!Colon /\ Out!Cr = DP!Out!Cr /\ Out!Lf = DP!Out!Lf /\ Out!Chars = DP!Out!Chars
  /\ Out!Command = DP!Out!Command /\ \A cmd, v : Out!FrameOf(cmd, v) = DP!Out!FrameOf(cmd, v)
<1>1. /\ Out!Colon = DP!Out!Colon /\ Out!Cr = DP!Out!Cr /\ Out!Lf = DP!Out!Lf /\ Out!Junk = DP!Out!Junk
      /\ Out!Command = DP!Out!Command
  BY Zenon DEF Out!Colon, DP!Out!Colon, Out!Cr, DP!Out!Cr, Out!Lf, DP!Out!Lf, Out!Junk, DP!Out!Junk,
               Out!Command, DP!Out!Command
<1>2. Out!Chars = DP!Out!Chars
  BY <1>1, Zenon DEF Out!Chars, DP!Out!Chars
<1>3. \A n : Out!Hi(n) = DP!Out!Hi(n) /\ Out!Lo(n) = DP!Out!Lo(n)
  BY Zenon DEF Out!Hi, DP!Out!Hi, Out!Lo, DP!Out!Lo
<1>4. \A cmd, v : Out!Lrc(cmd, v) = DP!Out!Lrc(cmd, v)
  BY Zenon DEF Out!Lrc, DP!Out!Lrc
<1>5. \A cmd, v : Out!FrameOf(cmd, v) = DP!Out!FrameOf(cmd, v)
  BY <1>1, <1>3, <1>4, Zenon DEF Out!FrameOf, DP!Out!FrameOf
<1>. QED BY <1>1, <1>2, <1>5

LEMMA SameOutUnit ==
  /\ Out!Init <=> DP!Out!Init
  /\ Out!Next <=> DP!Out!Next
  /\ Out!WholeIsObeyed <=> DP!Out!WholeIsObeyed
  /\ Out!OnlyWhatWasSent <=> DP!Out!OnlyWhatWasSent
<1>1. Out!Init <=> DP!Out!Init
  BY Zenon DEF Out!Init, DP!Out!Init
<1>2. Out!Begin <=> DP!Out!Begin
  BY SameOutSigns, Zenon DEF Out!Begin, DP!Out!Begin
<1>3. Out!Arrive <=> DP!Out!Arrive
  BY SameOutSigns, Zenon DEF Out!Arrive, DP!Out!Arrive
<1>4. (Out!Lost <=> DP!Out!Lost) /\ (Out!TimedOut <=> DP!Out!TimedOut) /\ (Out!Overrun <=> DP!Out!Overrun)
  BY Zenon DEF Out!Lost, DP!Out!Lost, Out!TimedOut, DP!Out!TimedOut, Out!Overrun, DP!Out!Overrun
<1>5. (Out!StartOfFrame <=> DP!Out!StartOfFrame) /\ \A ch : Out!ConcatChar(ch) <=> DP!Out!ConcatChar(ch)
  BY Zenon DEF Out!StartOfFrame, DP!Out!StartOfFrame, Out!ConcatChar, DP!Out!ConcatChar
<1>6. Out!Getc <=> DP!Out!Getc
  BY <1>5, SameOutSigns, Zenon DEF Out!Getc, DP!Out!Getc
<1>7. /\ \A s : (Out!IsHex(s) <=> DP!Out!IsHex(s)) /\ Out!Bytes(s) = DP!Out!Bytes(s)
      /\ Out!FrameChars = DP!Out!FrameChars
  BY Zenon DEF Out!IsHex, DP!Out!IsHex, Out!Bytes, DP!Out!Bytes, Out!FrameChars, DP!Out!FrameChars
<1>8. Out!Accepted <=> DP!Out!Accepted
  BY <1>7, SameOutSigns, Zenon DEF Out!Accepted, DP!Out!Accepted
<1>9. Out!Control <=> DP!Out!Control
  BY <1>7, <1>8, Zenon DEF Out!Control, DP!Out!Control
<1>10. (Out!WholeIsObeyed <=> DP!Out!WholeIsObeyed) /\ (Out!OnlyWhatWasSent <=> DP!Out!OnlyWhatWasSent)
  BY Zenon DEF Out!WholeIsObeyed, DP!Out!WholeIsObeyed, Out!OnlyWhatWasSent, DP!Out!OnlyWhatWasSent
<1>. QED
  BY <1>1, <1>2, <1>3, <1>4, <1>6, <1>9, <1>10, Zenon DEF Out!Next, DP!Out!Next

\* The invariant holds at the start,
LEMMA OutOfBenchInit == Init => OutOnBench
<1>1. DP!OutSizes /\ DP!Out!Init => \E fr \in DP!Frames : DP!OutInv(fr)
  BY DP!OutStarts
<1>. QED BY <1>1, OutBounds, SameOutUnit DEF Init, OutOnBench

\* and every step of the bench keeps it, and sets the outputs to what was sent.
LEMMA OutOfBenchNext ==
  OutOnBench /\ [Next]_vars => OutOnBench' /\ [dev = "out" => Out!OnlyWhatWasSent]_vars
<1>. SUFFICES ASSUME OutOnBench, [Next]_vars, dev = "out" \/ dev' = "out"
              PROVE  (\E fr \in DP!Frames : DP!OutInv(fr)') /\ Out!OnlyWhatWasSent
  BY DEF OutOnBench
<1>1. dev = "out"
  BY DEF Next, Is, vars
<1>2. DP!Out!Next \/ UNCHANGED DP!Out!vars
  BY <1>1, SameOutUnit DEF Next, Is, vars, DP!Out!vars
<1>3. PICK fr \in DP!Frames : DP!OutInv(fr)
  BY <1>1 DEF OutOnBench
<1>4. DP!OutSizes /\ DP!OutInv(fr) /\ [DP!Out!Next]_(DP!Out!vars) => \E h1 \in DP!Frames : DP!OutInv(h1)'
  BY DP!OutSteps
<1>5. DP!OutSizes /\ DP!OutInv(fr) /\ [DP!Out!Next]_(DP!Out!vars) => DP!Out!OnlyWhatWasSent
  BY DP!OutOnlySent
<1>. QED BY <1>2, <1>3, <1>4, <1>5, OutBounds, SameOutUnit

\* The outputs take only what the master sent last or before, though one character comes as
\* another, and a frame that comes whole is obeyed (output.c, main and control_frame).
THEOREM OutObeysAlways == Spec => OutObeys
<1>1. ASSUME NEW fr PROVE DP!OutSizes /\ DP!OutInv(fr) => DP!Out!WholeIsObeyed
  BY DP!OutObeyed
<1>2. OutOnBench => (dev = "out" => Out!WholeIsObeyed)
  BY <1>1, OutBounds, SameOutUnit DEF OutOnBench
<1>. QED BY <1>2, OutOfBenchInit, OutOfBenchNext, PTL DEF Spec, OutObeys
=============================================================================
