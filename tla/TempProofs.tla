----------------------------- MODULE TempProofs -----------------------------
(***************************************************************************)
(* The temperature sensor, for every length of a frame, time of a          *)
(* conversion and number of requests, faults and failed detections: Inv is *)
(* inductive, a step that changes what the master has asked or heard is    *)
(* one of ModbusSlave, and a conversion is read when its time is over.     *)
(***************************************************************************)
EXTENDS TempSensor, TLAPS, SequenceTheorems

\* The constants: a frame holds something, and none is neither a request nor an answer.
Sizes == /\ MaxLen \in Nat \ {0} /\ TConv \in Nat /\ Refresh \in Nat
         /\ none \notin Requests /\ none \notin {"temp", "refused"}

States == {"INIT", "IDLE", "RECEPTION", "CONTROL", "EMISSION"}
Places == {"detect", "loop", "read", "read_done", "conv", "switch", "waitcw", "check",
           "waitidle", "process", "emit"}

Masters == [req : Requests \cup {none}, left : Nat, frames : Nat, faults : Nat,
            broken : BOOLEAN, missed : BOOLEAN]
Sensors == [st : {"NOTINIT", "WAITING", "PENDING"}, cnt : Nat, conv : BOOLEAN,
            read : BOOLEAN, age : Nat, fails : Nat]

TypeOK ==
  /\ mb \in States /\ ferr \in BOOLEAN /\ t2 \in {"off", "run", "char"} /\ pc \in Places
  /\ moved \in BOOLEAN /\ line \in {none, "temp", "refused"}
  /\ m \in Masters
  /\ m.left > 0 => m.req \in Requests /\ m.left <= Length(m.req)
  /\ w1 \in Sensors

\* While a request is taken in, the frame holds characters of it only, from those sent.
Hearing == mb \in {"RECEPTION", "CONTROL"} \/ pc \in {"waitidle", "process"}
Heard ==
  Hearing => /\ m.req \in Requests /\ line = none
             /\ frame \in Seq(Requests \X Nat)
             /\ \A i \in 1..Len(frame) : frame[i][1] = m.req /\ frame[i][2] <= Length(m.req) - m.left

\* Where the main loop is when the state of the line is what it waits for.
InStep ==
  /\ pc = "waitcw" => mb \in {"RECEPTION", "CONTROL"}
  /\ pc = "check" => mb = "CONTROL"
  /\ pc = "waitidle" => mb \in {"CONTROL", "IDLE"} /\ frame = Whole(m.req) /\ m.left = 0
                        /\ (mb = "IDLE" => t2 = "off")
  /\ pc = "process" => mb = "IDLE" /\ frame = Whole(m.req) /\ m.left = 0 /\ t2 = "off"
  /\ pc = "emit" => mb = "EMISSION" /\ frame # <<>>
  /\ mb = "RECEPTION" => t2 = "run"

Speaking ==
  /\ mb = "EMISSION" /\ frame # <<>> =>
       /\ m.req \in Requests /\ AnswerOf[m.req] # none /\ frame = <<AnswerOf[m.req]>>
       /\ m.left = 0 /\ line = none /\ t2 = "off"
  /\ line # none => m.left = 0

\* The count of ticks runs ahead of the age by one, and by the detections that failed.
Ageing ==
  /\ w1.st = "NOTINIT" => pc = "detect" /\ w1.conv /\ ~ w1.read /\ w1.cnt <= w1.fails
  /\ pc = "detect" => w1.st = "NOTINIT"
  /\ pc = "conv" => (w1.st = "PENDING" \/ w1.read) /\ w1.age <= 1
  /\ ~ (w1.conv /\ w1.read)
  /\ w1.conv => w1.cnt <= w1.fails /\ w1.st # "PENDING" /\ pc # "conv"
  /\ w1.st = "PENDING" => w1.cnt <= w1.age + w1.fails + (IF pc = "conv" THEN 0 ELSE 1)
  /\ w1.st = "PENDING" => ~ w1.read
  /\ w1.read \/ pc = "read" => w1.age + 1 + w1.fails >= TConv
  /\ w1.read /\ pc = "conv" => 1 + w1.fails >= TConv
  /\ pc = "read" => w1.st # "PENDING"

\* What is inductive.
Inv == TypeOK /\ Heard /\ InStep /\ Speaking /\ Ageing
-----------------------------------------------------------------------------
\* Every request has at least one character.
LEMMA Lengths == Sizes => \A r \in Requests : Length(r) \in Nat \ {0}
  BY SMT DEF Sizes, Length, Requests

\* The invariant holds when the unit is switched on (main.c, main).
LEMMA InvInit == ASSUME Sizes, Init PROVE Inv
<1>1. TypeOK
  <2>1. m \in Masters /\ ~ m.left > 0
    BY SMT DEF Init, Masters
  <2>2. w1 \in Sensors
    BY SMT DEF Init, Sensors
  <2>. QED BY <2>1, <2>2 DEF Init, TypeOK, States, Places
<1>2. Heard
  BY SMT DEF Init, Heard, Hearing
<1>3. InStep /\ Speaking
  BY SMT DEF Init, InStep, Speaking
<1>4. Ageing
  BY SMT DEF Init, Ageing
<1>. QED BY <1>1, <1>2, <1>3, <1>4 DEF Inv

\* A question of the master leaves the types as they are.
LEMMA AskTypes == ASSUME Sizes, Inv, Ask PROVE TypeOK'
<1>1. PICK r \in Requests :
        m' = [m EXCEPT !.req = r, !.left = Length(r), !.frames = @ + 1,
                       !.broken = (mb = "INIT"), !.missed = FALSE]
  BY DEF Ask
<1>2. Length(r) \in Nat \ {0} /\ (mb = "INIT") \in BOOLEAN /\ m \in Masters
  BY Lengths DEF Inv, TypeOK
<1>. DEFINE L == Length(r)
            b == (mb = "INIT")
<1>3. m' = [m EXCEPT !.req = r, !.left = L, !.frames = @ + 1, !.broken = b, !.missed = FALSE]
  BY <1>1
<1>4. L \in Nat /\ b \in BOOLEAN
  BY <1>2
<1>. HIDE DEF L, b
<1>5. m' \in Masters /\ m'.req = r /\ m'.left = L
  <2>. DEFINE k == m.frames + 1
  <2>1. k \in Nat
    BY <1>2, SMT DEF Masters
  <2>2. m' = [m EXCEPT !.req = r, !.left = L, !.frames = k, !.broken = b, !.missed = FALSE]
    BY <1>3
  <2>. HIDE DEF k
  <2>3. L \in Nat
    BY <1>4
  <2>. QED BY <2>1, <2>2, <2>3, <1>2, <1>4, Zenon DEF Masters
<1>6. m'.left > 0 => m'.req \in Requests /\ m'.left <= Length(m'.req)
  BY <1>4, <1>5, SMT DEF L
<1>. QED BY <1>5, <1>6 DEF Inv, TypeOK, Ask

\* A question of the master comes when nothing is being taken in or answered.
LEMMA AskKeeps == ASSUME Sizes, Inv, Ask PROVE Inv'
<1>1. mb \in {"IDLE", "INIT"} /\ pc \notin {"waitcw", "check", "waitidle", "process", "emit"}
  BY SMT DEF Inv, InStep, TypeOK, Places, Ask, Seen
<1>2. Heard' /\ InStep'
  BY <1>1, SMT DEF Heard, Hearing, InStep, Ask
<1>3. Speaking'
  BY <1>1, SMT DEF Speaking, Ask
<1>4. Ageing'
  BY SMT DEF Inv, Ageing, Ask
<1>. QED BY <1>2, <1>3, <1>4, AskTypes DEF Inv

\* A character goes behind those of the same request (main.c, isr: mb_frame).
LEMMA StoredTypes ==
  ASSUME Sizes, TypeOK, m.left > 0, NEW f \in Seq(Requests \X Nat), NEW n \in Nat, n + 1 = m.left,
         \A i \in 1..Len(f) : f[i][1] = m.req /\ f[i][2] <= Length(m.req) - m.left
  PROVE /\ Stored(f) \in Seq(Requests \X Nat)
        /\ Stored(f) # <<>>
        /\ \A i \in 1..Len(Stored(f)) : Stored(f)[i][1] = m.req /\ Stored(f)[i][2] <= Length(m.req) - n
<1>. DEFINE L == Length(m.req)
            c == <<m.req, L + 1 - m.left>>
<1>1. L \in Nat /\ m.req \in Requests /\ m.left \in Nat /\ m.left <= L
  BY Lengths, SMT DEF TypeOK, Masters
<1>2. c \in Requests \X Nat /\ c[1] = m.req /\ c[2] <= L - n
  BY <1>1, SMT
<1>. HIDE DEF L
<1>3. Len(f) \in Nat /\ MaxLen \in Nat \ {0}
  BY SMT DEF Sizes
<1>4. CASE Len(f) < MaxLen
  <2>1. Stored(f) = Append(f, c)
    BY <1>4 DEF Stored, L
  <2>. HIDE DEF c
  <2>2. Append(f, c) \in Seq(Requests \X Nat) /\ Len(Append(f, c)) = Len(f) + 1
    BY <1>2, SMT
  <2>3. \A i \in 1..Len(f) + 1 : Append(f, c)[i] = IF i = Len(f) + 1 THEN c ELSE f[i]
    BY <1>2, <1>3, SMT
  <2>4. \A i \in 1..Len(f) : f[i][2] <= L - n
    <3>1. TAKE i \in 1..Len(f)
    <3>2. f[i][2] \in Nat /\ f[i][2] <= L - m.left
      BY <1>3, SMT DEF L
    <3>. QED BY <3>2, <1>1, SMT
  <2>. QED BY <2>1, <2>2, <2>3, <2>4, <1>2, <1>3, SMT DEF L
<1>5. CASE ~ Len(f) < MaxLen
  <2>1. Stored(f) = f /\ f # <<>>
    BY <1>5, <1>3, SMT DEF Stored
  <2>4. \A i \in 1..Len(f) : f[i][2] <= L - n
    <3>1. TAKE i \in 1..Len(f)
    <3>2. f[i][2] \in Nat /\ f[i][2] <= L - m.left
      BY <1>3, SMT DEF L
    <3>. QED BY <3>2, <1>1, SMT
  <2>. QED BY <2>1, <2>4 DEF L
<1>. QED BY <1>4, <1>5

\* The receive interrupt (main.c, isr).
LEMMA ReceiveKeeps == ASSUME Sizes, Inv, Receive PROVE Inv'
<1>. DEFINE n == m.left - 1
<1>1. /\ m.left > 0 /\ n \in Nat /\ n + 1 = m.left /\ m' = [m EXCEPT !.left = n]
      /\ m.req \in Requests /\ m.left <= Length(m.req) /\ Length(m.req) \in Nat /\ m \in Masters
  BY Lengths, SMT DEF Inv, TypeOK, Receive, Masters
<1>. HIDE DEF n
<1>2. m' \in Masters /\ m'.req = m.req /\ m'.left = n /\ n <= Length(m.req)
  BY <1>1, SMT DEF Masters
<1>3. line = none /\ pc \notin {"waitidle", "process", "emit"} /\ ~ (mb = "EMISSION" /\ frame # <<>>)
  BY <1>1, SMT DEF Inv, Speaking, InStep
<1>4. UNCHANGED <<pc, w1, moved, line>> /\ Seen
  BY DEF Receive
<1>5. TypeOK'
  <2>1. mb' \in States /\ ferr' \in BOOLEAN /\ t2' \in {"off", "run", "char"}
    <3>1. mb \in States /\ ferr \in BOOLEAN /\ t2 \in {"off", "run", "char"}
      BY DEF Inv, TypeOK
    <3>2. mb' \in States
      BY <3>1, SMT DEF Receive, States
    <3>3. t2' \in {"off", "run", "char"}
      BY <3>1, SMT DEF Receive
    <3>4. ferr' \in BOOLEAN
      BY <3>1 DEF Receive
    <3>. QED BY <3>2, <3>3, <3>4
  <2>. QED BY <1>1, <1>2, <1>4, <2>1, SMT DEF Inv, TypeOK
<1>6. Ageing'
  BY <1>4, SMT DEF Inv, Ageing
<1>7. CASE mb \in {"INIT", "EMISSION"}
  <2>1. UNCHANGED <<mb, ferr, frame>>
    BY <1>7, SMT DEF Receive
  <2>. QED BY <1>2, <1>3, <1>4, <1>5, <1>6, <1>7, <2>1, SMT DEF Inv, Heard, Hearing, InStep, Speaking
<1>8. CASE mb = "IDLE"
  <2>1. mb' = "RECEPTION" /\ t2' = "run" /\ frame' = Stored(<<>>)
    BY <1>8, SMT DEF Receive
  <2>2. Stored(<<>>) \in Seq(Requests \X Nat)
        /\ \A i \in 1..Len(Stored(<<>>)) : Stored(<<>>)[i][1] = m.req /\ Stored(<<>>)[i][2] <= Length(m.req) - n
    <3>1. <<>> \in Seq(Requests \X Nat) /\ Len(<<>>) = 0
      BY SMT
    <3>2. \A i \in 1..Len(<<>>) : <<>>[i][1] = m.req /\ <<>>[i][2] <= Length(m.req) - m.left
      BY <3>1, SMT
    <3>. QED BY <3>1, <3>2, <1>1, StoredTypes DEF Inv
  <2>. QED BY <1>2, <1>1, <1>3, <1>4, <1>5, <1>6, <1>8, <2>1, <2>2, SMT DEF Inv, Heard, Hearing, InStep, Speaking
<1>9. CASE mb = "RECEPTION"
  <2>1. mb' = "RECEPTION" /\ t2' = "run" /\ frame' = Stored(frame)
    BY <1>9, SMT DEF Receive
  <2>2. Stored(frame) \in Seq(Requests \X Nat)
        /\ \A i \in 1..Len(Stored(frame)) : Stored(frame)[i][1] = m.req /\ Stored(frame)[i][2] <= Length(m.req) - n
    <3>1. frame \in Seq(Requests \X Nat)
          /\ \A i \in 1..Len(frame) : frame[i][1] = m.req /\ frame[i][2] <= Length(m.req) - m.left
      BY <1>9, SMT DEF Inv, Heard, Hearing
    <3>. QED BY <3>1, <1>1, StoredTypes DEF Inv
  <2>. QED BY <1>2, <1>1, <1>3, <1>4, <1>5, <1>6, <1>9, <2>1, <2>2, SMT DEF Inv, Heard, Hearing, InStep, Speaking
<1>10. CASE mb = "CONTROL"
  <2>1. UNCHANGED <<mb, frame>>
    BY <1>10, SMT DEF Receive
  <2>2. \A i \in 1..Len(frame) : frame[i][2] <= Length(m.req) - n
    <3>1. frame \in Seq(Requests \X Nat)
          /\ \A i \in 1..Len(frame) : frame[i][1] = m.req /\ frame[i][2] <= Length(m.req) - m.left
      BY <1>10, SMT DEF Inv, Heard, Hearing
    <3>2. TAKE i \in 1..Len(frame)
    <3>3. frame[i][2] \in Nat /\ frame[i][2] <= Length(m.req) - m.left
      BY <3>1, SMT
    <3>. QED BY <3>3, <1>1, SMT
  <2>. QED BY <1>2, <1>1, <1>3, <1>4, <1>5, <1>6, <1>10, <2>1, <2>2, SMT DEF Inv, Heard, Hearing, InStep, Speaking
<1>. QED BY <1>7, <1>8, <1>9, <1>10, SMT DEF Inv, TypeOK, States

\* A character with a frame or overrun error (main.c, isr).
LEMMA ReceiveBadKeeps == ASSUME Sizes, Inv, ReceiveBad PROVE Inv'
<1>. DEFINE n == m.left - 1
<1>. DEFINE k == m.faults + 1
<1>1. /\ m.left > 0 /\ n \in Nat /\ n + 1 = m.left /\ m \in Masters /\ k \in Nat
      /\ m.req \in Requests /\ m.left <= Length(m.req) /\ Length(m.req) \in Nat
  BY Lengths, SMT DEF Inv, TypeOK, ReceiveBad, Masters
<1>2. m' \in Masters /\ m'.req = m.req /\ m'.left = n /\ n <= Length(m.req)
  <2>1. m' = [m EXCEPT !.left = n, !.faults = k, !.broken = TRUE]
    BY DEF ReceiveBad
  <2>2. n <= Length(m.req)
    BY <1>1, SMT
  <2>. HIDE DEF n, k
  <2>3. m' \in Masters /\ m'.req = m.req /\ m'.left = n
    BY <2>1, <1>1, Zenon DEF Masters
  <2>. QED BY <2>2, <2>3
<1>. HIDE DEF n, k
<1>3. line = none /\ pc \notin {"waitidle", "process"} /\ ~ (mb = "EMISSION" /\ frame # <<>>)
  BY <1>1, SMT DEF Inv, Speaking, InStep
<1>4. UNCHANGED <<mb, frame, t2, pc, w1, moved, line>> /\ ferr' = TRUE
  BY DEF ReceiveBad
<1>5. TypeOK'
  BY <1>1, <1>2, <1>4, SMT DEF Inv, TypeOK
<1>6. Ageing'
  BY <1>4, SMT DEF Inv, Ageing
<1>7. Hearing => \A i \in 1..Len(frame) : frame[i][2] <= Length(m.req) - n
  <2>1. SUFFICES ASSUME Hearing, NEW i \in 1..Len(frame) PROVE frame[i][2] <= Length(m.req) - n
    OBVIOUS
  <2>2. frame \in Seq(Requests \X Nat) /\ frame[i][2] <= Length(m.req) - m.left
    BY <2>1 DEF Inv, Heard
  <2>3. frame[i][2] \in Nat
    BY <2>2, SMT
  <2>. QED BY <2>2, <2>3, <1>1, SMT
<1>. QED BY <1>2, <1>3, <1>4, <1>5, <1>6, <1>7, SMT DEF Inv, Heard, Hearing, InStep, Speaking

\* Timer 2: the pause after a character, then the silence after a frame (main.c, isr).
LEMMA Tick2Keeps == ASSUME Sizes, Inv, Tick2 PROVE Inv'
<1>. DEFINE x == m.faults + (IF m.left = 0 THEN 0 ELSE 1)
            b == m.broken \/ m.left > 0
            d == m.missed \/ (mb = "RECEPTION" /\ pc # "waitcw")
<1>1. m \in Masters /\ m' = [m EXCEPT !.faults = x, !.broken = b, !.missed = d]
  BY DEF Inv, TypeOK, Tick2
<1>2. x \in Nat /\ b \in BOOLEAN /\ d \in BOOLEAN
  <2>1. x \in Nat
    BY <1>1, SMT DEF Masters
  <2>2. m.broken \in BOOLEAN /\ m.missed \in BOOLEAN
    BY <1>1 DEF Masters
  <2>. QED BY <2>1, <2>2
<1>. HIDE DEF x, b, d
<1>3. m' \in Masters /\ m'.req = m.req /\ m'.left = m.left
  BY <1>1, <1>2, Zenon DEF Masters
<1>4. UNCHANGED <<ferr, frame, pc, w1, moved, line>> /\ Seen /\ t2 # "off"
  BY DEF Tick2
<1>5. \/ t2 = "run" /\ t2' = "char" /\ mb' = IF mb = "RECEPTION" THEN "CONTROL" ELSE mb
      \/ t2 = "char" /\ t2' = "off" /\ mb' = "IDLE"
  BY DEF Tick2
<1>6. TypeOK'
  BY <1>3, <1>4, <1>5, SMT DEF Inv, TypeOK, States
<1>7. Ageing'
  BY <1>4, SMT DEF Inv, Ageing
<1>8. pc \notin {"check", "process", "emit"} /\ ~ (pc = "waitcw" /\ mb = "CONTROL")
      /\ ~ (pc = "waitidle" /\ mb = "IDLE")
      /\ ~ (mb = "EMISSION" /\ frame # <<>>)
  BY <1>4, SMT DEF Seen, Inv, Speaking
<1>9. InStep'
  BY <1>3, <1>4, <1>5, <1>8, SMT DEF Inv, InStep
<1>10. Speaking'
  BY <1>3, <1>4, <1>5, <1>8, SMT DEF Inv, Speaking
<1>11. Heard'
  BY <1>3, <1>4, <1>5, <1>8, SMT DEF Inv, Heard, Hearing
<1>. QED BY <1>6, <1>7, <1>9, <1>10, <1>11 DEF Inv

\* What a step leaves alone when it touches the thermometer only.
LEMMA LineLeftAlone ==
  ASSUME Inv, UNCHANGED <<mb, ferr, frame, t2, moved, line, m>>, w1' \in Sensors, pc' \in Places,
         pc' # pc => pc' \notin {"waitcw", "check", "waitidle", "process", "emit"}
  PROVE TypeOK' /\ Heard' /\ InStep' /\ Speaking'
  BY SMT DEF Inv, TypeOK, Heard, Hearing, InStep, Speaking

\* Timer 1: 250 ms more (main.c, isr).
LEMMA Tick1Keeps == ASSUME Sizes, Inv, Tick1 PROVE Inv'
<1>. DEFINE c == w1.cnt + 1
            g == IF w1.age < TConv THEN w1.age + 1 ELSE w1.age
            w == [w1 EXCEPT !.cnt = c, !.age = g]
<1>1. w1 \in Sensors /\ pc # "detect" /\ ~ w1.conv /\ ~ w1.read /\ (pc = "conv" => w1.age = 0)
      /\ UNCHANGED <<mb, ferr, frame, t2, pc, moved, line, m>>
  BY DEF Inv, TypeOK, Tick1
<1>2. w1' = IF w1.st = "WAITING" /\ c >= Refresh
            THEN [w EXCEPT !.conv = TRUE, !.cnt = 0]
            ELSE IF w1.st = "PENDING" /\ c >= TConv
            THEN [w EXCEPT !.st = "WAITING", !.read = TRUE, !.cnt = 0]
            ELSE w
  BY DEF Tick1
<1>3. c \in Nat /\ g \in Nat /\ c = w1.cnt + 1 /\ (g = w1.age + 1 \/ (g = w1.age /\ g >= TConv))
  BY <1>1, SMT DEF Sizes, Sensors
<1>. HIDE DEF c, g
<1>4. /\ w \in Sensors /\ w.fails = w1.fails /\ w.age = g /\ w.cnt = c /\ w.st = w1.st
      /\ w.conv = w1.conv /\ w.read = w1.read
  BY <1>1, <1>3, Zenon DEF Sensors
<1>. HIDE DEF w
<1>5. /\ w1' \in Sensors /\ w1'.fails = w1.fails /\ w1'.age = g
      /\ \/ w1.st = "WAITING" /\ w1'.conv /\ ~ w1'.read /\ w1'.cnt = 0 /\ w1'.st = "WAITING"
         \/ w1.st = "PENDING" /\ c >= TConv /\ ~ w1'.conv /\ w1'.read /\ w1'.st = "WAITING"
         \/ w1'.st = w1.st /\ ~ w1'.conv /\ ~ w1'.read /\ w1'.cnt = c /\ ~ (w1.st = "PENDING" /\ c >= TConv)
  <2>0. 0 \in Nat
    OBVIOUS
  <2>1. CASE w1.st = "WAITING" /\ c >= Refresh
    <3>1. w1' = [w EXCEPT !.conv = TRUE, !.cnt = 0]
      BY <1>2, <2>1
    <3>. QED BY <3>1, <2>0, <2>1, <1>1, <1>4, Zenon DEF Sensors
  <2>2. CASE ~ (w1.st = "WAITING" /\ c >= Refresh) /\ w1.st = "PENDING" /\ c >= TConv
    <3>1. w1' = [w EXCEPT !.st = "WAITING", !.read = TRUE, !.cnt = 0]
      BY <1>2, <2>2
    <3>. QED BY <3>1, <2>0, <2>2, <1>1, <1>4, Zenon DEF Sensors
  <2>3. CASE ~ (w1.st = "WAITING" /\ c >= Refresh) /\ ~ (w1.st = "PENDING" /\ c >= TConv)
    <3>1. w1' = w
      BY <1>2, <2>3
    <3>. QED BY <3>1, <1>1, <1>4, <2>3
  <2>. QED BY <2>1, <2>2, <2>3
<1>6. Ageing'
  <2>1. Ageing /\ TConv \in Nat
    BY DEF Inv, Sizes
  <2>2. w1.cnt \in Nat /\ w1.age \in Nat /\ w1.fails \in Nat
    BY <1>1 DEF Sensors
  <2>3. CASE w1.st = "WAITING" /\ w1'.conv /\ ~ w1'.read /\ w1'.cnt = 0 /\ w1'.st = "WAITING"
    BY <2>1, <2>2, <2>3, <1>1, <1>3, <1>5, SMT DEF Ageing
  <2>4. CASE w1.st = "PENDING" /\ c >= TConv /\ ~ w1'.conv /\ w1'.read /\ w1'.st = "WAITING"
    BY <2>1, <2>2, <2>4, <1>1, <1>3, <1>5, SMT DEF Ageing
  <2>5. CASE w1'.st = w1.st /\ ~ w1'.conv /\ ~ w1'.read /\ w1'.cnt = c /\ ~ (w1.st = "PENDING" /\ c >= TConv)
    BY <2>1, <2>2, <2>5, <1>1, <1>3, <1>5, SMT DEF Ageing
  <2>. QED BY <1>5, <2>3, <2>4, <2>5
<1>. QED BY <1>1, <1>5, <1>6, LineLeftAlone DEF Inv, TypeOK
\* The thermometer does not answer at the start (main.c, main).
LEMMA NotDetectedKeeps == ASSUME Sizes, Inv, NotDetected PROVE Inv'
<1>. DEFINE f == w1.fails + 1
            c == w1.cnt + 1
<1>1. /\ pc = "detect" /\ m \in Masters /\ w1 \in Sensors
      /\ UNCHANGED <<mb, ferr, frame, t2, pc, moved, line>>
      /\ w1' = [w1 EXCEPT !.fails = f, !.cnt = c]
      /\ m' = [m EXCEPT !.left = 0, !.broken = TRUE]
  BY DEF NotDetected, Inv, TypeOK
<1>2. 0 \in Nat /\ f \in Nat /\ c \in Nat
  BY <1>1, SMT DEF Sensors
<1>3. f = w1.fails + 1 /\ c = w1.cnt + 1
  OBVIOUS
<1>. HIDE DEF f, c
<1>4. m' \in Masters /\ m'.req = m.req /\ m'.left = 0
  BY <1>1, <1>2, Zenon DEF Masters
<1>5. /\ w1' \in Sensors /\ w1'.st = w1.st /\ w1'.fails = f /\ w1'.cnt = c /\ w1'.age = w1.age
      /\ w1'.conv = w1.conv /\ w1'.read = w1.read
  BY <1>1, <1>2, Zenon DEF Sensors
<1>6. Ageing'
  <2>1. w1.cnt \in Nat /\ w1.age \in Nat /\ w1.fails \in Nat
    BY <1>1 DEF Sensors
  <2>. QED BY <2>1, <1>1, <1>3, <1>5, SMT DEF Inv, Ageing
<1>7. TypeOK'
  BY <1>1, <1>4, <1>5, SMT DEF Inv, TypeOK
<1>8. Heard'
  <2>1. SUFFICES ASSUME Hearing
                 PROVE /\ m.req \in Requests /\ line = none /\ frame \in Seq(Requests \X Nat)
                       /\ \A i \in 1..Len(frame) : frame[i][1] = m.req /\ frame[i][2] <= Length(m.req)
    <3>1. CASE ~ Hearing
      BY <3>1, <1>1 DEF Heard, Hearing
    <3>2. CASE m.req \in Requests
      <4>1. Length(m'.req) - m'.left = Length(m.req)
        BY <3>2, <1>4, Lengths, SMT
      <4>. QED BY <4>1, <1>1, <1>4 DEF Heard, Hearing
    <3>. QED BY <3>1, <3>2
  <2>2. /\ m.req \in Requests /\ line = none /\ frame \in Seq(Requests \X Nat) /\ m.left \in Nat
        /\ \A i \in 1..Len(frame) : frame[i][1] = m.req /\ frame[i][2] <= Length(m.req) - m.left
    BY <2>1, <1>1 DEF Inv, Heard, Masters
  <2>3. Length(m.req) \in Nat
    BY <2>2, Lengths
  <2>4. \A i \in 1..Len(frame) : frame[i][2] <= Length(m.req)
    <3>1. TAKE i \in 1..Len(frame)
    <3>2. frame[i][2] \in Nat
      BY <2>2, SMT
    <3>. QED BY <2>2, <2>3, <3>2, SMT
  <2>. QED BY <2>2, <2>4
<1>9. InStep' /\ Speaking'
  BY <1>1, <1>4, SMT DEF Inv, InStep, Speaking
<1>. QED BY <1>6, <1>7, <1>8, <1>9 DEF Inv

\* The thermometer answers at the start (main.c, main).
LEMMA DetectedKeeps == ASSUME Sizes, Inv, Detected PROVE Inv'
<1>1. /\ pc = "detect" /\ pc' = "loop" /\ w1 \in Sensors /\ w1' = [w1 EXCEPT !.st = "WAITING"]
      /\ UNCHANGED <<mb, ferr, frame, t2, moved, line, m>>
  BY DEF Detected, Inv, TypeOK
<1>2. /\ w1' \in Sensors /\ w1'.st = "WAITING" /\ w1'.fails = w1.fails /\ w1'.cnt = w1.cnt
      /\ w1'.age = w1.age /\ w1'.conv = w1.conv /\ w1'.read = w1.read
  BY <1>1, Zenon DEF Sensors
<1>3. Ageing'
  BY <1>1, <1>2, SMT DEF Inv, Ageing
<1>. QED BY <1>1, <1>2, <1>3, LineLeftAlone DEF Inv, Places

\* The main loop takes the flag of a conversion that is over.
LEMMA StartReadKeeps == ASSUME Sizes, Inv, StartRead PROVE Inv'
<1>1. /\ pc = "loop" /\ w1.read /\ pc' = "read" /\ w1 \in Sensors /\ w1' = [w1 EXCEPT !.read = FALSE]
      /\ UNCHANGED <<mb, ferr, frame, t2, moved, line, m>>
  BY DEF StartRead, Inv, TypeOK
<1>2. /\ w1' \in Sensors /\ w1'.st = w1.st /\ w1'.fails = w1.fails /\ w1'.cnt = w1.cnt
      /\ w1'.age = w1.age /\ w1'.conv = w1.conv /\ ~ w1'.read
  BY <1>1, Zenon DEF Sensors
<1>3. Ageing'
  BY <1>1, <1>2, SMT DEF Inv, Ageing
<1>. QED BY <1>1, <1>2, <1>3, LineLeftAlone DEF Inv, Places

\* The thermometer is read.
LEMMA ReadDataKeeps == ASSUME Sizes, Inv, ReadData PROVE Inv'
<1>1. /\ pc = "read" /\ pc' = "read_done" /\ w1 \in Sensors
      /\ UNCHANGED <<mb, ferr, frame, t2, w1, moved, line, m>>
  BY DEF ReadData, Inv, TypeOK
<1>2. Ageing'
  <2>1. w1.cnt \in Nat /\ w1.age \in Nat /\ w1.fails \in Nat
    BY <1>1 DEF Sensors
  <2>. QED BY <2>1, <1>1, SMT DEF Inv, Ageing
<1>. QED BY <1>1, <1>2, LineLeftAlone DEF Inv, Places

\* The main loop takes the flag that a conversion is due.
LEMMA StartConvertKeeps == ASSUME Sizes, Inv, StartConvert PROVE Inv'
<1>1. /\ pc \in {"loop", "read_done"} /\ w1.conv /\ pc' = "conv" /\ w1 \in Sensors
      /\ w1' = [w1 EXCEPT !.conv = FALSE, !.st = "PENDING", !.age = 0]
      /\ UNCHANGED <<mb, ferr, frame, t2, moved, line, m>>
  BY DEF StartConvert, Inv, TypeOK
<1>2. /\ w1' \in Sensors /\ w1'.st = "PENDING" /\ w1'.fails = w1.fails /\ w1'.cnt = w1.cnt
      /\ w1'.age = 0 /\ ~ w1'.conv /\ w1'.read = w1.read
  <2>1. 0 \in Nat
    OBVIOUS
  <2>. QED BY <2>1, <1>1, Zenon DEF Sensors
<1>3. Ageing'
  <2>1. w1.cnt \in Nat /\ w1.fails \in Nat
    BY <1>1 DEF Sensors
  <2>. QED BY <2>1, <1>1, <1>2, SMT DEF Inv, Ageing
<1>. QED BY <1>1, <1>2, <1>3, LineLeftAlone DEF Inv, Places

\* The command to convert is on the bus.
LEMMA ConvertKeeps == ASSUME Sizes, Inv, Convert PROVE Inv'
<1>1. /\ pc = "conv" /\ pc' = "switch" /\ w1 \in Sensors /\ w1' = [w1 EXCEPT !.age = 0]
      /\ UNCHANGED <<mb, ferr, frame, t2, moved, line, m>>
  BY DEF Convert, Inv, TypeOK
<1>2. /\ w1' \in Sensors /\ w1'.st = w1.st /\ w1'.fails = w1.fails /\ w1'.cnt = w1.cnt
      /\ w1'.age = 0 /\ w1'.conv = w1.conv /\ w1'.read = w1.read
  <2>1. 0 \in Nat
    OBVIOUS
  <2>. QED BY <2>1, <1>1, Zenon DEF Sensors
<1>3. Ageing'
  <2>1. w1.cnt \in Nat /\ w1.fails \in Nat /\ w1.age \in Nat
    BY <1>1 DEF Sensors
  <2>. QED BY <2>1, <1>1, <1>2, SMT DEF Inv, Ageing
<1>. QED BY <1>1, <1>2, <1>3, LineLeftAlone DEF Inv, Places

\* A step of the main loop that leaves the thermometer alone.
LEMMA SensorLeftAlone ==
  ASSUME Inv, w1' = w1, pc \notin {"detect", "conv", "read"}, pc' \notin {"detect", "conv", "read"}
  PROVE Ageing'
  BY SMT DEF Inv, Ageing, TypeOK, Sensors

\* The main loop looks at the state of the line.
LEMMA SwitchKeeps == ASSUME Sizes, Inv, Switch PROVE Inv'
<1>1. /\ pc \in {"loop", "read_done", "switch"} /\ UNCHANGED <<mb, ferr, frame, t2, w1, moved, line, m>>
      /\ \/ pc' = "waitcw" /\ mb = "RECEPTION"
         \/ pc' = "emit" /\ mb = "EMISSION" /\ frame # <<>>
         \/ pc' = "loop"
  BY SMT DEF Switch
<1>2. Ageing'
  BY <1>1, SensorLeftAlone
<1>3. TypeOK'
  BY <1>1, SMT DEF Inv, TypeOK, Places
<1>4. Heard' /\ InStep' /\ Speaking'
  BY <1>1, SMT DEF Inv, Heard, Hearing, InStep, Speaking
<1>. QED BY <1>2, <1>3, <1>4 DEF Inv

\* The main loop has waited for the pause after the last character.
LEMMA WaitControlKeeps == ASSUME Sizes, Inv, WaitControl PROVE Inv'
<1>1. /\ pc = "waitcw" /\ mb = "CONTROL" /\ UNCHANGED <<mb, ferr, frame, t2, w1, moved, line, m>>
      /\ pc' \in {"loop", "check"}
  BY DEF WaitControl
<1>2. Ageing'
  BY <1>1, SensorLeftAlone
<1>3. TypeOK'
  BY <1>1, SMT DEF Inv, TypeOK, Places
<1>4. Heard' /\ InStep' /\ Speaking'
  BY <1>1, SMT DEF Inv, Heard, Hearing, InStep, Speaking
<1>. QED BY <1>2, <1>3, <1>4 DEF Inv

\* A frame that is accepted is the request of the master, and all of it has come.
LEMMA AcceptedIsWhole ==
  ASSUME Sizes, Inv, mb = "CONTROL", Accepted
  PROVE frame = Whole(m.req) /\ m.left = 0 /\ m.req \in Requests
<1>1. PICK r \in Requests \ {"THEIRS"} : frame = Whole(r)
  BY DEF Accepted
<1>2. Length(r) = MaxLen /\ MaxLen \in Nat \ {0}
  BY SMT DEF Length, Sizes
<1>3. frame \in Seq(Requests \X Nat) /\ m.left \in Nat /\ m.req \in Requests
      /\ \A i \in 1..Len(frame) : frame[i][1] = m.req /\ frame[i][2] <= Length(m.req) - m.left
  BY SMT DEF Inv, Heard, Hearing, TypeOK, Masters
<1>4. Whole(r) = [i \in 1..MaxLen |-> <<r, i>>]
  BY <1>2 DEF Whole
<1>5. Len(frame) = MaxLen /\ 1 \in 1..MaxLen /\ MaxLen \in 1..MaxLen
  BY <1>1, <1>2, <1>3, <1>4, SMT
<1>6. frame[1] = <<r, 1>> /\ frame[MaxLen] = <<r, MaxLen>>
  BY <1>1, <1>4, <1>5
<1>7. m.req = r
  BY <1>3, <1>5, <1>6
<1>8. MaxLen <= MaxLen - m.left
  BY <1>2, <1>3, <1>5, <1>6, <1>7
<1>. QED BY <1>1, <1>2, <1>3, <1>7, <1>8, SMT

\* The frame is checked (main.c, mb_checkframe).
LEMMA CheckFrameKeeps == ASSUME Sizes, Inv, CheckFrame PROVE Inv'
<1>1. /\ pc = "check" /\ UNCHANGED <<mb, frame, t2, w1, moved, line, m>> /\ ferr' \in BOOLEAN
      /\ pc' = "loop" \/ (pc' = "waitidle" /\ Accepted)
  BY DEF CheckFrame
<1>2. mb = "CONTROL"
  BY <1>1 DEF Inv, InStep
<1>3. pc' = "waitidle" => frame = Whole(m.req) /\ m.left = 0
  BY <1>1, <1>2, AcceptedIsWhole
<1>4. Ageing'
  BY <1>1, SensorLeftAlone
<1>5. TypeOK'
  BY <1>1, SMT DEF Inv, TypeOK, Places
<1>6. Heard' /\ InStep' /\ Speaking'
  BY <1>1, <1>2, <1>3, SMT DEF Inv, Heard, Hearing, InStep, Speaking
<1>. QED BY <1>4, <1>5, <1>6 DEF Inv

\* The main loop has waited for the silence after the frame.
LEMMA WaitIdleKeeps == ASSUME Sizes, Inv, WaitIdle PROVE Inv'
<1>1. /\ pc = "waitidle" /\ mb = "IDLE" /\ UNCHANGED <<mb, ferr, frame, t2, w1, moved, line, m>>
      /\ pc' \in {"loop", "process"}
  BY DEF WaitIdle
<1>2. Ageing'
  BY <1>1, SensorLeftAlone
<1>3. TypeOK'
  BY <1>1, SMT DEF Inv, TypeOK, Places
<1>4. Heard' /\ InStep' /\ Speaking'
  BY <1>1, SMT DEF Inv, Heard, Hearing, InStep, Speaking
<1>. QED BY <1>2, <1>3, <1>4 DEF Inv

\* The answer replaces the request (main.c, mb_processframe).
LEMMA ProcessFrameKeeps == ASSUME Sizes, Inv, ProcessFrame PROVE Inv'
<1>1. /\ pc = "process" /\ mb = "IDLE" /\ frame = Whole(m.req) /\ m.left = 0 /\ t2 = "off"
      /\ m.req \in Requests /\ line = none
  BY DEF ProcessFrame, Inv, InStep, Heard, Hearing
<1>2. frame[1][1] = m.req
  <2>1. 1 \in 1..Length(m.req)
    BY <1>1, Lengths, SMT
  <2>. QED BY <2>1, <1>1 DEF Whole
<1>3. /\ pc' = "loop" /\ UNCHANGED <<ferr, t2, w1, line, m>>
      /\ IF AnswerOf[m.req] = none THEN UNCHANGED <<mb, frame>>
         ELSE mb' = "EMISSION" /\ frame' = <<AnswerOf[m.req]>>
  BY <1>2 DEF ProcessFrame
<1>4. moved' \in BOOLEAN
  BY SMT DEF ProcessFrame, Inv, TypeOK
<1>5. Ageing'
  BY <1>1, <1>3, SensorLeftAlone
<1>6. TypeOK'
  BY <1>3, <1>4, SMT DEF Inv, TypeOK, Places, States
<1>7. Heard' /\ InStep' /\ Speaking'
  BY <1>1, <1>3, SMT DEF Inv, Heard, Hearing, InStep, Speaking
<1>. QED BY <1>5, <1>6, <1>7 DEF Inv

\* What is sent is the answer to the last request, which had none yet.
LEMMA Emitted ==
  ASSUME Sizes, Inv, Emit
  PROVE /\ m.req \in Requests /\ AnswerOf[m.req] # none /\ m.left = 0 /\ line = none
        /\ line' = AnswerOf[m.req] /\ mb = "EMISSION"
<1>1. /\ mb = "EMISSION" /\ m.req \in Requests /\ AnswerOf[m.req] # none
      /\ frame = <<AnswerOf[m.req]>> /\ m.left = 0 /\ line = none /\ line' = frame[1]
  BY SMT DEF Emit, Inv, InStep, Speaking
<1>. QED BY <1>1

\* The answer is sent (main.c, main: MB_EMISSION).
LEMMA EmitKeeps == ASSUME Sizes, Inv, Emit PROVE Inv'
<1>1. /\ pc = "emit" /\ pc' = "loop" /\ frame' = <<>> /\ t2' = "run" /\ UNCHANGED <<mb, ferr, w1, moved, m>>
  BY DEF Emit
<1>2. line' \in {none, "temp", "refused"} /\ mb = "EMISSION" /\ m.left = 0
  BY Emitted, SMT DEF AnswerOf, Requests
<1>3. Ageing'
  BY <1>1, SensorLeftAlone
<1>4. TypeOK'
  BY <1>1, <1>2, SMT DEF Inv, TypeOK, Places
<1>5. Heard' /\ InStep' /\ Speaking'
  BY <1>1, <1>2, SMT DEF Inv, Heard, Hearing, InStep, Speaking
<1>. QED BY <1>3, <1>4, <1>5 DEF Inv

\* Every step keeps the invariant.
LEMMA InvNext == ASSUME Sizes, Inv, [Next]_vars PROVE Inv'
<1>1. CASE UNCHANGED vars
  BY <1>1, SMT DEF vars, Inv, TypeOK, Heard, Hearing, InStep, Speaking, Ageing
<1>2. CASE Next
  BY <1>2, AskKeeps, ReceiveKeeps, ReceiveBadKeeps, Tick2Keeps, Tick1Keeps, DetectedKeeps,
     NotDetectedKeeps, StartReadKeeps, ReadDataKeeps, StartConvertKeeps, ConvertKeeps, SwitchKeeps,
     WaitControlKeeps, CheckFrameKeeps, WaitIdleKeeps, ProcessFrameKeeps, EmitKeeps
     DEF Next, Main, Interrupt
<1>. QED BY <1>1, <1>2

\* Only the master's question and the answer change what the line has seen.
LEMMA SlaveStep == ASSUME Sizes, Inv, [Next]_vars PROVE [Slave!Next]_<<m.req, line>>
<1>1. CASE UNCHANGED vars
  BY <1>1 DEF vars
<1>2. CASE Ask
  <2>1. PICK r \in Requests :
          m' = [m EXCEPT !.req = r, !.left = Length(r), !.frames = @ + 1,
                         !.broken = (mb = "INIT"), !.missed = FALSE]
    BY <1>2 DEF Ask
  <2>2. m'.req = r /\ line' = none
    BY <2>1, <1>2, Zenon DEF Ask, Inv, TypeOK, Masters
  <2>. QED BY <2>2 DEF Slave!Next, Slave!Ask
<1>3. CASE Emit
  <2>1. m' = m
    BY <1>3 DEF Emit
  <2>2. m.req # none
    BY <1>3, Emitted DEF Sizes
  <2>. QED BY <2>1, <2>2, <1>3, Emitted DEF Slave!Next, Slave!Answer
<1>4. CASE Receive \/ ReceiveBad \/ Tick2 \/ NotDetected
  <2>1. m'.req = m.req
    BY <1>4, Zenon DEF Receive, ReceiveBad, Tick2, NotDetected, Inv, TypeOK, Masters
  <2>2. line' = line
    BY <1>4 DEF Receive, ReceiveBad, Tick2, NotDetected
  <2>. QED BY <2>1, <2>2
<1>5. CASE \/ Tick1 \/ Detected \/ StartRead \/ ReadData \/ StartConvert \/ Convert \/ Switch
           \/ WaitControl \/ CheckFrame \/ WaitIdle \/ ProcessFrame
  BY <1>5 DEF Tick1, Detected, StartRead, ReadData, StartConvert, Convert, Switch, WaitControl,
     CheckFrame, WaitIdle, ProcessFrame
<1>. QED BY <1>1, <1>2, <1>3, <1>4, <1>5 DEF Next, Main, Interrupt
\* A conversion is read no sooner than its time, but for the failed detections.
LEMMA ConversionsRead == ASSUME Inv PROVE ReadsConverted
  BY DEF Inv, Ageing, ReadsConverted
\* Whatever the main loop misses while it is at the thermometer, the sensor answers a
\* request once, with its own answer, and nothing else, and it reads a conversion when
\* its time is over (main.c, main and isr).
THEOREM SensorIsSlave == Sizes => (Init /\ [][Next]_vars => IsSlave /\ []ReadsConverted)
<1>. SUFFICES ASSUME Sizes PROVE Init /\ [][Next]_vars => IsSlave /\ []ReadsConverted
  OBVIOUS
<1>1. Init => Inv
  BY InvInit
<1>2. Inv /\ [Next]_vars => Inv'
  BY InvNext
<1>3. Init => Slave!Init
  BY DEF Init, Slave!Init
<1>4. Inv /\ [Next]_vars => [Slave!Next]_<<m.req, line>>
  BY SlaveStep
<1>5. Inv => ReadsConverted
  BY ConversionsRead
<1>. QED BY <1>1, <1>2, <1>3, <1>4, <1>5, PTL DEF IsSlave
=============================================================================
