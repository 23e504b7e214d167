---------------------------- MODULE DeviceProofs ----------------------------
(***************************************************************************)
(* Proofs about the machines on the bench, for all sizes: the lap timer,   *)
(* the cars on the motorway, the proxy, the processor, the colouring of    *)
(* graphs and the output unit.                                             *)
(***************************************************************************)
EXTENDS Integers, Sequences, FiniteSetTheorems, SequenceTheorems, WellFoundedInduction, TLAPS

CONSTANTS W, Compare, Display, MaxNow
VARIABLES now, tmr, gt, pc, rd, cnt, lap
Lap == INSTANCE LapTimer

CONSTANTS PerLane, Traffic, nobody
VARIABLES routes, car, used, queue
Road == INSTANCE Speedway

-----------------------------------------------------------------------------
(***************************************************************************)
(* The lap timer.                                                          *)
(***************************************************************************)

(***************************************************************************)
(* The counter does not turn between two displays (in the code a display   *)
(* comes after 500 ms and a turn of the counter takes 2 s): while the      *)
(* stopwatch runs it is the display, not the interrupt, of which one may   *)
(* be thrown away, that keeps global_time in step.                         *)
(***************************************************************************)
LapSizes ==
  /\ W \in Nat /\ Compare \in Nat /\ Display \in Nat \ {0} /\ MaxNow \in Nat
  /\ W >= Display + 3

\* Ticks since the last update, as global_time_update sees them, and by how much
\* global_time is behind the clock.
Age == IF Lap!Tar >= gt.prev THEN Lap!Tar - gt.prev ELSE Lap!Tar + (W - gt.prev)
Behind == now - Age - gt.time

Timers == [ccr : Nat, ifg : BOOLEAN, ie : BOOLEAN]
Times == [time : Nat, prev : 0 .. W - 1]
Readers == [for : {"reset", "start", "display"}, from : Nat, low : Nat, high : Nat, slow : BOOLEAN]
Watches == [run : BOOLEAN, t : Int, t0 : Int, at : Nat \X Nat, at0 : Nat \X Nat,
            stopped : Nat, torn : BOOLEAN]

LapTypes ==
  /\ now \in Nat /\ tmr \in Timers /\ gt \in Times /\ rd \in Readers /\ lap \in Watches
  /\ pc \in {"loop", "delay", "update", "low", "high"} /\ cnt \in 0 .. Display - 1
  /\ ~ tmr.ie => pc = "update"

\* Ticks since the display, a turn of the main loop each.
Since(n) == IF n = 0 THEN Display ELSE n
Slow == IF rd.slow THEN 1 ELSE 0
Updating == pc = "low" \/ pc = "high" \/ (pc = "update" /\ ~ tmr.ie)

\* While it runs or is read, global_time is not older than a turn of the counter.
Fresh ==
  /\ lap.run /\ pc = "loop" => Age <= Since(cnt) + 1
  /\ lap.run /\ pc = "delay" => Age <= Since(cnt)
  /\ lap.run /\ pc = "update" => Age <= Display + 1 + Slow
  /\ Updating => Age <= Slow

\* What get_time has read is a time between its call and now.
Reads ==
  /\ pc \in {"update", "low", "high"} => /\ now = rd.from + Slow
                                         /\ rd.for = "display" => lap.run
                                         /\ rd.for = "start" => ~ lap.run
  /\ pc = "high" => LET v == W * rd.high + rd.low + Behind IN rd.from <= v /\ v <= now

Exact ==
  /\ lap.at[1] <= lap.at[2] /\ lap.at0[1] <= lap.at0[2]
  /\ lap.run /\ ~ lap.torn => lap.at0[1] <= lap.t0 + Behind /\ lap.t0 + Behind <= lap.at0[2]
  /\ Lap!TimeIsExact

Close ==
  /\ lap.run /\ pc = "loop" => now - lap.at[2] <= Since(cnt)
  /\ lap.run /\ pc = "delay" => now - lap.at[2] <= Since(cnt) - 1
  /\ Lap!StopIsClose

\* What is inductive.
LapInv == LapTypes /\ Fresh /\ Reads /\ Exact /\ Close
-----------------------------------------------------------------------------
\* Division with a remainder.
LEMMA DivMod ==
  ASSUME NEW w \in Nat \ {0}, NEW n \in Nat
  PROVE n % w \in 0 .. w - 1 /\ n \div w \in Nat /\ n = w * (n \div w) + (n % w)
  BY SMT

\* Multiples of w that are near to w.
LEMMA Multiples ==
  ASSUME NEW w \in Nat \ {0}, NEW k \in Int
  PROVE /\ k >= 2 => w * k >= 2 * w
        /\ k <= -1 => w * k <= -w
        /\ k = 0 => w * k = 0
        /\ k = 1 => w * k = w
  BY SMT

\* The counter goes on by one, and from its last value to zero.
LEMMA NextMod ==
  ASSUME NEW w \in Nat \ {0}, NEW n \in Nat
  PROVE (n + 1) % w = IF n % w = w - 1 THEN 0 ELSE (n % w) + 1
<1>. DEFINE q == n \div w
            r == n % w
            q1 == (n + 1) \div w
            r1 == (n + 1) % w
            k == q1 - q
<1>1. q \in Nat /\ r \in 0 .. w - 1 /\ n = w * q + r
  BY DivMod
<1>2. q1 \in Nat /\ r1 \in 0 .. w - 1 /\ n + 1 = w * q1 + r1
  <2>1. n + 1 \in Nat
    OBVIOUS
  <2>. QED BY <2>1, DivMod
<1>. HIDE DEF q, r, q1, r1
<1>3. w * q1 = w * q + w * k
  BY <1>1, <1>2, SMT
<1>. HIDE DEF k
<1>4. k \in Int
  BY <1>1, <1>2 DEF k
<1>5. w * q \in Int /\ w * q1 \in Int /\ w * k \in Int
  BY <1>1, <1>2, <1>4, SMT
<1>6. w * k = r + 1 - r1
  BY <1>1, <1>2, <1>3, <1>5, SMT
<1>7. k = 0 \/ k = 1
  BY <1>6, <1>1, <1>2, <1>4, Multiples, SMT
<1>8. r1 = IF r = w - 1 THEN 0 ELSE r + 1
  BY <1>7, <1>6, <1>1, <1>2, Multiples, SMT
<1>. QED BY <1>8 DEF r, r1

-----------------------------------------------------------------------------
\* The counter and the age are within a turn.
LEMMA Ages ==
  ASSUME LapSizes, now \in Nat, gt \in Times
  PROVE /\ Lap!Tar \in 0 .. W - 1 /\ Age \in 0 .. W - 1 /\ Behind \in Int
        /\ gt.time \in Nat /\ gt.prev \in 0 .. W - 1
<1>1. W \in Nat \ {0}
  BY DEF LapSizes
<1>2. Lap!Tar \in 0 .. W - 1
  BY <1>1, DivMod DEF Lap!Tar
<1>3. gt.time \in Nat /\ gt.prev \in 0 .. W - 1
  BY DEF Times
<1>4. Age \in 0 .. W - 1
  BY <1>1, <1>2, <1>3, SMT DEF Age
<1>. QED BY <1>2, <1>3, <1>4, SMT DEF Behind

\* A tick ages global_time, as long as the counter does not come round.
LEMMA AgeOfTick ==
  ASSUME LapSizes, now \in Nat, gt \in Times, now' = now + 1, gt' = gt, Age < W - 1
  PROVE Age' = Age + 1 /\ Behind' = Behind
<1>1. W \in Nat \ {0}
  BY DEF LapSizes
<1>2. Lap!Tar' = IF Lap!Tar = W - 1 THEN 0 ELSE Lap!Tar + 1
  BY <1>1, NextMod DEF Lap!Tar
<1>3. Lap!Tar \in 0 .. W - 1 /\ gt.prev \in 0 .. W - 1 /\ gt.time \in Nat
  BY Ages
<1>4. Age' = Age + 1
  BY <1>1, <1>2, <1>3, SMT DEF Age
<1>. QED BY <1>4, <1>3, Ages, SMT DEF Behind

\* An update makes global_time the time now, but for what it was behind.
LEMMA AgeOfUpdate ==
  ASSUME LapSizes, now \in Nat, gt \in Times, now' = now, gt' = Lap!Updated(Lap!Tar)
  PROVE gt' \in Times /\ Age' = 0 /\ Behind' = Behind
<1>1. Lap!Tar \in 0 .. W - 1 /\ gt.prev \in 0 .. W - 1 /\ gt.time \in Nat /\ Age \in 0 .. W - 1
  BY Ages
<1>2. gt' = [time |-> gt.time + Age, prev |-> Lap!Tar]
  BY DEF Lap!Updated, Age
<1>3. gt.time + Age \in Nat
  BY <1>1, SMT
<1>4. gt' \in Times /\ gt'.time = gt.time + Age /\ gt'.prev = Lap!Tar
  BY <1>1, <1>2, <1>3 DEF Times
<1>5. Lap!Tar' = Lap!Tar
  BY DEF Lap!Tar
<1>6. Age' = 0
  BY <1>1, <1>4, <1>5, SMT DEF Age
<1>. QED BY <1>1, <1>4, <1>6, SMT DEF Behind
\* The fields and what they hold.
LEMMA LapFields ==
  ASSUME LapSizes, LapTypes
  PROVE /\ W \in Nat \ {0} /\ Display \in Nat /\ Display >= 1 /\ W >= Display + 3
        /\ now \in Nat /\ cnt \in Nat /\ cnt <= Display - 1
        /\ lap.run \in BOOLEAN /\ lap.torn \in BOOLEAN /\ lap.t \in Int /\ lap.t0 \in Int /\ lap.stopped \in Nat
        /\ lap.at[1] \in Nat /\ lap.at[2] \in Nat /\ lap.at0[1] \in Nat /\ lap.at0[2] \in Nat
        /\ rd.from \in Nat /\ rd.low \in Nat /\ rd.high \in Nat /\ rd.slow \in BOOLEAN
        /\ rd.for \in {"reset", "start", "display"} /\ Slow \in {0, 1}
        /\ tmr.ie \in BOOLEAN /\ tmr.ccr \in Nat /\ Since(cnt) \in 1 .. Display
        /\ Age \in 0 .. W - 1 /\ Behind \in Int
<1>1. now \in Nat /\ tmr \in Timers /\ gt \in Times /\ rd \in Readers /\ lap \in Watches
      /\ cnt \in 0 .. Display - 1
  BY DEF LapTypes
<1>2. /\ lap.run \in BOOLEAN /\ lap.torn \in BOOLEAN /\ lap.t \in Int /\ lap.t0 \in Int /\ lap.stopped \in Nat
      /\ lap.at \in Nat \X Nat /\ lap.at0 \in Nat \X Nat
  BY <1>1, Zenon DEF Watches
<1>3. /\ rd.from \in Nat /\ rd.low \in Nat /\ rd.high \in Nat /\ rd.slow \in BOOLEAN
      /\ rd.for \in {"reset", "start", "display"}
  BY <1>1, Zenon DEF Readers
<1>4. tmr.ie \in BOOLEAN /\ tmr.ccr \in Nat
  BY <1>1, Zenon DEF Timers
<1>5. W \in Nat \ {0} /\ Display \in Nat /\ Display >= 1 /\ W >= Display + 3
  BY DEF LapSizes
<1>6. cnt \in Nat /\ cnt <= Display - 1 /\ Since(cnt) \in 1 .. Display
  BY <1>1, <1>5, SMT DEF Since
<1>7. Age \in 0 .. W - 1 /\ Behind \in Int
  BY <1>1, Ages
<1>. QED BY <1>1, <1>2, <1>3, <1>4, <1>5, <1>6, <1>7 DEF Slow

-----------------------------------------------------------------------------
\* The invariant holds when the timer is switched on (main.c, main).
LEMMA LapInit == ASSUME LapSizes, Lap!Init PROVE LapInv
<1>1. /\ now = 0 /\ tmr = [ccr |-> Compare, ifg |-> FALSE, ie |-> TRUE]
      /\ gt = [time |-> 0, prev |-> 0] /\ pc = "loop" /\ cnt = 0
      /\ rd = [for |-> "reset", from |-> 0, low |-> 0, high |-> 0, slow |-> FALSE]
      /\ lap = [run |-> FALSE, t |-> 0, t0 |-> 0, at |-> <<0, 0>>, at0 |-> <<0, 0>>,
                stopped |-> 0, torn |-> FALSE]
  BY DEF Lap!Init
<1>2. 0 \in Nat /\ 0 \in Int /\ <<0, 0>> \in Nat \X Nat /\ Compare \in Nat /\ 0 \in 0 .. W - 1
      /\ 0 \in 0 .. Display - 1
  BY SMT DEF LapSizes
<1>3. tmr \in Timers
  BY <1>1, <1>2, Zenon DEF Timers
<1>4. gt \in Times
  BY <1>1, <1>2, Zenon DEF Times
<1>5. rd \in Readers
  BY <1>1, <1>2, Zenon DEF Readers
<1>6. lap \in Watches
  BY <1>1, <1>2, Zenon DEF Watches
<1>7. LapTypes
  BY <1>1, <1>2, <1>3, <1>4, <1>5, <1>6 DEF LapTypes
<1>8. /\ ~ lap.run /\ lap.t = 0 /\ lap.t0 = 0 /\ lap.at[1] = 0 /\ lap.at[2] = 0 /\ lap.at0[1] = 0
      /\ lap.at0[2] = 0 /\ tmr.ie
  BY <1>1
<1>9. Fresh /\ Reads
  BY <1>1, <1>8 DEF Fresh, Reads, Updating
<1>10. Exact
  BY <1>8, SMT DEF Exact, Lap!TimeIsExact
<1>11. Close
  BY <1>8 DEF Close, Lap!StopIsClose
<1>. QED BY <1>7, <1>9, <1>10, <1>11 DEF LapInv

\* A tick of the clock.
LEMMA LapTick == ASSUME LapSizes, LapInv, Lap!Tick PROVE LapInv'
<1>1. LapTypes /\ Fresh /\ Reads /\ Exact /\ Close
  BY DEF LapInv
<1>2. /\ now' = now + 1 /\ gt' = gt /\ cnt' = cnt /\ lap' = lap
      /\ tmr' = [tmr EXCEPT !.ifg = tmr.ifg \/ (now + 1) % W = tmr.ccr]
      /\ pc' = IF pc = "delay" THEN "loop" ELSE pc
      /\ rd' = [rd EXCEPT !.slow = pc # "delay"]
      /\ pc = "delay" \/ (pc # "loop" /\ ~ rd.slow)
  BY DEF Lap!Tick
<1>3. tmr' \in Timers /\ tmr'.ie = tmr.ie
  <2>. DEFINE x == tmr.ifg \/ (now + 1) % W = tmr.ccr
  <2>1. tmr \in Timers /\ x \in BOOLEAN
    BY <1>1 DEF LapTypes, Timers
  <2>2. tmr' = [tmr EXCEPT !.ifg = x]
    BY <1>2
  <2>. HIDE DEF x
  <2>. QED BY <2>1, <2>2, Zenon DEF Timers
<1>4. /\ rd' \in Readers /\ rd'.slow = (pc # "delay") /\ rd'.from = rd.from /\ rd'.for = rd.for
      /\ rd'.low = rd.low /\ rd'.high = rd.high
  <2>. DEFINE x == pc # "delay"
  <2>1. rd \in Readers /\ x \in BOOLEAN
    BY <1>1 DEF LapTypes
  <2>2. rd' = [rd EXCEPT !.slow = x]
    BY <1>2
  <2>. HIDE DEF x
  <2>3. /\ rd' \in Readers /\ rd'.slow = x /\ rd'.from = rd.from /\ rd'.for = rd.for
        /\ rd'.low = rd.low /\ rd'.high = rd.high
    BY <2>1, <2>2, Zenon DEF Readers
  <2>. QED BY <2>3 DEF x
<1>5. LapTypes'
  <2>1. now' \in Nat
    BY <1>1, <1>2, SMT DEF LapTypes
  <2>. QED BY <2>1, <1>1, <1>2, <1>3, <1>4 DEF LapTypes
<1>6. ASSUME lap.run \/ Updating PROVE Age' = Age + 1 /\ Behind' = Behind
  <2>1. Age < W - 1
    <3>1. CASE lap.run /\ pc = "delay"
      BY <3>1, <1>1, LapFields, SMT DEF Fresh
    <3>2. CASE lap.run /\ pc = "update"
      BY <3>2, <1>1, <1>2, LapFields, SMT DEF Fresh, Slow
    <3>3. CASE Updating
      BY <3>3, <1>1, LapFields, SMT DEF Fresh
    <3>. QED BY <3>1, <3>2, <3>3, <1>1, <1>2, <1>6 DEF LapTypes, Updating
  <2>. QED BY <2>1, <1>1, <1>2, AgeOfTick DEF LapTypes
<1>7. Slow' = IF pc = "delay" THEN 0 ELSE 1
  BY <1>4 DEF Slow
<1>8. Since(cnt)' = Since(cnt)
  BY <1>2 DEF Since
<1>9. Fresh'
  <2>1. lap'.run /\ pc' = "loop" => Age' <= Since(cnt)' + 1
    BY <1>1, <1>2, <1>6, <1>8, LapFields, SMT DEF Fresh
  <2>2. ~ (lap'.run /\ pc' = "delay")
    BY <1>2
  <2>3. lap'.run /\ pc' = "update" => Age' <= Display + 1 + Slow'
    BY <1>1, <1>2, <1>6, <1>7, LapFields, SMT DEF Fresh, Slow
  <2>4. Updating' => Age' <= Slow'
    <3>1. Updating' => Updating /\ pc # "delay"
      BY <1>2, <1>3 DEF Updating
    <3>. QED BY <3>1, <1>1, <1>2, <1>6, <1>7, LapFields, SMT DEF Fresh, Slow
  <2>. QED BY <2>1, <2>2, <2>3, <2>4, <1>8 DEF Fresh
<1>10. Reads'
  <2>1. pc' \in {"update", "low", "high"} => pc' = pc /\ pc # "delay" /\ ~ rd.slow
    BY <1>2
  <2>2. pc' \in {"update", "low", "high"} => now' = rd'.from + Slow'
    BY <2>1, <1>1, <1>2, <1>4, <1>7, LapFields, SMT DEF Reads, Slow
  <2>3. pc' = "high" => LET v == W * rd'.high + rd'.low + Behind' IN rd'.from <= v /\ v <= now'
    <3>1. pc' = "high" => Behind' = Behind
      BY <2>1, <1>6 DEF Updating
    <3>2. W * rd.high \in Int
      BY <1>1, LapFields, SMT
    <3>. QED BY <2>1, <3>1, <3>2, <1>1, <1>2, <1>4, LapFields, SMT DEF Reads
  <2>. QED BY <2>1, <2>2, <2>3, <1>1, <1>2, <1>4 DEF Reads
<1>11. Exact'
  BY <1>1, <1>2, <1>6 DEF Exact, Lap!TimeIsExact
<1>12. Close'
  <2>1. lap'.run /\ pc' = "loop" => now' - lap'.at[2] <= Since(cnt)'
    BY <1>1, <1>2, <1>8, LapFields, SMT DEF Close
  <2>. QED BY <2>1, <1>1, <1>2, <1>8 DEF Close, Lap!StopIsClose
<1>. QED BY <1>5, <1>9, <1>10, <1>11, <1>12 DEF LapInv
\* Where the clock stands still and global_time with it, nothing ages.
LEMMA AgeKept ==
  ASSUME now' = now, gt' = gt PROVE Age' = Age /\ Behind' = Behind
BY DEF Age, Behind, Lap!Tar

\* The interrupt (Timer_A).
LEMMA LapTimerA == ASSUME LapSizes, LapInv, Lap!TimerA PROVE LapInv'
<1>1. LapTypes /\ Fresh /\ Reads /\ Exact /\ Close
  BY DEF LapInv
<1>2. /\ now' = now /\ gt' = Lap!Updated(Lap!Tar) /\ cnt' = cnt /\ lap' = lap /\ pc' = pc /\ rd' = rd
      /\ tmr' = [ccr |-> (tmr.ccr + Compare) % W, ifg |-> FALSE, ie |-> TRUE] /\ tmr.ie
  BY DEF Lap!TimerA
<1>3. gt' \in Times /\ Age' = 0 /\ Behind' = Behind
  BY <1>1, <1>2, AgeOfUpdate DEF LapTypes
<1>4. tmr' \in Timers /\ tmr'.ie
  <2>. DEFINE x == (tmr.ccr + Compare) % W
  <2>1. tmr.ccr + Compare \in Nat /\ W \in Nat \ {0}
    BY <1>1, LapFields, SMT DEF LapSizes
  <2>2. x \in Nat
    BY <2>1, DivMod
  <2>3. tmr' = [ccr |-> x, ifg |-> FALSE, ie |-> TRUE]
    BY <1>2
  <2>. HIDE DEF x
  <2>. QED BY <2>2, <2>3, Zenon DEF Timers
<1>5. LapTypes'
  BY <1>1, <1>2, <1>3, <1>4 DEF LapTypes
<1>6. Slow' = Slow /\ Since(cnt)' = Since(cnt)
  BY <1>2 DEF Slow, Since
<1>7. Fresh'
  <2>1. Updating' => Age' <= Slow'
    BY <1>3, <1>6, <1>1, LapFields, SMT
  <2>2. Age' <= Since(cnt)' /\ Age' <= Since(cnt)' + 1 /\ Age' <= Display + 1 + Slow'
    BY <1>3, <1>6, <1>1, LapFields, SMT
  <2>. QED BY <2>1, <2>2 DEF Fresh
<1>8. Reads'
  BY <1>1, <1>2, <1>3, <1>6 DEF Reads
<1>9. Exact' /\ Close'
  BY <1>1, <1>2, <1>3, <1>6 DEF Exact, Close, Lap!TimeIsExact, Lap!StopIsClose
<1>. QED BY <1>5, <1>7, <1>8, <1>9 DEF LapInv

\* The first half of global_time_update in the main loop, and the second.
LEMMA LapMask == ASSUME LapSizes, LapInv, Lap!Mask PROVE LapInv'
<1>1. LapTypes /\ Fresh /\ Reads /\ Exact /\ Close
  BY DEF LapInv
<1>2. /\ now' = now /\ gt' = Lap!Updated(Lap!Tar) /\ cnt' = cnt /\ lap' = lap /\ pc' = pc /\ rd' = rd
      /\ tmr' = [tmr EXCEPT !.ie = FALSE] /\ pc = "update"
  BY DEF Lap!Mask
<1>3. gt' \in Times /\ Age' = 0 /\ Behind' = Behind
  BY <1>1, <1>2, AgeOfUpdate DEF LapTypes
<1>4. tmr' \in Timers
  <2>1. tmr \in Timers
    BY <1>1 DEF LapTypes
  <2>. QED BY <2>1, <1>2, Zenon DEF Timers
<1>5. LapTypes'
  BY <1>1, <1>2, <1>3, <1>4 DEF LapTypes
<1>6. Slow' = Slow
  BY <1>2 DEF Slow
<1>7. Fresh'
  <2>1. Age' <= Slow' /\ Age' <= Display + 1 + Slow'
    BY <1>3, <1>6, <1>1, LapFields, SMT
  <2>. QED BY <2>1, <1>2 DEF Fresh
<1>8. Reads'
  BY <1>1, <1>2, <1>3, <1>6 DEF Reads
<1>9. Exact' /\ Close'
  BY <1>1, <1>2, <1>3 DEF Exact, Close, Lap!TimeIsExact, Lap!StopIsClose
<1>. QED BY <1>5, <1>7, <1>8, <1>9 DEF LapInv

LEMMA LapUnmask == ASSUME LapSizes, LapInv, Lap!Unmask PROVE LapInv'
<1>1. LapTypes /\ Fresh /\ Reads /\ Exact /\ Close
  BY DEF LapInv
<1>2. /\ now' = now /\ gt' = gt /\ cnt' = cnt /\ lap' = lap /\ pc' = "low" /\ rd' = rd
      /\ tmr' = [tmr EXCEPT !.ie = TRUE, !.ifg = FALSE] /\ pc = "update" /\ ~ tmr.ie
  BY DEF Lap!Unmask
<1>3. Age' = Age /\ Behind' = Behind
  BY <1>2, AgeKept
<1>4. tmr' \in Timers /\ tmr'.ie
  <2>1. tmr \in Timers
    BY <1>1 DEF LapTypes
  <2>. QED BY <2>1, <1>2, Zenon DEF Timers
<1>5. LapTypes'
  BY <1>1, <1>2, <1>4 DEF LapTypes
<1>6. Slow' = Slow
  BY <1>2 DEF Slow
<1>7. Fresh'
  BY <1>1, <1>2, <1>3, <1>6 DEF Fresh, Updating
<1>8. Reads'
  BY <1>1, <1>2, <1>6 DEF Reads
<1>9. Exact' /\ Close'
  BY <1>1, <1>2, <1>3 DEF Exact, Close, Lap!TimeIsExact, Lap!StopIsClose
<1>. QED BY <1>5, <1>7, <1>8, <1>9 DEF LapInv

\* The two words of get_time's result.
LEMMA LapReadLow == ASSUME LapSizes, LapInv, Lap!ReadLow PROVE LapInv'
<1>1. LapTypes /\ Fresh /\ Reads /\ Exact /\ Close
  BY DEF LapInv
<1>2. /\ now' = now /\ gt' = gt /\ cnt' = cnt /\ lap' = lap /\ pc = "low" /\ pc' = "high" /\ tmr' = tmr
      /\ rd' = [rd EXCEPT !.low = gt.time % W, !.high = gt.time \div W]
  BY DEF Lap!ReadLow
<1>3. Age' = Age /\ Behind' = Behind
  BY <1>2, AgeKept
<1>. DEFINE lo == gt.time % W
            hi == gt.time \div W
<1>4. gt.time \in Nat /\ W \in Nat \ {0}
  BY <1>1, LapFields, Ages DEF LapTypes
<1>5. lo \in Nat /\ hi \in Nat /\ gt.time = W * hi + lo
  <2>1. lo \in 0 .. W - 1 /\ hi \in Nat /\ gt.time = W * hi + lo
    BY <1>4, DivMod, Zenon
  <2>. HIDE DEF lo, hi
  <2>. QED BY <2>1, <1>4, SMT
<1>6. rd' = [rd EXCEPT !.low = lo, !.high = hi]
  BY <1>2
<1>. HIDE DEF lo, hi
<1>7. /\ rd' \in Readers /\ rd'.slow = rd.slow /\ rd'.from = rd.from /\ rd'.for = rd.for
      /\ rd'.low = lo /\ rd'.high = hi
  <2>1. rd \in Readers
    BY <1>1 DEF LapTypes
  <2>. QED BY <2>1, <1>5, <1>6, Zenon DEF Readers
<1>8. LapTypes'
  BY <1>1, <1>2, <1>7 DEF LapTypes
<1>9. Slow' = Slow
  BY <1>7 DEF Slow
<1>10. Fresh'
  BY <1>1, <1>2, <1>3, <1>9 DEF Fresh, Updating
<1>11. Reads'
  <2>1. now = rd.from + Slow /\ Age <= Slow
    BY <1>1, <1>2 DEF Reads, Fresh, Updating
  <2>2. W * hi + lo + Behind = now - Age
    BY <1>5, <1>4, <1>1, LapFields, SMT DEF Behind
  <2>3. rd.from <= now - Age /\ now - Age <= now
    BY <2>1, <1>1, LapFields, SMT
  <2>. QED BY <2>2, <2>3, <1>1, <1>2, <1>3, <1>7, <1>9 DEF Reads
<1>12. Exact' /\ Close'
  BY <1>1, <1>2, <1>3 DEF Exact, Close, Lap!TimeIsExact, Lap!StopIsClose
<1>. QED BY <1>8, <1>10, <1>11, <1>12 DEF LapInv

LEMMA LapReadHigh == ASSUME LapSizes, LapInv, Lap!ReadHigh PROVE LapInv'
<1>1. LapTypes /\ Fresh /\ Reads /\ Exact /\ Close
  BY DEF LapInv
<1>. DEFINE hi == gt.time \div W
            v == hi * W + rd.low
            bad == rd.high # hi
            during == <<rd.from, now>>
            run1 == lap.run \/ rd.for = "start"
            torn1 == lap.torn \/ bad
<1>2. /\ now' = now /\ gt' = gt /\ cnt' = cnt /\ rd' = rd /\ pc = "high" /\ pc' = "delay" /\ tmr' = tmr
      /\ lap' = IF rd.for = "display" THEN [lap EXCEPT !.t = v, !.at = during, !.torn = torn1]
                ELSE [lap EXCEPT !.t = v, !.t0 = v, !.at = during, !.at0 = during,
                                 !.run = run1, !.torn = bad]
  BY DEF Lap!ReadHigh
<1>3. Age' = Age /\ Behind' = Behind
  BY <1>2, AgeKept
<1>4. gt.time \in Nat /\ W \in Nat \ {0} /\ lap \in Watches /\ rd.low \in Nat /\ rd.high \in Nat
      /\ rd.from \in Nat /\ now \in Nat
  BY <1>1, LapFields, Ages DEF LapTypes
<1>5. hi \in Nat
  BY <1>4, DivMod
<1>6. v \in Int /\ (~ bad => v = W * rd.high + rd.low)
  <2>. HIDE DEF hi
  <2>. QED BY <1>4, <1>5, SMT
<1>7. during \in Nat \X Nat /\ during[1] = rd.from /\ during[2] = now
  BY <1>4
<1>8. bad \in BOOLEAN /\ run1 \in BOOLEAN /\ torn1 \in BOOLEAN
  BY <1>4 DEF Watches
<1>9. /\ ~ bad => rd.from <= v + Behind /\ v + Behind <= now
      /\ rd.from <= now
      /\ rd.for = "display" => lap.run
      /\ Age <= Slow
  <2>1. /\ LET w == W * rd.high + rd.low + Behind IN rd.from <= w /\ w <= now
        /\ now = rd.from + Slow /\ (rd.for = "display" => lap.run) /\ Age <= Slow
    BY <1>1, <1>2 DEF Reads, Fresh, Updating
  <2>2. rd.from <= now
    BY <2>1, <1>4, <1>1, LapFields, SMT
  <2>. QED BY <2>1, <2>2, <1>6
<1>. HIDE DEF v, bad, during, run1, torn1, hi
<1>10. lap' \in Watches
  BY <1>2, <1>4, <1>6, <1>7, <1>8, Zenon DEF Watches
<1>11. LapTypes'
  BY <1>1, <1>2, <1>10 DEF LapTypes
<1>12. Fresh'
  <2>1. Age' <= Since(cnt)'
    BY <1>1, <1>2, <1>3, <1>9, LapFields, SMT DEF Since
  <2>. QED BY <2>1, <1>2 DEF Fresh, Updating
<1>13. Reads'
  BY <1>2 DEF Reads
<1>14. CASE rd.for = "display"
  <2>1. lap' = [lap EXCEPT !.t = v, !.at = during, !.torn = torn1]
    BY <1>2, <1>14
  <2>2. /\ lap'.t = v /\ lap'.t0 = lap.t0 /\ lap'.at = during /\ lap'.at0 = lap.at0 /\ lap'.run = lap.run
        /\ lap'.torn = torn1
    BY <2>1, <1>4, Zenon DEF Watches
  <2>3. lap.run /\ (torn1 <=> lap.torn \/ bad)
    BY <1>9, <1>14 DEF torn1
  <2>4. Exact'
    <3>1. lap'.at[1] <= lap'.at[2] /\ lap'.at0[1] <= lap'.at0[2]
      BY <2>2, <1>7, <1>9, <1>1 DEF Exact
    <3>2. ~ lap'.torn => lap'.at0[1] <= lap'.t0 + Behind' /\ lap'.t0 + Behind' <= lap'.at0[2]
      BY <2>2, <2>3, <1>3, <1>1 DEF Exact
    <3>3. ~ lap'.torn => /\ lap'.t - lap'.t0 >= lap'.at[1] - lap'.at0[2]
                         /\ lap'.t - lap'.t0 <= lap'.at[2] - lap'.at0[1]
      <4>1. ~ torn1 => /\ lap.at0[1] <= lap.t0 + Behind /\ lap.t0 + Behind <= lap.at0[2]
                       /\ rd.from <= v + Behind /\ v + Behind <= now
        BY <2>3, <1>9, <1>1 DEF Exact
      <4>2. ~ torn1 => v - lap.t0 >= rd.from - lap.at0[2] /\ v - lap.t0 <= now - lap.at0[1]
        BY <4>1, <1>4, <1>6, <1>1, LapFields, SMT
      <4>. QED BY <4>2, <2>2, <1>7
    <3>. QED BY <3>1, <3>2, <3>3, <1>2 DEF Exact, Lap!TimeIsExact
  <2>5. Close'
    <3>1. now' - lap'.at[2] = 0 /\ Since(cnt)' >= 1
      BY <2>2, <1>7, <1>2, <1>1, LapFields, SMT DEF Since
    <3>2. now' - lap'.at[2] <= Since(cnt)' - 1
      BY <3>1, <1>2, <1>1, LapFields, SMT DEF Since
    <3>. QED BY <3>2, <2>2, <2>3, <1>2 DEF Close, Lap!StopIsClose
  <2>. QED BY <1>11, <1>12, <1>13, <2>4, <2>5 DEF LapInv
<1>15. CASE rd.for # "display"
  <2>1. lap' = [lap EXCEPT !.t = v, !.t0 = v, !.at = during, !.at0 = during, !.run = run1, !.torn = bad]
    BY <1>2, <1>15
  <2>2. /\ lap'.t = v /\ lap'.t0 = v /\ lap'.at = during /\ lap'.at0 = during /\ lap'.torn = bad
    BY <2>1, <1>4, Zenon DEF Watches
  <2>3. Exact'
    <3>1. v - v = 0 /\ rd.from - now <= 0 /\ now - rd.from >= 0
      BY <1>6, <1>4, <1>9, SMT
    <3>. QED BY <3>1, <2>2, <1>3, <1>7, <1>9, SMT DEF Exact, Lap!TimeIsExact
  <2>4. Close'
    <3>1. now' - lap'.at[2] <= Since(cnt)' - 1
      BY <2>2, <1>7, <1>2, <1>1, LapFields, SMT DEF Since
    <3>. QED BY <3>1, <2>2, <1>2 DEF Close, Lap!StopIsClose
  <2>. QED BY <1>11, <1>12, <1>13, <2>3, <2>4 DEF LapInv
<1>. QED BY <1>14, <1>15
\* A number below w is its own remainder.
LEMMA SmallMod ==
  ASSUME NEW w \in Nat \ {0}, NEW n \in 0 .. w - 1 PROVE n % w = n
<1>. DEFINE q == n \div w
            r == n % w
<1>1. q \in Nat /\ r \in 0 .. w - 1 /\ n = w * q + r
  <2>1. n \in Nat
    OBVIOUS
  <2>. QED BY <2>1, DivMod
<1>. HIDE DEF q, r
<1>2. q \in Int /\ w * q \in Int /\ w * q < w
  BY <1>1, SMT
<1>3. q = 0
  <2>1. CASE q = 1
    BY <2>1, <1>2, Multiples, SMT
  <2>2. CASE q >= 2
    BY <2>2, <1>2, Multiples, SMT
  <2>. QED BY <2>1, <2>2, <1>1, SMT
<1>4. r = n
  BY <1>1, <1>2, <1>3, Multiples, SMT
<1>. QED BY <1>4 DEF r

\* The turns of the loop are counted from display to display.
LEMMA NextCnt ==
  ASSUME LapSizes, LapTypes, cnt' = (cnt + 1) % Display
  PROVE cnt' \in 0 .. Display - 1 /\ (cnt # 0 => Since(cnt)' = cnt + 1)
<1>1. Display \in Nat \ {0} /\ cnt \in 0 .. Display - 1
  BY DEF LapSizes, LapTypes
<1>2. cnt % Display = cnt
  BY <1>1, SmallMod
<1>3. cnt \in Nat
  BY <1>1
<1>4. cnt' = IF cnt = Display - 1 THEN 0 ELSE cnt + 1
  BY <1>1, <1>2, <1>3, NextMod
<1>. QED BY <1>1, <1>4, SMT DEF Since

\* A turn of the main loop.
LEMMA LapLoop == ASSUME LapSizes, LapInv, Lap!Loop PROVE LapInv'
<1>1. LapTypes /\ Fresh /\ Reads /\ Exact /\ Close
  BY DEF LapInv
<1>2. now' = now /\ gt' = gt /\ tmr' = tmr /\ pc = "loop" /\ cnt' = (cnt + 1) % Display
  BY DEF Lap!Loop
<1>3. Age' = Age /\ Behind' = Behind
  BY <1>2, AgeKept
<1>4. cnt' \in 0 .. Display - 1 /\ (cnt # 0 => Since(cnt)' = cnt + 1)
  BY <1>1, <1>2, NextCnt
<1>5. /\ lap \in Watches /\ rd \in Readers /\ now \in Nat /\ tmr.ie
  BY <1>1, <1>2 DEF LapTypes
<1>6. lap.run => Age <= Since(cnt) + 1 /\ now - lap.at[2] <= Since(cnt)
  BY <1>1, <1>2 DEF Fresh, Close
<1>7. ASSUME NEW for \in {"reset", "start", "display"}, Lap!GetTime(for), lap' = lap,
             for = "display" => lap.run, for = "start" => ~ lap.run
      PROVE LapInv'
  <2>1. pc' = "update" /\ rd' = [rd EXCEPT !.for = for, !.from = now, !.slow = FALSE]
    BY <1>7 DEF Lap!GetTime
  <2>2. rd' \in Readers /\ rd'.for = for /\ rd'.from = now /\ rd'.slow = FALSE
    BY <2>1, <1>5, Zenon DEF Readers
  <2>3. LapTypes'
    BY <1>1, <1>2, <1>4, <1>7, <2>1, <2>2 DEF LapTypes
  <2>4. Slow' = 0
    BY <2>2 DEF Slow
  <2>5. lap.run => Age <= Display + 1
    BY <1>6, <1>1, LapFields, SMT
  <2>6. Fresh'
    BY <2>1, <2>4, <2>5, <1>2, <1>3, <1>5, <1>7, LapFields, <1>1, SMT DEF Fresh, Updating
  <2>7. Reads'
    BY <2>1, <2>2, <2>4, <1>2, <1>7, <1>5, SMT DEF Reads
  <2>8. Exact' /\ Close'
    BY <1>1, <1>2, <1>3, <1>7, <2>1 DEF Exact, Close, Lap!TimeIsExact, Lap!StopIsClose
  <2>. QED BY <2>3, <2>6, <2>7, <2>8 DEF LapInv
<1>8. ASSUME pc' = "delay", rd' = rd, lap' = lap, cnt # 0 \/ ~ lap.run
      PROVE LapInv'
  <2>1. LapTypes'
    BY <1>1, <1>2, <1>4, <1>8 DEF LapTypes
  <2>2. lap.run => Age <= Since(cnt)' /\ now - lap.at[2] <= Since(cnt)' - 1
    BY <1>4, <1>6, <1>8, <1>1, LapFields, SMT DEF Since
  <2>3. Fresh'
    BY <2>2, <1>2, <1>3, <1>8 DEF Fresh, Updating
  <2>4. Reads'
    BY <1>8 DEF Reads
  <2>5. Exact' /\ Close'
    BY <2>2, <1>1, <1>2, <1>3, <1>8 DEF Exact, Close, Lap!TimeIsExact, Lap!StopIsClose
  <2>. QED BY <2>1, <2>3, <2>4, <2>5 DEF LapInv
<1>9. ASSUME lap.run, Lap!Stop PROVE LapInv'
  <2>1. pc' = "delay" /\ rd' = rd /\ lap' = [lap EXCEPT !.run = FALSE, !.stopped = now]
    BY <1>9 DEF Lap!Stop
  <2>2. /\ lap' \in Watches /\ lap'.run = FALSE /\ lap'.stopped = now /\ lap'.t = lap.t /\ lap'.t0 = lap.t0
        /\ lap'.at = lap.at /\ lap'.at0 = lap.at0 /\ lap'.torn = lap.torn
    BY <2>1, <1>5, Zenon DEF Watches
  <2>3. LapTypes'
    BY <1>1, <1>2, <1>4, <2>1, <2>2 DEF LapTypes
  <2>4. Fresh' /\ Reads'
    BY <2>1, <2>2 DEF Fresh, Reads, Updating
  <2>5. Exact'
    BY <1>1, <2>2 DEF Exact, Lap!TimeIsExact
  <2>6. now - lap.at[2] <= Display
    BY <1>6, <1>9, <1>1, LapFields, SMT
  <2>7. Close'
    BY <2>2, <2>6 DEF Close, Lap!StopIsClose
  <2>. QED BY <2>3, <2>4, <2>5, <2>7 DEF LapInv
<1>10. \/ lap.run /\ Lap!GetTime("display") /\ UNCHANGED lap
       \/ Lap!GetTime("reset") /\ UNCHANGED lap
       \/ lap.run /\ Lap!Stop
       \/ ~ lap.run /\ Lap!GetTime("start") /\ UNCHANGED lap
       \/ (cnt # 0 \/ ~ lap.run) /\ pc' = "delay" /\ UNCHANGED <<rd, lap>>
  BY DEF Lap!Loop, Lap!Go
<1>. QED BY <1>7, <1>8, <1>9, <1>10

LEMMA LapStutter == ASSUME LapSizes, LapInv, UNCHANGED Lap!vars PROVE LapInv'
<1>1. /\ now' = now /\ tmr' = tmr /\ gt' = gt /\ pc' = pc /\ rd' = rd /\ cnt' = cnt /\ lap' = lap
  BY DEF Lap!vars
<1>2. Age' = Age /\ Behind' = Behind
  BY <1>1, AgeKept
<1>. QED BY <1>1, <1>2 DEF LapInv, LapTypes, Fresh, Reads, Exact, Close, Updating, Slow, Since,
                          Lap!TimeIsExact, Lap!StopIsClose

\* A step of the lap timer, or none, keeps the invariant.
LEMMA LapStep == ASSUME LapSizes, LapInv, [Lap!Next]_(Lap!vars) PROVE LapInv'
<1>1. CASE Lap!Next
  BY <1>1, LapTick, LapTimerA, LapLoop, LapMask, LapUnmask, LapReadLow, LapReadHigh DEF Lap!Next
<1>2. CASE UNCHANGED Lap!vars
  BY <1>2, LapStutter
<1>. QED BY <1>1, <1>2

\* The time shown is exact to the tick unless its two words were of different times, although
\* the display throws interrupts away and the counter turns; and the result is not older than
\* a display's period (main.c, get_time, global_time_update and display_idle).
THEOREM LapTimeAlways ==
  LapSizes => (Lap!Init /\ [][Lap!Next]_(Lap!vars) => [](Lap!TimeIsExact /\ Lap!StopIsClose))
<1>. SUFFICES ASSUME LapSizes
              PROVE Lap!Init /\ [][Lap!Next]_(Lap!vars) => [](Lap!TimeIsExact /\ Lap!StopIsClose)
  OBVIOUS
<1>1. Lap!Init => LapInv
  BY LapInit
<1>2. LapInv /\ [Lap!Next]_(Lap!vars) => LapInv'
  BY LapStep
<1>3. LapInv => Lap!TimeIsExact /\ Lap!StopIsClose
  BY DEF LapInv, Exact, Close
<1>. QED BY <1>1, <1>2, <1>3, PTL
-----------------------------------------------------------------------------
(***************************************************************************)
(* The cars on the motorway.                                               *)
(***************************************************************************)

\* Kilometres from x to y in a direction.
Forth(d, x, y) == IF d = 1 THEN y - x ELSE x - y
Stretches == [km_od : Nat, km_do : Nat, pocet_pruhu : {1, 2}, delka : Nat]

\* The sections of a road, one from each kilometre of the table to the next.
Leads(S, kms) ==
  /\ S \in Seq(Stretches) /\ Len(S) = Len(kms) - 1
  /\ \A n \in 1 .. Len(kms) - 1 :
        /\ S[n].km_od = kms[n] /\ S[n].km_do = kms[n + 1]
        /\ S[n].delka = IF kms[n] < kms[n + 1] THEN kms[n + 1] - kms[n] ELSE kms[n] - kms[n + 1]

\* Every section goes forth in its direction, and begins where the one before it ends.
Follows(d, S) ==
  /\ S \in Seq(Stretches) /\ Len(S) \in Nat
  /\ \A n \in 1 .. Len(S) :
        /\ S[n] \in Stretches
        /\ S[n].km_od \in Nat /\ S[n].km_do \in Nat
        /\ Forth(d, S[n].km_od, S[n].km_do) > 0
        /\ S[n].delka = Forth(d, S[n].km_od, S[n].km_do)
        /\ n < Len(S) => S[n + 1].km_od = S[n].km_do

\* The table of a direction.
Table(d, kms) ==
  /\ kms \in Seq(Nat) /\ Len(kms) \in 2 .. 58
  /\ \A n \in 1 .. Len(kms) - 1 : Forth(d, kms[n], kms[n + 1]) > 0
-----------------------------------------------------------------------------
LEMMA RoadOf ==
  ASSUME NEW kms, kms \in Seq(Nat), NEW one PROVE Leads(Road!Road(kms, one), kms) \/ Len(kms) = 0
<1>. DEFINE S == Road!Road(kms, one)
<1>. SUFFICES ASSUME Len(kms) # 0 PROVE Leads(S, kms)
  OBVIOUS
<1>1. S = [n \in 1 .. Len(kms) - 1 |->
            Road!Section(kms[n], kms[n + 1], IF <<kms[n], kms[n + 1]>> \in one THEN 1 ELSE 2)]
  BY DEF Road!Road
<1>2. Len(kms) - 1 \in Nat
  BY SMT
<1>. HIDE DEF S
<1>3. ASSUME NEW n \in 1 .. Len(kms) - 1
      PROVE /\ S[n] \in Stretches /\ S[n].km_od = kms[n] /\ S[n].km_do = kms[n + 1]
            /\ S[n].delka = IF kms[n] < kms[n + 1] THEN kms[n + 1] - kms[n] ELSE kms[n] - kms[n + 1]
  <2>1. PICK lanes \in {1, 2} : S[n] = Road!Section(kms[n], kms[n + 1], lanes)
    BY <1>1
  <2>2. n \in 1 .. Len(kms) /\ n + 1 \in 1 .. Len(kms)
    BY <1>2, SMT
  <2>3. kms[n] \in Nat /\ kms[n + 1] \in Nat
    BY <2>2, ElementOfSeq
  <2>. QED BY <2>1, <2>3, SMTT(30) DEF Road!Section, Stretches
<1>4. S \in [1 .. Len(kms) - 1 -> Stretches]
  BY <1>1, <1>3, Zenon
<1>5. S \in Seq(Stretches) /\ Len(S) = Len(kms) - 1
  BY <1>4, <1>2, SMTT(30)
<1>. QED BY <1>3, <1>5 DEF Leads

\* The kilometres of the table fall towards Praha and rise towards Olomouc.
LEMMA Kilometres ==
  /\ Road!kmPraha \in Seq(Nat) /\ Len(Road!kmPraha) = 58
  /\ \A n \in 1 .. 57 : Road!kmPraha[n] > Road!kmPraha[n + 1]
  /\ Road!kmOlomouc \in Seq(Nat) /\ Len(Road!kmOlomouc) = 57
  /\ \A n \in 1 .. 56 : Road!kmOlomouc[n] < Road!kmOlomouc[n + 1]
<1>1. Road!kmPraha \in Seq(Nat)
  BY SMT DEF Road!kmPraha
<1>2. Len(Road!kmPraha) = 58 /\ \A n \in 1 .. 57 : Road!kmPraha[n] > Road!kmPraha[n + 1]
  BY SMT DEF Road!kmPraha
<1>3. Road!kmOlomouc \in Seq(Nat)
  BY SMT DEF Road!kmOlomouc
<1>4. Len(Road!kmOlomouc) = 57 /\ \A n \in 1 .. 56 : Road!kmOlomouc[n] < Road!kmOlomouc[n + 1]
  BY SMT DEF Road!kmOlomouc
<1>. QED BY <1>1, <1>2, <1>3, <1>4

LEMMA Tables == Table(-1, Road!kmPraha) /\ Table(1, Road!kmOlomouc)
<1>1. ASSUME NEW kms \in Seq(Nat) PROVE \A n \in 1 .. Len(kms) : kms[n] \in Nat
  BY ElementOfSeq
<1>2. \A n \in 1 .. 58 : Road!kmPraha[n] \in Nat
  BY <1>1, Kilometres, Zenon
<1>3. \A n \in 1 .. 57 : Road!kmOlomouc[n] \in Nat
  BY <1>1, Kilometres, Zenon
<1>4. /\ Len(Road!kmPraha) = 58 /\ Len(Road!kmOlomouc) = 57
      /\ \A n \in 1 .. 57 : Road!kmPraha[n] > Road!kmPraha[n + 1]
      /\ \A n \in 1 .. 56 : Road!kmOlomouc[n] < Road!kmOlomouc[n + 1]
  BY Kilometres
<1>5. \A n \in 1 .. 57 : Forth(-1, Road!kmPraha[n], Road!kmPraha[n + 1]) > 0
  BY <1>2, <1>4, SMT DEF Forth
<1>6. \A n \in 1 .. 56 : Forth(1, Road!kmOlomouc[n], Road!kmOlomouc[n + 1]) > 0
  BY <1>3, <1>4, SMT DEF Forth
<1>. QED BY <1>4, <1>5, <1>6, Kilometres DEF Table

LEMMA LeadsForth ==
  ASSUME NEW d, NEW kms, NEW S, Table(d, kms), Leads(S, kms) PROVE Follows(d, S) /\ Len(S) \in 1 .. 57
<1>1. kms \in Seq(Nat) /\ Len(kms) \in 2 .. 58
  BY DEF Table
<1>2. \A n \in 1 .. Len(kms) : kms[n] \in Nat
  BY <1>1, ElementOfSeq
<1>3. S \in Seq(Stretches) /\ Len(S) = Len(kms) - 1
  BY DEF Leads
<1>4. Len(S) \in 1 .. 57 /\ Len(S) \in Nat
  <2>. DEFINE j == Len(S)
              k == Len(kms)
  <2>1. j = k - 1 /\ k \in 2 .. 58
    BY <1>1, <1>3
  <2>. HIDE DEF j, k
  <2>2. j \in 1 .. 57 /\ j \in Nat
    BY <2>1, SMT
  <2>. QED BY <2>2 DEF j
<1>5. ASSUME NEW n \in 1 .. Len(S)
      PROVE /\ S[n] \in Stretches
            /\ S[n].km_od \in Nat /\ S[n].km_do \in Nat
            /\ Forth(d, S[n].km_od, S[n].km_do) > 0
            /\ S[n].delka = Forth(d, S[n].km_od, S[n].km_do)
            /\ n < Len(S) => S[n + 1].km_od = S[n].km_do
  <2>1. S[n] \in Stretches
    BY <1>3, ElementOfSeq
  <2>2. n \in 1 .. Len(kms) - 1 /\ n \in 1 .. Len(kms) /\ n + 1 \in 1 .. Len(kms)
        /\ (n < Len(S) => n + 1 \in 1 .. Len(kms) - 1)
    BY <1>1, <1>3, <1>4, SMT
  <2>3. /\ S[n].km_od = kms[n] /\ S[n].km_do = kms[n + 1]
        /\ S[n].delka = IF kms[n] < kms[n + 1] THEN kms[n + 1] - kms[n] ELSE kms[n] - kms[n + 1]
        /\ n < Len(S) => S[n + 1].km_od = kms[n + 1]
    BY <2>2, Zenon DEF Leads
  <2>4. Forth(d, kms[n], kms[n + 1]) > 0
    BY <2>2 DEF Table
  <2>5. kms[n] \in Nat /\ kms[n + 1] \in Nat
    BY <2>2, <1>2
  <2>6. S[n].delka = Forth(d, kms[n], kms[n + 1])
    BY <2>3, <2>4, <2>5, SMT DEF Forth
  <2>. QED BY <2>1, <2>3, <2>4, <2>5, <2>6, Zenon
<1>. QED BY <1>3, <1>4, <1>5, Zenon DEF Follows

LEMMA Sections ==
  /\ Len(Road!praha) \in Nat
  /\ \A d \in {-1, 1} : Follows(d, Road!Sections(d)) /\ Len(Road!Sections(d)) \in 1 .. Len(Road!praha)
<1>1. PICK one : Road!praha = Road!Road(Road!kmPraha, one)
  BY DEF Road!praha
<1>2. PICK two : Road!olomouc = Road!Road(Road!kmOlomouc, two)
  BY DEF Road!olomouc
<1>3. Road!kmPraha \in Seq(Nat) /\ Road!kmOlomouc \in Seq(Nat)
      /\ Len(Road!kmPraha) = 58 /\ Len(Road!kmOlomouc) = 57
  BY Kilometres
<1>4. Len(Road!kmPraha) # 0 /\ Len(Road!kmOlomouc) # 0
  BY <1>3
<1>5. Leads(Road!praha, Road!kmPraha) /\ Leads(Road!olomouc, Road!kmOlomouc)
  BY <1>1, <1>2, <1>3, <1>4, RoadOf, Zenon
<1>6. /\ Follows(-1, Road!praha) /\ Len(Road!praha) \in 1 .. 57
      /\ Follows(1, Road!olomouc) /\ Len(Road!olomouc) \in 1 .. 57
  BY <1>5, Tables, LeadsForth, Zenon
<1>7. Len(Road!praha) = 57
  BY <1>3, <1>5 DEF Leads
<1>8. Road!Sections(-1) = Road!praha /\ Road!Sections(1) = Road!olomouc
  BY DEF Road!Sections
<1>. QED BY <1>6, <1>7, <1>8

\* A set of numbers that is not empty has a least one.
LEMMA Least ==
  ASSUME NEW N \in SUBSET Nat, N # {} PROVE \E n \in N : \A k \in N : n <= k
<1>. DEFINE T == {1 .. n : n \in N}
<1>1. T \subseteq FiniteSubsetsOf(Nat)
  <2>. SUFFICES ASSUME NEW n \in N PROVE 1 .. n \in FiniteSubsetsOf(Nat)
    OBVIOUS
  <2>. QED BY FS_Interval DEF FiniteSubsetsOf
<1>2. PICK t \in T : \A u \in T : ~ (<<u, t>> \in StrictSubsetOrdering(Nat))
  <2>. HIDE DEF T
  <2>1. T # {}
    BY DEF T
  <2>. QED BY <1>1, <2>1, FS_StrictSubsetOrderingWellFounded, WFMin
<1>3. PICK n \in N : t = 1 .. n
  OBVIOUS
<1>4. ASSUME NEW k \in N, k < n PROVE FALSE
  <2>1. 1 .. k \subseteq 1 .. n /\ 1 .. k # t
    BY <1>3, <1>4
  <2>2. <<1 .. k, t>> \in StrictSubsetOrdering(Nat)
    BY <2>1, <1>3 DEF StrictSubsetOrdering
  <2>. QED BY <1>2, <2>2
<1>. QED BY <1>4

\* Later sections are farther along.
LEMMA Farther ==
  ASSUME NEW d, NEW S, Follows(d, S), NEW m \in 1 .. Len(S), NEW n \in 1 .. Len(S), m <= n
  PROVE Forth(d, S[m].km_od, S[n].km_od) >= 0
<1>1. /\ Len(S) \in Nat
      /\ \A k \in 1 .. Len(S) : /\ S[k].km_od \in Nat /\ S[k].km_do \in Nat
                                /\ Forth(d, S[k].km_od, S[k].km_do) > 0
                                /\ k < Len(S) => S[k + 1].km_od = S[k].km_do
  BY DEF Follows
<1>. DEFINE Back == {k \in m .. Len(S) : Forth(d, S[m].km_od, S[k].km_od) < 0}
<1>2. SUFFICES ASSUME n \in Back PROVE FALSE
  <2>1. n \in m .. Len(S)
    BY <1>1, SMT
  <2>2. Forth(d, S[m].km_od, S[n].km_od) \in Int
    BY <1>1, SMT DEF Forth
  <2>3. Forth(d, S[m].km_od, S[n].km_od) < 0 => n \in Back
    BY <2>1
  <2>. QED BY <1>2, <2>2, <2>3, SMT
<1>3. PICK k \in Back : \A l \in Back : k <= l
  <2>1. Back \in SUBSET Nat /\ Back # {}
    <3>1. Back \subseteq m .. Len(S)
      OBVIOUS
    <3>. HIDE DEF Back
    <3>2. m .. Len(S) \subseteq Nat
      BY <1>1, SMT
    <3>. QED BY <3>1, <3>2, <1>2
  <2>. HIDE DEF Back
  <2>. QED BY <2>1, Least
<1>4. k \in m .. Len(S) /\ Forth(d, S[m].km_od, S[k].km_od) < 0
  BY <1>3
<1>5. k # m
  BY <1>4, <1>1, SMT DEF Forth
<1>. DEFINE l == k - 1
<1>6. l \in m .. Len(S) /\ l \in 1 .. Len(S) /\ l < Len(S) /\ k = l + 1 /\ l < k
  BY <1>4, <1>5, <1>1, SMT
<1>. HIDE DEF l
<1>7. l \notin Back
  <2>. HIDE DEF Back
  <2>1. l \in Back => k <= l
    BY <1>3
  <2>. QED BY <2>1, <1>6, <1>4, <1>1, SMT
<1>8. ~ (Forth(d, S[m].km_od, S[l].km_od) < 0)
  BY <1>6, <1>7
<1>9. S[k].km_od = S[l].km_do /\ Forth(d, S[l].km_od, S[l].km_do) > 0
      /\ S[l].km_od \in Nat /\ S[l].km_do \in Nat /\ S[m].km_od \in Nat
  BY <1>1, <1>6, Zenon
<1>. DEFINE x == S[m].km_od
            y == S[l].km_od
            z == S[k].km_od
<1>10. x \in Nat /\ y \in Nat /\ z \in Nat
       /\ Forth(d, x, z) < 0 /\ ~ (Forth(d, x, y) < 0) /\ Forth(d, y, z) > 0
  BY <1>4, <1>8, <1>9
<1>. HIDE DEF x, y, z
<1>. QED BY <1>10, SMT DEF Forth
-----------------------------------------------------------------------------
\* What is asked of the sizes: a section takes cars, a run has so many of them and they draw
\* kilometres.
RoadSizes ==
  /\ \A p \in Road!Places : Road!kapacita(p) \in Nat \ {0}
  /\ nobody \notin Road!Places
  /\ \A t \in Traffic : IsFiniteSet(t.cars) /\ t.routes \subseteq Nat \X Nat

Modes == {"born", "no path", "rides", "waits", "granted", "done"}
Spots == Road!Places \union {nobody}
Cars == [mode : Modes, route : Nat \X Nat, at : Spots, to : Spots, passed_distance : Int]

\* Where a car is, by what it does.
Stands(c) ==
  /\ c.mode \in {"born", "no path", "done"} => c.at = nobody /\ c.to = nobody
  /\ c.mode = "rides" => c.at # nobody /\ c.to = nobody
  /\ c.mode \in {"waits", "granted"} =>
        /\ c.to # nobody
        /\ c.at # nobody => /\ c.to = Road!get_next(c.at) /\ ~ Road!is_last(c.at)
                            /\ Road!At(c.at).km_do # c.route[2]

\* It has gone the kilometres from its entry to its section, and its exit is ahead.
Dir(r) == IF r[1] < r[2] THEN 1 ELSE -1
OnWay(r, p, gone) ==
  /\ p[1] = Dir(r) /\ gone = Forth(p[1], r[1], Road!At(p).km_od)
  /\ \E m \in p[2] .. Len(Road!Sections(p[1])) : Road!Sections(p[1])[m].km_do = r[2]
Drives(c) ==
  /\ c.mode = "born" => c.passed_distance = 0
  /\ c.at # nobody => OnWay(c.route, c.at, c.passed_distance)
  /\ c.at = nobody /\ c.to # nobody => OnWay(c.route, c.to, c.passed_distance)
  /\ c.mode = "done" => c.passed_distance = Forth(Dir(c.route), c.route[1], c.route[2])

CarOK(c) == c \in Cars /\ Stands(c) /\ Drives(c)

\* A store with the cars h on it or let into it, the cars w waiting for it, u cars counted,
\* the queue q and room for k.
HoldsIt(c, p) == c.at = p \/ (c.mode = "granted" /\ c.to = p)
WaitsFor(c, p) == c.mode = "waits" /\ c.to = p
Holds(p) == {v \in DOMAIN car : HoldsIt(car[v], p)}
Waiting(p) == {v \in DOMAIN car : WaitsFor(car[v], p)}
StoreOK(h, w, u, q, k) ==
  /\ IsFiniteSet(h) /\ u = Cardinality(h) /\ u <= k
  /\ q \in Seq(w)
  /\ \A v \in w : \E n \in 1 .. Len(q) : q[n] = v
  /\ \A m \in 1 .. Len(q), n \in 1 .. Len(q) : q[m] = q[n] => m = n
  /\ q # <<>> => u >= k

\* What is inductive.
RoadInv ==
  /\ routes \subseteq Nat \X Nat
  /\ IsFiniteSet(DOMAIN car) /\ car = [v \in DOMAIN car |-> car[v]]
  /\ \A v \in DOMAIN car : CarOK(car[v])
  /\ used = [p \in Road!Places |-> used[p]] /\ queue = [p \in Road!Places |-> queue[p]]
  /\ \A p \in Road!Places : StoreOK(Holds(p), Waiting(p), used[p], queue[p], Road!kapacita(p))
-----------------------------------------------------------------------------
\* The store that a car takes, is given up with nobody waiting, or waited for.
LEMMA StoreTakes ==
  ASSUME NEW h, NEW w, NEW u, NEW q, NEW k \in Nat, StoreOK(h, w, u, q, k), u < k, NEW v, v \notin h
  PROVE StoreOK(h \union {v}, w, u + 1, q, k)
<1>1. IsFiniteSet(h) /\ u = Cardinality(h) /\ Cardinality(h) \in Nat
  BY FS_CardinalityType DEF StoreOK
<1>2. IsFiniteSet(h \union {v}) /\ Cardinality(h \union {v}) = Cardinality(h) + 1
  BY <1>1, FS_AddElement
<1>3. u + 1 <= k /\ q = <<>>
  BY <1>1, SMT DEF StoreOK
<1>. QED BY <1>1, <1>2, <1>3 DEF StoreOK

LEMMA StoreGives ==
  ASSUME NEW h, NEW w, NEW u, NEW q, NEW k \in Nat, StoreOK(h, w, u, q, k), NEW v \in h, q = <<>>
  PROVE StoreOK(h \ {v}, w, u - 1, q, k)
<1>1. IsFiniteSet(h) /\ u = Cardinality(h) /\ Cardinality(h) \in Nat /\ u <= k
  BY FS_CardinalityType DEF StoreOK
<1>2. IsFiniteSet(h \ {v}) /\ Cardinality(h \ {v}) = Cardinality(h) - 1
  BY <1>1, FS_RemoveElement
<1>3. u - 1 <= k
  BY <1>1
<1>. QED BY <1>1, <1>2, <1>3 DEF StoreOK

LEMMA StoreQueues ==
  ASSUME NEW h, NEW w, NEW u, NEW q, NEW k \in Nat, StoreOK(h, w, u, q, k), ~ (u < k), NEW v, v \notin w
  PROVE StoreOK(h, w \union {v}, u, Append(q, v), k)
<1>1. IsFiniteSet(h) /\ u = Cardinality(h) /\ Cardinality(h) \in Nat /\ u <= k /\ u >= k
  BY FS_CardinalityType DEF StoreOK
<1>2. /\ q \in Seq(w) /\ Len(q) \in Nat
      /\ \A x \in w : \E n \in 1 .. Len(q) : q[n] = x
      /\ \A m \in 1 .. Len(q), n \in 1 .. Len(q) : q[m] = q[n] => m = n
      /\ \A n \in 1 .. Len(q) : q[n] \in w
  BY ElementOfSeq DEF StoreOK
<1>. DEFINE a == Append(q, v)
<1>3. /\ a \in Seq(w \union {v}) /\ Len(a) = Len(q) + 1
      /\ \A n \in 1 .. Len(q) : a[n] = q[n]
      /\ a[Len(q) + 1] = v
  BY <1>2, SMT
<1>. HIDE DEF a
<1>4. \A x \in w \union {v} : \E n \in 1 .. Len(a) : a[n] = x
  <2>1. \A n \in 1 .. Len(q) : n \in 1 .. Len(a)
    BY <1>2, <1>3, SMT
  <2>2. Len(q) + 1 \in 1 .. Len(a)
    BY <1>2, <1>3, SMT
  <2>. QED BY <2>1, <2>2, <1>2, <1>3, Zenon
<1>5. \A m \in 1 .. Len(a), n \in 1 .. Len(a) : a[m] = a[n] => m = n
  <2>1. \A m \in 1 .. Len(a) : m \in 1 .. Len(q) \/ m = Len(q) + 1
    BY <1>2, <1>3, SMT
  <2>. QED BY <2>1, <1>2, <1>3
<1>. QED BY <1>1, <1>3, <1>4, <1>5 DEF StoreOK, a

\* The first that waits is let in for the one that leaves.
LEMMA StoreLetsIn ==
  ASSUME NEW h, NEW w, NEW u, NEW q, NEW k \in Nat, StoreOK(h, w, u, q, k), NEW v \in h, q # <<>>,
         Head(q) \notin h
  PROVE Head(q) \in w /\ StoreOK((h \ {v}) \union {Head(q)}, w \ {Head(q)}, u, Tail(q), k)
<1>1. IsFiniteSet(h) /\ u = Cardinality(h) /\ Cardinality(h) \in Nat /\ u <= k /\ u >= k
  BY FS_CardinalityType DEF StoreOK
<1>2. /\ q \in Seq(w) /\ Len(q) \in Nat
      /\ \A x \in w : \E n \in 1 .. Len(q) : q[n] = x
      /\ \A m \in 1 .. Len(q), n \in 1 .. Len(q) : q[m] = q[n] => m = n
      /\ \A n \in 1 .. Len(q) : q[n] \in w
  BY ElementOfSeq DEF StoreOK
<1>. DEFINE f == Head(q)
            t == Tail(q)
<1>3. Len(q) >= 1 /\ f = q[1] /\ t \in Seq(w) /\ Len(t) = Len(q) - 1 /\ Len(t) \in Nat
      /\ \A n \in 1 .. Len(q) - 1 : t[n] = q[n + 1]
  BY <1>2, SMT
<1>4. f \in w
  BY <1>2, <1>3
<1>. HIDE DEF f, t
<1>5. IsFiniteSet(h \ {v}) /\ Cardinality(h \ {v}) = Cardinality(h) - 1
  BY <1>1, FS_RemoveElement
<1>6. f \notin h \ {v}
  BY DEF f
<1>7. IsFiniteSet((h \ {v}) \union {f}) /\ Cardinality((h \ {v}) \union {f}) = Cardinality(h \ {v}) + 1
  BY <1>5, <1>6, FS_AddElement
<1>8. u = Cardinality((h \ {v}) \union {f})
  BY <1>1, <1>5, <1>7, SMT
<1>9. \A n \in 1 .. Len(t) : t[n] = q[n + 1] /\ n + 1 \in 1 .. Len(q) /\ n + 1 # 1
  <2>1. \A n \in 1 .. Len(t) : n \in 1 .. Len(q) - 1 /\ n + 1 \in 1 .. Len(q) /\ n + 1 # 1
    BY <1>2, <1>3, SMT
  <2>. QED BY <2>1, <1>3
<1>10. \A n \in 1 .. Len(t) : t[n] \in w \ {f}
  <2>1. 1 \in 1 .. Len(q)
    BY <1>2, <1>3, SMT
  <2>. SUFFICES ASSUME NEW n \in 1 .. Len(t) PROVE t[n] \in w /\ t[n] # f
    OBVIOUS
  <2>2. t[n] = q[n + 1] /\ n + 1 \in 1 .. Len(q) /\ n + 1 # 1
    BY <1>9
  <2>3. q[n + 1] # q[1]
    BY <2>1, <2>2, <1>2
  <2>. QED BY <2>2, <2>3, <1>2, <1>3
<1>11. t \in Seq(w \ {f})
  <2>1. Len(t) \in Nat /\ t \in [1 .. Len(t) -> w \ {f}]
    BY <1>3, <1>10, SMT
  <2>. QED BY <2>1, SMT
<1>12. \A x \in w \ {f} : \E n \in 1 .. Len(t) : t[n] = x
  <2>. SUFFICES ASSUME NEW x \in w \ {f} PROVE \E n \in 1 .. Len(t) : t[n] = x
    OBVIOUS
  <2>1. PICK n \in 1 .. Len(q) : q[n] = x
    BY <1>2
  <2>2. n # 1
    BY <2>1, <1>3
  <2>3. n - 1 \in 1 .. Len(t) /\ t[n - 1] = q[n]
    BY <2>2, <1>2, <1>3, SMTT(30)
  <2>. QED BY <2>1, <2>3
<1>13. \A m \in 1 .. Len(t), n \in 1 .. Len(t) : t[m] = t[n] => m = n
  <2>. SUFFICES ASSUME NEW m \in 1 .. Len(t), NEW n \in 1 .. Len(t), t[m] = t[n] PROVE m = n
    OBVIOUS
  <2>1. m + 1 = n + 1
    BY <1>2, <1>9
  <2>. QED BY <2>1, SMT
<1>. QED BY <1>1, <1>4, <1>7, <1>8, <1>11, <1>12, <1>13 DEF StoreOK, f, t
-----------------------------------------------------------------------------
\* The places of the road.
LEMMA PlaceIs ==
  ASSUME NEW p \in Road!Places
  PROVE /\ p[1] \in {-1, 1} /\ Len(Road!Sections(p[1])) \in Nat
        /\ p[2] \in 1 .. Len(Road!Sections(p[1])) /\ p[2] \in Nat /\ p = <<p[1], p[2]>>
        /\ Follows(p[1], Road!Sections(p[1]))
        /\ Road!At(p) = Road!Sections(p[1])[p[2]] /\ Road!At(p) \in Stretches
<1>1. /\ p \in {-1, 1} \X (1 .. Len(Road!praha)) /\ p[2] \in DOMAIN Road!Sections(p[1])
  BY DEF Road!Places
<1>2. p[1] \in {-1, 1} /\ p = <<p[1], p[2]>>
  BY <1>1
<1>3. Follows(p[1], Road!Sections(p[1]))
  BY <1>2, Sections
<1>. DEFINE S == Road!Sections(p[1])
<1>4. S \in Seq(Stretches) /\ Len(S) \in Nat
  BY <1>3 DEF Follows
<1>5. DOMAIN S = 1 .. Len(S)
  BY <1>4
<1>6. p[2] \in 1 .. Len(S)
  BY <1>1, <1>5
<1>7. p[2] \in Nat
  BY <1>6
<1>8. S[p[2]] \in Stretches
  BY <1>4, <1>6, ElementOfSeq
<1>. QED BY <1>2, <1>3, <1>4, <1>6, <1>7, <1>8 DEF Road!At

LEMMA IsPlace ==
  ASSUME NEW d \in {-1, 1}
  PROVE /\ DOMAIN Road!Sections(d) = 1 .. Len(Road!Sections(d))
        /\ \A n \in 1 .. Len(Road!Sections(d)) : <<d, n>> \in Road!Places
<1>. DEFINE S == Road!Sections(d)
<1>1. Follows(d, S) /\ Len(S) \in 1 .. Len(Road!praha) /\ Len(Road!praha) \in Nat
  BY Sections
<1>2. S \in Seq(Stretches) /\ Len(S) \in Nat
  BY <1>1 DEF Follows
<1>3. DOMAIN S = 1 .. Len(S)
  BY <1>2
<1>4. \A n \in 1 .. Len(S) : n \in 1 .. Len(Road!praha)
  <2>. DEFINE j == Len(S)
              k == Len(Road!praha)
  <2>1. j \in 1 .. k /\ k \in Nat
    BY <1>1
  <2>. HIDE DEF j, k
  <2>2. \A n \in 1 .. j : n \in 1 .. k
    BY <2>1, SMT
  <2>. QED BY <2>2 DEF j, k
<1>5. \A n \in 1 .. Len(S) : <<d, n>> \in {-1, 1} \X (1 .. Len(Road!praha))
                             /\ <<d, n>>[2] \in DOMAIN Road!Sections(<<d, n>>[1])
  BY <1>3, <1>4
<1>. HIDE DEF S
<1>. QED BY <1>3, <1>5 DEF S, Road!Places

LEMMA NextPlace ==
  ASSUME NEW p \in Road!Places, ~ Road!is_last(p)
  PROVE /\ Road!get_next(p) \in Road!Places /\ Road!get_next(p) # p
        /\ Road!get_next(p)[1] = p[1] /\ Road!get_next(p)[2] = p[2] + 1
<1>. DEFINE l == Len(Road!Sections(p[1]))
            n == p[2]
<1>1. n \in 1 .. l /\ l \in Nat /\ p[1] \in {-1, 1} /\ n # l
  BY PlaceIs DEF Road!is_last
<1>2. Road!get_next(p) = <<p[1], n + 1>>
  BY DEF Road!get_next
<1>. HIDE DEF l, n
<1>3. n + 1 \in 1 .. l /\ n + 1 # n
  BY <1>1, SMT
<1>. QED BY <1>1, <1>2, <1>3, IsPlace DEF l, n

\* A lane that is not of length zero takes a car, so every section does.
LEMMA Capacity ==
  ASSUME \A k \in Nat \ {0} : PerLane[k] \in Nat \ {0}
  PROVE  \A p \in Road!Places : Road!kapacita(p) \in Nat \ {0}
<1>. SUFFICES ASSUME NEW p \in Road!Places PROVE Road!kapacita(p) \in Nat \ {0}
  OBVIOUS
<1>. DEFINE s == Road!At(p)
            x == s.delka
            y == s.pocet_pruhu
<1>1. /\ x \in Nat /\ y \in {1, 2} /\ x = Forth(p[1], s.km_od, s.km_do)
      /\ Forth(p[1], s.km_od, s.km_do) > 0
  BY PlaceIs, ZenonT(40) DEF Follows, Stretches
<1>2. x \in Nat \ {0}
  BY <1>1
<1>3. Road!kapacita(p) = PerLane[x] * y
  BY DEF Road!kapacita
<1>. HIDE DEF s, x, y
<1>. DEFINE z == PerLane[x]
<1>4. z \in Nat \ {0} /\ y \in Nat \ {0}
  BY <1>1, <1>2
<1>5. Road!kapacita(p) = z * y
  BY <1>3
<1>. HIDE DEF z
<1>. QED BY <1>1, <1>4, <1>5, SMT

\* The sizes of the program are such: 250 cars to the kilometre and lane (model_impl.h,
\* autNaKilometrPruh).
LEMMA CodeSizes ==
  ASSUME PerLane = [k \in Nat |-> 250 * k] PROVE \A p \in Road!Places : Road!kapacita(p) \in Nat \ {0}
<1>1. \A k \in Nat \ {0} : PerLane[k] \in Nat \ {0}
  <2>1. ASSUME NEW k \in Nat \ {0} PROVE PerLane[k] \in Nat \ {0}
    <3>1. PerLane[k] = 250 * k
      OBVIOUS
    <3>2. 250 * k \in Nat \ {0}
      BY SMT
    <3>. QED BY <3>1, <3>2
  <2>. QED BY <2>1
<1>. QED BY <1>1, Capacity, Zenon

LEMMA ForthAdds ==
  ASSUME NEW d, NEW x \in Int, NEW y \in Int, NEW z \in Int
  PROVE Forth(d, x, y) + Forth(d, y, z) = Forth(d, x, z) /\ Forth(d, x, y) \in Int /\ Forth(d, x, x) = 0
BY SMT DEF Forth

\* A car that goes from section to section keeps on its way, and leaves it at its exit.
LEMMA WayOn ==
  ASSUME NEW p \in Road!Places, NEW r \in Nat \X Nat, NEW gone, OnWay(r, p, gone), Road!At(p).km_do # r[2]
  PROVE ~ Road!is_last(p) /\ OnWay(r, Road!get_next(p), gone + Road!At(p).delka)
<1>. DEFINE d == p[1]
            S == Road!Sections(d)
            n == p[2]
<1>1. d \in {-1, 1} /\ Follows(d, S) /\ n \in 1 .. Len(S) /\ Road!At(p) = S[n] /\ Len(S) \in Nat
  BY PlaceIs
<1>2. d = Dir(r) /\ gone = Forth(d, r[1], S[n].km_od) /\ S[n].km_do # r[2]
  BY <1>1 DEF OnWay
<1>3. PICK m \in n .. Len(S) : S[m].km_do = r[2]
  BY DEF OnWay
<1>4. m # n
  BY <1>2, <1>3
<1>. DEFINE l == Len(S)
            x == r[1]
            y == S[n].km_od
            z == S[n].km_do
<1>5. /\ y \in Nat /\ z \in Nat /\ S[n].delka = Forth(d, y, z) /\ (n < Len(S) => S[n + 1].km_od = z)
  BY <1>1 DEF Follows
<1>6. n \in 1 .. l /\ l \in Nat /\ m \in n .. l /\ x \in Nat
  BY <1>1, <1>3
<1>7. p[2] # Len(Road!Sections(p[1])) /\ n < l /\ m \in n + 1 .. l
  <2>. HIDE DEF l, n
  <2>1. n # l /\ n < l /\ m \in n + 1 .. l
    BY <1>4, <1>6, SMT
  <2>. QED BY <2>1 DEF l, n
<1>8. gone + S[n].delka = Forth(d, x, S[n + 1].km_od)
  <2>1. gone = Forth(d, x, y) /\ S[n].delka = Forth(d, y, z) /\ S[n + 1].km_od = z
    BY <1>2, <1>5, <1>7
  <2>. HIDE DEF x, y, z, d, S, n
  <2>. QED BY <2>1, <1>5, <1>6, ForthAdds
<1>9. Road!get_next(p) = <<d, n + 1>> /\ Road!At(Road!get_next(p)) = S[n + 1]
  BY DEF Road!get_next, Road!At
<1>. HIDE DEF d, n, S
<1>10. OnWay(r, <<d, n + 1>>, gone + S[n].delka)
  <2>1. Road!At(<<d, n + 1>>) = Road!Sections(d)[n + 1]
    BY DEF Road!At
  <2>. QED BY <2>1, <1>2, <1>3, <1>7, <1>8 DEF OnWay, S
<1>. QED BY <1>1, <1>7, <1>9, <1>10 DEF Road!is_last

LEMMA WayOut ==
  ASSUME NEW p \in Road!Places, NEW r \in Nat \X Nat, NEW gone, OnWay(r, p, gone),
         Road!At(p).km_do = r[2] \/ Road!is_last(p)
  PROVE gone + Road!At(p).delka = Forth(Dir(r), r[1], r[2])
<1>1. Road!At(p).km_do = r[2]
  BY WayOn
<1>. DEFINE d == p[1]
            S == Road!Sections(d)
            n == p[2]
<1>2. d \in {-1, 1} /\ Follows(d, S) /\ n \in 1 .. Len(S) /\ Road!At(p) = S[n]
  BY PlaceIs
<1>3. d = Dir(r) /\ gone = Forth(d, r[1], S[n].km_od) /\ S[n].km_do = r[2]
  BY <1>1, <1>2 DEF OnWay
<1>4. S[n].km_od \in Nat /\ S[n].km_do \in Nat /\ S[n].delka = Forth(d, S[n].km_od, S[n].km_do)
  BY <1>2 DEF Follows
<1>5. r[1] \in Nat
  OBVIOUS
<1>. HIDE DEF d, S, n
<1>. QED BY <1>2, <1>3, <1>4, <1>5, ForthAdds

\* The entry and the exit that are looked up are on a way.
LEMMA WayIn ==
  ASSUME NEW r \in Nat \X Nat, r[1] # r[2], NEW n \in Road!get_by_strt_exit(Dir(r), r[1]),
         Road!get_by_end_exit(Dir(r), r[2]) # {}
  PROVE <<Dir(r), n>> \in Road!Places /\ OnWay(r, <<Dir(r), n>>, 0)
<1>. DEFINE d == Dir(r)
            S == Road!Sections(d)
<1>1. d \in {-1, 1}
  BY DEF Dir
<1>2. Follows(d, S) /\ DOMAIN S = 1 .. Len(S) /\ Len(S) \in Nat
  BY <1>1, Sections, IsPlace DEF Follows
<1>3. n \in 1 .. Len(S) /\ S[n].km_od = r[1]
  BY <1>2 DEF Road!get_by_strt_exit
<1>4. PICK m \in 1 .. Len(S) : S[m].km_do = r[2]
  BY <1>2 DEF Road!get_by_end_exit
<1>5. Forth(d, r[1], r[2]) > 0
  BY SMT DEF Forth, Dir
<1>. HIDE DEF d, S
<1>6. n <= m
  <2>1. SUFFICES ASSUME m < n PROVE FALSE
    BY <1>2, <1>3, <1>4, SMT
  <2>2. m + 1 \in 1 .. Len(S) /\ m + 1 <= n /\ m < Len(S)
    BY <2>1, <1>2, <1>3, <1>4, SMT
  <2>3. Forth(d, S[m + 1].km_od, S[n].km_od) >= 0
    BY <2>2, <1>2, <1>3, Farther
  <2>4. S[m + 1].km_od = S[m].km_do
    BY <2>2, <1>2 DEF Follows
  <2>5. Forth(d, r[2], r[1]) >= 0
    BY <2>3, <2>4, <1>3, <1>4
  <2>. QED BY <2>5, <1>5, SMT DEF Forth
<1>7. m \in n .. Len(S)
  BY <1>2, <1>3, <1>4, <1>6, SMT
<1>8. <<d, n>> \in Road!Places
  BY <1>1, <1>3, IsPlace DEF S
<1>9. OnWay(r, <<d, n>>, 0)
  <2>1. Road!At(<<d, n>>) = S[n]
    BY DEF Road!At, S
  <2>2. Forth(d, r[1], S[n].km_od) = 0
    BY <1>3, ForthAdds
  <2>. QED BY <2>1, <2>2, <1>4, <1>7 DEF OnWay, S, d
<1>. QED BY <1>8, <1>9 DEF d
-----------------------------------------------------------------------------
\* What a step leaves behind, put together.
LEMMA RoadKept ==
  ASSUME RoadInv, UNCHANGED routes, DOMAIN car' = DOMAIN car, car' = [u \in DOMAIN car |-> car'[u]],
         used' = [p \in Road!Places |-> used'[p]], queue' = [p \in Road!Places |-> queue'[p]],
         \A u \in DOMAIN car : CarOK(car'[u]),
         \A p \in Road!Places :
            StoreOK({u \in DOMAIN car : HoldsIt(car'[u], p)}, {u \in DOMAIN car : WaitsFor(car'[u], p)},
                    used'[p], queue'[p], Road!kapacita(p))
  PROVE RoadInv'
<1>1. \A p : Holds(p)' = {u \in DOMAIN car : HoldsIt(car'[u], p)}
  BY DEF Holds, HoldsIt
<1>2. \A p : Waiting(p)' = {u \in DOMAIN car : WaitsFor(car'[u], p)}
  BY DEF Waiting, WaitsFor
<1>. QED BY <1>1, <1>2 DEF RoadInv

\* One that waits for a section and is let in still is where it was.
LEMMA LetInOK ==
  ASSUME NEW c, CarOK(c), c.mode = "waits"
  PROVE LET g == [c EXCEPT !.mode = "granted"]
        IN CarOK(g) /\ g.mode = "granted" /\ g.at = c.at /\ g.to = c.to
<1>. DEFINE g == [c EXCEPT !.mode = "granted"]
<1>1. c \in Cars
  BY DEF CarOK
<1>2. g \in Cars /\ g.mode = "granted" /\ g.at = c.at /\ g.to = c.to /\ g.route = c.route
      /\ g.passed_distance = c.passed_distance
  <2>1. "granted" \in Modes
    BY DEF Modes
  <2>. QED BY <2>1, <1>1, Zenon DEF Cars
<1>. HIDE DEF g
<1>3. Stands(g)
  BY <1>2 DEF CarOK, Stands
<1>4. Drives(g)
  BY <1>2 DEF CarOK, Drives
<1>. QED BY <1>2, <1>3, <1>4 DEF CarOK, g

\* A car that changes without leaving a section, and may have entered some.
LEMMA PutKeeps ==
  ASSUME RoadSizes, RoadInv, UNCHANGED <<routes, queue>>, NEW v \in DOMAIN car, NEW c, NEW e,
         e \subseteq Road!Places, car' = [car EXCEPT ![v] = c],
         used' = [p \in Road!Places |-> IF p \in e THEN used[p] + 1 ELSE used[p]],
         CarOK(c), car[v].mode # "waits", c.mode # "waits",
         \A p \in Road!Places : HoldsIt(c, p) <=> HoldsIt(car[v], p) \/ p \in e,
         \A p \in e : ~ HoldsIt(car[v], p) /\ Road!Free(p)
  PROVE RoadInv'
<1>1. /\ DOMAIN car' = DOMAIN car /\ car' = [u \in DOMAIN car |-> car'[u]] /\ car'[v] = c
      /\ \A u \in DOMAIN car \ {v} : car'[u] = car[u]
  BY DEF RoadInv
<1>2. \A u \in DOMAIN car : CarOK(car'[u])
  BY <1>1 DEF RoadInv
<1>3. ASSUME NEW p \in Road!Places
      PROVE StoreOK({u \in DOMAIN car : HoldsIt(car'[u], p)}, {u \in DOMAIN car : WaitsFor(car'[u], p)},
                    used'[p], queue'[p], Road!kapacita(p))
  <2>1. StoreOK(Holds(p), Waiting(p), used[p], queue[p], Road!kapacita(p)) /\ Road!kapacita(p) \in Nat
    BY DEF RoadInv, RoadSizes
  <2>2. {u \in DOMAIN car : WaitsFor(car'[u], p)} = Waiting(p)
    BY <1>1 DEF Waiting, WaitsFor
  <2>3. CASE p \in e
    <3>1. {u \in DOMAIN car : HoldsIt(car'[u], p)} = Holds(p) \union {v} /\ v \notin Holds(p)
      BY <1>1, <2>3 DEF Holds
    <3>2. used'[p] = used[p] + 1 /\ used[p] < Road!kapacita(p)
      BY <2>3 DEF Road!Free
    <3>. QED BY <2>1, <2>2, <3>1, <3>2, StoreTakes
  <2>4. CASE p \notin e
    <3>1. {u \in DOMAIN car : HoldsIt(car'[u], p)} = Holds(p)
      BY <1>1, <2>4 DEF Holds
    <3>. QED BY <2>1, <2>2, <2>4, <3>1
  <2>. QED BY <2>3, <2>4
<1>4. used' = [p \in Road!Places |-> used'[p]] /\ queue' = [p \in Road!Places |-> queue'[p]]
  BY DEF RoadInv
<1>. QED BY <1>1, <1>2, <1>3, <1>4, RoadKept

\* A car that joins the queue of a section that is full.
LEMMA JoinKeeps ==
  ASSUME RoadSizes, RoadInv, UNCHANGED routes, NEW v \in DOMAIN car, NEW c, NEW p \in Road!Places,
         Road!Join(p, v, c), ~ Road!Free(p), CarOK([c EXCEPT !.mode = "waits", !.to = p]), c \in Cars,
         c.at = car[v].at, car[v].mode \notin {"waits", "granted"}
  PROVE RoadInv'
<1>. DEFINE d == [c EXCEPT !.mode = "waits", !.to = p]
<1>1. d.mode = "waits" /\ d.to = p /\ d.at = car[v].at
  BY Zenon DEF Cars
<1>2. car' = [car EXCEPT ![v] = d] /\ queue' = [queue EXCEPT ![p] = Append(queue[p], v)] /\ used' = used
  BY DEF Road!Join
<1>3. CarOK(d)
  OBVIOUS
<1>. HIDE DEF d
<1>4. /\ DOMAIN car' = DOMAIN car /\ car' = [u \in DOMAIN car |-> car'[u]] /\ car'[v] = d
      /\ \A u \in DOMAIN car \ {v} : car'[u] = car[u]
  BY <1>2 DEF RoadInv
<1>5. \A u \in DOMAIN car : CarOK(car'[u])
  BY <1>3, <1>4 DEF RoadInv
<1>6. ASSUME NEW q \in Road!Places
      PROVE StoreOK({u \in DOMAIN car : HoldsIt(car'[u], q)}, {u \in DOMAIN car : WaitsFor(car'[u], q)},
                    used'[q], queue'[q], Road!kapacita(q))
  <2>1. StoreOK(Holds(q), Waiting(q), used[q], queue[q], Road!kapacita(q)) /\ Road!kapacita(q) \in Nat
    BY DEF RoadInv, RoadSizes
  <2>2. {u \in DOMAIN car : HoldsIt(car'[u], q)} = Holds(q)
    BY <1>1, <1>4 DEF Holds, HoldsIt
  <2>3. CASE q = p
    <3>1. {u \in DOMAIN car : WaitsFor(car'[u], q)} = Waiting(q) \union {v} /\ v \notin Waiting(q)
      BY <1>1, <1>4, <2>3 DEF Waiting, WaitsFor
    <3>2. queue'[q] = Append(queue[q], v) /\ used'[q] = used[q] /\ ~ (used[q] < Road!kapacita(q))
      BY <1>2, <2>3 DEF RoadInv, Road!Free
    <3>3. StoreOK(Holds(q), Waiting(q) \union {v}, used[q], Append(queue[q], v), Road!kapacita(q))
      BY <2>1, <3>1, <3>2, StoreQueues, Zenon
    <3>. QED BY <2>2, <3>1, <3>2, <3>3
  <2>4. CASE q # p
    <3>1. {u \in DOMAIN car : WaitsFor(car'[u], q)} = Waiting(q)
      BY <1>1, <1>4, <2>4 DEF Waiting, WaitsFor
    <3>2. queue'[q] = queue[q] /\ used'[q] = used[q]
      BY <1>2, <2>4 DEF RoadInv
    <3>. QED BY <2>1, <2>2, <3>1, <3>2
  <2>. QED BY <2>3, <2>4
<1>7. used' = [q \in Road!Places |-> used'[q]] /\ queue' = [q \in Road!Places |-> queue'[q]]
  BY <1>2 DEF RoadInv
<1>. QED BY <1>4, <1>5, <1>6, <1>7, RoadKept

\* A car that leaves a section, and may have entered others: the first that waits is let in.
LEMMA LeaveKeeps ==
  ASSUME RoadSizes, RoadInv, UNCHANGED routes, NEW v \in DOMAIN car, NEW c, NEW p \in Road!Places, NEW e,
         e \subseteq Road!Places, Road!Leave(p, v, c, e),
         CarOK(c), car[v].mode # "waits", c.mode # "waits", HoldsIt(car[v], p),
         \A q \in Road!Places : HoldsIt(c, q) <=> (HoldsIt(car[v], q) /\ q # p) \/ q \in e,
         \A q \in e : ~ HoldsIt(car[v], q) /\ Road!Free(q)
  PROVE RoadInv'
<1>. DEFINE letIn == IF queue[p] = <<>> THEN {} ELSE {Head(queue[p])}
<1>1. /\ used' = [q \in Road!Places |-> used[q] + (IF q \in e THEN 1 ELSE 0)
                                                - (IF q = p /\ letIn = {} THEN 1 ELSE 0)]
      /\ queue' = [queue EXCEPT ![p] = IF queue[p] = <<>> THEN queue[p] ELSE Tail(queue[p])]
      /\ car' = [u \in DOMAIN car |->
                   IF u = v THEN c ELSE IF u \in letIn THEN [car[u] EXCEPT !.mode = "granted"] ELSE car[u]]
  BY DEF Road!Leave
<1>2. \A q \in Road!Places :
        /\ StoreOK(Holds(q), Waiting(q), used[q], queue[q], Road!kapacita(q)) /\ Road!kapacita(q) \in Nat
        /\ used[q] \in Nat
  <2>. SUFFICES ASSUME NEW q \in Road!Places
                PROVE /\ StoreOK(Holds(q), Waiting(q), used[q], queue[q], Road!kapacita(q))
                      /\ Road!kapacita(q) \in Nat /\ used[q] \in Nat
    OBVIOUS
  <2>1. StoreOK(Holds(q), Waiting(q), used[q], queue[q], Road!kapacita(q)) /\ Road!kapacita(q) \in Nat
    BY DEF RoadInv, RoadSizes
  <2>2. used[q] \in Nat
    BY <2>1, FS_CardinalityType DEF StoreOK
  <2>. QED BY <2>1, <2>2
<1>3. \A u \in letIn : u \in Waiting(p) /\ u # v /\ u \notin Holds(p)
  <2>1. CASE queue[p] = <<>>
    BY <2>1
  <2>2. CASE queue[p] # <<>>
    <3>1. queue[p] \in Seq(Waiting(p))
      BY <1>2 DEF StoreOK
    <3>2. Head(queue[p]) \in Waiting(p)
      BY <3>1, <2>2
    <3>3. ASSUME NEW u \in Waiting(p) PROVE u # v /\ u \notin Holds(p)
      <4>1. u \in DOMAIN car /\ car[u].mode = "waits" /\ car[u].to = p
        BY <3>3 DEF Waiting, WaitsFor
      <4>2. car[u].at # nobody => car[u].to = Road!get_next(car[u].at) /\ ~ Road!is_last(car[u].at)
        BY <4>1 DEF RoadInv, CarOK, Stands
      <4>3. p # nobody
        BY DEF RoadSizes
      <4>4. car[u].at # p
        BY <4>1, <4>2, <4>3, NextPlace
      <4>. QED BY <4>1, <4>4 DEF Holds, HoldsIt
    <3>. QED BY <3>2, <3>3, <2>2
  <2>. QED BY <2>1, <2>2
<1>. HIDE DEF letIn
<1>4. /\ DOMAIN car' = DOMAIN car /\ car' = [u \in DOMAIN car |-> car'[u]] /\ car'[v] = c
      /\ \A u \in DOMAIN car \ {v} : u \notin letIn => car'[u] = car[u]
      /\ \A u \in letIn : car'[u] = [car[u] EXCEPT !.mode = "granted"]
  BY <1>1, <1>3 DEF Waiting
<1>5. \A u \in letIn : /\ CarOK(car'[u]) /\ car'[u].mode = "granted" /\ car'[u].at = car[u].at
                       /\ car'[u].to = car[u].to /\ car[u].mode = "waits" /\ car[u].to = p
  <2>. SUFFICES ASSUME NEW u \in letIn
                PROVE /\ CarOK(car'[u]) /\ car'[u].mode = "granted" /\ car'[u].at = car[u].at
                      /\ car'[u].to = car[u].to /\ car[u].mode = "waits" /\ car[u].to = p
    OBVIOUS
  <2>1. u \in DOMAIN car /\ car[u].mode = "waits" /\ car[u].to = p
    BY <1>3 DEF Waiting, WaitsFor
  <2>2. CarOK(car[u])
    BY <2>1 DEF RoadInv
  <2>. QED BY <2>1, <2>2, <1>4, LetInOK, ZenonT(40)
<1>6. \A u \in DOMAIN car : CarOK(car'[u])
  BY <1>4, <1>5 DEF RoadInv
<1>7. ASSUME NEW q \in Road!Places
      PROVE StoreOK({u \in DOMAIN car : HoldsIt(car'[u], q)}, {u \in DOMAIN car : WaitsFor(car'[u], q)},
                    used'[q], queue'[q], Road!kapacita(q))
  <2>1. StoreOK(Holds(q), Waiting(q), used[q], queue[q], Road!kapacita(q)) /\ Road!kapacita(q) \in Nat
        /\ used[q] \in Nat
    BY <1>2
  <2>2. CASE q = p /\ queue[p] = <<>>
    <3>1. letIn = {}
      BY <2>2 DEF letIn
    <3>2. p \notin e
      OBVIOUS
    <3>3. {u \in DOMAIN car : HoldsIt(car'[u], q)} = Holds(q) \ {v} /\ v \in Holds(q)
      BY <1>4, <2>2, <3>1, <3>2 DEF Holds
    <3>4. {u \in DOMAIN car : WaitsFor(car'[u], q)} = Waiting(q)
      BY <1>4, <3>1 DEF Waiting, WaitsFor
    <3>5. used'[q] = used[q] - 1 /\ queue'[q] = queue[q] /\ queue[q] = <<>>
      BY <1>1, <2>1, <2>2, <3>1, <3>2 DEF RoadInv
    <3>6. StoreOK(Holds(q) \ {v}, Waiting(q), used[q] - 1, queue[q], Road!kapacita(q))
      BY <2>1, <3>3, <3>5, StoreGives, Zenon
    <3>. QED BY <3>3, <3>4, <3>5, <3>6
  <2>3. CASE q = p /\ queue[p] # <<>>
    <3>. DEFINE w == Head(queue[q])
    <3>1. letIn = {w}
      BY <2>3 DEF letIn
    <3>2. p \notin e
      OBVIOUS
    <3>3. w \in Waiting(q) /\ w # v /\ w \notin Holds(q)
      BY <1>3, <2>3, <3>1
    <3>. HIDE DEF w
    <3>4. {u \in DOMAIN car : HoldsIt(car'[u], q)} = (Holds(q) \ {v}) \union {w} /\ v \in Holds(q)
      <4>1. \A u \in DOMAIN car \ {v, w} : car'[u] = car[u]
        BY <1>4, <3>1
      <4>2. w \in DOMAIN car /\ HoldsIt(car'[w], q)
        BY <1>5, <3>1, <3>3, <2>3 DEF Waiting, HoldsIt
      <4>3. ~ HoldsIt(car'[v], q)
        BY <1>4, <2>3, <3>2
      <4>4. v \in Holds(q)
        BY <2>3 DEF Holds
      <4>. QED BY <4>1, <4>2, <4>3, <4>4 DEF Holds
    <3>5. {u \in DOMAIN car : WaitsFor(car'[u], q)} = Waiting(q) \ {w}
      <4>1. \A u \in DOMAIN car \ {v, w} : car'[u] = car[u]
        BY <1>4, <3>1
      <4>2. ~ WaitsFor(car'[w], q) /\ ~ WaitsFor(car'[v], q) /\ ~ WaitsFor(car[v], q)
        BY <1>4, <1>5, <3>1 DEF WaitsFor
      <4>. QED BY <4>1, <4>2 DEF Waiting
    <3>6. used'[q] = used[q] /\ queue'[q] = Tail(queue[q])
      BY <1>1, <2>1, <2>3, <3>1, <3>2 DEF RoadInv
    <3>. QED BY <2>1, <2>3, <3>3, <3>4, <3>5, <3>6, StoreLetsIn DEF w
  <2>4. CASE q # p
    <3>1. {u \in DOMAIN car : WaitsFor(car'[u], q)} = Waiting(q)
      <4>1. \A u \in letIn : ~ WaitsFor(car'[u], q) /\ ~ WaitsFor(car[u], q)
        BY <1>5, <2>4 DEF WaitsFor
      <4>2. ~ WaitsFor(car'[v], q) /\ ~ WaitsFor(car[v], q)
        BY <1>4 DEF WaitsFor
      <4>. QED BY <4>1, <4>2, <1>4 DEF Waiting
    <3>2. \A u \in DOMAIN car \ {v} : HoldsIt(car'[u], q) <=> HoldsIt(car[u], q)
      BY <1>4, <1>5, <2>4 DEF HoldsIt
    <3>3. queue'[q] = queue[q]
      BY <1>1, <2>4 DEF RoadInv
    <3>4. CASE q \in e
      <4>1. {u \in DOMAIN car : HoldsIt(car'[u], q)} = Holds(q) \union {v} /\ v \notin Holds(q)
        BY <1>4, <3>2, <3>4 DEF Holds
      <4>2. used'[q] = used[q] + 1 /\ used[q] < Road!kapacita(q)
        BY <1>1, <2>1, <2>4, <3>4 DEF Road!Free
      <4>3. StoreOK(Holds(q) \union {v}, Waiting(q), used[q] + 1, queue[q], Road!kapacita(q))
        BY <2>1, <4>1, <4>2, StoreTakes, Zenon
      <4>. QED BY <3>1, <3>3, <4>1, <4>2, <4>3
    <3>5. CASE q \notin e
      <4>1. {u \in DOMAIN car : HoldsIt(car'[u], q)} = Holds(q)
        BY <1>4, <3>2, <3>5, <2>4 DEF Holds
      <4>2. used'[q] = used[q]
        BY <1>1, <2>1, <2>4, <3>5
      <4>. QED BY <2>1, <3>1, <3>3, <4>1, <4>2
    <3>. QED BY <3>4, <3>5
  <2>. QED BY <2>2, <2>3, <2>4
<1>8. used' = [q \in Road!Places |-> used'[q]]
  BY <1>1, Zenon
<1>9. queue' = [q \in Road!Places |-> queue'[q]]
  <2>1. queue = [q \in Road!Places |-> queue[q]]
    BY DEF RoadInv
  <2>. QED BY <2>1, <1>1
<1>. QED BY <1>4, <1>6, <1>7, <1>8, <1>9, RoadKept
-----------------------------------------------------------------------------
\* The fields of a car.
LEMMA CarFields ==
  ASSUME NEW c, c \in Cars
  PROVE c.mode \in Modes /\ c.route \in Nat \X Nat /\ c.at \in Spots /\ c.to \in Spots /\ c.passed_distance \in Int
BY Zenon DEF Cars

\* The road is empty when a run begins.
LEMMA RoadInit == ASSUME RoadSizes, Road!Init PROVE RoadInv
<1>. DEFINE new == [mode |-> "born", route |-> <<0, 0>>, at |-> nobody, to |-> nobody, passed_distance |-> 0]
<1>1. PICK t \in Traffic : routes = t.routes /\ car = [v \in t.cars |-> new]
  BY DEF Road!Init
<1>2. used = [p \in Road!Places |-> 0] /\ queue = [p \in Road!Places |-> <<>>]
  BY DEF Road!Init
<1>3. new \in Cars
  <2>1. "born" \in Modes /\ <<0, 0>> \in Nat \X Nat /\ nobody \in Spots /\ 0 \in Int
    BY DEF Modes, Spots
  <2>. QED BY <2>1, Zenon DEF Cars
<1>4. CarOK(new)
  <2>1. Stands(new)
    BY DEF Stands
  <2>2. Drives(new)
    BY DEF Drives
  <2>. QED BY <1>3, <2>1, <2>2 DEF CarOK
<1>5. new.at = nobody /\ new.to = nobody
  OBVIOUS
<1>. HIDE DEF new
<1>6. DOMAIN car = t.cars /\ \A v \in DOMAIN car : car[v] = new
  BY <1>1
<1>7. IsFiniteSet(t.cars) /\ t.routes \subseteq Nat \X Nat
  BY DEF RoadSizes
<1>8. ASSUME NEW p \in Road!Places
      PROVE StoreOK(Holds(p), Waiting(p), used[p], queue[p], Road!kapacita(p))
  <2>1. p # nobody /\ Road!kapacita(p) \in Nat
    BY DEF RoadSizes
  <2>2. Holds(p) = {} /\ Waiting(p) = {}
    BY <1>5, <1>6, <2>1 DEF Holds, Waiting, HoldsIt, WaitsFor
  <2>3. used[p] = 0 /\ queue[p] = <<>>
    BY <1>2
  <2>4. IsFiniteSet({}) /\ Cardinality({}) = 0
    BY FS_EmptySet
  <2>5. StoreOK({}, {}, 0, <<>>, Road!kapacita(p))
    BY <2>1, <2>4 DEF StoreOK
  <2>. QED BY <2>2, <2>3, <2>5
<1>. QED BY <1>1, <1>2, <1>4, <1>6, <1>7, <1>8 DEF RoadInv

\* A car draws its route (Behavior).
LEMMA RoadBehavior ==
  ASSUME RoadSizes, RoadInv, NEW v \in DOMAIN car, Road!Behavior(v) PROVE RoadInv'
<1>1. CarOK(car[v]) /\ car[v].mode = "born" /\ UNCHANGED routes
  BY DEF RoadInv, Road!Behavior
<1>2. /\ car[v] \in Cars /\ car[v].at = nobody /\ car[v].to = nobody /\ car[v].passed_distance = 0
  BY <1>1 DEF CarOK, Stands, Drives
<1>. DEFINE c(r) == [car[v] EXCEPT !.route = r]
<1>3. PICK r \in routes :
        IF \/ r[1] = r[2] \/ Road!get_by_strt_exit(Dir(r), r[1]) = {}
           \/ Road!get_by_end_exit(Dir(r), r[2]) = {}
        THEN car' = [car EXCEPT ![v] = [c(r) EXCEPT !.mode = "no path"]] /\ UNCHANGED <<used, queue>>
        ELSE \E n \in Road!get_by_strt_exit(Dir(r), r[1]) :
               IF Road!Free(<<Dir(r), n>>)
               THEN /\ car' = [car EXCEPT ![v] = [c(r) EXCEPT !.mode = "rides", !.at = <<Dir(r), n>>]]
                    /\ used' = [used EXCEPT ![<<Dir(r), n>>] = used[<<Dir(r), n>>] + 1]
                    /\ UNCHANGED queue
               ELSE Road!Join(<<Dir(r), n>>, v, c(r))
  BY DEF Road!Behavior, Dir
<1>4. r \in Nat \X Nat
  BY DEF RoadInv
<1>. DEFINE e == c(r)
<1>5. /\ e \in Cars /\ e.mode = "born" /\ e.route = r /\ e.at = nobody /\ e.to = nobody
      /\ e.passed_distance = 0
  BY <1>1, <1>2, <1>4, Zenon DEF Cars
<1>. HIDE DEF c, e
<1>6. nobody \in Spots /\ (\A p \in Road!Places : p \in Spots /\ p # nobody)
      /\ {"no path", "rides", "waits"} \subseteq Modes
  BY DEF Spots, Modes, RoadSizes
<1>7. CASE car' = [car EXCEPT ![v] = [e EXCEPT !.mode = "no path"]] /\ UNCHANGED <<used, queue>>
  <2>. DEFINE d == [e EXCEPT !.mode = "no path"]
  <2>1. d \in Cars /\ d.mode = "no path" /\ d.at = nobody /\ d.to = nobody
    BY <1>5, <1>6, Zenon DEF Cars
  <2>. HIDE DEF d
  <2>2. CarOK(d)
    BY <2>1 DEF CarOK, Stands, Drives
  <2>. DEFINE entered == {}
  <2>3. used' = [p \in Road!Places |-> IF p \in entered THEN used[p] + 1 ELSE used[p]]
    BY <1>7 DEF RoadInv
  <2>4. /\ entered \subseteq Road!Places /\ car[v].mode # "waits" /\ d.mode # "waits"
        /\ \A p \in Road!Places : HoldsIt(d, p) <=> HoldsIt(car[v], p) \/ p \in entered
        /\ \A p \in entered : ~ HoldsIt(car[v], p) /\ Road!Free(p)
    BY <2>1, <1>1, <1>2, <1>6 DEF HoldsIt
  <2>5. car' = [car EXCEPT ![v] = d] /\ UNCHANGED <<routes, queue>>
    BY <1>1, <1>7 DEF d
  <2>. HIDE DEF entered
  <2>. QED BY <2>2, <2>3, <2>4, <2>5, PutKeeps
<1>8. ASSUME r[1] # r[2], Road!get_by_end_exit(Dir(r), r[2]) # {},
             NEW n \in Road!get_by_strt_exit(Dir(r), r[1]), Road!Free(<<Dir(r), n>>),
             car' = [car EXCEPT ![v] = [e EXCEPT !.mode = "rides", !.at = <<Dir(r), n>>]],
             used' = [used EXCEPT ![<<Dir(r), n>>] = used[<<Dir(r), n>>] + 1], UNCHANGED queue
      PROVE RoadInv'
  <2>. DEFINE p == <<Dir(r), n>>
              d == [e EXCEPT !.mode = "rides", !.at = p]
  <2>1. p \in Road!Places /\ OnWay(r, p, 0)
    BY <1>4, <1>8, WayIn
  <2>. HIDE DEF p
  <2>2. /\ d \in Cars /\ d.mode = "rides" /\ d.at = p /\ d.to = nobody /\ d.route = r
        /\ d.passed_distance = 0
    BY <1>5, <1>6, <2>1, Zenon DEF Cars
  <2>3. car' = [car EXCEPT ![v] = d] /\ UNCHANGED <<routes, queue>>
        /\ used' = [used EXCEPT ![p] = used[p] + 1] /\ Road!Free(p)
    BY <1>1, <1>8 DEF p
  <2>. HIDE DEF d
  <2>4. CarOK(d)
    BY <2>1, <2>2, <1>6 DEF CarOK, Stands, Drives
  <2>5. used' = [q \in Road!Places |-> IF q \in {p} THEN used[q] + 1 ELSE used[q]]
    BY <2>3, <2>1 DEF RoadInv
  <2>6. \A q \in Road!Places : HoldsIt(d, q) <=> HoldsIt(car[v], q) \/ q \in {p}
    BY <2>2, <1>1, <1>2, <1>6 DEF HoldsIt
  <2>7. \A q \in {p} : ~ HoldsIt(car[v], q) /\ Road!Free(q)
    BY <2>1, <2>3, <1>1, <1>2, <1>6 DEF HoldsIt
  <2>8. {p} \subseteq Road!Places /\ d.mode # "waits" /\ car[v].mode # "waits"
    BY <1>1, <2>1, <2>2
  <2>. QED BY <2>3, <2>4, <2>5, <2>6, <2>7, <2>8, PutKeeps, Zenon
<1>9. ASSUME r[1] # r[2], Road!get_by_end_exit(Dir(r), r[2]) # {},
             NEW n \in Road!get_by_strt_exit(Dir(r), r[1]), ~ Road!Free(<<Dir(r), n>>),
             Road!Join(<<Dir(r), n>>, v, e)
      PROVE RoadInv'
  <2>. DEFINE p == <<Dir(r), n>>
              d == [e EXCEPT !.mode = "waits", !.to = p]
  <2>1. p \in Road!Places /\ OnWay(r, p, 0) /\ ~ Road!Free(p) /\ Road!Join(p, v, e)
    BY <1>4, <1>9, WayIn
  <2>. HIDE DEF p
  <2>2. /\ d \in Cars /\ d.mode = "waits" /\ d.at = nobody /\ d.to = p /\ d.route = r
        /\ d.passed_distance = 0
    BY <1>5, <1>6, <2>1, Zenon DEF Cars
  <2>. HIDE DEF d
  <2>3. CarOK(d)
    BY <2>1, <2>2, <1>6 DEF CarOK, Stands, Drives
  <2>4. e.at = car[v].at /\ car[v].mode \notin {"waits", "granted"}
    BY <1>1, <1>2, <1>5
  <2>. QED BY <1>1, <1>5, <2>1, <2>3, <2>4, JoinKeeps, Zenon DEF d
<1>. QED BY <1>3, <1>7, <1>8, <1>9 DEF e

\* The end of a section: it goes out,
LEMMA RoadDriveOut ==
  ASSUME RoadSizes, RoadInv, NEW v \in DOMAIN car, Road!DriveOut(v) PROVE RoadInv'
<1>1. /\ CarOK(car[v]) /\ car[v].mode = "rides" /\ UNCHANGED routes
      /\ Road!At(car[v].at).km_do = car[v].route[2] \/ Road!is_last(car[v].at)
      /\ Road!Leave(car[v].at, v, Road!Out(v), {})
  BY DEF RoadInv, Road!DriveOut, Road!Ends
<1>. DEFINE c == car[v]
            p == c.at
            far == c.passed_distance + Road!At(p).delka
            d == [c EXCEPT !.passed_distance = far, !.mode = "done", !.at = nobody]
<1>2. /\ c \in Cars /\ p # nobody /\ c.to = nobody /\ OnWay(c.route, p, c.passed_distance)
  BY <1>1 DEF CarOK, Stands, Drives
<1>3. p \in Road!Places /\ c.route \in Nat \X Nat /\ c.passed_distance \in Int
  BY <1>2, CarFields DEF Spots
<1>4. far = Forth(Dir(c.route), c.route[1], c.route[2])
  BY <1>1, <1>2, <1>3, WayOut
<1>5. far \in Int
  <2>1. Road!At(p).delka \in Nat
    BY <1>3, PlaceIs DEF Stretches
  <2>. QED BY <2>1, <1>3
<1>6. Road!Out(v) = d
  BY DEF Road!Out, Road!Passed
<1>. HIDE DEF far
<1>7. /\ d \in Cars /\ d.mode = "done" /\ d.at = nobody /\ d.to = nobody /\ d.route = c.route
      /\ d.passed_distance = far
  <2>1. "done" \in Modes /\ nobody \in Spots
    BY DEF Modes, Spots
  <2>. HIDE DEF c
  <2>. QED BY <2>1, <1>2, <1>5, Zenon DEF Cars
<1>. HIDE DEF d
<1>8. CarOK(d)
  BY <1>4, <1>7 DEF CarOK, Stands, Drives
<1>9. \A q \in Road!Places : q # nobody
  BY DEF RoadSizes
<1>10. /\ HoldsIt(car[v], p) /\ car[v].mode # "waits" /\ d.mode # "waits" /\ {} \subseteq Road!Places
       /\ \A q \in Road!Places : HoldsIt(d, q) <=> (HoldsIt(car[v], q) /\ q # p) \/ q \in {}
       /\ \A q \in {} : ~ HoldsIt(car[v], q) /\ Road!Free(q)
  BY <1>1, <1>7, <1>9 DEF HoldsIt
<1>11. Road!Leave(p, v, d, {})
  BY <1>1, <1>6
<1>. QED BY <1>1, <1>3, <1>8, <1>10, <1>11, LeaveKeeps

\* or on, or waits for the next with this one held.
LEMMA RoadDriveOn ==
  ASSUME RoadSizes, RoadInv, NEW v \in DOMAIN car, Road!DriveOn(v) PROVE RoadInv'
<1>. DEFINE c == car[v]
            p == c.at
            next == Road!get_next(p)
            far == c.passed_distance + Road!At(p).delka
<1>1. /\ CarOK(c) /\ c.mode = "rides" /\ UNCHANGED routes
      /\ Road!At(p).km_do # c.route[2] /\ ~ Road!is_last(p)
      /\ IF Road!Free(next) THEN Road!Leave(p, v, Road!Onto(v, next), {next}) ELSE Road!Join(next, v, car[v])
  BY DEF RoadInv, Road!DriveOn, Road!Ends
<1>2. /\ c \in Cars /\ p # nobody /\ c.to = nobody /\ OnWay(c.route, p, c.passed_distance)
  BY <1>1 DEF CarOK, Stands, Drives
<1>3. p \in Road!Places /\ c.route \in Nat \X Nat /\ c.passed_distance \in Int
  BY <1>2, CarFields DEF Spots
<1>4. next \in Road!Places /\ next # p
  BY <1>1, <1>3, NextPlace
<1>5. OnWay(c.route, next, far)
  BY <1>1, <1>2, <1>3, WayOn
<1>6. far \in Int
  <2>1. Road!At(p).delka \in Nat
    BY <1>3, PlaceIs DEF Stretches
  <2>. QED BY <2>1, <1>3
<1>7. \A q \in Road!Places : q # nobody
  BY DEF RoadSizes
<1>8. next \in Spots /\ nobody \in Spots /\ {"rides", "waits"} \subseteq Modes
  BY <1>4 DEF Spots, Modes
<1>9. CASE Road!Free(next)
  <2>. DEFINE d == [c EXCEPT !.passed_distance = far, !.at = next, !.to = nobody, !.mode = "rides"]
  <2>1. Road!Leave(p, v, d, {next})
    BY <1>1, <1>9 DEF Road!Onto, Road!Passed
  <2>. HIDE DEF far, next
  <2>2. /\ d \in Cars /\ d.mode = "rides" /\ d.at = next /\ d.to = nobody /\ d.route = c.route
        /\ d.passed_distance = far
    <3>. HIDE DEF c
    <3>. QED BY <1>2, <1>6, <1>8, Zenon DEF Cars
  <2>. HIDE DEF d
  <2>3. CarOK(d)
    BY <2>2, <1>4, <1>5, <1>7 DEF CarOK, Stands, Drives
  <2>4. /\ HoldsIt(car[v], p) /\ car[v].mode # "waits" /\ d.mode # "waits" /\ {next} \subseteq Road!Places
        /\ \A q \in Road!Places : HoldsIt(d, q) <=> (HoldsIt(car[v], q) /\ q # p) \/ q \in {next}
        /\ \A q \in {next} : ~ HoldsIt(car[v], q) /\ Road!Free(q)
    BY <1>1, <1>4, <1>7, <1>9, <2>2 DEF HoldsIt
  <2>. QED BY <1>1, <1>3, <2>1, <2>3, <2>4, LeaveKeeps
<1>10. CASE ~ Road!Free(next)
  <2>. DEFINE d == [c EXCEPT !.mode = "waits", !.to = next]
  <2>1. Road!Join(next, v, c)
    BY <1>1, <1>10
  <2>2. /\ d \in Cars /\ d.mode = "waits" /\ d.at = p /\ d.to = next /\ d.route = c.route
        /\ d.passed_distance = c.passed_distance
    <3>. HIDE DEF c, next
    <3>. QED BY <1>2, <1>8, Zenon DEF Cars
  <2>3. CarOK(d)
    <3>. HIDE DEF d, c
    <3>. QED BY <2>2, <1>1, <1>2, <1>4, <1>7 DEF CarOK, Stands, Drives
  <2>4. c.at = car[v].at /\ car[v].mode \notin {"waits", "granted"}
    BY <1>1
  <2>. QED BY <1>1, <1>2, <1>4, <1>10, <2>1, <2>3, <2>4, JoinKeeps, Zenon
<1>. QED BY <1>9, <1>10

\* A car that was let in goes on and lets the section it held go.
LEMMA RoadGranted ==
  ASSUME RoadSizes, RoadInv, NEW v \in DOMAIN car, Road!Granted(v) PROVE RoadInv'
<1>. DEFINE c == car[v]
            p == c.at
            next == c.to
            far == c.passed_distance + Road!At(p).delka
<1>1. /\ CarOK(c) /\ c.mode = "granted" /\ UNCHANGED routes
      /\ IF p = nobody
         THEN /\ car' = [car EXCEPT ![v] = [c EXCEPT !.mode = "rides", !.at = next, !.to = nobody]]
              /\ UNCHANGED <<used, queue>>
         ELSE Road!Leave(p, v, Road!Onto(v, next), {})
  BY DEF RoadInv, Road!Granted
<1>2. /\ c \in Cars /\ next # nobody /\ next \in Road!Places /\ c.route \in Nat \X Nat
      /\ c.passed_distance \in Int
  BY <1>1, CarFields DEF CarOK, Stands, Spots
<1>3. \A q \in Road!Places : q # nobody
  BY DEF RoadSizes
<1>4. next \in Spots /\ nobody \in Spots /\ {"rides", "waits"} \subseteq Modes
  BY <1>2 DEF Spots, Modes
<1>5. CASE p = nobody
  <2>. DEFINE d == [c EXCEPT !.mode = "rides", !.at = next, !.to = nobody]
  <2>1. car' = [car EXCEPT ![v] = d] /\ UNCHANGED <<routes, used, queue>>
    BY <1>1, <1>5
  <2>2. /\ d \in Cars /\ d.mode = "rides" /\ d.at = next /\ d.to = nobody /\ d.route = c.route
        /\ d.passed_distance = c.passed_distance
    <3>1. c \in Cars /\ next \in Spots
      BY <1>2, <1>4
    <3>. HIDE DEF c, next
    <3>. QED BY <3>1, <1>4, Zenon DEF Cars
  <2>. HIDE DEF d
  <2>3. CarOK(d)
    <3>1. OnWay(c.route, next, c.passed_distance)
      BY <1>1, <1>2, <1>5 DEF CarOK, Drives
    <3>. QED BY <3>1, <2>2, <1>2 DEF CarOK, Stands, Drives
  <2>. DEFINE entered == {}
  <2>4. used' = [q \in Road!Places |-> IF q \in entered THEN used[q] + 1 ELSE used[q]]
    BY <2>1 DEF RoadInv
  <2>5. /\ entered \subseteq Road!Places /\ car[v].mode # "waits" /\ d.mode # "waits"
        /\ \A q \in Road!Places : HoldsIt(d, q) <=> HoldsIt(car[v], q) \/ q \in entered
        /\ \A q \in entered : ~ HoldsIt(car[v], q) /\ Road!Free(q)
    BY <1>1, <1>3, <1>5, <2>2 DEF HoldsIt
  <2>6. UNCHANGED <<routes, queue>> /\ car' = [car EXCEPT ![v] = d]
    BY <2>1
  <2>. HIDE DEF entered
  <2>. QED BY <2>3, <2>4, <2>5, <2>6, PutKeeps
<1>6. CASE p # nobody
  <2>. DEFINE d == [c EXCEPT !.passed_distance = far, !.at = next, !.to = nobody, !.mode = "rides"]
  <2>1. Road!Leave(p, v, d, {})
    BY <1>1, <1>6 DEF Road!Onto, Road!Passed
  <2>2. p \in Road!Places /\ next = Road!get_next(p) /\ ~ Road!is_last(p)
        /\ Road!At(p).km_do # c.route[2] /\ OnWay(c.route, p, c.passed_distance)
    BY <1>1, <1>2, <1>6, CarFields DEF CarOK, Stands, Drives, Spots
  <2>3. next # p /\ OnWay(c.route, next, far)
    BY <1>2, <2>2, NextPlace, WayOn
  <2>4. far \in Int
    <3>1. Road!At(p).delka \in Nat
      BY <2>2, PlaceIs DEF Stretches
    <3>. QED BY <3>1, <1>2
  <2>5. /\ d \in Cars /\ d.mode = "rides" /\ d.at = next /\ d.to = nobody /\ d.route = c.route
        /\ d.passed_distance = far
    <3>1. c \in Cars /\ next \in Spots
      BY <1>2, <1>4
    <3>. HIDE DEF c, next, far
    <3>. QED BY <3>1, <2>4, <1>4, Zenon DEF Cars
  <2>. HIDE DEF d, far
  <2>6. CarOK(d)
    BY <1>2, <2>3, <2>5 DEF CarOK, Stands, Drives
  <2>7. /\ HoldsIt(car[v], p) /\ car[v].mode # "waits" /\ d.mode # "waits" /\ {} \subseteq Road!Places
        /\ \A q \in Road!Places : HoldsIt(d, q) <=> (HoldsIt(car[v], q) /\ q # p) \/ q \in {}
        /\ \A q \in {} : ~ HoldsIt(car[v], q) /\ Road!Free(q)
    BY <1>1, <1>3, <2>3, <2>5 DEF HoldsIt
  <2>. QED BY <1>1, <2>1, <2>2, <2>6, <2>7, LeaveKeeps
<1>. QED BY <1>5, <1>6
LEMMA RoadStutter == ASSUME RoadInv, UNCHANGED Road!vars PROVE RoadInv'
<1>1. routes' = routes /\ car' = car /\ used' = used /\ queue' = queue
  BY DEF Road!vars
<1>. QED BY <1>1, RoadKept DEF RoadInv, Holds, Waiting

\* A step of the road, or none, keeps the invariant.
LEMMA RoadStep == ASSUME RoadSizes, RoadInv, [Road!Next]_(Road!vars) PROVE RoadInv'
<1>1. CASE Road!Next
  BY <1>1, RoadBehavior, RoadDriveOut, RoadDriveOn, RoadGranted DEF Road!Next
<1>2. CASE UNCHANGED Road!vars
  BY <1>2, RoadStutter
<1>. QED BY <1>1, <1>2
-----------------------------------------------------------------------------
LEMMA SameCount == ASSUME NEW h PROVE Road!Cardinality(h) = Cardinality(h)
BY DEF Road!Cardinality, Cardinality

\* The stores count what they hold.
LEMMA StoresCount == ASSUME RoadSizes, RoadInv PROVE Road!StoresAreHeld
<1>. DEFINE busy == {car[v].at : v \in DOMAIN car} \union {car[v].to : v \in DOMAIN car}
<1>. SUFFICES ASSUME NEW p \in Road!Places
              PROVE IF p \notin busy THEN used[p] = 0 /\ queue[p] = <<>>
                    ELSE /\ used[p] = Cardinality({v \in DOMAIN car : car[v].at = p})
                                      + Cardinality({v \in DOMAIN car : car[v].mode = "granted" /\ car[v].to = p})
                         /\ used[p] <= Road!kapacita(p)
                         /\ queue[p] # <<>> => ~ Road!Free(p)
  <2>1. DOMAIN used = Road!Places
    BY DEF RoadInv
  <2>. QED BY <2>1, SameCount DEF Road!StoresAreHeld
<1>1. StoreOK(Holds(p), Waiting(p), used[p], queue[p], Road!kapacita(p)) /\ Road!kapacita(p) \in Nat
  BY DEF RoadInv, RoadSizes
<1>. DEFINE on == {v \in DOMAIN car : car[v].at = p}
            in == {v \in DOMAIN car : car[v].mode = "granted" /\ car[v].to = p}
<1>2. Holds(p) = on \union in
  BY DEF Holds, HoldsIt
<1>3. on \cap in = {}
  <2>. SUFFICES ASSUME NEW v \in DOMAIN car, car[v].at = p, car[v].mode = "granted", car[v].to = p
                PROVE FALSE
    OBVIOUS
  <2>1. p # nobody
    BY DEF RoadSizes
  <2>2. p = Road!get_next(p) /\ ~ Road!is_last(p)
    BY <2>1 DEF RoadInv, CarOK, Stands
  <2>. QED BY <2>2, NextPlace
<1>4. IsFiniteSet(on) /\ IsFiniteSet(in)
  <2>1. IsFiniteSet(DOMAIN car)
    BY DEF RoadInv
  <2>. QED BY <2>1, FS_Subset
<1>5. used[p] = Cardinality(on) + Cardinality(in) /\ used[p] \in Nat
  <2>1. Cardinality(on \union in) = Cardinality(on) + Cardinality(in) - Cardinality(on \cap in)
    BY <1>4, FS_Union
  <2>2. Cardinality(on \cap in) = 0
    BY <1>3, FS_EmptySet
  <2>3. Cardinality(on) \in Nat /\ Cardinality(in) \in Nat
    BY <1>4, FS_CardinalityType
  <2>4. used[p] = Cardinality(on \union in)
    BY <1>1, <1>2 DEF StoreOK
  <2>. HIDE DEF on, in
  <2>. QED BY <2>1, <2>2, <2>3, <2>4
<1>6. used[p] <= Road!kapacita(p) /\ (queue[p] # <<>> => ~ Road!Free(p))
  <2>1. used[p] <= Road!kapacita(p) /\ (queue[p] # <<>> => used[p] >= Road!kapacita(p))
    BY <1>1 DEF StoreOK
  <2>. QED BY <2>1, <1>1, <1>5, SMT DEF Road!Free
<1>7. ASSUME p \notin busy PROVE used[p] = 0 /\ queue[p] = <<>>
  <2>1. on = {} /\ in = {} /\ Waiting(p) = {}
    BY <1>7 DEF Waiting, WaitsFor
  <2>2. used[p] = 0
    <3>. HIDE DEF on, in
    <3>. QED BY <2>1, <1>5, FS_EmptySet
  <2>3. queue[p] \in Seq({})
    BY <1>1, <2>1 DEF StoreOK
  <2>4. queue[p] = <<>>
    BY <2>3, SMT
  <2>. QED BY <2>2, <2>4
<1>. QED BY <1>5, <1>6, <1>7

\* A car that is out has gone from its entry to its exit.
LEMMA WentItsWay == ASSUME RoadInv PROVE Road!ArrivesWhereItWould
<1>. SUFFICES ASSUME NEW v \in DOMAIN car, car[v].mode = "done"
              PROVE car[v].passed_distance = IF car[v].route[1] < car[v].route[2]
                                             THEN car[v].route[2] - car[v].route[1]
                                             ELSE car[v].route[1] - car[v].route[2]
  BY DEF Road!ArrivesWhereItWould
<1>1. car[v].passed_distance = Forth(Dir(car[v].route), car[v].route[1], car[v].route[2])
  BY DEF RoadInv, CarOK, Drives
<1>. QED BY <1>1 DEF Forth, Dir

\* Of the cars that wait one waits for the section that is the farthest; the cars on that
\* section do not wait.
LEMMA OneMoves == ASSUME RoadSizes, RoadInv PROVE Road!SomeoneMoves
<1>0. SUFFICES ASSUME NEW v \in DOMAIN car, car[v].mode \notin {"done", "no path"},
                      \A u \in DOMAIN car : car[u].mode \notin {"born", "rides", "granted"}
               PROVE FALSE
  BY DEF Road!SomeoneMoves
<1>1. \A u \in DOMAIN car : car[u].mode \in {"done", "no path", "waits"}
  <2>. SUFFICES ASSUME NEW u \in DOMAIN car PROVE car[u].mode \in {"done", "no path", "waits"}
    OBVIOUS
  <2>1. car[u].mode \in Modes
    BY CarFields DEF RoadInv, CarOK
  <2>. QED BY <2>1, <1>0 DEF Modes
<1>2. \A u \in DOMAIN car : car[u].mode = "waits" =>
        /\ car[u].to \in Road!Places
        /\ \E w \in DOMAIN car : /\ car[w].mode = "waits" /\ car[w].to[2] = car[u].to[2] + 1
                                 /\ car[w].to \in Road!Places
  <2>0. SUFFICES ASSUME NEW u \in DOMAIN car, car[u].mode = "waits"
                 PROVE /\ car[u].to \in Road!Places
                       /\ \E w \in DOMAIN car : /\ car[w].mode = "waits" /\ car[w].to[2] = car[u].to[2] + 1
                                                /\ car[w].to \in Road!Places
    OBVIOUS
  <2>. DEFINE p == car[u].to
  <2>1. p \in Road!Places
    BY <2>0, CarFields DEF RoadInv, CarOK, Stands, Spots
  <2>2. StoreOK(Holds(p), Waiting(p), used[p], queue[p], Road!kapacita(p)) /\ Road!kapacita(p) \in Nat \ {0}
    BY <2>1 DEF RoadInv, RoadSizes
  <2>3. u \in Waiting(p)
    BY <2>0 DEF Waiting, WaitsFor
  <2>. HIDE DEF p
  <2>4. queue[p] # <<>>
    <3>1. PICK n \in 1 .. Len(queue[p]) : queue[p][n] = u
      BY <2>2, <2>3 DEF StoreOK
    <3>2. Len(<<>>) = 0
      BY SMT
    <3>3. n \notin 1 .. 0
      BY SMT
    <3>. QED BY <3>1, <3>2, <3>3
  <2>5. Cardinality(Holds(p)) # 0
    <3>. DEFINE k == Road!kapacita(p)
                h == Cardinality(Holds(p))
                m == used[p]
    <3>1. k \in Nat \ {0} /\ m = h /\ m >= k
      BY <2>2, <2>4 DEF StoreOK
    <3>. HIDE DEF k, h, m
    <3>2. h # 0
      BY <3>1, SMT
    <3>. QED BY <3>2 DEF h
  <2>6. PICK w \in DOMAIN car : HoldsIt(car[w], p)
    <3>1. Holds(p) # {}
      BY <2>5, FS_EmptySet
    <3>. QED BY <3>1 DEF Holds
  <2>7. car[w].at = p /\ p # nobody
    BY <2>1, <2>6, <1>0 DEF HoldsIt, RoadSizes
  <2>8. /\ car[w].mode = "waits" /\ car[w].to = Road!get_next(p) /\ ~ Road!is_last(p)
    BY <2>7, <1>1 DEF RoadInv, CarOK, Stands
  <2>. QED BY <2>1, <2>8, NextPlace DEF p
<1>. DEFINE L == Len(Road!praha)
            Left == {L - car[u].to[2] : u \in {w \in DOMAIN car : car[w].mode = "waits"}}
<1>3. \A p \in Road!Places : p[2] \in Nat /\ L - p[2] \in Nat
  <2>. SUFFICES ASSUME NEW p \in Road!Places PROVE p[2] \in Nat /\ L - p[2] \in Nat
    OBVIOUS
  <2>1. p[2] \in 1 .. L /\ L \in Nat
    BY Sections DEF Road!Places
  <2>. DEFINE n == p[2]
  <2>. HIDE DEF L, n, Left
  <2>2. n \in Nat /\ L - n \in Nat
    BY <2>1, SMT DEF n
  <2>. QED BY <2>2 DEF n
<1>. HIDE DEF L
<1>4. Left \in SUBSET Nat /\ Left # {}
  <2>1. v \in DOMAIN car /\ car[v].mode = "waits"
    BY <1>0, <1>1
  <2>. QED BY <2>1, <1>2, <1>3
<1>5. PICK n \in Left : \A k \in Left : n <= k
  <2>. HIDE DEF Left
  <2>. QED BY <1>4, Least
<1>6. PICK u \in DOMAIN car : car[u].mode = "waits" /\ n = L - car[u].to[2]
  BY <1>5
<1>7. PICK w \in DOMAIN car : car[w].mode = "waits" /\ car[w].to[2] = car[u].to[2] + 1
                              /\ car[w].to \in Road!Places /\ car[u].to \in Road!Places
  BY <1>2, <1>6
<1>8. L - car[w].to[2] \in Left
  BY <1>7
<1>9. n <= L - car[w].to[2]
  BY <1>5, <1>8
<1>. DEFINE x == car[u].to[2]
            y == car[w].to[2]
<1>10. x \in Nat /\ y \in Nat /\ y = x + 1 /\ L - x <= L - y /\ L - x \in Nat /\ L \in Nat
  <2>1. L \in Nat
    BY Sections DEF L
  <2>. QED BY <2>1, <1>3, <1>6, <1>7, <1>9
<1>. HIDE DEF x, y, Left
<1>11. ~ (L - x <= L - y)
  BY <1>10, SMT
<1>. QED BY <1>10, <1>11

\* The cars hold the sections they are on, no more than there is room for; each that is out has
\* gone the kilometres from its entry to its exit; and whatever waits for what, one of those that
\* are on the road can move on (vehicle.cc, drive_to; model_impl.h).
THEOREM CarsArriveAlways ==
  RoadSizes => (Road!Spec => [](Road!StoresAreHeld /\ Road!ArrivesWhereItWould /\ Road!SomeoneMoves))
<1>. SUFFICES ASSUME RoadSizes
              PROVE Road!Spec => [](Road!StoresAreHeld /\ Road!ArrivesWhereItWould /\ Road!SomeoneMoves)
  OBVIOUS
<1>1. Road!Init => RoadInv
  BY RoadInit
<1>2. RoadInv /\ [Road!Next]_(Road!vars) => RoadInv'
  BY RoadStep
<1>3. RoadInv => Road!StoresAreHeld /\ Road!ArrivesWhereItWould /\ Road!SomeoneMoves
  BY StoresCount, WentItsWay, OneMoves
<1>. QED BY <1>1, <1>2, <1>3, PTL DEF Road!Spec
-----------------------------------------------------------------------------
(***************************************************************************)
(* The network proxy.                                                      *)
(***************************************************************************)
CONSTANTS Sides, QueueSize, Options, Incoming, MaxMs
VARIABLES opt, pool, waiting, ready, sent, count, ms
Proxy == INSTANCE UdtProxy

ProxySizes ==
  /\ QueueSize \in Nat /\ MaxMs \in Nat
  /\ Options \subseteq [delay : Nat, jitter : Nat]

PoolSlots == [timeout : Int, came : Nat] \union {Proxy!Free}
Pools == [Proxy!Slots -> PoolSlots]

(***************************************************************************)
(* How a pool p of one side, what went out of it, q, the clock t and the   *)
(* delay d hang together without jitter: who came later leaves later, and  *)
(* who came before this millisecond has been counted down.                 *)
(***************************************************************************)
Filled(p) == {i \in Proxy!Slots : p[i] # Proxy!Free}
InStep(p, q, t, d) ==
  /\ \A i \in Filled(p) : /\ p[i].came <= t /\ 0 <= p[i].timeout /\ p[i].timeout <= d
                          /\ p[i].came < t => p[i].timeout < d
                          /\ p[i].timeout = 0 => d = 0
                          /\ \A k \in 1 .. Len(q) : q[k] <= p[i].came
  /\ \A i, j \in Filled(p) : p[i].came < p[j].came => p[i].timeout < p[j].timeout
  /\ \A k, l \in 1 .. Len(q) : k < l => q[k] <= q[l]
  /\ \A k \in 1 .. Len(q) : q[k] <= t

ProxyInv ==
  /\ opt \in Options /\ ms \in Nat /\ ready \subseteq Sides
  /\ pool \in [Sides -> Pools] /\ sent \in [Sides -> Seq(Nat)]
  /\ opt.jitter = 0 => \A s \in Sides : InStep(pool[s], sent[s], ms, opt.delay)

\* A finite set of numbers can be put in order.
LEMMA CanBeOrdered ==
  ASSUME NEW S \in SUBSET Nat, IsFiniteSet(S)
  PROVE  \E f \in [1 .. Cardinality(S) -> S] : \A k, l \in 1 .. Cardinality(S) : k < l => f[k] < f[l]
<1>. DEFINE IsOrder(f, n) == \A k, l \in 1 .. n : k < l => f[k] < f[l]
            Cannot(n) == \E T \in SUBSET Nat : /\ IsFiniteSet(T) /\ Cardinality(T) = n
                                              /\ \A f \in [1 .. n -> T] : ~ IsOrder(f, n)
            N == {n \in Nat : Cannot(n)}
<1>1. N = {}
  <2>. SUFFICES ASSUME N # {} PROVE FALSE
    OBVIOUS
  <2>1. PICK n \in N : \A k \in N : n <= k
    <3>1. N \in SUBSET Nat
      OBVIOUS
    <3>. HIDE DEF N
    <3>. QED BY <3>1, Least
  <2>2. PICK T \in SUBSET Nat : /\ IsFiniteSet(T) /\ Cardinality(T) = n
                                /\ \A f \in [1 .. n -> T] : ~ IsOrder(f, n)
    OBVIOUS
  <2>3. n \in Nat
    OBVIOUS
  <2>4. T # {}
    <3>. SUFFICES ASSUME T = {} PROVE FALSE
      OBVIOUS
    <3>1. n = 0
      BY <2>2, FS_EmptySet
    <3>2. 1 .. n = {}
      BY <3>1, SMT
    <3>3. [k \in 1 .. n |-> 0] \in [1 .. n -> T]
      BY <3>2
    <3>. QED BY <2>2, <3>2, <3>3
  <2>5. PICK m \in T : \A k \in T : m <= k
    BY <2>4, Least
  <2>6. IsFiniteSet(T \ {m}) /\ Cardinality(T \ {m}) = n - 1
    BY <2>2, FS_RemoveElement
  <2>7. n - 1 \in Nat
    BY <2>6, FS_CardinalityType
  <2>8. PICK g \in [1 .. n - 1 -> T \ {m}] : IsOrder(g, n - 1)
    <3>1. n - 1 \notin N
      BY <2>1, <2>3, SMT
    <3>. QED BY <3>1, <2>6, <2>7, Zenon
  <2>. DEFINE f == [k \in 1 .. n |-> IF k = 1 THEN m ELSE g[k - 1]]
  <2>9. \A k \in 1 .. n : k # 1 => k - 1 \in 1 .. n - 1
    BY <2>3, SMT
  <2>10. f \in [1 .. n -> T]
    BY <2>8, <2>9
  <2>11. IsOrder(f, n)
    <3>. SUFFICES ASSUME NEW k \in 1 .. n, NEW l \in 1 .. n, k < l PROVE f[k] < f[l]
      OBVIOUS
    <3>1. l # 1 /\ l - 1 \in 1 .. n - 1
      BY <2>9, SMT
    <3>2. CASE k = 1
      <4>1. g[l - 1] \in T /\ g[l - 1] # m
        BY <3>1, <2>8
      <4>2. m <= g[l - 1] /\ m \in Nat /\ g[l - 1] \in Nat
        BY <4>1, <2>5, <2>2
      <4>. QED BY <3>1, <3>2, <4>1, <4>2, SMT
    <3>3. CASE k # 1
      <4>1. k - 1 \in 1 .. n - 1 /\ k - 1 < l - 1
        BY <3>3, <2>9, SMT
      <4>. QED BY <3>1, <3>3, <4>1, <2>8
    <3>. QED BY <3>2, <3>3
  <2>. QED BY <2>2, <2>10, <2>11
<1>. HIDE DEF IsOrder
<1>2. Cardinality(S) \in Nat
  BY FS_CardinalityType
<1>3. ~ Cannot(Cardinality(S))
  BY <1>1, <1>2
<1>4. \E f \in [1 .. Cardinality(S) -> S] : IsOrder(f, Cardinality(S))
  BY <1>3
<1>. QED BY <1>4 DEF IsOrder

\* So the alarm goes through slots that are due.
LEMMA ProxyDue ==
  ASSUME ProxySizes, NEW p \in Pools
  PROVE  /\ Proxy!Due(p) \subseteq Proxy!Slots
         /\ \E n \in Nat : Proxy!Ordered(Proxy!Due(p)) \in [1 .. n -> Proxy!Due(p)]
<1>. DEFINE D == Proxy!Due(p)
<1>1. D \subseteq 1 .. QueueSize
  BY DEF Proxy!Due, Proxy!Slots
<1>2. IsFiniteSet(1 .. QueueSize)
  BY FS_Interval DEF ProxySizes
<1>3. IsFiniteSet(D)
  BY <1>1, <1>2, FS_Subset
<1>4. D \in SUBSET Nat
  BY <1>1, SMT
<1>. HIDE DEF D
<1>5. Proxy!Cardinality(D) = Cardinality(D)
  BY DEF Proxy!Cardinality, Cardinality
<1>. DEFINE n == Cardinality(D)
<1>6. n \in Nat
  BY <1>3, FS_CardinalityType
<1>7. \E f \in [1 .. n -> D] : \A k, l \in 1 .. n : k < l => f[k] < f[l]
  BY <1>3, <1>4, CanBeOrdered
<1>. HIDE DEF n
<1>8. Proxy!Ordered(D) = CHOOSE f \in [1 .. n -> D] : \A k, l \in 1 .. n : k < l => f[k] < f[l]
  BY <1>5 DEF Proxy!Ordered, n
<1>9. Proxy!Ordered(D) \in [1 .. n -> D]
  BY <1>7, <1>8
<1>. QED BY <1>1, <1>6, <1>9 DEF D, Proxy!Slots

-----------------------------------------------------------------------------
\* A packet is put into the first empty slot: it came last and is to wait longest.
LEMMA ProxyPut ==
  ASSUME ProxySizes, NEW p \in Pools, NEW q \in Seq(Nat), NEW t \in Nat, NEW d \in Nat, NEW w \in Int,
         Proxy!Empty(p) # {}
  PROVE  LET p2 == [p EXCEPT ![Proxy!FirstEmpty(p)] = [timeout |-> w, came |-> t]]
         IN p2 \in Pools /\ (w = d /\ InStep(p, q, t, d) => InStep(p2, q, t, d))
<1>. DEFINE e == Proxy!FirstEmpty(p)
            new == [timeout |-> w, came |-> t]
            p2 == [p EXCEPT ![e] = new]
<1>1. e \in Proxy!Empty(p)
  <2>1. Proxy!Empty(p) \subseteq Nat
    BY SMT DEF Proxy!Empty, Proxy!Slots
  <2>2. \E i \in Proxy!Empty(p) : \A j \in Proxy!Empty(p) : i <= j
    BY <2>1, Least
  <2>. QED BY <2>2 DEF Proxy!FirstEmpty
<1>2. e \in Proxy!Slots /\ p[e] = Proxy!Free
  BY <1>1 DEF Proxy!Empty
<1>3. new.timeout = w /\ new.came = t /\ new \in PoolSlots
  BY DEF PoolSlots
<1>. HIDE DEF e, new
<1>4. p2 \in Pools
  BY <1>3 DEF Pools
<1>5. Filled(p2) \subseteq Filled(p) \union {e} /\ p2[e] = new
      /\ \A i \in Filled(p) : i # e /\ p2[i] = p[i] /\ i \in Proxy!Slots
  BY <1>2 DEF Filled, Pools
<1>6. ASSUME w = d, InStep(p, q, t, d) PROVE InStep(p2, q, t, d)
  <2>. HIDE DEF p2
  <2>1. \A i \in Filled(p) : p[i].came \in Nat /\ p[i].timeout \in Int
    BY DEF Filled, Pools, PoolSlots
  <2>2. \A k \in 1 .. Len(q) : q[k] \in Nat
    BY ElementOfSeq
  <2>3. \A i \in Filled(p2) :
           /\ p2[i].came <= t /\ 0 <= p2[i].timeout /\ p2[i].timeout <= d
           /\ p2[i].came < t => p2[i].timeout < d
           /\ p2[i].timeout = 0 => d = 0
           /\ \A k \in 1 .. Len(q) : q[k] <= p2[i].came
    BY <1>3, <1>5, <1>6, <2>1, <2>2, SMT DEF InStep
  <2>4. \A i, j \in Filled(p2) : p2[i].came < p2[j].came => p2[i].timeout < p2[j].timeout
    <3>. SUFFICES ASSUME NEW i \in Filled(p2), NEW j \in Filled(p2), p2[i].came < p2[j].came
                  PROVE  p2[i].timeout < p2[j].timeout
      OBVIOUS
    <3>1. CASE i = e
      BY <3>1, <1>3, <1>5, <1>6, <2>1, SMT DEF InStep
    <3>2. CASE i # e /\ j = e
      BY <3>2, <1>3, <1>5, <1>6, <2>1, SMT DEF InStep
    <3>3. CASE i # e /\ j # e
      BY <3>3, <1>5, <1>6 DEF InStep
    <3>. QED BY <3>1, <3>2, <3>3
  <2>. QED BY <1>6, <2>3, <2>4 DEF InStep
<1>. QED BY <1>4, <1>6 DEF p2, e, new

\* Only packets that came in one millisecond are due in one, and none before them is left.
LEMMA ProxyTogether ==
  ASSUME NEW p \in Pools, NEW q, NEW t \in Nat, NEW d \in Nat, InStep(p, q, t, d), NEW i \in Proxy!Due(p)
  PROVE  /\ i \in Filled(p) /\ p[i].came \in Nat
         /\ \A j \in Proxy!Due(p) : p[j].came = p[i].came
         /\ \A j \in Filled(p) \ Proxy!Due(p) : p[i].came <= p[j].came
<1>1. \A j \in Filled(p) : p[j].came \in Nat /\ p[j].timeout \in Int
  BY DEF Filled, Pools, PoolSlots
<1>2. \A j \in Proxy!Due(p) : j \in Filled(p) /\ p[j].timeout \in {0, 1}
  BY <1>1, SMT DEF Proxy!Due, Filled, Proxy!Left, InStep
<1>3. \A j \in Filled(p) \ Proxy!Due(p) : p[j].timeout # 0
  BY DEF Proxy!Due, Filled, Proxy!Left
<1>4. \A j, k \in Proxy!Due(p) : ~ (p[j].came < p[k].came)
  BY <1>1, <1>2, SMT DEF InStep
<1>5. ASSUME NEW j \in Filled(p) \ Proxy!Due(p) PROVE p[i].came <= p[j].came
  BY <1>1, <1>2, <1>3, SMT DEF InStep
<1>6. ASSUME NEW j \in Proxy!Due(p) PROVE p[j].came = p[i].came
  BY <1>1, <1>2, <1>4, SMT
<1>. QED BY <1>1, <1>2, <1>5, <1>6

\* The alarm: what is due goes out, and the rest is counted down.
LEMMA ProxySends ==
  ASSUME ProxySizes, NEW p \in Pools, NEW q \in Seq(Nat), NEW t \in Nat, NEW d \in Nat,
         NEW t2 \in {t, t + 1}
  PROVE  LET due == Proxy!Ordered(Proxy!Due(p))
             out == [k \in DOMAIN due |-> p[due[k]].came]
             p2 == [i \in Proxy!Slots |-> IF i \in Proxy!Due(p) \/ p[i] = Proxy!Free THEN Proxy!Free
                                          ELSE [p[i] EXCEPT !.timeout = Proxy!Left(p[i])]]
         IN p2 \in Pools /\ q \o out \in Seq(Nat) /\ (InStep(p, q, t, d) => InStep(p2, q \o out, t2, d))
<1>. DEFINE due == Proxy!Ordered(Proxy!Due(p))
            out == [k \in DOMAIN due |-> p[due[k]].came]
            p2 == [i \in Proxy!Slots |-> IF i \in Proxy!Due(p) \/ p[i] = Proxy!Free THEN Proxy!Free
                                         ELSE [p[i] EXCEPT !.timeout = Proxy!Left(p[i])]]
            q2 == q \o out
<1>1. \A i \in Filled(p) : p[i] \in [timeout : Int, came : Nat] /\ i \in Proxy!Slots
  BY DEF Filled, Pools, PoolSlots
<1>2. \A i \in Filled(p) : p[i].came \in Nat /\ p[i].timeout \in Int
  BY <1>1
<1>3. Proxy!Due(p) \subseteq Filled(p)
  BY DEF Proxy!Due, Filled
<1>4. PICK n \in Nat : due \in [1 .. n -> Proxy!Due(p)]
  BY ProxyDue
<1>. HIDE DEF due
<1>5. out \in Seq(Nat) /\ Len(out) = n
  <2>1. DOMAIN due = 1 .. n
    BY <1>4
  <2>2. out \in [1 .. n -> Nat]
    BY <2>1, <1>2, <1>3, <1>4
  <2>. HIDE DEF out
  <2>. QED BY <2>2
<1>6. \A k \in 1 .. n : \E i \in Proxy!Due(p) : out[k] = p[i].came
  BY <1>4
<1>. HIDE DEF out
<1>7. \A i \in Filled(p) \ Proxy!Due(p) :
         /\ p2[i] = [p[i] EXCEPT !.timeout = Proxy!Left(p[i])]
         /\ p2[i] \in [timeout : Int, came : Nat]
         /\ p2[i].came = p[i].came /\ p2[i].timeout = Proxy!Left(p[i])
  <2>. SUFFICES ASSUME NEW i \in Filled(p) \ Proxy!Due(p)
                PROVE  /\ p2[i] = [p[i] EXCEPT !.timeout = Proxy!Left(p[i])]
                       /\ p2[i] \in [timeout : Int, came : Nat]
                       /\ p2[i].came = p[i].came /\ p2[i].timeout = Proxy!Left(p[i])
    OBVIOUS
  <2>1. p2[i] = [p[i] EXCEPT !.timeout = Proxy!Left(p[i])]
    BY <1>1 DEF Filled
  <2>2. Proxy!Left(p[i]) \in Int
    BY <1>2, SMT DEF Proxy!Left
  <2>. HIDE DEF p2
  <2>. QED BY <2>1, <2>2, <1>1
<1>8. p2 \in Pools
  <2>1. \A i \in Proxy!Slots : p2[i] \in PoolSlots
    <3>. SUFFICES ASSUME NEW i \in Proxy!Slots PROVE p2[i] \in PoolSlots
      OBVIOUS
    <3>1. CASE i \in Filled(p) \ Proxy!Due(p)
      BY <3>1, <1>7 DEF PoolSlots
    <3>2. CASE i \notin Filled(p) \ Proxy!Due(p)
      BY <3>2 DEF Filled, PoolSlots
    <3>. QED BY <3>1, <3>2
  <2>. QED BY <2>1 DEF Pools
<1>9. Filled(p2) \subseteq Filled(p) \ Proxy!Due(p)
  BY DEF Filled
<1>. HIDE DEF p2
<1>10. /\ q2 \in Seq(Nat) /\ Len(q2) = Len(q) + n /\ Len(q) \in Nat
       /\ \A k \in 1 .. Len(q) + n : q2[k] = IF k <= Len(q) THEN q[k] ELSE out[k - Len(q)]
  <2>1. /\ q2 \in Seq(Nat) /\ Len(q2) = Len(q) + Len(out)
        /\ \A k \in 1 .. Len(q) + Len(out) : q2[k] = IF k <= Len(q) THEN q[k] ELSE out[k - Len(q)]
    BY <1>5, ConcatProperties
  <2>. HIDE DEF q2
  <2>. QED BY <2>1, <1>5, LenProperties
<1>. HIDE DEF q2
<1>11. ASSUME InStep(p, q, t, d) PROVE InStep(p2, q2, t2, d)
  <2>1. ASSUME NEW k \in 1 .. Len(q2)
        PROVE  \/ k \in 1 .. Len(q) /\ q2[k] = q[k]
               \/ k > Len(q) /\ \E i \in Proxy!Due(p) : q2[k] = p[i].came
    <3>1. CASE k <= Len(q)
      BY <3>1, <1>10, SMT
    <3>2. CASE ~ (k <= Len(q))
      <4>1. k - Len(q) \in 1 .. n /\ k > Len(q)
        BY <3>2, <1>10, SMT
      <4>. QED BY <4>1, <3>2, <1>6, <1>10
    <3>. QED BY <3>1, <3>2
  <2>2. \A k \in 1 .. Len(q) : q[k] \in Nat
    BY ElementOfSeq
  <2>3. \A k \in 1 .. Len(q2) : q2[k] \in Nat
    BY <1>10, ElementOfSeq
  <2>4. ASSUME NEW i \in Filled(p2) PROVE
           /\ p2[i].came <= t2 /\ 0 <= p2[i].timeout /\ p2[i].timeout <= d
           /\ p2[i].came < t2 => p2[i].timeout < d
           /\ p2[i].timeout # 0
           /\ \A k \in 1 .. Len(q2) : q2[k] <= p2[i].came
    <3>1. i \in Filled(p) \ Proxy!Due(p)
      BY <1>9
    <3>2. /\ p[i].came <= t /\ 0 <= p[i].timeout /\ p[i].timeout <= d
          /\ p[i].came \in Nat /\ p[i].timeout \in Int
      BY <3>1, <1>2, <1>11 DEF InStep
    <3>3. p[i].timeout > 1 /\ p2[i].timeout = p[i].timeout - 1 /\ p2[i].came = p[i].came
      <4>1. Proxy!Left(p[i]) # 0
        BY <3>1 DEF Proxy!Due, Filled
      <4>2. p[i].timeout > 1 /\ Proxy!Left(p[i]) = p[i].timeout - 1
        BY <4>1, <3>2, SMT DEF Proxy!Left
      <4>. QED BY <4>2, <3>1, <1>7
    <3>4. ASSUME NEW k \in 1 .. Len(q2) PROVE q2[k] <= p2[i].came
      <4>1. CASE k \in 1 .. Len(q) /\ q2[k] = q[k]
        BY <4>1, <3>1, <3>3, <1>11 DEF InStep
      <4>2. CASE \E j \in Proxy!Due(p) : q2[k] = p[j].came
        BY <4>2, <3>1, <3>3, <1>11, ProxyTogether
      <4>. QED BY <2>1, <4>1, <4>2
    <3>. QED BY <3>2, <3>3, <3>4, SMT
  <2>5. \A i, j \in Filled(p2) : p2[i].came < p2[j].came => p2[i].timeout < p2[j].timeout
    <3>. SUFFICES ASSUME NEW i \in Filled(p2), NEW j \in Filled(p2), p2[i].came < p2[j].came
                  PROVE  p2[i].timeout < p2[j].timeout
      OBVIOUS
    <3>1. \A x \in {i, j} : /\ p[x].timeout \in Int /\ p[x].timeout > 0 /\ x \in Filled(p)
                            /\ p2[x].timeout = p[x].timeout - 1 /\ p2[x].came = p[x].came
      <4>. SUFFICES ASSUME NEW x \in Filled(p) \ Proxy!Due(p)
                    PROVE  /\ p[x].timeout \in Int /\ p[x].timeout > 0 /\ x \in Filled(p)
                           /\ p2[x].timeout = p[x].timeout - 1 /\ p2[x].came = p[x].came
        BY <1>9
      <4>1. Proxy!Left(p[x]) # 0
        BY DEF Proxy!Due, Filled
      <4>2. p[x].timeout \in Int /\ 0 <= p[x].timeout
        BY <1>2, <1>11 DEF InStep
      <4>3. p[x].timeout > 0 /\ Proxy!Left(p[x]) = p[x].timeout - 1
        BY <4>1, <4>2, SMT DEF Proxy!Left
      <4>. QED BY <4>2, <4>3, <1>7
    <3>2. p[i].timeout < p[j].timeout
      BY <3>1, <1>11 DEF InStep
    <3>. QED BY <3>1, <3>2, SMT
  <2>6. ASSUME NEW k \in 1 .. Len(q2), NEW l \in 1 .. Len(q2), k < l PROVE q2[k] <= q2[l]
    <3>1. CASE l \in 1 .. Len(q) /\ q2[l] = q[l]
      <4>1. k \in 1 .. Len(q) /\ q2[k] = q[k]
        BY <3>1, <2>6, <1>10, SMT
      <4>. QED BY <3>1, <4>1, <2>6, <1>11 DEF InStep
    <3>2. CASE \E j \in Proxy!Due(p) : q2[l] = p[j].came
      <4>. PICK j \in Proxy!Due(p) : q2[l] = p[j].came
        BY <3>2
      <4>1. CASE k \in 1 .. Len(q) /\ q2[k] = q[k]
        BY <4>1, <1>3, <1>11 DEF InStep
      <4>2. CASE \E i \in Proxy!Due(p) : q2[k] = p[i].came
        <5>1. q2[k] = q2[l]
          BY <4>2, <1>11, ProxyTogether
        <5>. QED BY <5>1, <2>3, SMT
      <4>. QED BY <2>1, <4>1, <4>2
    <3>. QED BY <2>1, <3>1, <3>2
  <2>7. ASSUME NEW k \in 1 .. Len(q2) PROVE q2[k] <= t2
    <3>1. q2[k] <= t
      BY <2>1, <1>3, <1>11 DEF InStep
    <3>. QED BY <3>1, <2>3, SMT
  <2>. QED BY <2>4, <2>5, <2>6, <2>7 DEF InStep
<1>. QED BY <1>8, <1>10, <1>11 DEF p2, q2, out, due
-----------------------------------------------------------------------------
\* What is received is put into the pools of those who sent it.
LEMMA ProxyReceive == ASSUME ProxySizes, ProxyInv, Proxy!Receive PROVE ProxyInv'
<1>. PICK w \in [ready -> Proxy!Delays] :
       pool' = [s \in Sides |->
                  IF s \in ready /\ Proxy!Empty(pool[s]) # {}
                  THEN [pool[s] EXCEPT ![Proxy!FirstEmpty(pool[s])] = [timeout |-> w[s], came |-> ms]]
                  ELSE pool[s]]
  BY DEF Proxy!Receive
<1>1. UNCHANGED <<opt, sent, ms>> /\ ready' = {}
  BY DEF Proxy!Receive
<1>2. opt.delay \in Nat /\ opt.jitter \in Nat /\ ms \in Nat
  BY DEF ProxyInv, ProxySizes
<1>3. Proxy!Delays \subseteq Int /\ (opt.jitter = 0 => Proxy!Delays = {opt.delay})
  BY <1>2, SMT DEF Proxy!Delays
<1>4. ASSUME NEW s \in Sides
      PROVE  /\ pool'[s] \in Pools
             /\ opt.jitter = 0 => InStep(pool'[s], sent[s], ms, opt.delay)
  <2>1. pool[s] \in Pools /\ sent[s] \in Seq(Nat)
    BY DEF ProxyInv
  <2>2. opt.jitter = 0 => InStep(pool[s], sent[s], ms, opt.delay)
    BY DEF ProxyInv
  <2>3. CASE s \in ready /\ Proxy!Empty(pool[s]) # {}
    <3>1. pool'[s] = [pool[s] EXCEPT ![Proxy!FirstEmpty(pool[s])] = [timeout |-> w[s], came |-> ms]]
      BY <2>3
    <3>2. w[s] \in Int /\ (opt.jitter = 0 => w[s] = opt.delay)
      BY <2>3, <1>3
    <3>. QED BY <3>1, <3>2, <2>1, <2>2, <2>3, <1>2, ProxyPut
  <2>4. CASE ~ (s \in ready /\ Proxy!Empty(pool[s]) # {})
    BY <2>1, <2>2, <2>4
  <2>. QED BY <2>3, <2>4
<1>5. pool' \in [Sides -> Pools]
  BY <1>4
<1>. QED BY <1>1, <1>4, <1>5 DEF ProxyInv

\* What is due is sent.
LEMMA ProxyAlarm == ASSUME ProxySizes, ProxyInv, Proxy!SigAlrm PROVE ProxyInv'
<1>1. UNCHANGED <<opt, ready>> /\ ms' \in {ms, ms + 1}
  BY DEF Proxy!SigAlrm
<1>2. opt.delay \in Nat /\ ms \in Nat
  BY DEF ProxyInv, ProxySizes
<1>3. ms' \in Nat
  BY <1>1, <1>2, SMT
<1>4. ASSUME NEW s \in Sides
      PROVE  /\ pool'[s] \in Pools /\ sent'[s] \in Seq(Nat)
             /\ opt.jitter = 0 => InStep(pool'[s], sent'[s], ms', opt.delay)
  <2>. DEFINE due == Proxy!Ordered(Proxy!Due(pool[s]))
              out == [k \in DOMAIN due |-> pool[s][due[k]].came]
              p2 == [i \in Proxy!Slots |-> IF i \in Proxy!Due(pool[s]) \/ pool[s][i] = Proxy!Free THEN Proxy!Free
                                           ELSE [pool[s][i] EXCEPT !.timeout = Proxy!Left(pool[s][i])]]
  <2>1. pool[s] \in Pools /\ sent[s] \in Seq(Nat)
    BY DEF ProxyInv
  <2>2. opt.jitter = 0 => InStep(pool[s], sent[s], ms, opt.delay)
    BY DEF ProxyInv
  <2>3. pool'[s] = p2 /\ sent'[s] = sent[s] \o out
    BY DEF Proxy!SigAlrm
  <2>4. /\ p2 \in Pools /\ sent[s] \o out \in Seq(Nat)
        /\ InStep(pool[s], sent[s], ms, opt.delay) => InStep(p2, sent[s] \o out, ms', opt.delay)
    BY <2>1, <1>1, <1>2, ProxySends
  <2>. HIDE DEF p2, out, due
  <2>. QED BY <2>2, <2>3, <2>4
<1>5. pool' \in [Sides -> Pools] /\ sent' \in [Sides -> Seq(Nat)]
  <2>1. DOMAIN pool' = Sides /\ pool' = [s \in Sides |-> pool'[s]]
    BY DEF Proxy!SigAlrm
  <2>2. DOMAIN sent' = Sides /\ sent' = [s \in Sides |-> sent'[s]]
    BY DEF Proxy!SigAlrm
  <2>. QED BY <2>1, <2>2, <1>4
<1>. QED BY <1>1, <1>3, <1>4, <1>5 DEF ProxyInv

\* At the start the pools are empty.
LEMMA ProxyInit == ASSUME ProxySizes, Proxy!Init PROVE ProxyInv
<1>1. /\ opt \in Options /\ ms = 0 /\ ready = {}
      /\ pool = [s \in Sides |-> [i \in Proxy!Slots |-> Proxy!Free]]
      /\ sent = [s \in Sides |-> <<>>]
  BY DEF Proxy!Init
<1>2. [i \in Proxy!Slots |-> Proxy!Free] \in Pools
  BY DEF Pools, PoolSlots
<1>3. Filled([i \in Proxy!Slots |-> Proxy!Free]) = {}
  BY DEF Filled
<1>4. 1 .. Len(<<>>) = {} /\ <<>> \in Seq(Nat)
  BY SMT
<1>5. InStep([i \in Proxy!Slots |-> Proxy!Free], <<>>, ms, opt.delay)
  BY <1>3, <1>4, Zenon DEF InStep
<1>6. pool \in [Sides -> Pools] /\ sent \in [Sides -> Seq(Nat)]
  BY <1>1, <1>2, <1>4
<1>7. \A s \in Sides : InStep(pool[s], sent[s], ms, opt.delay)
  BY <1>1, <1>5
<1>. QED BY <1>1, <1>6, <1>7, SMT DEF ProxyInv

\* Every step keeps what is invariant; an arrival and select do not touch the pools.
LEMMA ProxyStep == ASSUME ProxySizes, ProxyInv, [Proxy!Next]_(Proxy!vars) PROVE ProxyInv'
<1>1. CASE Proxy!Receive
  BY <1>1, ProxyReceive
<1>2. CASE Proxy!SigAlrm
  BY <1>2, ProxyAlarm
<1>3. CASE Proxy!Select \/ Proxy!Arrive \/ UNCHANGED Proxy!vars
  <2>1. UNCHANGED <<opt, pool, sent, ms>> /\ ready' \subseteq Sides
    BY <1>3 DEF Proxy!Select, Proxy!Arrive, Proxy!vars, ProxyInv
  <2>. QED BY <2>1 DEF ProxyInv
<1>. QED BY <1>1, <1>2, <1>3 DEF Proxy!Next, Proxy!Main

\* The packets are sent in the order they came.
LEMMA SentInOrder == ASSUME ProxyInv PROVE Proxy!InOrder
<1>. SUFFICES ASSUME opt.jitter = 0, NEW s \in Sides, NEW i \in DOMAIN sent[s], NEW j \in DOMAIN sent[s], i < j
              PROVE  sent[s][i] <= sent[s][j]
  BY DEF Proxy!InOrder
<1>1. sent[s] \in Seq(Nat) /\ InStep(pool[s], sent[s], ms, opt.delay)
  BY DEF ProxyInv
<1>2. DOMAIN sent[s] = 1 .. Len(sent[s])
  BY <1>1, LenProperties
<1>. QED BY <1>1, <1>2 DEF InStep

\* For pools of any size, any delays and any number of sides: without jitter packets that
\* came in different milliseconds leave in the order they came, though a slot is used as
\* soon as it is free and the slots are sent in their own order (udtproxy.c, sigalrm_handler
\* and find_empty_slot).
THEOREM InOrderAlways == ProxySizes => (Proxy!Init /\ [][Proxy!Next]_(Proxy!vars) => []Proxy!InOrder)
<1>. SUFFICES ASSUME ProxySizes PROVE Proxy!Init /\ [][Proxy!Next]_(Proxy!vars) => []Proxy!InOrder
  OBVIOUS
<1>1. Proxy!Init => ProxyInv
  BY ProxyInit
<1>2. ProxyInv /\ [Proxy!Next]_(Proxy!vars) => ProxyInv'
  BY ProxyStep
<1>3. ProxyInv => Proxy!InOrder
  BY SentInOrder
<1>. QED BY <1>1, <1>2, <1>3, PTL
-----------------------------------------------------------------------------
(***************************************************************************)
(* The processor.                                                          *)
(***************************************************************************)
CONSTANTS Cells, Values, Inputs, Signs, Programs, MaxOut
VARIABLES program, at, pstate, reg, ram, data, code, io, wild
Cpu == INSTANCE BrainfuckCpu

CpuSizes ==
  /\ Cells \in Nat \ {0}
  /\ \A p \in Programs : p \in Seq(Signs) /\ Cpu!Interpreter!Balanced(p)

\* How deep the i-th instruction of a program lies.
Deep(p, i) == Cpu!Interpreter!Depth(p)[i]

\* A bracket opened is one deeper, and a bracket closed one less.
LEMMA DepthSteps ==
  ASSUME NEW p \in Seq(Signs)
  PROVE  /\ Deep(p, 0) = 0
         /\ \A i \in 0 .. Len(p) : Deep(p, i) \in Int
         /\ \A i \in 1 .. Len(p) :
              Deep(p, i) = Deep(p, i - 1) + (IF p[i] = "[" THEN 1 ELSE IF p[i] = "]" THEN -1 ELSE 0)
<1>. DEFINE Count(b, i) == Cardinality({k \in 1 .. i : p[k] = b})
<1>1. Len(p) \in Nat
  BY LenProperties
<1>2. \A i \in 0 .. Len(p) : Deep(p, i) = Count("[", i) - Count("]", i)
  <2>1. \A S : Cpu!Interpreter!Cardinality(S) = Cardinality(S)
    BY DEF Cpu!Interpreter!Cardinality, Cardinality
  <2>. QED BY <2>1, Zenon DEF Deep, Cpu!Interpreter!Depth
<1>3. ASSUME NEW b, NEW i \in 0 .. Len(p)
      PROVE  IsFiniteSet({k \in 1 .. i : p[k] = b}) /\ Count(b, i) \in Nat
  <2>1. IsFiniteSet(1 .. i)
    BY FS_Interval
  <2>2. IsFiniteSet({k \in 1 .. i : p[k] = b})
    BY <2>1, FS_Subset
  <2>. QED BY <2>2, FS_CardinalityType
<1>4. ASSUME NEW b PROVE Count(b, 0) = 0
  <2>1. {k \in 1 .. 0 : p[k] = b} = {}
    BY SMT
  <2>. QED BY <2>1, FS_EmptySet
<1>5. ASSUME NEW b, NEW i \in 1 .. Len(p)
      PROVE  Count(b, i) = Count(b, i - 1) + (IF p[i] = b THEN 1 ELSE 0)
  <2>. DEFINE S == {k \in 1 .. i - 1 : p[k] = b}
  <2>1. i - 1 \in 0 .. Len(p) /\ i \notin S
    BY <1>1, SMT
  <2>2. {k \in 1 .. i : p[k] = b} = IF p[i] = b THEN S \union {i} ELSE S
    BY <1>1, SMT
  <2>3. IsFiniteSet(S) /\ Cardinality(S) = Count(b, i - 1)
    BY <2>1, <1>3
  <2>. HIDE DEF S
  <2>4. Cardinality(S \union {i}) = Cardinality(S) + 1
    BY <2>1, <2>3, FS_AddElement
  <2>5. Cardinality(S) \in Nat
    BY <2>3, FS_CardinalityType
  <2>6. CASE p[i] = b
    <3>1. Count(b, i) = Cardinality(S \union {i})
      BY <2>2, <2>6
    <3>. QED BY <3>1, <2>3, <2>4, <2>6
  <2>7. CASE p[i] # b
    <3>1. Count(b, i) = Cardinality(S)
      BY <2>2, <2>7
    <3>. HIDE DEF Count
    <3>. QED BY <3>1, <2>3, <2>5, <2>7, SMT
  <2>. QED BY <2>6, <2>7
<1>. HIDE DEF Count
<1>6. Deep(p, 0) = 0
  <2>1. 0 \in 0 .. Len(p)
    BY <1>1, SMT
  <2>. QED BY <2>1, <1>2, <1>4, SMT
<1>7. ASSUME NEW i \in 1 .. Len(p)
      PROVE  Deep(p, i) = Deep(p, i - 1) + (IF p[i] = "[" THEN 1 ELSE IF p[i] = "]" THEN -1 ELSE 0)
  <2>1. i \in 0 .. Len(p) /\ i - 1 \in 0 .. Len(p)
    BY <1>1, SMT
  <2>2. /\ Count("[", i) = Count("[", i - 1) + (IF p[i] = "[" THEN 1 ELSE 0)
        /\ Count("]", i) = Count("]", i - 1) + (IF p[i] = "]" THEN 1 ELSE 0)
    BY <1>5
  <2>3. Count("[", i - 1) \in Nat /\ Count("]", i - 1) \in Nat
    BY <2>1, <1>3
  <2>4. "[" # "]"
    OBVIOUS
  <2>. QED BY <2>1, <2>2, <2>3, <2>4, <1>2, SMT
<1>8. \A i \in 0 .. Len(p) : Deep(p, i) \in Int
  <2>. SUFFICES ASSUME NEW i \in 0 .. Len(p) PROVE Deep(p, i) \in Int
    OBVIOUS
  <2>1. Count("[", i) \in Nat /\ Count("]", i) \in Nat
    BY <1>3
  <2>. QED BY <2>1, <1>2, SMT
<1>. QED BY <1>6, <1>7, <1>8

\* In a balanced program every bracket opened is closed, and the scan stops there.
LEMMA CloseIs ==
  ASSUME NEW p \in Seq(Signs), Cpu!Interpreter!Balanced(p), NEW i \in 1 .. Len(p), p[i] = "["
  PROVE  LET j == Cpu!Interpreter!Close(p, i)
         IN /\ j \in i + 1 .. Len(p) /\ Deep(p, j) = Deep(p, i - 1)
            /\ \A k \in i + 1 .. j - 1 : Deep(p, k) > Deep(p, i - 1)
<1>. DEFINE L == Len(p)
            N == {k \in i + 1 .. L : Deep(p, k) <= Deep(p, i - 1)}
            Closes(j) == /\ j \in i + 1 .. L /\ Deep(p, j) = Deep(p, i - 1)
                         /\ \A k \in i + 1 .. j - 1 : Deep(p, k) > Deep(p, i - 1)
<1>1. L \in Nat
  BY LenProperties
<1>2. /\ Deep(p, L) = 0 /\ \A k \in 1 .. L : Deep(p, k) >= 0
      /\ Deep(p, i) = Deep(p, i - 1) + 1
      /\ \A k \in 0 .. L : Deep(p, k) \in Int
  BY DepthSteps DEF Cpu!Interpreter!Balanced, Deep
<1>3. Deep(p, i - 1) >= 0
  <2>1. CASE i = 1
    BY <2>1, <1>2, DepthSteps
  <2>2. CASE i # 1
    <3>1. i - 1 \in 1 .. L
      BY <2>2, <1>1, SMT
    <3>. QED BY <3>1, <1>2
  <2>. QED BY <2>1, <2>2
<1>4. L \in N
  <2>1. L \in 0 .. L /\ i - 1 \in 0 .. L
    BY <1>1, SMT
  <2>2. i # L
    BY <1>2, <1>3, <2>1, SMT
  <2>. QED BY <2>1, <2>2, <1>1, <1>2, <1>3, SMT
<1>5. PICK j \in N : \A k \in N : j <= k
  <2>1. N \in SUBSET Nat
    BY <1>1, SMT
  <2>. QED BY <1>4, <2>1, Least
<1>6. \A k \in i + 1 .. j - 1 : Deep(p, k) > Deep(p, i - 1)
  <2>. SUFFICES ASSUME NEW k \in i + 1 .. j - 1 PROVE Deep(p, k) > Deep(p, i - 1)
    OBVIOUS
  <2>1. k \in i + 1 .. L /\ k \in 0 .. L /\ i - 1 \in 0 .. L /\ k < j
    BY <1>1, SMT
  <2>2. k \notin N
    BY <2>1, <1>5, SMT
  <2>. QED BY <2>1, <2>2, <1>2, SMT
<1>7. Deep(p, j) = Deep(p, i - 1)
  <2>1. j \in 1 .. L /\ j \in 0 .. L /\ j - 1 \in 0 .. L /\ i - 1 \in 0 .. L
    BY <1>1, SMT
  <2>2. Deep(p, j - 1) > Deep(p, i - 1)
    <3>1. CASE j - 1 = i
      BY <3>1, <1>2, <2>1, SMT
    <3>2. CASE j - 1 # i
      <4>1. j - 1 \in i + 1 .. j - 1
        BY <3>2, <1>1, SMT
      <4>. QED BY <4>1, <1>6
    <3>. QED BY <3>1, <3>2
  <2>3. Deep(p, j) >= Deep(p, j - 1) - 1
    <3>1. Deep(p, j) = Deep(p, j - 1) + (IF p[j] = "[" THEN 1 ELSE IF p[j] = "]" THEN -1 ELSE 0)
      BY <2>1, DepthSteps
    <3>. QED BY <3>1, <2>1, <1>2, SMT
  <2>. QED BY <2>1, <2>2, <2>3, <1>2, SMTT(30)
<1>8. Closes(j)
  BY <1>6, <1>7
<1>9. Cpu!Interpreter!Close(p, i) =
        CHOOSE x \in i + 1 .. L : /\ Deep(p, x) = Deep(p, i - 1)
                                  /\ \A k \in i + 1 .. x - 1 : Deep(p, k) > Deep(p, i - 1)
  BY Zenon DEF Cpu!Interpreter!Close, Deep
<1>10. Closes(Cpu!Interpreter!Close(p, i))
  BY <1>8, <1>9, Zenon
<1>. QED BY <1>10

\* And a bracket closed was opened where the depth was last what it is now.
LEMMA OpenIs ==
  ASSUME NEW p \in Seq(Signs), Cpu!Interpreter!Balanced(p),
         NEW j \in 1 .. Len(p), NEW i \in 1 .. j - 1, p[i] = "[", Deep(p, i - 1) = Deep(p, j),
         \A k \in i .. j - 1 : Deep(p, k) > Deep(p, j)
  PROVE  Cpu!Interpreter!Open(p, j) = i
<1>. DEFINE L == Len(p)
            C(x) == Cpu!Interpreter!Close(p, x)
<1>1. L \in Nat /\ j \in 1 .. L /\ i \in 1 .. L
  BY LenProperties, SMT
<1>. HIDE DEF L
<1>2. \A x \in 1 .. L : p[x] = "[" =>
        /\ C(x) \in x + 1 .. L /\ Deep(p, C(x)) = Deep(p, x - 1)
        /\ \A k \in x + 1 .. C(x) - 1 : Deep(p, k) > Deep(p, x - 1)
  BY CloseIs DEF L
<1>3. \A x \in 0 .. L : Deep(p, x) \in Int
  BY DepthSteps DEF L
<1>4. \A x \in 1 .. L : p[x] = "[" => Deep(p, x) = Deep(p, x - 1) + 1
  BY DepthSteps DEF L
<1>. HIDE DEF C
<1>5. C(i) = j
  <2>1. /\ C(i) \in i + 1 .. L /\ Deep(p, C(i)) = Deep(p, i - 1)
        /\ \A k \in i + 1 .. C(i) - 1 : Deep(p, k) > Deep(p, i - 1)
    BY <1>1, <1>2
  <2>2. ~ (C(i) < j)
    <3>1. C(i) < j => C(i) \in i .. j - 1
      BY <2>1, <1>1, SMT
    <3>2. Deep(p, j) \in Int
      BY <1>1, <1>3, SMT
    <3>. QED BY <3>1, <3>2, <2>1, SMT
  <2>3. ~ (C(i) > j)
    <3>1. C(i) > j => j \in i + 1 .. C(i) - 1
      BY <2>1, <1>1, SMT
    <3>2. Deep(p, j) \in Int
      BY <1>1, <1>3, SMT
    <3>. QED BY <3>1, <3>2, <2>1, SMT
  <2>. QED BY <2>1, <2>2, <2>3, <1>1, SMT
<1>6. ASSUME NEW x \in 1 .. j - 1, p[x] = "[", C(x) = j PROVE x = i
  <2>1. x \in 1 .. L /\ x - 1 \in 0 .. L /\ j \in 0 .. L /\ i - 1 \in 0 .. L
    BY <1>1, SMT
  <2>2. Deep(p, j) = Deep(p, x - 1) /\ \A k \in x + 1 .. j - 1 : Deep(p, k) > Deep(p, x - 1)
    BY <2>1, <1>2, <1>6
  <2>3. Deep(p, j) \in Int
    BY <2>1, <1>3
  <2>4. ~ (x < i)
    <3>. SUFFICES ASSUME x < i PROVE FALSE
      OBVIOUS
    <3>1. CASE i - 1 = x
      BY <3>1, <2>1, <2>2, <2>3, <1>4, <1>6, SMT
    <3>2. CASE i - 1 # x
      <4>1. i - 1 \in x + 1 .. j - 1
        BY <3>2, <1>1, SMT
      <4>. QED BY <4>1, <2>2, <2>3, SMT
    <3>. QED BY <3>1, <3>2
  <2>5. ~ (x > i)
    <3>1. x > i => x - 1 \in i .. j - 1
      BY <1>1, SMT
    <3>. QED BY <3>1, <2>2, <2>3, SMT
  <2>. QED BY <2>4, <2>5, <1>1, SMT
<1>7. Cpu!Interpreter!Open(p, j) = CHOOSE x \in 1 .. j - 1 : p[x] = "[" /\ C(x) = j
  BY Zenon DEF Cpu!Interpreter!Open, C
<1>. QED BY <1>5, <1>6, <1>7
-----------------------------------------------------------------------------
St(i, d, m, o) == [ip |-> i, dp |-> d, memory |-> m, out |-> o]

\* The instruction that is carried out.
Doing == Cpu!Interpreter!Fetch(program, at.ip)

CpuTypes ==
  /\ program \in Programs /\ wild \in BOOLEAN
  /\ reg \in [pc : Int, ptr : Cpu!Interpreter!Cell, cnt : Int]
  /\ io = [out |-> io.out, in |-> io.in] /\ at.ip \in Int

\* The states in which the registers are what they were when the last instruction ended.
Steady ==
  {"S_IDLE", "S_FETCH", "S_DECODE", "S_HALT", "I_EOF", "I_NOP", "I_INCPTR", "I_DECPTR",
   "I_INC0", "I_INC1", "I_DEC0", "I_DEC1", "I_GETC0", "I_GETC1", "I_PUTC0", "I_PUTC1",
   "I_WHILE0", "I_ENDWHILE0", "I_ENDWHILE1"}

Comma == ","
Known == {">", "<", "+", "-", ",", ".", "[", "]"}

\* A state carries out the instruction it is named for,
Carries(s, x) ==
  /\ s = "I_INCPTR" => x = ">"
  /\ s = "I_DECPTR" => x = "<"
  /\ s = "I_INC0" \/ s = "I_INC1" => x = "+"
  /\ s = "I_DEC0" \/ s = "I_DEC1" => x = "-"
  /\ s = "I_GETC0" \/ s = "I_GETC1" => x = Comma
  /\ s = "I_PUTC0" \/ s = "I_PUTC1" => x = "."
  /\ s = "I_WHILE0" \/ s = "I_WHILE1" \/ s = "I_WHILE2" => x = "["
  /\ s \in {"I_ENDWHILE0", "I_ENDWHILE1", "I_ENDWHILE2", "I_ENDWHILE3", "I_ENDWHILE4"} => x = "]"
  /\ s = "I_NOP" => x \notin Known /\ x # "end"

(***************************************************************************)
(* and while the machine goes back from the bracket closed at j, it has    *)
(* nowhere come out of the loop, and the counter says how much deeper it   *)
(* is than before the loop.                                                *)
(***************************************************************************)
Inside(j) ==
  /\ reg.pc \in 1 .. j - 1
  /\ \A k \in reg.pc .. j - 1 : Deep(program, k) >= Deep(program, j - 1)
GoesBack(j) ==
  /\ at = St(j, reg.ptr, ram, io.out) /\ ram[reg.ptr] # 0
  /\ pstate = "I_ENDWHILE2" =>
       \/ Inside(j) /\ reg.cnt = 1 + Deep(program, reg.pc) - Deep(program, j - 1) /\ reg.cnt # 0
       \/ reg.pc = Cpu!Interpreter!Open(program, j) + 1 /\ reg.cnt = 0
  /\ pstate = "I_ENDWHILE3" =>
       /\ Inside(j) /\ reg.cnt = 1 + Deep(program, reg.pc) - Deep(program, j - 1)
       /\ code = program[reg.pc]
  /\ pstate = "I_ENDWHILE4" =>
       Inside(j) /\ reg.cnt = 1 + Deep(program, reg.pc - 1) - Deep(program, j - 1)

Abreast ==
  /\ pstate \in Steady => at = St(reg.pc, reg.ptr, ram, io.out) /\ reg.cnt = 0
  /\ pstate = "S_DECODE" => code = Doing
  /\ Carries(pstate, Doing)
  /\ pstate = "I_GETC1" => io.in \in Inputs
  /\ pstate \in {"I_INC1", "I_DEC1", "I_WHILE1", "I_WHILE2", "I_ENDWHILE1"} => data = ram[reg.ptr]
  /\ pstate \in {"I_WHILE1", "I_WHILE2"} => at = St(reg.pc - 1, reg.ptr, ram, io.out) /\ reg.cnt = 0
  /\ pstate = "I_WHILE2" => data # 0
  /\ pstate # "I_WHILE3"
  /\ pstate \in {"I_ENDWHILE2", "I_ENDWHILE3", "I_ENDWHILE4"} => GoesBack(at.ip)

\* What is inductive.
CpuInv == CpuTypes /\ (~ wild => Abreast)
-----------------------------------------------------------------------------
\* What an instruction does, field by field.
DoesTo(s, i, d, m, o) ==
  /\ Cpu!Interpreter!Do("+", s) = {St(i + 1, d, [m EXCEPT ![d] = (m[d] + 1) % Values], o)}
  /\ Cpu!Interpreter!Do("-", s) = {St(i + 1, d, [m EXCEPT ![d] = (m[d] - 1) % Values], o)}
  /\ Cpu!Interpreter!Do(">", s) = {St(i + 1, d + 1, m, o)}
  /\ Cpu!Interpreter!Do("<", s) = {St(i + 1, d - 1, m, o)}
  /\ Cpu!Interpreter!Do(".", s) = {St(i + 1, d, m, Append(o, m[d]))}
  /\ Cpu!Interpreter!Do(Comma, s) = {St(i + 1, d, [m EXCEPT ![d] = x], o) : x \in Inputs}
  /\ Cpu!Interpreter!Do("[", s)
       = {St((IF m[d] = 0 THEN Cpu!Interpreter!Close(program, i) ELSE i) + 1, d, m, o)}
  /\ Cpu!Interpreter!Do("]", s)
       = {St((IF m[d] # 0 THEN Cpu!Interpreter!Open(program, i) ELSE i) + 1, d, m, o)}
  /\ \A x : x \notin Known => Cpu!Interpreter!Do(x, s) = {St(i + 1, d, m, o)}

LEMMA DoIs ==
  ASSUME NEW i \in Int, NEW d \in Int, NEW m, NEW o
  PROVE  DoesTo(St(i, d, m, o), i, d, m, o)
<1>. DEFINE s == St(i, d, m, o)
            Next(x) == [x EXCEPT !.ip = @ + 1]
            Jump(x, j) == [x EXCEPT !.ip = j]
            Set(x, w, v) == [x EXCEPT !.memory = [@ EXCEPT ![w] = v]]
            Move(x, n) == [x EXCEPT !.dp = n]
            Out(x, v) == [x EXCEPT !.out = Append(@, v)]
<1>1. Next(s) = St(i + 1, d, m, o)
  BY SMT DEF St
<1>2. \A j : Jump(s, j) = St(j, d, m, o)
  BY SMT DEF St
<1>3. \A j, v : Set(St(j, d, m, o), d, v) = St(j, d, [m EXCEPT ![d] = v], o)
  <2>1. \A j, x : [St(j, d, m, o) EXCEPT !.memory = x] = St(j, d, x, o)
    BY SMT DEF St
  <2>2. ASSUME NEW j, NEW v PROVE Set(St(j, d, m, o), d, v) = St(j, d, [m EXCEPT ![d] = v], o)
    <3>. DEFINE r == St(j, d, m, o)
    <3>1. r.memory = m
      BY DEF St
    <3>2. [r EXCEPT !.memory = [m EXCEPT ![d] = v]] = St(j, d, [m EXCEPT ![d] = v], o)
      BY <2>1, Zenon
    <3>. HIDE DEF r
    <3>3. Set(r, d, v) = [r EXCEPT !.memory = [r.memory EXCEPT ![d] = v]]
      BY Zenon
    <3>. HIDE DEF Set
    <3>. QED BY <3>1, <3>2, <3>3, Zenon DEF r
  <2>. HIDE DEF Set
  <2>. QED BY <2>2, Zenon
<1>4. \A j, n : Move(St(j, d, m, o), n) = St(j, n, m, o)
  BY SMT DEF St
<1>5. \A j, v : Out(St(j, d, m, o), v) = St(j, d, m, Append(o, v))
  <2>1. \A j, x : [St(j, d, m, o) EXCEPT !.out = x] = St(j, d, m, x)
    BY SMT DEF St
  <2>2. ASSUME NEW j, NEW v PROVE Out(St(j, d, m, o), v) = St(j, d, m, Append(o, v))
    <3>. DEFINE r == St(j, d, m, o)
    <3>1. r.out = o
      BY DEF St
    <3>2. [r EXCEPT !.out = Append(o, v)] = St(j, d, m, Append(o, v))
      BY <2>1, Zenon
    <3>. HIDE DEF r
    <3>3. Out(r, v) = [r EXCEPT !.out = Append(r.out, v)]
      BY Zenon
    <3>. HIDE DEF Out
    <3>. QED BY <3>1, <3>2, <3>3, Zenon DEF r
  <2>. HIDE DEF Out
  <2>. QED BY <2>2, Zenon
<1>6. s.ip = i /\ s.memory[s.dp] = m[d] /\ s.dp = d
  BY DEF St
<1>. HIDE DEF s
<1>7. \A v, w : [s EXCEPT !.ip = @ + 1, !.memory[w] = v] = Set(Next(s), w, v)
  BY Zenon
<1>8. /\ [s EXCEPT !.ip = @ + 1, !.dp = @ + 1] = Move(Next(s), s.dp + 1)
      /\ [s EXCEPT !.ip = @ + 1, !.dp = @ - 1] = Move(Next(s), s.dp - 1)
      /\ \A v : [s EXCEPT !.ip = @ + 1, !.out = Append(@, v)] = Out(Next(s), v)
  BY Zenon
<1>9. /\ [s EXCEPT !.ip = (IF s.memory[s.dp] = 0 THEN Cpu!Interpreter!Close(program, @) ELSE @) + 1]
            = Jump(s, (IF s.memory[s.dp] = 0 THEN Cpu!Interpreter!Close(program, s.ip) ELSE s.ip) + 1)
      /\ [s EXCEPT !.ip = (IF s.memory[s.dp] # 0 THEN Cpu!Interpreter!Open(program, @) ELSE @) + 1]
            = Jump(s, (IF s.memory[s.dp] # 0 THEN Cpu!Interpreter!Open(program, s.ip) ELSE s.ip) + 1)
  BY Zenon
<1>10. /\ Cpu!Interpreter!Do("+", s) = {Set(Next(s), s.dp, (s.memory[s.dp] + 1) % Values)}
       /\ Cpu!Interpreter!Do("-", s) = {Set(Next(s), s.dp, (s.memory[s.dp] - 1) % Values)}
  <2>. HIDE DEF Set, Next
  <2>1. /\ Cpu!Interpreter!Do("+", s)
             = {[s EXCEPT !.ip = @ + 1, !.memory[s.dp] = (s.memory[s.dp] + 1) % Values]}
        /\ Cpu!Interpreter!Do("-", s)
             = {[s EXCEPT !.ip = @ + 1, !.memory[s.dp] = (s.memory[s.dp] - 1) % Values]}
    BY DEF Cpu!Interpreter!Do
  <2>. QED BY <2>1, <1>7, Zenon
<1>11. /\ Cpu!Interpreter!Do(">", s) = {Move(Next(s), s.dp + 1)}
       /\ Cpu!Interpreter!Do("<", s) = {Move(Next(s), s.dp - 1)}
  <2>. HIDE DEF Move, Next
  <2>1. /\ Cpu!Interpreter!Do(">", s) = {[s EXCEPT !.ip = @ + 1, !.dp = @ + 1]}
        /\ Cpu!Interpreter!Do("<", s) = {[s EXCEPT !.ip = @ + 1, !.dp = @ - 1]}
    BY DEF Cpu!Interpreter!Do
  <2>. QED BY <2>1, <1>8, Zenon
<1>12. Cpu!Interpreter!Do(".", s) = {Out(Next(s), s.memory[s.dp])}
  <2>. HIDE DEF Out, Next
  <2>1. Cpu!Interpreter!Do(".", s) = {[s EXCEPT !.ip = @ + 1, !.out = Append(@, s.memory[s.dp])]}
    BY DEF Cpu!Interpreter!Do
  <2>. QED BY <2>1, <1>8, Zenon
<1>13. Cpu!Interpreter!Do(",", s) = {Set(Next(s), s.dp, x) : x \in Inputs}
  <2>. HIDE DEF Set, Next
  <2>1. Cpu!Interpreter!Do(",", s) = {[s EXCEPT !.ip = @ + 1, !.memory[s.dp] = x] : x \in Inputs}
    BY DEF Cpu!Interpreter!Do
  <2>. QED BY <2>1, <1>7, ZenonT(40)
<1>14. /\ Cpu!Interpreter!Do("[", s)
            = {Jump(s, (IF s.memory[s.dp] = 0 THEN Cpu!Interpreter!Close(program, s.ip) ELSE s.ip) + 1)}
       /\ Cpu!Interpreter!Do("]", s)
            = {Jump(s, (IF s.memory[s.dp] # 0 THEN Cpu!Interpreter!Open(program, s.ip) ELSE s.ip) + 1)}
  <2>. HIDE DEF Jump
  <2>1. /\ Cpu!Interpreter!Do("[", s)
             = {[s EXCEPT !.ip = (IF s.memory[s.dp] = 0 THEN Cpu!Interpreter!Close(program, @) ELSE @) + 1]}
        /\ Cpu!Interpreter!Do("]", s)
             = {[s EXCEPT !.ip = (IF s.memory[s.dp] # 0 THEN Cpu!Interpreter!Open(program, @) ELSE @) + 1]}
    BY DEF Cpu!Interpreter!Do
  <2>. QED BY <2>1, <1>9, Zenon
<1>15. \A x : x \notin {">", "<", "+", "-", ",", ".", "[", "]"} => Cpu!Interpreter!Do(x, s) = {Next(s)}
  <2>1. ASSUME NEW x, x # ">", x # "<", x # "+", x # "-", x # ",", x # ".", x # "[", x # "]"
        PROVE  Cpu!Interpreter!Do(x, s) = {[s EXCEPT !.ip = @ + 1]}
    BY <2>1, Zenon DEF Cpu!Interpreter!Do
  <2>. HIDE DEF Next
  <2>2. {[s EXCEPT !.ip = @ + 1]} = {Next(s)}
    BY Zenon DEF Next
  <2>. QED BY <2>1, <2>2, Zenon
<1>. HIDE DEF Next, Jump, Set, Move, Out
<1>16. \A v : Set(Next(s), s.dp, v) = St(i + 1, d, [m EXCEPT ![d] = v], o)
  <2>1. \A v : Set(Next(s), s.dp, v) = Set(St(i + 1, d, m, o), d, v)
    BY <1>1, <1>6, Zenon
  <2>. QED BY <2>1, <1>3, Zenon
<1>17. Move(Next(s), s.dp + 1) = St(i + 1, d + 1, m, o) /\ Move(Next(s), s.dp - 1) = St(i + 1, d - 1, m, o)
  BY <1>1, <1>4, <1>6, Zenon
<1>18. Out(Next(s), s.memory[s.dp]) = St(i + 1, d, m, Append(o, m[d]))
  BY <1>1, <1>5, <1>6, Zenon
<1>19. /\ Cpu!Interpreter!Do("+", s) = {St(i + 1, d, [m EXCEPT ![d] = (m[d] + 1) % Values], o)}
       /\ Cpu!Interpreter!Do("-", s) = {St(i + 1, d, [m EXCEPT ![d] = (m[d] - 1) % Values], o)}
       /\ Cpu!Interpreter!Do(",", s) = {St(i + 1, d, [m EXCEPT ![d] = x], o) : x \in Inputs}
  <2>1. {Set(Next(s), s.dp, x) : x \in Inputs} = {St(i + 1, d, [m EXCEPT ![d] = x], o) : x \in Inputs}
    BY <1>16
  <2>2. /\ {Set(Next(s), s.dp, (s.memory[s.dp] + 1) % Values)}
             = {St(i + 1, d, [m EXCEPT ![d] = (m[d] + 1) % Values], o)}
        /\ {Set(Next(s), s.dp, (s.memory[s.dp] - 1) % Values)}
             = {St(i + 1, d, [m EXCEPT ![d] = (m[d] - 1) % Values], o)}
    BY <1>6, <1>16, Zenon
  <2>. QED BY <2>1, <2>2, <1>10, <1>13, Zenon
<1>20. /\ Cpu!Interpreter!Do("[", s)
            = {St((IF m[d] = 0 THEN Cpu!Interpreter!Close(program, i) ELSE i) + 1, d, m, o)}
       /\ Cpu!Interpreter!Do("]", s)
            = {St((IF m[d] # 0 THEN Cpu!Interpreter!Open(program, i) ELSE i) + 1, d, m, o)}
  BY <1>2, <1>6, <1>14, Zenon
<1>. QED BY <1>1, <1>11, <1>12, <1>15, <1>17, <1>18, <1>19, <1>20, Zenon
     DEF s, Comma, Known, DoesTo

\* The steps of the processor keep the types, and never make up for what went wrong.
LEMMA CpuTyped ==
  ASSUME CpuSizes, CpuTypes, Cpu!Next
  PROVE  CpuTypes' /\ (~ wild' => ~ wild) /\ program' = program
<1>1. /\ program' = program /\ wild \in BOOLEAN
      /\ reg.pc \in Int /\ reg.ptr \in Cpu!Interpreter!Cell /\ reg.cnt \in Int
      /\ reg \in [pc : Int, ptr : Cpu!Interpreter!Cell, cnt : Int]
  BY DEF Cpu!Next, Cpu!Ended, CpuTypes
<1>2. wild' \in BOOLEAN /\ (~ wild' => ~ wild)
  <2>1. wild' = wild \/ \E b : b \in BOOLEAN /\ wild' = (wild \/ b)
    <3>1. Cpu!FetchDecode \/ Cpu!Count \/ Cpu!Getc \/ Cpu!EndWhile => wild' = wild
      BY Zenon DEF Cpu!FetchDecode, Cpu!Count, Cpu!Getc, Cpu!EndWhile
    <3>2. Cpu!Move => wild' = (wild \/ ~ (reg.ptr + (CASE pstate = "I_INCPTR" -> 1 [] pstate = "I_DECPTR" -> -1 [] OTHER -> 0) \in Cpu!Interpreter!Cell))
      BY Zenon DEF Cpu!Move
    <3>3. Cpu!Putc => wild' = wild \/ wild' = (wild \/ data # ram[reg.ptr])
      BY Zenon DEF Cpu!Putc
    <3>4. Cpu!While => wild' = wild \/ wild' = (wild \/ data = 0)
      BY Zenon DEF Cpu!While
    <3>. QED BY <3>1, <3>2, <3>3, <3>4, Zenon DEF Cpu!Next
  <2>. QED BY <2>1, <1>1, Zenon
<1>3. reg' \in [pc : Int, ptr : Cpu!Interpreter!Cell, cnt : Int]
  <2>1. \A n \in {-1, 0, 1} : (reg.ptr + n) % Cells \in Cpu!Interpreter!Cell
    BY <1>1, SMT DEF Cpu!Interpreter!Cell, CpuSizes
  <2>2. \A n \in {-1, 0, 1} : reg.pc + n \in Int /\ reg.cnt + n \in Int
    BY <1>1, SMT
  <2>3. CASE Cpu!FetchDecode \/ Cpu!Getc \/ Cpu!Putc \/ Cpu!Count
    <3>1. reg' = reg \/ reg' = [reg EXCEPT !.pc = @ + 1]
      BY <2>3, Zenon DEF Cpu!FetchDecode, Cpu!Getc, Cpu!Putc, Cpu!Count, Cpu!Pc
    <3>. QED BY <3>1, <2>2, <1>1
  <2>4. CASE Cpu!Move
    <3>1. PICK n \in {-1, 0, 1} : reg' = [reg EXCEPT !.pc = @ + 1, !.ptr = (@ + n) % Cells]
      BY <2>4 DEF Cpu!Move
    <3>. QED BY <3>1, <2>1, <2>2, <1>1
  <2>5. CASE Cpu!While
    <3>1. \/ reg' = reg \/ reg' = [reg EXCEPT !.pc = @ + 1] \/ reg' = [reg EXCEPT !.cnt = 1]
          \/ \E n \in {-1, 0, 1} : reg' = [reg EXCEPT !.pc = @ + 1, !.cnt = @ + n]
      BY <2>5 DEF Cpu!While, Cpu!Pc
    <3>2. CASE \E n \in {-1, 0, 1} : reg' = [reg EXCEPT !.pc = @ + 1, !.cnt = @ + n]
      <4>. PICK n \in {-1, 0, 1} : reg' = [reg EXCEPT !.pc = @ + 1, !.cnt = @ + n]
        BY <3>2
      <4>. DEFINE x == reg.pc + 1
                  y == reg.cnt + n
      <4>1. x \in Int /\ y \in Int
        BY <2>2
      <4>2. reg' = [reg EXCEPT !.pc = x, !.cnt = y]
        BY Zenon
      <4>. HIDE DEF x, y
      <4>. QED BY <4>1, <4>2, <1>1, Zenon
    <3>. QED BY <3>1, <3>2, <2>2, <1>1
  <2>6. CASE Cpu!EndWhile
    <3>1. \/ reg' = reg \/ (\E n \in {-1, 1} : reg' = [reg EXCEPT !.pc = @ + n])
          \/ reg' = [reg EXCEPT !.cnt = 1, !.pc = @ - 1]
          \/ \E n \in {-1, 0, 1} : reg' = [reg EXCEPT !.cnt = @ + n]
      BY <2>6 DEF Cpu!EndWhile, Cpu!Pc
    <3>2. CASE reg' = [reg EXCEPT !.cnt = 1, !.pc = @ - 1]
      <4>. DEFINE x == reg.pc - 1
      <4>1. x \in Int
        BY <1>1, SMT
      <4>2. reg' = [reg EXCEPT !.cnt = 1, !.pc = x]
        BY <3>2, Zenon
      <4>. HIDE DEF x
      <4>3. 1 \in Int
        OBVIOUS
      <4>. HIDE DEF Cpu!Interpreter!Cell
      <4>. QED BY <4>1, <4>2, <4>3, <1>1, Zenon
    <3>. QED BY <3>1, <3>2, <2>2, <1>1
  <2>. QED BY <2>3, <2>4, <2>5, <2>6 DEF Cpu!Next
<1>4. io' = [out |-> io'.out, in |-> io'.in]
  <2>1. io = [out |-> io.out, in |-> io.in]
    BY DEF CpuTypes
  <2>2. \/ io' = io \/ (\E x : io' = [io EXCEPT !.in = x]) \/ \E x : io' = [io EXCEPT !.out = x]
    <3>1. Cpu!FetchDecode \/ Cpu!Move \/ Cpu!Count \/ Cpu!While \/ Cpu!EndWhile => io' = io
      BY Zenon DEF Cpu!FetchDecode, Cpu!Move, Cpu!Count, Cpu!While, Cpu!EndWhile
    <3>2. Cpu!Getc => io' = io \/ \E x : io' = [io EXCEPT !.in = x]
      BY Zenon DEF Cpu!Getc
    <3>3. Cpu!Putc => io' = io \/ io' = [io EXCEPT !.out = Append(io.out, data)]
      BY Zenon DEF Cpu!Putc
    <3>. QED BY <3>1, <3>2, <3>3, Zenon DEF Cpu!Next
  <2>3. \A o, v, x : /\ [[out |-> o, in |-> v] EXCEPT !.in = x] = [out |-> o, in |-> x]
                     /\ [[out |-> o, in |-> v] EXCEPT !.out = x] = [out |-> x, in |-> v]
    BY SMT
  <2>4. \A o, v : [out |-> o, in |-> v].out = o /\ [out |-> o, in |-> v].in = v
    BY SMT
  <2>5. \E o, v : io' = [out |-> o, in |-> v]
    BY <2>1, <2>2, <2>3, Zenon
  <2>. QED BY <2>4, <2>5, Zenon
<1>5. at'.ip \in Int
  <2>1. at.ip \in Int /\ reg'.pc \in Int
    BY <1>3 DEF CpuTypes
  <2>2. at' = at \/ at' = [ip |-> reg'.pc, dp |-> reg'.ptr, memory |-> ram', out |-> io'.out]
    BY Zenon DEF Cpu!Next, Cpu!Ended
  <2>. QED BY <2>1, <2>2
<1>. QED BY <1>1, <1>2, <1>3, <1>4, <1>5 DEF CpuTypes

\* What has been done when an instruction ends is what the interpreter does.
LEMMA Executes ==
  ASSUME at' \in Cpu!Interpreter!Do(Doing, at), at'.dp \in Cpu!Interpreter!Cell, Doing # "end",
         program' = program
  PROVE  Cpu!Interpreter!Execute
  BY DEF Cpu!Interpreter!Execute, Doing

\* A step that keeps up with the interpreter.
KeepsUp == Abreast' /\ (at' # at => Cpu!Interpreter!Execute)

\* The machine fetches the next instruction.
LEMMA Fetches ==
  ASSUME Cpu!Ended, pstate' = "S_FETCH"
  PROVE  /\ at' = St(reg'.pc, reg'.ptr, ram', io'.out) /\ program' = program
         /\ reg'.cnt = 0 => Abreast'
<1>1. at' = St(reg'.pc, reg'.ptr, ram', io'.out) /\ program' = program
  BY DEF Cpu!Ended, St
<1>. QED BY <1>1 DEF Abreast, Steady, Carries

\* An instruction ends as the interpreter ends it.
LEMMA Ends ==
  ASSUME Cpu!Ended, CpuTypes', pstate' = "S_FETCH", reg'.cnt = 0, Doing # "end",
         St(reg'.pc, reg'.ptr, ram', io'.out) \in Cpu!Interpreter!Do(Doing, at)
  PROVE  KeepsUp
<1>1. at' = St(reg'.pc, reg'.ptr, ram', io'.out) /\ program' = program /\ Abreast'
  BY Fetches
<1>2. at'.dp \in Cpu!Interpreter!Cell
  <2>1. reg'.ptr \in Cpu!Interpreter!Cell
    BY DEF CpuTypes
  <2>. QED BY <2>1, <1>1 DEF St
<1>. QED BY <1>1, <1>2, Executes, Zenon DEF KeepsUp

\* Within an instruction nothing has ended.
LEMMA GoesOn ==
  ASSUME Cpu!Ended, pstate' # "S_FETCH"
  PROVE  at' = at /\ program' = program /\ Doing' = Doing
  BY DEF Cpu!Ended, Doing

\* A step on which the registers stay what they were at the instruction before.
LEMMA StaysSteady ==
  ASSUME Cpu!Ended, Abreast, pstate \in Steady, pstate' \in Steady, pstate' # "S_FETCH",
         reg' = reg, ram' = ram, io'.out = io.out, Carries(pstate', Doing),
         pstate' = "S_DECODE" => code' = Doing,
         pstate' = "I_GETC1" => io'.in \in Inputs,
         pstate' \in {"I_INC1", "I_DEC1", "I_ENDWHILE1"} => data' = ram[reg.ptr]
  PROVE  KeepsUp
<1>1. at' = at /\ program' = program /\ Doing' = Doing
  BY GoesOn
<1>2. at = St(reg.pc, reg.ptr, ram, io.out) /\ reg.cnt = 0
  BY DEF Abreast
<1>. QED BY <1>1, <1>2 DEF KeepsUp, Abreast, Steady
-----------------------------------------------------------------------------
\* Fetching and decoding finish no instruction.
LEMMA CpuFetchDecode ==
  ASSUME CpuInv, ~ wild, Cpu!FetchDecode, Cpu!Ended
  PROVE  KeepsUp
<1>1. Abreast /\ reg' = reg /\ ram' = ram /\ io' = io /\ io'.out = io.out /\ data' = data
  BY Zenon DEF CpuInv, Cpu!FetchDecode
<1>2. CASE pstate = "S_IDLE" /\ pstate' = "S_FETCH"
  <2>1. at = St(reg.pc, reg.ptr, ram, io.out) /\ reg.cnt = 0
    BY <1>1, <1>2 DEF Abreast, Steady
  <2>. QED BY <2>1, <1>1, <1>2, Fetches DEF KeepsUp
<1>3. CASE pstate = "S_FETCH" /\ pstate' = "S_DECODE" /\ code' = Cpu!Fetched
  <2>1. at = St(reg.pc, reg.ptr, ram, io.out)
    BY <1>1, <1>3 DEF Abreast, Steady
  <2>2. at.ip = reg.pc
    BY <2>1 DEF St
  <2>3. code' = Doing
    BY <2>2, <1>3 DEF Doing, Cpu!Fetched
  <2>. QED BY <2>3, <1>1, <1>3, StaysSteady DEF Steady, Carries
<1>4. CASE pstate = "I_EOF" /\ pstate' = "S_HALT"
  BY <1>1, <1>4, StaysSteady DEF Steady, Carries
<1>5. CASE pstate = "S_DECODE" /\ pstate' =
             CASE code = ">" -> "I_INCPTR" [] code = "<" -> "I_DECPTR"
               [] code = "+" -> "I_INC0" [] code = "-" -> "I_DEC0"
               [] code = "[" -> "I_WHILE0" [] code = "]" -> "I_ENDWHILE0"
               [] code = "." -> "I_PUTC0" [] code = "," -> "I_GETC0"
               [] code = "end" -> "I_EOF" [] OTHER -> "I_NOP"
  <2>1. code = Doing
    BY <1>1, <1>5, Zenon DEF Abreast
  <2>2. \/ pstate' = "I_INCPTR" /\ Doing = ">"
        \/ pstate' = "I_DECPTR" /\ Doing = "<"
        \/ pstate' = "I_INC0" /\ Doing = "+"
        \/ pstate' = "I_DEC0" /\ Doing = "-"
        \/ pstate' = "I_WHILE0" /\ Doing = "["
        \/ pstate' = "I_ENDWHILE0" /\ Doing = "]"
        \/ pstate' = "I_PUTC0" /\ Doing = "."
        \/ pstate' = "I_GETC0" /\ Doing = Comma
        \/ pstate' = "I_EOF" /\ Doing = "end"
        \/ pstate' = "I_NOP" /\ Doing \notin Known /\ Doing # "end"
    <3>. DEFINE Is(x) == code = x
                Next(x) == pstate' = x
                Other == code \notin Known /\ code # "end"
    <3>1. /\ Is(">") => Next("I_INCPTR")
          /\ Is("<") => Next("I_DECPTR")
          /\ Is("+") => Next("I_INC0")
          /\ Is("-") => Next("I_DEC0")
          /\ Is("[") => Next("I_WHILE0")
          /\ Is("]") => Next("I_ENDWHILE0")
          /\ Is(".") => Next("I_PUTC0")
          /\ Is(Comma) => Next("I_GETC0")
          /\ Is("end") => Next("I_EOF")
      BY <1>5, Zenon DEF Comma
    <3>2. Other => Next("I_NOP")
      BY <1>5, Zenon DEF Known
    <3>3. Other \/ Is("end") \/ code \in Known
      BY Zenon
    <3>4. code \in Known =>
            \/ Is(">") \/ Is("<") \/ Is("+") \/ Is("-") \/ Is(Comma) \/ Is(".") \/ Is("[") \/ Is("]")
      BY Zenon DEF Known, Comma
    <3>. HIDE DEF Is, Next, Other
    <3>5. \/ Next("I_INCPTR") /\ Is(">")
          \/ Next("I_DECPTR") /\ Is("<")
          \/ Next("I_INC0") /\ Is("+")
          \/ Next("I_DEC0") /\ Is("-")
          \/ Next("I_WHILE0") /\ Is("[")
          \/ Next("I_ENDWHILE0") /\ Is("]")
          \/ Next("I_PUTC0") /\ Is(".")
          \/ Next("I_GETC0") /\ Is(Comma)
          \/ Next("I_EOF") /\ Is("end")
          \/ Next("I_NOP") /\ Other
      BY <3>1, <3>2, <3>3, <3>4
    <3>. QED BY <3>5, <2>1 DEF Is, Next, Other
  <2>3. /\ pstate' \in Steady /\ pstate' # "S_FETCH" /\ Carries(pstate', Doing)
        /\ pstate' \notin {"S_DECODE", "I_GETC1", "I_INC1", "I_DEC1", "I_ENDWHILE1"}
    BY <2>2 DEF Steady, Carries
  <2>4. pstate \in Steady
    BY <1>5, Zenon DEF Steady
  <2>. QED BY <2>3, <2>4, <1>1, StaysSteady
<1>. QED BY <1>2, <1>3, <1>4, <1>5, Zenon DEF Cpu!FetchDecode, Cpu!Goto

\* What a finishing instruction has of the one before.
LEMMA FromSteady ==
  ASSUME CpuInv, ~ wild, pstate \in Steady
  PROVE  /\ at = St(reg.pc, reg.ptr, ram, io.out) /\ at.ip = reg.pc /\ reg.cnt = 0
         /\ reg.pc \in Int /\ reg.ptr \in Int /\ reg.ptr \in Cpu!Interpreter!Cell
         /\ reg \in [pc : Int, ptr : Cpu!Interpreter!Cell, cnt : Int]
         /\ Carries(pstate, Doing)
<1>1. at = St(reg.pc, reg.ptr, ram, io.out) /\ reg.cnt = 0 /\ Carries(pstate, Doing)
  BY DEF CpuInv, Abreast
<1>2. reg \in [pc : Int, ptr : Cpu!Interpreter!Cell, cnt : Int]
  BY DEF CpuInv, CpuTypes
<1>3. reg.ptr \in Int
  <2>1. \A x \in Cpu!Interpreter!Cell : x \in Int
    BY SMT DEF Cpu!Interpreter!Cell
  <2>. QED BY <2>1, <1>2
<1>4. at.ip = reg.pc
  BY <1>1 DEF St
<1>. QED BY <1>1, <1>2, <1>3, <1>4

\* The pointer moves as the interpreter's does while it stays within the memory.
LEMMA CpuMove ==
  ASSUME CpuSizes, CpuInv, ~ wild, Cpu!Move, Cpu!Ended, CpuTypes', ~ wild'
  PROVE  KeepsUp
<1>. DEFINE d == CASE pstate = "I_INCPTR" -> 1 [] pstate = "I_DECPTR" -> -1 [] OTHER -> 0
<1>1. /\ reg' = [reg EXCEPT !.pc = @ + 1, !.ptr = (@ + d) % Cells]
      /\ reg.ptr + d \in Cpu!Interpreter!Cell
      /\ pstate' = "S_FETCH" /\ ram' = ram /\ io' = io
      /\ pstate \in {"I_INCPTR", "I_DECPTR", "I_NOP"}
  BY DEF Cpu!Move, Cpu!Goto
<1>2. pstate \in Steady
  BY <1>1 DEF Steady
<1>3. d \in Int
  BY <1>1
<1>4. /\ pstate = "I_INCPTR" => Doing = ">" /\ d = 1
      /\ pstate = "I_DECPTR" => Doing = "<" /\ d = -1
      /\ pstate = "I_NOP" => Doing \notin Known /\ Doing # "end" /\ d = 0
  BY <1>2, FromSteady DEF Carries
<1>. HIDE DEF d
<1>5. (reg.ptr + d) % Cells = reg.ptr + d
  BY <1>1, <1>3, SMT DEF Cpu!Interpreter!Cell, CpuSizes
<1>6. reg'.pc = reg.pc + 1 /\ reg'.ptr = reg.ptr + d /\ reg'.cnt = 0
  <2>1. /\ reg'.pc = reg.pc + 1 /\ reg'.ptr = (reg.ptr + d) % Cells /\ reg'.cnt = reg.cnt
    BY <1>1, <1>2, FromSteady
  <2>. QED BY <2>1, <1>2, <1>5, FromSteady
<1>7. St(reg'.pc, reg'.ptr, ram', io'.out) = St(reg.pc + 1, reg.ptr + d, ram, io.out)
  BY <1>1, <1>6
<1>8. /\ Cpu!Interpreter!Do(">", at) = {St(reg.pc + 1, reg.ptr + 1, ram, io.out)}
      /\ Cpu!Interpreter!Do("<", at) = {St(reg.pc + 1, reg.ptr - 1, ram, io.out)}
      /\ \A x : x \notin Known => Cpu!Interpreter!Do(x, at) = {St(reg.pc + 1, reg.ptr, ram, io.out)}
  <2>1. DoesTo(at, reg.pc, reg.ptr, ram, io.out)
    BY <1>2, FromSteady, DoIs, Zenon
  <2>. QED BY <2>1, Zenon DEF DoesTo
<1>9. reg.ptr + 0 = reg.ptr /\ reg.ptr + (-1) = reg.ptr - 1
  BY <1>2, FromSteady, SMT
<1>10. St(reg.pc + 1, reg.ptr + d, ram, io.out) \in Cpu!Interpreter!Do(Doing, at) /\ Doing # "end"
  <2>1. CASE pstate = "I_INCPTR"
    BY <2>1, <1>4, <1>8
  <2>2. CASE pstate = "I_DECPTR"
    BY <2>2, <1>4, <1>8, <1>9
  <2>3. CASE pstate = "I_NOP"
    BY <2>3, <1>4, <1>8, <1>9
  <2>. QED BY <2>1, <2>2, <2>3, <1>1
<1>. QED BY <1>1, <1>6, <1>7, <1>10, Ends
\* A cell is read and then written one more or one less.
LEMMA CpuCount ==
  ASSUME CpuInv, ~ wild, Cpu!Count, Cpu!Ended, CpuTypes'
  PROVE  KeepsUp
<1>1. io' = io /\ io'.out = io.out
  BY DEF Cpu!Count
<1>2. /\ pstate \in Steady => DoesTo(at, reg.pc, reg.ptr, ram, io.out)
      /\ pstate \in {"I_INC1", "I_DEC1"} => data = ram[reg.ptr]
      /\ Abreast
  <2>1. pstate \in Steady => DoesTo(at, reg.pc, reg.ptr, ram, io.out)
    BY FromSteady, DoIs, Zenon
  <2>. QED BY <2>1, Zenon DEF CpuInv, Abreast
<1>3. CASE \/ pstate = "I_INC0" /\ pstate' = "I_INC1"
           \/ pstate = "I_DEC0" /\ pstate' = "I_DEC1"
  <2>1. reg' = reg /\ ram' = ram /\ data' = ram[reg.ptr]
    BY <1>3 DEF Cpu!Count, Cpu!Read
  <2>2. pstate \in Steady
    BY <1>3 DEF Steady
  <2>3. Carries(pstate, Doing)
    BY <2>2, FromSteady
  <2>. QED BY <2>1, <2>2, <2>3, <1>1, <1>2, <1>3, StaysSteady DEF Steady, Carries
<1>4. ASSUME NEW v, reg' = [reg EXCEPT !.pc = @ + 1], ram' = [ram EXCEPT ![reg.ptr] = v],
             pstate \in Steady, pstate' = "S_FETCH", Doing # "end",
             Cpu!Interpreter!Do(Doing, at) = {St(reg.pc + 1, reg.ptr, [ram EXCEPT ![reg.ptr] = v], io.out)}
      PROVE  KeepsUp
  <2>1. reg'.pc = reg.pc + 1 /\ reg'.ptr = reg.ptr /\ reg'.cnt = 0
    BY <1>4, FromSteady
  <2>2. St(reg'.pc, reg'.ptr, ram', io'.out) = St(reg.pc + 1, reg.ptr, [ram EXCEPT ![reg.ptr] = v], io.out)
    BY <2>1, <1>1, <1>4
  <2>. QED BY <2>1, <2>2, <1>4, Ends
<1>5. CASE pstate = "I_INC1"
  <2>1. pstate \in Steady
    BY <1>5 DEF Steady
  <2>2. Doing = "+"
    BY <2>1, <1>5, FromSteady DEF Carries
  <2>3. /\ reg' = [reg EXCEPT !.pc = @ + 1] /\ pstate' = "S_FETCH"
        /\ ram' = [ram EXCEPT ![reg.ptr] = (data + 1) % Values]
    BY <1>5 DEF Cpu!Count, Cpu!Write, Cpu!Pc, Cpu!Goto
  <2>4. Cpu!Interpreter!Do(Doing, at)
          = {St(reg.pc + 1, reg.ptr, [ram EXCEPT ![reg.ptr] = (data + 1) % Values], io.out)}
    <3>1. Cpu!Interpreter!Do("+", at)
            = {St(reg.pc + 1, reg.ptr, [ram EXCEPT ![reg.ptr] = (ram[reg.ptr] + 1) % Values], io.out)}
      BY <2>1, <1>2, Zenon DEF DoesTo
    <3>2. data = ram[reg.ptr]
      BY <1>2, <1>5
    <3>. QED BY <3>1, <3>2, <2>2, Zenon
  <2>. QED BY <2>1, <2>2, <2>3, <2>4, <1>4
<1>6. CASE pstate = "I_DEC1"
  <2>1. pstate \in Steady
    BY <1>6 DEF Steady
  <2>2. Doing = "-"
    BY <2>1, <1>6, FromSteady DEF Carries
  <2>3. /\ reg' = [reg EXCEPT !.pc = @ + 1] /\ pstate' = "S_FETCH"
        /\ ram' = [ram EXCEPT ![reg.ptr] = (data - 1) % Values]
    BY <1>6 DEF Cpu!Count, Cpu!Write, Cpu!Pc, Cpu!Goto
  <2>4. Cpu!Interpreter!Do(Doing, at)
          = {St(reg.pc + 1, reg.ptr, [ram EXCEPT ![reg.ptr] = (data - 1) % Values], io.out)}
    <3>1. Cpu!Interpreter!Do("-", at)
            = {St(reg.pc + 1, reg.ptr, [ram EXCEPT ![reg.ptr] = (ram[reg.ptr] - 1) % Values], io.out)}
      BY <2>1, <1>2, Zenon DEF DoesTo
    <3>2. data = ram[reg.ptr]
      BY <1>2, <1>6
    <3>. QED BY <3>1, <3>2, <2>2, Zenon
  <2>. QED BY <2>1, <2>2, <2>3, <2>4, <1>4
<1>. QED BY <1>3, <1>5, <1>6 DEF Cpu!Count, Cpu!Goto

\* What the port answers is what is stored.
LEMMA CpuGetc ==
  ASSUME CpuInv, ~ wild, Cpu!Getc, Cpu!Ended, CpuTypes'
  PROVE  KeepsUp
<1>1. Abreast /\ (pstate = "I_GETC1" => io.in \in Inputs) /\ io = [out |-> io.out, in |-> io.in]
  BY Zenon DEF CpuInv, Abreast, CpuTypes
<1>2. CASE pstate = "I_GETC0"
  <2>1. PICK x \in Inputs : io' = [io EXCEPT !.in = x]
    BY <1>2 DEF Cpu!Getc
  <2>2. io'.out = io.out /\ io'.in \in Inputs
    BY <2>1, <1>1
  <2>3. reg' = reg /\ ram' = ram /\ pstate' = "I_GETC1"
    BY <1>2 DEF Cpu!Getc, Cpu!Goto
  <2>4. pstate \in Steady
    BY <1>2 DEF Steady
  <2>5. Carries(pstate, Doing)
    BY <2>4, FromSteady
  <2>. QED BY <2>2, <2>3, <2>4, <2>5, <1>1, <1>2, StaysSteady DEF Steady, Carries
<1>3. CASE pstate = "I_GETC1"
  <2>1. /\ reg' = [reg EXCEPT !.pc = @ + 1] /\ pstate' = "S_FETCH" /\ io' = io
        /\ ram' = [ram EXCEPT ![reg.ptr] = io.in]
    BY <1>3 DEF Cpu!Getc, Cpu!Write, Cpu!Pc, Cpu!Goto
  <2>2. pstate \in Steady
    BY <1>3 DEF Steady
  <2>3. Doing = Comma
    BY <2>2, <1>3, FromSteady DEF Carries
  <2>4. reg'.pc = reg.pc + 1 /\ reg'.ptr = reg.ptr /\ reg'.cnt = 0
    BY <2>1, <2>2, FromSteady
  <2>5. Cpu!Interpreter!Do(Comma, at)
          = {St(reg.pc + 1, reg.ptr, [ram EXCEPT ![reg.ptr] = x], io.out) : x \in Inputs}
    <3>1. DoesTo(at, reg.pc, reg.ptr, ram, io.out)
      BY <2>2, FromSteady, DoIs, Zenon
    <3>. QED BY <3>1, Zenon DEF DoesTo
  <2>6. St(reg'.pc, reg'.ptr, ram', io'.out) = St(reg.pc + 1, reg.ptr, [ram EXCEPT ![reg.ptr] = io.in], io.out)
    BY <2>1, <2>4
  <2>7. St(reg'.pc, reg'.ptr, ram', io'.out) \in Cpu!Interpreter!Do(Doing, at)
    <3>1. io.in \in Inputs
      BY <1>1, <1>3
    <3>. QED BY <3>1, <2>3, <2>5, <2>6
  <2>8. Doing # "end"
    BY <2>3, Zenon DEF Comma
  <2>. QED BY <2>1, <2>4, <2>7, <2>8, Ends
<1>. QED BY <1>2, <1>3 DEF Cpu!Getc

\* What was read last is written out, and that is the cell unless the pointer has moved.
LEMMA CpuPutc ==
  ASSUME CpuInv, ~ wild, Cpu!Putc, Cpu!Ended, CpuTypes', ~ wild'
  PROVE  KeepsUp
<1>1. Abreast /\ io = [out |-> io.out, in |-> io.in]
  BY Zenon DEF CpuInv, CpuTypes
<1>2. pstate \in Steady /\ ram' = ram
  BY DEF Cpu!Putc, Steady
<1>3. Doing = "."
  <2>1. pstate \in {"I_PUTC0", "I_PUTC1"}
    BY DEF Cpu!Putc
  <2>. QED BY <2>1, <1>2, FromSteady DEF Carries
<1>4. CASE pstate = "I_PUTC0"
  <2>1. reg' = reg /\ io' = io /\ pstate' = "I_PUTC1"
    BY <1>4 DEF Cpu!Putc, Cpu!Goto
  <2>. QED BY <2>1, <1>1, <1>2, <1>3, StaysSteady DEF Steady, Carries
<1>5. CASE pstate = "I_PUTC1"
  <2>1. /\ reg' = [reg EXCEPT !.pc = @ + 1] /\ pstate' = "S_FETCH" /\ data = ram[reg.ptr]
        /\ io' = [io EXCEPT !.out = Append(@, data)]
    BY <1>5 DEF Cpu!Putc, Cpu!Pc, Cpu!Goto
  <2>2. reg'.pc = reg.pc + 1 /\ reg'.ptr = reg.ptr /\ reg'.cnt = 0
    BY <2>1, <1>2, FromSteady
  <2>3. io'.out = Append(io.out, ram[reg.ptr])
    BY <2>1, <1>1
  <2>4. Cpu!Interpreter!Do(".", at) = {St(reg.pc + 1, reg.ptr, ram, Append(io.out, ram[reg.ptr]))}
    <3>1. DoesTo(at, reg.pc, reg.ptr, ram, io.out)
      BY <1>2, FromSteady, DoIs, Zenon
    <3>. QED BY <3>1, Zenon DEF DoesTo
  <2>5. St(reg'.pc, reg'.ptr, ram', io'.out) = St(reg.pc + 1, reg.ptr, ram, Append(io.out, ram[reg.ptr]))
    BY <2>2, <2>3, <1>2
  <2>6. St(reg'.pc, reg'.ptr, ram', io'.out) \in Cpu!Interpreter!Do(Doing, at) /\ Doing # "end"
    BY <2>4, <2>5, <1>3
  <2>. QED BY <2>1, <2>2, <2>6, Ends
<1>. QED BY <1>4, <1>5 DEF Cpu!Putc

\* A loop is entered: on a zero the processor does not skip it, and that is wild.
LEMMA CpuWhile ==
  ASSUME CpuInv, ~ wild, Cpu!While, Cpu!Ended, CpuTypes', ~ wild'
  PROVE  KeepsUp
<1>1. Abreast /\ pstate # "I_WHILE3" /\ io' = io /\ reg \in [pc : Int, ptr : Cpu!Interpreter!Cell, cnt : Int]
  BY Zenon DEF CpuInv, CpuTypes, Abreast, Cpu!While
<1>2. CASE pstate = "I_WHILE0"
  <2>1. /\ reg' = [reg EXCEPT !.pc = @ + 1] /\ pstate' = "I_WHILE1" /\ ram' = ram
        /\ data' = ram[reg.ptr]
    BY <1>2 DEF Cpu!While, Cpu!Pc, Cpu!Read, Cpu!Goto
  <2>2. pstate \in Steady
    BY <1>2 DEF Steady
  <2>3. reg'.pc - 1 = reg.pc /\ reg'.ptr = reg.ptr /\ reg'.cnt = 0
    BY <2>1, <2>2, FromSteady
  <2>4. Doing = "[" /\ at = St(reg.pc, reg.ptr, ram, io.out)
    BY <2>2, <1>2, FromSteady DEF Carries
  <2>5. at' = at /\ program' = program /\ Doing' = Doing
    BY <2>1, GoesOn
  <2>. QED BY <2>1, <2>3, <2>4, <2>5, <1>1 DEF KeepsUp, Abreast, Steady, Carries
<1>3. /\ pstate \in {"I_WHILE1", "I_WHILE2"} =>
             at = St(reg.pc - 1, reg.ptr, ram, io.out) /\ reg.cnt = 0 /\ Doing = "[" /\ data = ram[reg.ptr]
      /\ pstate = "I_WHILE2" => data # 0
  BY <1>1 DEF Abreast, Carries
<1>4. CASE pstate = "I_WHILE1"
  <2>1. reg' = reg /\ ram' = ram /\ data' = data /\ data # 0 /\ pstate' = "I_WHILE2"
    BY <1>4 DEF Cpu!While, Cpu!Goto
  <2>2. at' = at /\ program' = program /\ Doing' = Doing
    BY <2>1, GoesOn
  <2>. QED BY <2>1, <2>2, <1>1, <1>3, <1>4 DEF KeepsUp, Abreast, Steady, Carries
<1>5. CASE pstate = "I_WHILE2"
  <2>1. reg' = reg /\ ram' = ram /\ pstate' = "S_FETCH"
    BY <1>3, <1>5 DEF Cpu!While, Cpu!Goto
  <2>. DEFINE i == reg.pc - 1
  <2>2. i \in Int /\ reg.ptr \in Int /\ reg.pc = i + 1
    <3>1. reg.pc \in Int /\ reg.ptr \in Int
      <4>1. \A x \in Cpu!Interpreter!Cell : x \in Int
        BY SMT DEF Cpu!Interpreter!Cell
      <4>. QED BY <4>1, <1>1
    <3>. QED BY <3>1, SMT
  <2>3. at = St(i, reg.ptr, ram, io.out)
    BY <1>3, <1>5
  <2>. HIDE DEF i
  <2>4. Cpu!Interpreter!Do("[", at)
          = {St((IF ram[reg.ptr] = 0 THEN Cpu!Interpreter!Close(program, i) ELSE i) + 1, reg.ptr, ram, io.out)}
    <3>1. DoesTo(at, i, reg.ptr, ram, io.out)
      BY <2>2, <2>3, DoIs, Zenon
    <3>. QED BY <3>1, Zenon DEF DoesTo
  <2>5. ram[reg.ptr] # 0
    BY <1>3, <1>5
  <2>6. Cpu!Interpreter!Do("[", at) = {St(reg.pc, reg.ptr, ram, io.out)}
    BY <2>2, <2>4, <2>5
  <2>7. /\ St(reg'.pc, reg'.ptr, ram', io'.out) \in Cpu!Interpreter!Do(Doing, at)
        /\ Doing # "end" /\ reg'.cnt = 0
    BY <2>1, <2>6, <1>1, <1>3, <1>5
  <2>. QED BY <2>1, <2>7, Ends
<1>. QED BY <1>1, <1>2, <1>4, <1>5 DEF Cpu!While
\* A bracket closed has a deeper instruction before it.
LEMMA NotFirst ==
  ASSUME CpuSizes, program \in Programs, Doing = "]", at.ip \in Int
  PROVE  /\ program \in Seq(Signs) /\ Cpu!Interpreter!Balanced(program)
         /\ at.ip \in 2 .. Len(program) /\ program[at.ip] = "]"
         /\ Deep(program, at.ip) = Deep(program, at.ip - 1) - 1 /\ Deep(program, at.ip - 1) >= 1
<1>. DEFINE j == at.ip
            L == Len(program)
            D(k) == Deep(program, k)
<1>1. program \in Seq(Signs) /\ Cpu!Interpreter!Balanced(program)
  BY DEF CpuSizes
<1>2. j \in DOMAIN program /\ program[j] = "]"
  BY DEF Doing, Cpu!Interpreter!Fetch
<1>3. L \in Nat /\ DOMAIN program = 1 .. L
  BY <1>1, LenProperties
<1>4. /\ D(0) = 0 /\ \A k \in 0 .. L : D(k) \in Int
      /\ \A k \in 1 .. L : D(k) = D(k - 1) + (IF program[k] = "[" THEN 1 ELSE IF program[k] = "]" THEN -1 ELSE 0)
  BY <1>1, DepthSteps
<1>5. \A k \in 1 .. L : D(k) >= 0
  BY <1>1, <1>3 DEF Cpu!Interpreter!Balanced, Deep
<1>. HIDE DEF D, L, j
<1>6. j \in 1 .. L /\ j \in 0 .. L /\ j - 1 \in 0 .. L
  BY <1>2, <1>3, SMT
<1>7. D(j) = D(j - 1) - 1
  <2>1. D(j) = D(j - 1) + (-1)
    BY <1>2, <1>4, <1>6
  <2>. QED BY <2>1, <1>4, <1>6, SMT
<1>8. D(j - 1) >= 1
  BY <1>4, <1>5, <1>6, <1>7, SMT
<1>9. j # 1
  <2>1. j = 1 => j - 1 = 0
    BY SMT
  <2>. QED BY <2>1, <1>4, <1>8, SMT
<1>10. j \in 2 .. L
  BY <1>3, <1>6, <1>9, SMT
<1>. QED BY <1>1, <1>2, <1>7, <1>8, <1>10 DEF D, L, j

\* Out of the state it goes back in, the machine is at the bracket that matches or still inside.
LEMMA StepsBack ==
  ASSUME CpuSizes, program \in Programs, Doing = "]", at.ip \in Int, Inside(at.ip),
         reg.cnt = 1 + Deep(program, reg.pc - 1) - Deep(program, at.ip - 1)
  PROVE  /\ reg.cnt = 0 => Cpu!Interpreter!Open(program, at.ip) = reg.pc
         /\ reg.cnt # 0 => /\ reg.pc - 1 \in 1 .. at.ip - 1
                           /\ \A k \in reg.pc - 1 .. at.ip - 1 : Deep(program, k) >= Deep(program, at.ip - 1)
<1>. DEFINE j == at.ip
            i == reg.pc
            L == Len(program)
            D(k) == Deep(program, k)
<1>1. /\ program \in Seq(Signs) /\ Cpu!Interpreter!Balanced(program)
      /\ j \in 2 .. L /\ D(j) = D(j - 1) - 1 /\ D(j - 1) >= 1
  BY NotFirst
<1>2. L \in Nat
  BY <1>1, LenProperties
<1>3. /\ D(0) = 0 /\ \A k \in 0 .. L : D(k) \in Int
      /\ \A k \in 1 .. L : D(k) = D(k - 1) + (IF program[k] = "[" THEN 1 ELSE IF program[k] = "]" THEN -1 ELSE 0)
  BY <1>1, DepthSteps
<1>4. i \in 1 .. j - 1 /\ \A k \in i .. j - 1 : D(k) >= D(j - 1)
  BY DEF Inside
<1>5. reg.cnt = 1 + D(i - 1) - D(j - 1)
  OBVIOUS
<1>. HIDE DEF D, L, j, i
<1>6. /\ i \in 1 .. L /\ i \in 0 .. L /\ i - 1 \in 0 .. L /\ j - 1 \in 0 .. L /\ j \in 0 .. L /\ i \in i .. j - 1
      /\ j \in Int /\ i \in Int
  BY <1>1, <1>2, <1>4, SMT
<1>7. /\ D(i) \in Int /\ D(i - 1) \in Int /\ D(j - 1) \in Int /\ D(j) \in Int
      /\ D(i) >= D(j - 1)
  BY <1>3, <1>4, <1>6
<1>8. D(i) = D(i - 1) + (IF program[i] = "[" THEN 1 ELSE IF program[i] = "]" THEN -1 ELSE 0)
  BY <1>3, <1>6
<1>9. ASSUME reg.cnt = 0 PROVE Cpu!Interpreter!Open(program, j) = i
  <2>1. D(i - 1) = D(j)
    BY <1>1, <1>5, <1>7, <1>9, SMT
  <2>2. program[i] = "["
    BY <1>1, <1>7, <1>8, <2>1, SMT
  <2>3. \A k \in i .. j - 1 : D(k) > D(j)
    <3>. SUFFICES ASSUME NEW k \in i .. j - 1 PROVE D(k) > D(j)
      OBVIOUS
    <3>1. k \in 0 .. L
      BY <1>1, <1>2, <1>4, SMT
    <3>2. D(k) \in Int /\ D(k) >= D(j - 1)
      BY <3>1, <1>3, <1>4
    <3>. QED BY <3>2, <1>1, <1>7, SMT
  <2>4. j \in 1 .. L
    BY <1>1, <1>2, SMT
  <2>. QED BY <2>1, <2>2, <2>3, <2>4, <1>1, <1>4, OpenIs DEF D, L
<1>10. ASSUME reg.cnt # 0
       PROVE  i - 1 \in 1 .. j - 1 /\ \A k \in i - 1 .. j - 1 : D(k) >= D(j - 1)
  <2>1. D(i - 1) >= D(j - 1)
    <3>1. D(i) <= D(i - 1) + 1
      BY <1>7, <1>8, SMT
    <3>. QED BY <3>1, <1>5, <1>7, <1>10, SMT
  <2>2. i # 1
    <3>1. i = 1 => i - 1 = 0
      BY SMT
    <3>. QED BY <3>1, <2>1, <1>1, <1>3, <1>7, SMT
  <2>3. i - 1 \in 1 .. j - 1
    BY <2>2, <1>4, <1>6, SMT
  <2>4. ASSUME NEW k \in i - 1 .. j - 1 PROVE D(k) >= D(j - 1)
    <3>1. CASE k = i - 1
      BY <3>1, <2>1
    <3>2. CASE k # i - 1
      <4>1. k \in i .. j - 1
        BY <3>2, <1>6, SMT
      <4>. QED BY <4>1, <1>4
    <3>. QED BY <3>1, <3>2
  <2>. QED BY <2>3, <2>4
<1>. QED BY <1>9, <1>10 DEF D, j, i
\* The machine goes back to the bracket that matches, through any loops within, and no further.
LEMMA CpuEndWhile ==
  ASSUME CpuSizes, CpuInv, ~ wild, Cpu!EndWhile, Cpu!Ended, CpuTypes'
  PROVE  KeepsUp
<1>1. /\ Abreast /\ io' = io /\ io'.out = io.out /\ program \in Programs
      /\ reg \in [pc : Int, ptr : Cpu!Interpreter!Cell, cnt : Int]
  BY Zenon DEF CpuInv, CpuTypes, Cpu!EndWhile
<1>2. CASE pstate = "I_ENDWHILE0"
  <2>1. reg' = reg /\ pstate' = "I_ENDWHILE1" /\ ram' = ram /\ data' = ram[reg.ptr]
    BY <1>2 DEF Cpu!EndWhile, Cpu!Read, Cpu!Goto
  <2>2. pstate \in Steady
    BY <1>2 DEF Steady
  <2>3. Doing = "]"
    BY <2>2, <1>2, FromSteady DEF Carries
  <2>. QED BY <2>1, <2>2, <2>3, <1>1, <1>2, StaysSteady DEF Steady, Carries
<1>3. CASE pstate = "I_ENDWHILE1"
  <2>1. pstate \in Steady
    BY <1>3 DEF Steady
  <2>2. /\ Doing = "]" /\ at = St(reg.pc, reg.ptr, ram, io.out) /\ at.ip = reg.pc /\ reg.cnt = 0
        /\ reg.pc \in Int /\ reg.ptr \in Int
    BY <2>1, <1>3, FromSteady DEF Carries
  <2>3. data = ram[reg.ptr]
    BY <1>1, <1>3 DEF Abreast
  <2>4. CASE data = 0
    <3>1. reg' = [reg EXCEPT !.pc = @ + 1] /\ pstate' = "S_FETCH" /\ ram' = ram
      BY <2>4, <1>3 DEF Cpu!EndWhile, Cpu!Pc, Cpu!Goto
    <3>2. reg'.pc = reg.pc + 1 /\ reg'.ptr = reg.ptr /\ reg'.cnt = 0
      BY <3>1, <2>2, <1>1
    <3>3. Cpu!Interpreter!Do("]", at) = {St(reg.pc + 1, reg.ptr, ram, io.out)}
      <4>1. DoesTo(at, reg.pc, reg.ptr, ram, io.out)
        BY <2>2, DoIs, Zenon
      <4>2. Cpu!Interpreter!Do("]", at)
              = {St((IF ram[reg.ptr] # 0 THEN Cpu!Interpreter!Open(program, reg.pc) ELSE reg.pc) + 1,
                    reg.ptr, ram, io.out)}
        BY <4>1, Zenon DEF DoesTo
      <4>. QED BY <4>2, <2>3, <2>4
    <3>4. St(reg'.pc, reg'.ptr, ram', io'.out) \in Cpu!Interpreter!Do(Doing, at) /\ Doing # "end"
      BY <3>1, <3>2, <3>3, <2>2, <1>1
    <3>. QED BY <3>1, <3>2, <3>4, Ends
  <2>5. CASE data # 0
    <3>1. reg' = [reg EXCEPT !.cnt = 1, !.pc = @ - 1] /\ pstate' = "I_ENDWHILE2" /\ ram' = ram
      BY <2>5, <1>3 DEF Cpu!EndWhile, Cpu!Goto
    <3>. DEFINE j == at.ip
    <3>2. reg'.pc = j - 1 /\ reg'.ptr = reg.ptr /\ reg'.cnt = 1
      BY <3>1, <2>2, <1>1
    <3>3. at' = at /\ program' = program /\ Doing' = Doing
      BY <3>1, GoesOn
    <3>4. j \in 2 .. Len(program) /\ program \in Seq(Signs)
      BY <2>2, <1>1, NotFirst
    <3>5. Deep(program, j - 1) \in Int /\ j - 1 \in 1 .. j - 1
      <4>1. Len(program) \in Nat /\ \A k \in 0 .. Len(program) : Deep(program, k) \in Int
        BY <3>4, DepthSteps, LenProperties
      <4>. DEFINE L == Len(program)
                  D(k) == Deep(program, k)
      <4>2. D(j - 1) = Deep(program, j - 1) /\ \A k \in 0 .. L : D(k) \in Int
        BY <4>1
      <4>3. L \in Nat /\ j \in 2 .. L
        BY <4>1, <3>4
      <4>. HIDE DEF L, D, j
      <4>4. j - 1 \in 0 .. L /\ j - 1 \in 1 .. j - 1
        BY <4>3, SMT
      <4>. QED BY <4>2, <4>4
    <3>6. \A k \in j - 1 .. j - 1 : Deep(program, k) >= Deep(program, j - 1)
      <4>. DEFINE e == j - 1
                  D(k) == Deep(program, k)
      <4>1. e \in Int /\ D(e) \in Int
        BY <3>5
      <4>. HIDE DEF e, D
      <4>2. \A k \in e .. e : D(k) >= D(e)
        BY <4>1, SMT
      <4>. QED BY <4>2 DEF e, D
    <3>7. Inside(j)'
      BY <3>2, <3>3, <3>5, <3>6 DEF Inside
    <3>8. GoesBack(j)'
      <4>1. at' = St(j, reg'.ptr, ram', io'.out) /\ ram'[reg'.ptr] # 0
        BY <3>1, <3>2, <3>3, <2>2, <2>3, <2>5, <1>1
      <4>2. reg'.cnt = 1 + Deep(program', reg'.pc) - Deep(program', j' - 1) /\ reg'.cnt # 0
        <5>. DEFINE x == Deep(program, j - 1)
        <5>1. x \in Int /\ Deep(program', reg'.pc) = x /\ Deep(program', j' - 1) = x
          BY <3>2, <3>3, <3>5
        <5>. HIDE DEF x
        <5>2. 1 = 1 + x - x
          BY <5>1, SMT
        <5>. QED BY <5>1, <5>2, <3>2
      <4>3. j' = j
        BY <3>3
      <4>. QED BY <4>1, <4>2, <4>3, <3>1, <3>7 DEF GoesBack
    <3>. QED BY <3>1, <3>3, <3>8, <2>2 DEF KeepsUp, Abreast, Steady, Carries
  <2>. QED BY <2>4, <2>5
<1>4. ASSUME pstate \in {"I_ENDWHILE2", "I_ENDWHILE3", "I_ENDWHILE4"}
      PROVE  /\ GoesBack(at.ip) /\ Doing = "]" /\ at = St(at.ip, reg.ptr, ram, io.out) /\ ram[reg.ptr] # 0
  BY <1>1, <1>4 DEF Abreast, Carries, GoesBack
<1>5. ASSUME pstate \in {"I_ENDWHILE2", "I_ENDWHILE3", "I_ENDWHILE4"},
             pstate' \in {"I_ENDWHILE2", "I_ENDWHILE3", "I_ENDWHILE4"}, GoesBack(at.ip)'
      PROVE  KeepsUp
  <2>1. at' = at /\ program' = program /\ Doing' = Doing
    BY <1>5, GoesOn
  <2>. QED BY <2>1, <1>4, <1>5 DEF KeepsUp, Abreast, Steady, Carries
<1>6. at.ip \in Int /\ reg.ptr \in Int
  <2>1. \A x \in Cpu!Interpreter!Cell : x \in Int
    BY SMT DEF Cpu!Interpreter!Cell
  <2>. QED BY <2>1, <1>1 DEF CpuInv, CpuTypes
<1>7. CASE pstate = "I_ENDWHILE2"
  <2>. DEFINE j == at.ip
  <2>1. /\ reg' = reg /\ ram' = ram /\ code' = Cpu!Fetched
        /\ pstate' = IF reg.cnt # 0 THEN "I_ENDWHILE3" ELSE "S_FETCH"
    BY <1>7 DEF Cpu!EndWhile, Cpu!Goto
  <2>2. /\ \/ Inside(j) /\ reg.cnt = 1 + Deep(program, reg.pc) - Deep(program, j - 1) /\ reg.cnt # 0
           \/ reg.pc = Cpu!Interpreter!Open(program, j) + 1 /\ reg.cnt = 0
        /\ at = St(j, reg.ptr, ram, io.out) /\ ram[reg.ptr] # 0 /\ Doing = "]"
    BY <1>4, <1>7 DEF GoesBack
  <2>3. CASE reg.cnt = 0
    <3>1. Cpu!Interpreter!Do("]", at) = {St(reg.pc, reg.ptr, ram, io.out)}
      <4>1. DoesTo(at, j, reg.ptr, ram, io.out)
        BY <2>2, <1>6, DoIs, Zenon
      <4>2. Cpu!Interpreter!Do("]", at)
              = {St((IF ram[reg.ptr] # 0 THEN Cpu!Interpreter!Open(program, j) ELSE j) + 1,
                    reg.ptr, ram, io.out)}
        BY <4>1, Zenon DEF DoesTo
      <4>. QED BY <4>2, <2>2, <2>3
    <3>2. /\ St(reg'.pc, reg'.ptr, ram', io'.out) \in Cpu!Interpreter!Do(Doing, at) /\ Doing # "end"
          /\ reg'.cnt = 0 /\ pstate' = "S_FETCH"
      BY <3>1, <2>1, <2>2, <2>3, <1>1
    <3>. QED BY <3>2, Ends
  <2>4. CASE reg.cnt # 0
    <3>1. Inside(j) /\ reg.cnt = 1 + Deep(program, reg.pc) - Deep(program, j - 1) /\ pstate' = "I_ENDWHILE3"
      BY <2>1, <2>2, <2>4
    <3>2. at' = at /\ program' = program /\ j' = j
      BY <3>1, GoesOn
    <3>3. code' = program[reg.pc]
      <4>1. reg.pc \in DOMAIN program
        <5>1. j \in 2 .. Len(program) /\ program \in Seq(Signs)
          BY <2>2, <1>1, <1>6, NotFirst
        <5>2. Len(program) \in Nat /\ DOMAIN program = 1 .. Len(program)
          BY <5>1, LenProperties
        <5>3. reg.pc \in 1 .. j - 1
          BY <3>1 DEF Inside
        <5>. HIDE DEF j
        <5>. QED BY <5>1, <5>2, <5>3, SMT
      <4>. QED BY <4>1, <2>1 DEF Cpu!Fetched, Cpu!Interpreter!Fetch
    <3>4. GoesBack(j)'
      BY <3>1, <3>2, <3>3, <2>1, <2>2, <1>1 DEF GoesBack, Inside
    <3>. QED BY <3>1, <3>4, <1>5, <1>7
  <2>. QED BY <2>3, <2>4
<1>8. CASE pstate = "I_ENDWHILE3"
  <2>. DEFINE j == at.ip
              n == IF code = "[" THEN -1 ELSE IF code = "]" THEN 1 ELSE 0
  <2>1. reg' = [reg EXCEPT !.cnt = @ + n] /\ ram' = ram /\ pstate' = "I_ENDWHILE4"
    BY <1>8 DEF Cpu!EndWhile, Cpu!Goto
  <2>2. /\ Inside(j) /\ reg.cnt = 1 + Deep(program, reg.pc) - Deep(program, j - 1)
        /\ code = program[reg.pc]
        /\ at = St(j, reg.ptr, ram, io.out) /\ ram[reg.ptr] # 0 /\ Doing = "]"
    BY <1>4, <1>8 DEF GoesBack
  <2>3. at' = at /\ program' = program /\ j' = j
    BY <2>1, GoesOn
  <2>4. /\ reg.cnt + n = 1 + Deep(program, reg.pc - 1) - Deep(program, j - 1)
    <3>1. j \in 2 .. Len(program) /\ program \in Seq(Signs)
      BY <2>2, <1>1, <1>6, NotFirst
    <3>. DEFINE L == Len(program)
                D(k) == Deep(program, k)
                i == reg.pc
    <3>2. /\ L \in Nat /\ \A k \in 0 .. L : D(k) \in Int
          /\ \A k \in 1 .. L : D(k) = D(k - 1) + (IF program[k] = "[" THEN 1 ELSE IF program[k] = "]" THEN -1 ELSE 0)
      BY <3>1, LenProperties, DepthSteps
    <3>3. i \in 1 .. j - 1 /\ j \in 2 .. L
      BY <2>2, <3>1 DEF Inside
    <3>4. reg.cnt = 1 + D(i) - D(j - 1) /\ code = program[i]
      BY <2>2
    <3>. HIDE DEF L, D, i, j
    <3>5. i \in 1 .. L /\ i \in 0 .. L /\ i - 1 \in 0 .. L /\ j - 1 \in 0 .. L
      BY <3>2, <3>3, SMT
    <3>6. D(i) \in Int /\ D(i - 1) \in Int /\ D(j - 1) \in Int
      BY <3>2, <3>5
    <3>7. D(i) = D(i - 1) - n /\ n \in Int
      <4>1. D(i) = D(i - 1) + (IF code = "[" THEN 1 ELSE IF code = "]" THEN -1 ELSE 0)
        BY <3>2, <3>4, <3>5
      <4>. QED BY <4>1, <3>6, SMT
    <3>. HIDE DEF n
    <3>8. reg.cnt + n = 1 + D(i - 1) - D(j - 1)
      BY <3>4, <3>6, <3>7, SMT
    <3>. QED BY <3>8 DEF D, i
  <2>5. reg'.cnt = reg.cnt + n /\ reg'.pc = reg.pc /\ reg'.ptr = reg.ptr
    BY <2>1, <1>1
  <2>. HIDE DEF n
  <2>6. GoesBack(j)'
    BY <2>1, <2>2, <2>3, <2>4, <2>5, <1>1 DEF GoesBack, Inside
  <2>. QED BY <2>1, <2>6, <1>5, <1>8
<1>9. CASE pstate = "I_ENDWHILE4"
  <2>. DEFINE j == at.ip
  <2>1. /\ reg' = [reg EXCEPT !.pc = @ + (IF reg.cnt = 0 THEN 1 ELSE -1)] /\ ram' = ram
        /\ pstate' = "I_ENDWHILE2"
    BY <1>9 DEF Cpu!EndWhile, Cpu!Pc, Cpu!Goto
  <2>2. /\ Inside(j) /\ reg.cnt = 1 + Deep(program, reg.pc - 1) - Deep(program, j - 1)
        /\ at = St(j, reg.ptr, ram, io.out) /\ ram[reg.ptr] # 0 /\ Doing = "]"
    BY <1>4, <1>9 DEF GoesBack
  <2>3. at' = at /\ program' = program /\ j' = j
    BY <2>1, GoesOn
  <2>4. /\ reg.cnt = 0 => Cpu!Interpreter!Open(program, j) = reg.pc
        /\ reg.cnt # 0 => /\ reg.pc - 1 \in 1 .. j - 1
                          /\ \A k \in reg.pc - 1 .. j - 1 : Deep(program, k) >= Deep(program, j - 1)
    BY <2>2, <1>1, <1>6, StepsBack
  <2>5. reg'.cnt = reg.cnt /\ reg'.ptr = reg.ptr
    BY <2>1, <1>1
  <2>6. CASE reg.cnt = 0
    <3>1. reg'.pc = reg.pc + 1
      BY <2>1, <2>6, <1>1
    <3>2. GoesBack(j)'
      BY <3>1, <2>1, <2>2, <2>3, <2>4, <2>5, <2>6, <1>1 DEF GoesBack
    <3>. QED BY <3>2, <2>1, <1>5, <1>9
  <2>7. CASE reg.cnt # 0
    <3>1. reg'.pc = reg.pc - 1
      <4>1. reg'.pc = reg.pc + (-1) /\ reg.pc \in Int
        BY <2>1, <2>7, <1>1
      <4>. QED BY <4>1, SMT
    <3>2. Inside(j)'
      BY <3>1, <2>3, <2>4, <2>7 DEF Inside
    <3>3. GoesBack(j)'
      BY <3>1, <3>2, <2>1, <2>2, <2>3, <2>5, <2>7, <1>1 DEF GoesBack
    <3>. QED BY <3>3, <2>1, <1>5, <1>9
  <2>. QED BY <2>6, <2>7
<1>. QED BY <1>2, <1>3, <1>7, <1>8, <1>9 DEF Cpu!EndWhile
-----------------------------------------------------------------------------
LEMMA CpuInit ==
  ASSUME CpuSizes, Cpu!Init
  PROVE  CpuInv
<1>1. /\ program \in Programs /\ at = Cpu!Interpreter!Start /\ pstate = "S_IDLE"
      /\ reg = [pc |-> 1, ptr |-> 0, cnt |-> 0] /\ ram = [c \in Cpu!Interpreter!Cell |-> 0]
      /\ io = [out |-> <<>>, in |-> 0] /\ wild = FALSE
  BY DEF Cpu!Init
<1>2. 0 \in Cpu!Interpreter!Cell
  BY SMT DEF CpuSizes, Cpu!Interpreter!Cell
<1>3. at = St(1, 0, ram, <<>>) /\ at.ip = 1
  BY <1>1 DEF Cpu!Interpreter!Start, St
<1>4. io.out = <<>> /\ io.in = 0 /\ reg.pc = 1 /\ reg.ptr = 0 /\ reg.cnt = 0
  BY <1>1
<1>5. CpuTypes
  <2>1. reg \in [pc : Int, ptr : Cpu!Interpreter!Cell, cnt : Int]
    BY <1>1, <1>2
  <2>2. io = [out |-> io.out, in |-> io.in]
    BY <1>1, <1>4
  <2>. QED BY <2>1, <2>2, <1>1, <1>3 DEF CpuTypes
<1>6. Abreast
  BY <1>1, <1>3, <1>4 DEF Abreast, Steady, Carries
<1>. QED BY <1>5, <1>6 DEF CpuInv

LEMMA CpuStep ==
  ASSUME CpuSizes, CpuInv, Cpu!Next
  PROVE  CpuInv' /\ Cpu!DoesAsInterpreter
<1>1. CpuTypes' /\ (~ wild' => ~ wild)
  BY CpuTyped DEF CpuInv
<1>2. CASE wild'
  BY <1>1, <1>2 DEF CpuInv, Cpu!DoesAsInterpreter
<1>3. CASE ~ wild'
  <2>1. Cpu!Ended /\ ~ wild
    BY <1>1, <1>3 DEF Cpu!Next
  <2>2. KeepsUp
    <3>1. \/ Cpu!FetchDecode \/ Cpu!Move \/ Cpu!Count \/ Cpu!Getc \/ Cpu!Putc \/ Cpu!While \/ Cpu!EndWhile
      BY DEF Cpu!Next
    <3>. QED BY <3>1, <2>1, <1>1, <1>3, CpuFetchDecode, CpuMove, CpuCount, CpuGetc, CpuPutc, CpuWhile, CpuEndWhile
  <2>. QED BY <2>2, <1>1 DEF KeepsUp, CpuInv, Cpu!DoesAsInterpreter
<1>. QED BY <1>2, <1>3

LEMMA CpuStutters ==
  ASSUME CpuInv, UNCHANGED Cpu!vars
  PROVE  CpuInv' /\ Cpu!DoesAsInterpreter
<1>1. /\ program' = program /\ at' = at /\ pstate' = pstate /\ reg' = reg /\ ram' = ram
      /\ data' = data /\ code' = code /\ io' = io /\ wild' = wild
  BY DEF Cpu!vars
<1>. QED BY <1>1 DEF CpuInv, CpuTypes, Abreast, Doing, GoesBack, Inside, Cpu!DoesAsInterpreter

(***************************************************************************)
(* From instruction to instruction the processor does what the interpreter *)
(* does, whatever the program and however deep its loops, until it enters  *)
(* a loop on a zero or writes out a cell it has not read.                  *)
(***************************************************************************)
THEOREM DoesAsInterpreterAlways ==
  CpuSizes => (Cpu!Init /\ [][Cpu!Next]_(Cpu!vars) => [][Cpu!DoesAsInterpreter]_(Cpu!vars))
<1>. SUFFICES ASSUME CpuSizes
              PROVE  Cpu!Init /\ [][Cpu!Next]_(Cpu!vars) => [][Cpu!DoesAsInterpreter]_(Cpu!vars)
  OBVIOUS
<1>1. Cpu!Init => CpuInv
  BY CpuInit
<1>2. CpuInv /\ [Cpu!Next]_(Cpu!vars) => CpuInv' /\ [Cpu!DoesAsInterpreter]_(Cpu!vars)
  BY CpuStep, CpuStutters
<1>. QED BY <1>1, <1>2, PTL

-----------------------------------------------------------------------------
(***************************************************************************)
(* The colouring of graphs.                                                *)
(***************************************************************************)
CONSTANTS Sizes
VARIABLES edges, g
Graph == INSTANCE GraphColouring

\* Of two numbers that follow each other one is even.
LEMMA EvenProduct == ASSUME NEW a \in Nat PROVE 2 * ((a * (a + 1)) \div 2) = a * (a + 1)
<1>1. PICK k \in Nat : a = 2 * k \/ a = 2 * k + 1
  <2>1. a = 2 * (a \div 2) \/ a = 2 * (a \div 2) + 1
    BY SMT
  <2>2. a \div 2 \in Nat
    BY SMT
  <2>. QED BY <2>1, <2>2
<1>2. CASE a = 2 * k
  <2>1. a * (a + 1) = 2 * (k * (2 * k + 1))
    BY <1>2, SMT
  <2>2. k * (2 * k + 1) \in Nat
    BY SMT
  <2>. QED BY <2>1, <2>2, SMT
<1>3. CASE a = 2 * k + 1
  <2>1. a * (a + 1) = 2 * ((2 * k + 1) * (k + 1))
    BY <1>3, SMT
  <2>2. (2 * k + 1) * (k + 1) \in Nat
    BY SMT
  <2>. QED BY <2>1, <2>2, SMT
<1>. QED BY <1>1, <1>2, <1>3

\* Where the pair of a row and a later column stands in the array, twice.
LEMMA AtIs ==
  ASSUME NEW n \in Nat, NEW y \in Nat, NEW x \in Nat, y < x
  PROVE  /\ Graph!matrix_at(n, y, x) \in Int
         /\ Graph!matrix_at(n, x, y) = Graph!matrix_at(n, y, x)
         /\ 2 * Graph!matrix_at(n, y, x) = 2 * (y * n) + 2 * x - (y + 1) * (y + 2)
<1>1. 2 * (((y + 1) * (y + 2)) \div 2) = (y + 1) * (y + 2)
  <2>1. y + 1 \in Nat /\ (y + 1) + 1 = y + 2
    OBVIOUS
  <2>. QED BY <2>1, EvenProduct
<1>2. ((y + 1) * (y + 2)) \div 2 \in Int
  BY SMT
<1>3. Graph!matrix_at(n, y, x) = y * n + x - (((y + 1) * (y + 2)) \div 2)
  BY SMT DEF Graph!matrix_at
<1>4. Graph!matrix_at(n, x, y) = y * n + x - (((y + 1) * (y + 2)) \div 2)
  BY SMT DEF Graph!matrix_at
<1>. DEFINE h == ((y + 1) * (y + 2)) \div 2
            p == y * n
            q == (y + 1) * (y + 2)
<1>5. p \in Int /\ q \in Int
  OBVIOUS
<1>. HIDE DEF h, p, q
<1>6. 2 * h = q /\ h \in Int
  BY <1>1, <1>2 DEF h, q
<1>7. p + x - h \in Int /\ 2 * (p + x - h) = 2 * p + 2 * x - q
  BY <1>5, <1>6, SMT
<1>. QED BY <1>3, <1>4, <1>7 DEF p, q, h

\* The array has a place for each pair.
LEMMA CountIs == ASSUME NEW n \in Nat PROVE Graph!matrix_count(n) \in Nat /\ 2 * Graph!matrix_count(n) = n * n - n
<1>1. PICK k \in Nat : n = 2 * k \/ n = 2 * k + 1
  <2>1. n = 2 * (n \div 2) \/ n = 2 * (n \div 2) + 1
    BY SMT
  <2>2. n \div 2 \in Nat
    BY SMT
  <2>. QED BY <2>1, <2>2
<1>. DEFINE s == k * k
<1>2. s \in Nat /\ s >= k
  BY SMT
<1>3. CASE n = 2 * k
  <2>1. n * n = 4 * s
    BY <1>3, SMT
  <2>. HIDE DEF s
  <2>2. (n * n) \div 2 = 2 * s /\ n \div 2 = k
    BY <2>1, <1>2, <1>3, SMT
  <2>. QED BY <2>1, <2>2, <1>2, <1>3, SMT DEF Graph!matrix_count
<1>4. CASE n = 2 * k + 1
  <2>1. n * n = 4 * s + 4 * k + 1
    BY <1>4, SMT
  <2>. HIDE DEF s
  <2>2. (n * n) \div 2 = 2 * s + 2 * k /\ n \div 2 = k
    BY <2>1, <1>2, <1>4, SMT
  <2>. QED BY <2>1, <2>2, <1>2, <1>4, SMT DEF Graph!matrix_count
<1>. QED BY <1>1, <1>3, <1>4

\* A smaller graph needs fewer places.
LEMMA CountGrows == ASSUME NEW n \in Nat, NEW k \in Nat, k <= n PROVE Graph!matrix_count(k) <= Graph!matrix_count(n)
<1>1. k * k - k <= n * n - n
  BY SMT
<1>. DEFINE a == Graph!matrix_count(k) b == Graph!matrix_count(n) p == k * k - k q == n * n - n
<1>2. /\ a \in Nat /\ b \in Nat /\ p \in Int /\ q \in Int
      /\ 2 * a = p /\ 2 * b = q
  BY CountIs
<1>. HIDE DEF a, b, p, q
<1>3. p <= q
  BY <1>1 DEF p, q
<1>4. a <= b
  BY <1>2, <1>3, SMT
<1>. QED BY <1>4 DEF a, b

\* Pairs stand in the order of their rows, and in a row in that of their columns.
LEMMA AtOrder ==
  ASSUME NEW n \in Nat, NEW y \in Nat, NEW x \in Nat, NEW v \in Nat, NEW u \in Nat,
         y < x, x < n, v < u, u < n, y < v \/ (y = v /\ x < u)
  PROVE  Graph!matrix_at(n, y, x) < Graph!matrix_at(n, v, u)
<1>. DEFINE a == Graph!matrix_at(n, y, x)
            b == Graph!matrix_at(n, v, u)
<1>1. /\ a \in Int /\ b \in Int
      /\ 2 * a = 2 * (y * n) + 2 * x - (y + 1) * (y + 2)
      /\ 2 * b = 2 * (v * n) + 2 * u - (v + 1) * (v + 2)
  BY AtIs
<1>. HIDE DEF a, b
<1>2. CASE y = v
  BY <1>1, <1>2, SMT DEF a, b
<1>3. CASE y < v
  <2>. DEFINE d == v - y
              e == 2 * n - y - v - 3
  <2>1. d \in Nat /\ d >= 1 /\ e \in Nat /\ e >= 2
    BY <1>3, SMT
  <2>2. (v + 1) * (v + 2) - (y + 1) * (y + 2) = d * (y + v + 3)
    BY SMT
  <2>3. v * n - y * n = d * n
    BY SMT
  <2>4. 2 * (d * n) - d * (y + v + 3) = d * e
    BY SMT
  <2>5. d * e = (d - 1) * e + e
    BY <2>1, SMT
  <2>6. (d - 1) * e >= 0
    BY <2>1, SMT
  <2>. DEFINE p1 == v * n  p2 == y * n p3 == d * n p4 == (v + 1) * (v + 2) p5 == (y + 1) * (y + 2)
              p6 == d * (y + v + 3) p7 == d * e p8 == (d - 1) * e
  <2>7. p1 \in Int /\ p2 \in Int /\ p3 \in Int /\ p4 \in Int /\ p5 \in Int /\ p6 \in Int /\ p7 \in Int /\ p8 \in Int
    BY <2>1, SMT
  <2>8. /\ 2 * a = 2 * p2 + 2 * x - p5 /\ 2 * b = 2 * p1 + 2 * u - p4
        /\ p4 - p5 = p6 /\ p1 - p2 = p3 /\ 2 * p3 - p6 = p7 /\ p7 = p8 + e /\ p8 >= 0
    BY <1>1, <2>2, <2>3, <2>4, <2>5, <2>6
  <2>. HIDE DEF p1, p2, p3, p4, p5, p6, p7, p8
  <2>9. 2 * b - 2 * a = p8 + e + 2 * u - 2 * x
    BY <2>1, <2>7, <2>8, <1>1, SMT
  <2>10. e + 2 * u - 2 * x >= 2
    BY <1>3, SMT
  <2>11. a < b
    BY <2>1, <2>7, <2>8, <2>9, <2>10, <1>1, SMT
  <2>. QED BY <2>11 DEF a, b
<1>. QED BY <1>2, <1>3
\* They stand within the array.
LEMMA AtRange ==
  ASSUME NEW n \in Nat, NEW y \in Nat, NEW x \in Nat, y < x, x < n
  PROVE  Graph!matrix_at(n, y, x) \in 0 .. Graph!matrix_count(n) - 1
<1>. DEFINE a == Graph!matrix_at(n, y, x)
            z == Graph!matrix_at(n, 0, 1)
            l == Graph!matrix_at(n, n - 2, n - 1)
            c == Graph!matrix_count(n)
            s == n * n
<1>1. a \in Int /\ s \in Int
  BY AtIs
<1>2. z = 0
  <2>1. z \in Int /\ 2 * z = 2 * (0 * n) + 2 * 1 - (0 + 1) * (0 + 2)
    BY AtIs, 0 \in Nat, 1 \in Nat, 0 < 1
  <2>2. 0 * n = 0 /\ (0 + 1) * (0 + 2) = 2
    BY SMT
  <2>. HIDE DEF z
  <2>. QED BY <2>1, <2>2, SMT
<1>3. l \in Int /\ l = c - 1 /\ c \in Nat
  <2>1. n - 2 \in Nat /\ n - 1 \in Nat /\ n - 2 < n - 1
    BY SMT
  <2>2. l \in Int /\ 2 * l = 2 * ((n - 2) * n) + 2 * (n - 1) - ((n - 2) + 1) * ((n - 2) + 2)
    BY <2>1, AtIs
  <2>3. (n - 2) * n = s - 2 * n /\ ((n - 2) + 1) * ((n - 2) + 2) = s - n
    BY SMT
  <2>4. c \in Nat /\ 2 * c = s - n
    BY CountIs
  <2>. HIDE DEF l, c, s
  <2>5. 2 * l = 2 * (s - 2 * n) + 2 * (n - 1) - (s - n)
    BY <2>2, <2>3
  <2>6. l = c - 1
    BY <1>1, <2>2, <2>4, <2>5, SMT
  <2>. QED BY <2>2, <2>4, <2>6
<1>4. z <= a
  <2>1. CASE y = 0 /\ x = 1
    BY <2>1, <1>1, SMT
  <2>2. CASE ~ (y = 0 /\ x = 1)
    <3>1. 0 < y \/ (0 = y /\ 1 < x)
      BY <2>2, SMT
    <3>2. z < a
      BY <3>1, AtOrder, 0 \in Nat, 1 \in Nat, 0 < 1, 1 < n
    <3>. QED BY <3>2, <1>1, <1>2, SMT
  <2>. QED BY <2>1, <2>2
<1>5. a <= l
  <2>1. CASE y = n - 2 /\ x = n - 1
    BY <2>1, <1>1, SMT
  <2>2. CASE ~ (y = n - 2 /\ x = n - 1)
    <3>1. y < n - 2 \/ (y = n - 2 /\ x < n - 1)
      BY <2>2, SMT
    <3>2. n - 2 \in Nat /\ n - 1 \in Nat /\ n - 2 < n - 1 /\ n - 1 < n
      BY SMT
    <3>3. a < l
      BY <3>1, <3>2, AtOrder
    <3>. QED BY <3>3, <1>1, <1>3, SMT
  <2>. QED BY <2>1, <2>2
<1>. HIDE DEF a, z, l, c
<1>6. a \in 0 .. c - 1
  BY <1>1, <1>2, <1>3, <1>4, <1>5, SMT
<1>. QED BY <1>6 DEF a, c

\* No two of them at one place.
LEMMA AtOnce ==
  ASSUME NEW n \in Nat, NEW y \in Nat, NEW x \in Nat, NEW v \in Nat, NEW u \in Nat,
         y < x, x < n, v < u, u < n, Graph!matrix_at(n, y, x) = Graph!matrix_at(n, v, u)
  PROVE  y = v /\ x = u
<1>. DEFINE a == Graph!matrix_at(n, y, x)
            b == Graph!matrix_at(n, v, u)
<1>1. a \in Int /\ b \in Int /\ a = b
  BY AtIs
<1>2. ~ (a < b) /\ ~ (b < a)
  <2>. HIDE DEF a, b
  <2>. QED BY <1>1, SMT
<1>3. ~ (y < v \/ (y = v /\ x < u))
  BY <1>2, AtOrder
<1>4. ~ (v < y \/ (v = y /\ u < x))
  BY <1>2, AtOrder
<1>. QED BY <1>3, <1>4, SMT

\* A matrix, of some of the vertices, in the array of all.
IsMatrix(mx, all) == mx \in [vertices : 0 .. all, m : [0 .. Graph!matrix_count(all) - 1 -> BOOLEAN]]
Get(mx, a, b) == Graph!matrix_get(mx, a, b)

\* Its places are in the array, and it reads the same from both sides.
LEMMA GetIs ==
  ASSUME NEW all \in Nat, NEW mx, IsMatrix(mx, all), NEW a \in 0 .. mx.vertices - 1, NEW b \in 0 .. mx.vertices - 1
  PROVE  /\ Get(mx, a, b) \in BOOLEAN /\ Get(mx, a, b) = Get(mx, b, a) /\ ~ Get(mx, a, a)
         /\ a < b => /\ Graph!matrix_at(mx.vertices, a, b) \in 0 .. Graph!matrix_count(all) - 1
                     /\ Get(mx, a, b) = mx.m[Graph!matrix_at(mx.vertices, a, b)]
<1>. DEFINE n == mx.vertices
<1>1. n \in Nat /\ n <= all /\ mx.m \in [0 .. Graph!matrix_count(all) - 1 -> BOOLEAN]
  BY SMT DEF IsMatrix
<1>2. ASSUME NEW y \in 0 .. n - 1, NEW x \in 0 .. n - 1, y < x
      PROVE  /\ Graph!matrix_at(n, y, x) \in 0 .. Graph!matrix_count(all) - 1
             /\ Graph!matrix_at(n, x, y) = Graph!matrix_at(n, y, x)
  <2>1. y \in Nat /\ x \in Nat /\ x < n
    BY <1>1, SMT
  <2>2. Graph!matrix_at(n, y, x) \in 0 .. Graph!matrix_count(n) - 1
    BY <2>1, <1>1, <1>2, AtRange
  <2>3. /\ Graph!matrix_count(n) \in Nat /\ Graph!matrix_count(all) \in Nat
        /\ Graph!matrix_count(n) <= Graph!matrix_count(all)
    BY <1>1, CountIs, CountGrows
  <2>4. Graph!matrix_at(n, x, y) = Graph!matrix_at(n, y, x)
    BY <2>1, <1>1, <1>2, AtIs
  <2>. QED BY <2>2, <2>3, <2>4, SMT
<1>3. \A y, x : Get(mx, y, x) = (y # x /\ mx.m[Graph!matrix_at(n, y, x)])
  BY DEF Get, Graph!matrix_get
<1>4. a < b \/ b < a \/ a = b
  BY <1>1, SMT
<1>. HIDE DEF n
<1>5. CASE a < b
  <2>1. mx.m[Graph!matrix_at(n, a, b)] \in BOOLEAN
    BY <1>5, <1>2, <1>1 DEF n
  <2>2. a # b
    BY <1>1, <1>5, SMT
  <2>. QED BY <2>1, <2>2, <1>5, <1>2, <1>3 DEF n
<1>6. CASE b < a
  <2>1. mx.m[Graph!matrix_at(n, b, a)] \in BOOLEAN
    BY <1>6, <1>2, <1>1 DEF n
  <2>2. a # b /\ ~ (a < b)
    BY <1>1, <1>6, SMT
  <2>. QED BY <2>1, <2>2, <1>6, <1>2, <1>3 DEF n
<1>7. CASE a = b
  <2>1. ~ (a < b)
    BY <1>1, <1>7, SMT
  <2>. QED BY <2>1, <1>7, <1>3
<1>. QED BY <1>4, <1>5, <1>6, <1>7

\* Setting a pair sets it from both sides and no other.
LEMMA SetIs ==
  ASSUME NEW all \in Nat, NEW mx, IsMatrix(mx, all), NEW v \in BOOLEAN,
         NEW l \in 0 .. mx.vertices - 1, NEW i \in 0 .. mx.vertices - 1, l # i
  PROVE  LET set == Graph!matrix_set(mx, l, i, v)
         IN /\ IsMatrix(set, all) /\ set.vertices = mx.vertices
            /\ \A a, b \in 0 .. mx.vertices - 1 :
                  Get(set, a, b) = IF (a = l /\ b = i) \/ (a = i /\ b = l) THEN v ELSE Get(mx, a, b)
<1>. DEFINE n == mx.vertices
            set == Graph!matrix_set(mx, l, i, v)
            T(y, x) == Graph!matrix_at(n, y, x)
            D == 0 .. Graph!matrix_count(all) - 1
            y0 == IF l < i THEN l ELSE i
            x0 == IF l < i THEN i ELSE l
<1>1. n \in Nat /\ n <= all /\ mx.m \in [D -> BOOLEAN] /\ mx = [vertices |-> n, m |-> mx.m]
  BY SMT DEF IsMatrix
<1>2. y0 \in 0 .. n - 1 /\ x0 \in 0 .. n - 1 /\ y0 < x0
  BY <1>1, SMT
<1>3. T(l, i) = T(y0, x0) /\ T(y0, x0) \in D
  <2>1. y0 \in Nat /\ x0 \in Nat
    BY <1>2, <1>1, SMT
  <2>2. T(x0, y0) = T(y0, x0)
    BY <2>1, <1>2, <1>1, AtIs
  <2>3. T(y0, x0) \in D
    BY <1>2, GetIs
  <2>. QED BY <2>2, <2>3
<1>4. set = [mx EXCEPT !.m[T(l, i)] = v]
  BY DEF Graph!matrix_set
<1>5. set = [vertices |-> n, m |-> [mx.m EXCEPT ![T(y0, x0)] = v]]
  <2>. HIDE DEF T, y0, x0, D, n
  <2>. QED BY <1>1, <1>4, <1>3
<1>6. set.vertices = n /\ set.m = [mx.m EXCEPT ![T(y0, x0)] = v] /\ IsMatrix(set, all)
  <2>. HIDE DEF T, y0, x0, set
  <2>1. [mx.m EXCEPT ![T(y0, x0)] = v] \in [D -> BOOLEAN]
    BY <1>1, <1>3
  <2>2. n \in 0 .. all
    BY <1>1, SMT
  <2>. QED BY <1>5, <2>1, <2>2 DEF IsMatrix
<1>7. ASSUME NEW a \in 0 .. n - 1, NEW b \in 0 .. n - 1, a < b
      PROVE  Get(set, a, b) = IF a = y0 /\ b = x0 THEN v ELSE Get(mx, a, b)
  <2>1. /\ T(a, b) \in D /\ Get(mx, a, b) = mx.m[T(a, b)]
    BY <1>7, GetIs
  <2>2. Get(set, a, b) = set.m[T(a, b)]
    <3>. HIDE DEF set
    <3>2. a \in 0 .. set.vertices - 1 /\ b \in 0 .. set.vertices - 1 /\ IsMatrix(set, all)
      BY <1>6, <1>7
    <3>1. /\ Graph!matrix_at(set.vertices, a, b) \in D /\ Get(set, a, b) = set.m[Graph!matrix_at(set.vertices, a, b)]
      BY <3>2, <1>7, GetIs
    <3>. QED BY <3>1, <1>6
  <2>3. T(a, b) = T(y0, x0) => a = y0 /\ b = x0
    <3>1. a \in Nat /\ b \in Nat /\ y0 \in Nat /\ x0 \in Nat /\ b < n /\ x0 < n
      BY <1>1, <1>2, SMT
    <3>. QED BY <3>1, <1>1, <1>2, <1>7, AtOnce
  <2>. HIDE DEF set, T, y0, x0
  <2>. QED BY <2>1, <2>2, <2>3, <1>6, <1>1, <1>3
<1>8. ASSUME NEW a \in 0 .. n - 1, NEW b \in 0 .. n - 1
      PROVE  Get(set, a, b) = IF (a = l /\ b = i) \/ (a = i /\ b = l) THEN v ELSE Get(mx, a, b)
  <2>1. /\ Get(mx, a, b) = Get(mx, b, a) /\ Get(set, a, b) = Get(set, b, a) /\ ~ Get(set, a, a) /\ ~ Get(mx, a, a)
        /\ Get(set, a, a) \in BOOLEAN /\ Get(mx, a, a) \in BOOLEAN
    <3>. HIDE DEF set
    <3>. QED BY <1>6, GetIs
  <2>2. a \in Int /\ b \in Int /\ l \in Int /\ i \in Int
    OBVIOUS
  <2>. HIDE DEF set
  <2>3. CASE a < b
    <3>1. (a = y0 /\ b = x0) <=> ((a = l /\ b = i) \/ (a = i /\ b = l))
      BY <2>2, <2>3, SMT
    <3>. QED BY <1>7, <2>3, <3>1
  <2>4. CASE b < a
    <3>1. (b = y0 /\ a = x0) <=> ((a = l /\ b = i) \/ (a = i /\ b = l))
      BY <2>2, <2>4, SMT
    <3>. QED BY <1>7, <2>4, <3>1, <2>1
  <2>5. CASE a = b
    BY <2>5, <2>1
  <2>. QED BY <2>2, <2>3, <2>4, <2>5, SMT
<1>. QED BY <1>6, <1>8
\* The matrices that the loop of ial_matrix_join makes.
JoinTurn(y, l, r, i) ==
  Graph!matrix_set(y, l, i, Graph!matrix_get(y, l, i) \/ Graph!matrix_get(y, r, i))
JoinRun(mx, l, r, x, n) == x = [i \in 0 .. n |-> IF i = 0 THEN mx ELSE JoinTurn(x[i - 1], l, r, i - 1)]

LEMMA JoinRuns == ASSUME NEW mx, NEW l, NEW r, NEW n \in Nat PROVE \E x : JoinRun(mx, l, r, x, n)
<1>. DEFINE N == {k \in Nat : ~ \E x : JoinRun(mx, l, r, x, k)}
<1>1. SUFFICES ASSUME N # {} PROVE FALSE
  OBVIOUS
<1>2. PICK k \in N : \A i \in N : k <= i
  <2>1. N \in SUBSET Nat
    OBVIOUS
  <2>. QED BY <1>1, <2>1, Least
<1>3. CASE k = 0
  <2>. DEFINE x == [i \in 0 .. 0 |-> mx]
  <2>1. JoinRun(mx, l, r, x, 0)
    <3>1. \A i \in 0 .. 0 : i = 0
      BY SMT
    <3>. QED BY <3>1 DEF JoinRun
  <2>. QED BY <2>1, <1>3
<1>4. CASE k # 0
  <2>1. k - 1 \in Nat /\ k - 1 \notin N
    BY <1>2, <1>4, SMT
  <2>2. PICK x : JoinRun(mx, l, r, x, k - 1)
    BY <2>1
  <2>. DEFINE z == [i \in 0 .. k |-> IF i = k THEN JoinTurn(x[k - 1], l, r, k - 1) ELSE x[i]]
              w == [i \in 0 .. k |-> IF i = 0 THEN mx ELSE JoinTurn(z[i - 1], l, r, i - 1)]
  <2>3. ASSUME NEW i \in 0 .. k PROVE z[i] = w[i]
    <3>1. CASE i = k
      <4>1. z[k - 1] = x[k - 1]
        BY <2>1, SMT
      <4>. QED BY <4>1, <3>1, <1>4
    <3>2. CASE i # k /\ i = 0
      <4>1. 0 \in 0 .. k - 1
        BY <2>1, SMT
      <4>2. x[0] = mx
        BY <4>1, <2>2 DEF JoinRun
      <4>. QED BY <4>2, <3>2
    <3>3. CASE i # k /\ i # 0
      <4>1. i \in 0 .. k - 1 /\ i - 1 \in 0 .. k /\ i - 1 # k
        BY <3>3, <2>1, SMT
      <4>2. x[i] = JoinTurn(x[i - 1], l, r, i - 1)
        BY <4>1, <3>3, <2>2 DEF JoinRun
      <4>3. z[i - 1] = x[i - 1]
        BY <4>1
      <4>. QED BY <4>2, <4>3, <3>3
    <3>. QED BY <3>1, <3>2, <3>3
  <2>4. z = w
    <3>. HIDE DEF JoinTurn
    <3>. QED BY <2>3
  <2>5. JoinRun(mx, l, r, z, k)
    BY <2>4 DEF JoinRun
  <2>. QED BY <2>5, <1>2
<1>. QED BY <1>3, <1>4

\* Joined, the first vertex has the neighbours of both, and the others are as they were.
LEMMA JoinIs ==
  ASSUME NEW all \in Nat, NEW mx, IsMatrix(mx, all),
         NEW l \in 0 .. mx.vertices - 1, NEW r \in 0 .. mx.vertices - 1, l # r
  PROVE  LET mj == Graph!matrix_join(mx, l, r)
         IN /\ IsMatrix(mj, all) /\ mj.vertices = mx.vertices
            /\ \A a, b \in 0 .. mx.vertices - 1 : a # b =>
                  Get(mj, a, b) = IF a = l THEN Get(mx, l, b) \/ Get(mx, r, b)
                                  ELSE IF b = l THEN Get(mx, l, a) \/ Get(mx, r, a)
                                  ELSE Get(mx, a, b)
<1>. DEFINE n == mx.vertices
            C == 0 .. n - 1
            Both(b) == Get(mx, l, b) \/ Get(mx, r, b)
            Done(y, i) == /\ IsMatrix(y, all) /\ y.vertices = n
                          /\ \A a, b \in C : a # b =>
                                Get(y, a, b) = IF a = l /\ b < i THEN Both(b)
                                               ELSE IF b = l /\ a < i THEN Both(a) ELSE Get(mx, a, b)
<1>1. n \in Nat
  BY SMT DEF IsMatrix
<1>2. \E x : x = [i \in 0 .. n |-> IF i = 0 THEN mx ELSE LET y == x[i - 1] IN
                     Graph!matrix_set(y, l, i - 1, Graph!matrix_get(y, l, i - 1) \/ Graph!matrix_get(y, r, i - 1))]
  <2>1. PICK x : JoinRun(mx, l, r, x, n)
    BY <1>1, JoinRuns
  <2>. QED BY <2>1 DEF JoinRun, JoinTurn
<1>3. PICK x : /\ JoinRun(mx, l, r, x, n) /\ Graph!matrix_join(mx, l, r) = x[n]
  BY <1>2 DEF JoinRun, JoinTurn, Graph!matrix_join
<1>4. x[0] = mx /\ \A i \in 1 .. n : x[i] = JoinTurn(x[i - 1], l, r, i - 1)
  <2>. HIDE DEF n
  <2>. QED BY <1>1, <1>3, SMT DEF JoinRun
<1>5. Done(mx, 0)
  <2>1. \A a \in C : ~ (a < 0)
    BY <1>1, SMT
  <2>. QED BY <2>1
<1>6. ASSUME NEW i \in 1 .. n, NEW y, Done(y, i - 1) PROVE Done(JoinTurn(y, l, r, i - 1), i)
  <2>. DEFINE j == i - 1
              v == Get(y, l, j) \/ Get(y, r, j)
  <2>1. j \in C /\ j = i - 1 /\ \A a \in C : a \in Int /\ (a < i <=> a < j \/ a = j)
    BY <1>1, SMT
  <2>2. JoinTurn(y, l, r, j) = Graph!matrix_set(y, l, j, v)
    BY DEF JoinTurn, Get
  <2>. HIDE DEF j
  <2>3. \A a, b \in C : a # b => Get(y, a, b) = IF a = l /\ b < j THEN Both(b)
                                                ELSE IF b = l /\ a < j THEN Both(a) ELSE Get(mx, a, b)
    BY <1>6, <2>1
  <2>4. IsMatrix(y, all) /\ y.vertices = n /\ l \in C /\ r \in C
    BY <1>6
  <2>5. CASE j = l
    <3>1. JoinTurn(y, l, r, j) = y
      BY <2>2, <2>5 DEF Graph!matrix_set
    <3>2. \A a, b \in C : a # b =>
             Get(y, a, b) = IF a = l /\ b < i THEN Both(b)
                            ELSE IF b = l /\ a < i THEN Both(a) ELSE Get(mx, a, b)
      <4>. SUFFICES ASSUME NEW a \in C, NEW b \in C, a # b
                    PROVE  Get(y, a, b) = IF a = l /\ b < i THEN Both(b)
                                          ELSE IF b = l /\ a < i THEN Both(a) ELSE Get(mx, a, b)
        OBVIOUS
      <4>1. (a = l => (b < i <=> b < j)) /\ (b = l => (a < i <=> a < j))
        BY <2>1, <2>5
      <4>. HIDE DEF Both
      <4>. QED BY <4>1, <2>3
    <3>. QED BY <3>1, <3>2, <2>1, <2>4
  <2>6. CASE j # l
    <3>. DEFINE ys == Graph!matrix_set(y, l, j, v)
    <3>1. v \in BOOLEAN
      <4>1. Get(y, l, j) \in BOOLEAN /\ Get(y, r, j) \in BOOLEAN
        <5>1. l \in 0 .. y.vertices - 1 /\ r \in 0 .. y.vertices - 1 /\ j \in 0 .. y.vertices - 1
          BY <2>1, <2>4
        <5>. QED BY <5>1, <2>4, GetIs
      <4>. QED BY <4>1
    <3>2. /\ IsMatrix(ys, all) /\ ys.vertices = y.vertices
          /\ \A a, b \in 0 .. y.vertices - 1 :
               Get(ys, a, b) = IF (a = l /\ b = j) \/ (a = j /\ b = l) THEN v ELSE Get(y, a, b)
      <4>1. l \in 0 .. y.vertices - 1 /\ j \in 0 .. y.vertices - 1
        BY <2>1, <2>4
      <4>. HIDE DEF v
      <4>. QED BY <4>1, <3>1, <2>4, <2>6, SetIs
    <3>3. v = Both(j)
      <4>1. Get(y, l, j) = Get(mx, l, j)
        <5>1. ~ (j < j) /\ ~ (l < j /\ j = l)
          BY <2>1, <2>6, SMT
        <5>. QED BY <5>1, <2>1, <2>3, <2>4, <2>6
      <4>2. Get(y, r, j) = Get(mx, r, j)
        <5>1. CASE r = j
          <6>1. ~ Get(y, r, j) /\ ~ Get(mx, r, j) /\ Get(y, r, j) \in BOOLEAN /\ Get(mx, r, j) \in BOOLEAN
            <7>1. r \in 0 .. y.vertices - 1
              BY <2>4
            <7>. QED BY <7>1, <5>1, <2>4, GetIs
          <6>. QED BY <6>1
        <5>2. CASE r # j
          <6>1. r # l /\ j # l
            BY <2>6
          <6>. QED BY <6>1, <5>2, <2>1, <2>3, <2>4
        <5>. QED BY <5>1, <5>2
      <4>. QED BY <4>1, <4>2
    <3>. HIDE DEF v, ys, Both
    <3>4. ASSUME NEW a \in C, NEW b \in C, a # b
          PROVE  Get(ys, a, b) = IF a = l /\ b < i THEN Both(b)
                                 ELSE IF b = l /\ a < i THEN Both(a) ELSE Get(mx, a, b)
      <4>1. Get(ys, a, b) = IF (a = l /\ b = j) \/ (a = j /\ b = l) THEN v ELSE Get(y, a, b)
        BY <3>2, <2>4
      <4>2. Get(y, a, b) = IF a = l /\ b < j THEN Both(b)
                           ELSE IF b = l /\ a < j THEN Both(a) ELSE Get(mx, a, b)
        BY <3>4, <2>3
      <4>3. /\ a < i <=> a < j \/ a = j
            /\ b < i <=> b < j \/ b = j
            /\ ~ (j < j)
        BY <2>1
      <4>. QED BY <4>1, <4>2, <4>3, <3>3, <3>4, Zenon
    <3>5. ys = JoinTurn(y, l, r, i - 1)
      BY <2>2, <2>1 DEF ys
    <3>. QED BY <3>2, <3>4, <3>5, <2>4
  <2>. QED BY <2>5, <2>6
<1>. DEFINE N == {i \in 0 .. n : ~ Done(x[i], i)}
<1>7. N = {}
  <2>1. SUFFICES ASSUME N # {} PROVE FALSE
    OBVIOUS
  <2>2. PICK k \in N : \A i \in N : k <= i
    <3>1. N \in SUBSET Nat
      <4>. HIDE DEF Done
      <4>. QED BY <1>1, SMT
    <3>. HIDE DEF N
    <3>. QED BY <2>1, <3>1, Least
  <2>. HIDE DEF Done
  <2>3. k \in 0 .. n /\ ~ Done(x[k], k)
    BY <2>2
  <2>4. k # 0
    BY <2>3, <1>4, <1>5
  <2>5. k \in 1 .. n /\ k - 1 \in 0 .. n /\ ~ (k <= k - 1)
    BY <1>1, <2>3, <2>4, SMT
  <2>6. Done(x[k - 1], k - 1)
    BY <2>2, <2>5
  <2>. QED BY <2>3, <2>5, <2>6, <1>4, <1>6
<1>8. Done(x[n], n)
  <2>1. n \in 0 .. n
    BY <1>1, SMT
  <2>. HIDE DEF Done
  <2>. QED BY <1>7, <2>1
<1>9. \A a \in C : a < n
  BY <1>1, SMT
<1>. QED BY <1>3, <1>8, <1>9
\* What memmove does within an array.
Moved(s, m, M, dst, src, len) ==
  /\ s \in [0 .. M - 1 -> BOOLEAN]
  /\ \A q \in 0 .. M - 1 : /\ dst <= q /\ q < dst + len => s[q] = m[q + src - dst]
                           /\ q < dst \/ dst + len <= q => s[q] = m[q]

LEMMA MoveIs ==
  ASSUME NEW M \in Nat, NEW m \in [0 .. M - 1 -> BOOLEAN], NEW dst \in Nat, NEW src \in Nat, NEW len \in Int,
         dst <= src, src + len <= M
  PROVE  Moved(Graph!memmove(m, dst, src, len), m, M, dst, src, len)
<1>. DEFINE s == Graph!memmove(m, dst, src, len)
<1>1. s = [q \in 0 .. M - 1 |-> IF q \in dst .. dst + len - 1 THEN m[q + src - dst] ELSE m[q]]
  BY DEF Graph!memmove
<1>2. \A q \in 0 .. M - 1 : q \in dst .. dst + len - 1 => m[q + src - dst] \in BOOLEAN
  <2>. SUFFICES ASSUME NEW q \in 0 .. M - 1, q \in dst .. dst + len - 1 PROVE m[q + src - dst] \in BOOLEAN
    OBVIOUS
  <2>1. q + src - dst \in 0 .. M - 1
    BY SMT
  <2>. QED BY <2>1
<1>. HIDE DEF s
<1>3. s \in [0 .. M - 1 -> BOOLEAN]
  BY <1>1, <1>2
<1>4. \A q \in 0 .. M - 1 : /\ dst <= q /\ q < dst + len => q \in dst .. dst + len - 1
                            /\ q < dst \/ dst + len <= q => q \notin dst .. dst + len - 1
  BY SMT
<1>5. \A q \in 0 .. M - 1 : /\ dst <= q /\ q < dst + len => s[q] = m[q + src - dst]
                            /\ q < dst \/ dst + len <= q => s[q] = m[q]
  BY <1>1, <1>4
<1>. QED BY <1>3, <1>5 DEF s, Moved

\* The places of a vertex stand in order, the places between them too.
LEMMA PlacesAre ==
  ASSUME NEW n \in Nat, NEW v \in 1 .. n - 1
  PROVE  LET P == Graph!Places(n, v)
         IN /\ \A i \in 0 .. n - 2 : P[i] \in 0 .. Graph!matrix_count(n) - 1
            /\ \A i \in 0 .. n - 2 : P[i] = IF i < v THEN Graph!matrix_at(n, i, v) ELSE Graph!matrix_at(n, v, i + 1)
            /\ \A i, j \in 0 .. n - 2 : i < j => P[i] < P[j]
            /\ \A i, j \in 0 .. n - 2 : i <= j => P[i] - i <= P[j] - j
<1>. DEFINE P == Graph!Places(n, v)
            C == 0 .. n - 2
            Row(i) == IF i < v THEN i ELSE v
            Col(i) == IF i < v THEN v ELSE i + 1
<1>1. \A i \in C : P[i] = IF i < v THEN Graph!matrix_at(n, i, v) ELSE Graph!matrix_at(n, v, i + 1)
  BY DEF Graph!Places
<1>2. \A i \in C : P[i] = Graph!matrix_at(n, Row(i), Col(i))
  <2>. HIDE DEF P
  <2>. QED BY <1>1
<1>3. \A i \in C : Row(i) \in Nat /\ Col(i) \in Nat /\ Row(i) < Col(i) /\ Col(i) < n
  BY SMT
<1>4. \A i, j \in C : i < j => Row(i) < Row(j) \/ (Row(i) = Row(j) /\ Col(i) < Col(j))
  BY SMT
<1>. HIDE DEF P, Row, Col
<1>5. \A i \in C : P[i] \in 0 .. Graph!matrix_count(n) - 1
  BY <1>2, <1>3, AtRange
<1>6. \A i, j \in C : i < j => P[i] < P[j]
  <2>. SUFFICES ASSUME NEW i \in C, NEW j \in C, i < j PROVE P[i] < P[j]
    OBVIOUS
  <2>1. Graph!matrix_at(n, Row(i), Col(i)) < Graph!matrix_at(n, Row(j), Col(j))
    BY <1>3, <1>4, AtOrder
  <2>. QED BY <2>1, <1>2
<1>7. ASSUME NEW i \in C, NEW j \in C, i <= j PROVE P[i] - i <= P[j] - j
  <2>0. \A k \in C : P[k] \in Int
    BY <1>5, SMT
  <2>. DEFINE N == {k \in i .. j : ~ (P[i] - i <= P[k] - k)}
  <2>1. CASE N = {}
    <3>1. j \in i .. j
      BY <1>7, SMT
    <3>. QED BY <2>1, <3>1
  <2>2. CASE N # {}
    <3>1. N \in SUBSET Nat
      <4>1. N \subseteq i .. j
        OBVIOUS
      <4>2. i .. j \subseteq Nat
        BY SMT
      <4>. HIDE DEF N
      <4>. QED BY <4>1, <4>2
    <3>2. PICK k \in N : \A l \in N : k <= l
      <4>. HIDE DEF N
      <4>. QED BY <2>2, <3>1, Least
    <3>3. k \in i .. j /\ ~ (P[i] - i <= P[k] - k)
      BY <3>2
    <3>4. k # i
      BY <3>3, <2>0, SMT
    <3>5. k - 1 \in i .. j /\ ~ (k <= k - 1) /\ k - 1 \in C /\ k \in C /\ k - 1 < k
      BY <3>3, <3>4, SMT
    <3>6. P[i] - i <= P[k - 1] - (k - 1)
      BY <3>2, <3>5
    <3>7. P[k - 1] < P[k]
      BY <3>5, <1>6
    <3>8. P[i] \in Int /\ P[k - 1] \in Int /\ P[k] \in Int /\ k \in Int /\ i \in Int
      BY <2>0, <3>5
    <3>9. P[i] - i <= P[k] - k
      BY <3>6, <3>7, <3>8, SMT
    <3>. QED BY <3>9, <3>3
  <2>. QED BY <2>1, <2>2
<1>. QED BY <1>1, <1>5, <1>6, <1>7 DEF P

\* The array as the moves of ial_matrix_delete leave it.
CloseTurn(y, P, i) == Graph!memmove(y, P[i] - i, P[i] + 1, P[i + 1] - P[i] - 1)
CloseRun(m, P, x, n) == x = [i \in 0 .. n |-> IF i = 0 THEN m ELSE CloseTurn(x[i - 1], P, i - 1)]

LEMMA CloseRuns == ASSUME NEW m, NEW P, NEW n \in Nat PROVE \E x : CloseRun(m, P, x, n)
<1>. DEFINE N == {k \in Nat : ~ \E x : CloseRun(m, P, x, k)}
<1>1. SUFFICES ASSUME N # {} PROVE FALSE
  OBVIOUS
<1>2. PICK k \in N : \A i \in N : k <= i
  <2>1. N \in SUBSET Nat
    OBVIOUS
  <2>. QED BY <1>1, <2>1, Least
<1>3. CASE k = 0
  <2>. DEFINE x == [i \in 0 .. 0 |-> m]
  <2>1. CloseRun(m, P, x, 0)
    <3>1. \A i \in 0 .. 0 : i = 0
      BY SMT
    <3>. QED BY <3>1 DEF CloseRun
  <2>. QED BY <2>1, <1>3
<1>4. CASE k # 0
  <2>1. k - 1 \in Nat /\ k - 1 \notin N
    BY <1>2, <1>4, SMT
  <2>2. PICK x : CloseRun(m, P, x, k - 1)
    BY <2>1
  <2>. DEFINE z == [i \in 0 .. k |-> IF i = k THEN CloseTurn(x[k - 1], P, k - 1) ELSE x[i]]
              w == [i \in 0 .. k |-> IF i = 0 THEN m ELSE CloseTurn(z[i - 1], P, i - 1)]
  <2>3. ASSUME NEW i \in 0 .. k PROVE z[i] = w[i]
    <3>1. CASE i = k
      <4>1. z[k - 1] = x[k - 1]
        BY <2>1, SMT
      <4>. QED BY <4>1, <3>1, <1>4
    <3>2. CASE i # k /\ i = 0
      <4>1. 0 \in 0 .. k - 1
        BY <2>1, SMT
      <4>2. x[0] = m
        BY <4>1, <2>2 DEF CloseRun
      <4>. QED BY <4>2, <3>2
    <3>3. CASE i # k /\ i # 0
      <4>1. i \in 0 .. k - 1 /\ i - 1 \in 0 .. k /\ i - 1 # k
        BY <3>3, <2>1, SMT
      <4>2. x[i] = CloseTurn(x[i - 1], P, i - 1)
        BY <4>1, <3>3, <2>2 DEF CloseRun
      <4>3. z[i - 1] = x[i - 1]
        BY <4>1
      <4>. QED BY <4>2, <4>3, <3>3
    <3>. QED BY <3>1, <3>2, <3>3
  <2>4. z = w
    <3>. HIDE DEF CloseTurn
    <3>. QED BY <2>3
  <2>5. CloseRun(m, P, z, k)
    BY <2>4 DEF CloseRun
  <2>. QED BY <2>5, <1>2
<1>. QED BY <1>3, <1>4
\* After i moves what stood between the places before that of i is closed up, and the
\* rest is as it was.
Closed(y, m, P, i) ==
  /\ y \in [DOMAIN m -> BOOLEAN]
  /\ \A q \in DOMAIN m : q >= P[i] - i => y[q] = m[q]
  /\ \A k \in 0 .. i : \A s \in DOMAIN m : (k = 0 \/ P[k - 1] < s) /\ s < P[k] => y[s - k] = m[s]

LEMMA CloseIsClosed ==
  ASSUME NEW n \in Nat, NEW v \in 1 .. n - 1, NEW M \in Nat, Graph!matrix_count(n) <= M,
         NEW m \in [0 .. M - 1 -> BOOLEAN], NEW K \in 0 .. n - 2, NEW x,
         CloseRun(m, Graph!Places(n, v), x, K)
  PROVE  Closed(x[K], m, Graph!Places(n, v), K)
<1>. DEFINE P == Graph!Places(n, v)
            D == 0 .. M - 1
            C == 0 .. n - 2
<1>1. /\ \A i \in C : P[i] \in 0 .. M - 1
      /\ \A i, j \in C : i < j => P[i] < P[j]
      /\ \A i, j \in C : i <= j => P[i] - i <= P[j] - j
  <2>1. Graph!matrix_count(n) \in Nat
    BY CountIs
  <2>. DEFINE c == Graph!matrix_count(n)
  <2>2. \A i \in C : P[i] \in 0 .. c - 1
    BY PlacesAre
  <2>3. \A i \in 0 .. c - 1 : i \in 0 .. M - 1
    <3>. HIDE DEF c
    <3>. QED BY <2>1, SMT DEF c
  <2>. QED BY <2>2, <2>3, PlacesAre
<1>. HIDE DEF P
<1>2. x[0] = m /\ \A i \in 1 .. K : x[i] = CloseTurn(x[i - 1], P, i - 1)
  BY SMT DEF CloseRun, P
<1>3. DOMAIN m = D /\ 0 \in C /\ \A i \in C : P[i] \in Int
  BY <1>1, SMT
<1>4. P[0] - 0 >= 0 /\ \A i \in C : P[i] - i >= 0
  BY <1>1, <1>3, SMT
<1>5. Closed(x[0], m, P, 0)
  <2>1. \A k \in 0 .. 0 : k = 0
    BY SMT
  <2>2. \A s \in D : s - 0 = s
    BY SMT
  <2>. QED BY <1>2, <1>3, <2>1, <2>2 DEF Closed
<1>6. ASSUME NEW i \in 1 .. K, NEW y, Closed(y, m, P, i - 1) PROVE Closed(CloseTurn(y, P, i - 1), m, P, i)
  <2>. DEFINE j == i - 1
              d == P[j] - j
              l == P[i] - P[j] - 1
              s == CloseTurn(y, P, j)
  <2>1. /\ j \in C /\ i \in C /\ j < i /\ i = j + 1 /\ j \in 0 .. j
        /\ P[j] \in Int /\ P[i] \in Int /\ P[j] >= 0 /\ P[i] < M /\ P[j] < P[i] /\ d >= 0
    <3>1. j \in C /\ i \in C /\ j < i /\ i = j + 1 /\ j \in 0 .. j
      BY SMT
    <3>2. P[j] \in 0 .. M - 1 /\ P[i] \in 0 .. M - 1 /\ P[j] < P[i] /\ d >= 0
      BY <3>1, <1>1, <1>4
    <3>. QED BY <3>1, <3>2, SMT
  <2>2. /\ y \in [D -> BOOLEAN]
        /\ \A q \in D : q >= d => y[q] = m[q]
        /\ \A k \in 0 .. j : \A t \in D : (k = 0 \/ P[k - 1] < t) /\ t < P[k] => y[t - k] = m[t]
    BY <1>3, <1>6 DEF Closed
  <2>3. s = Graph!memmove(y, d, P[j] + 1, l)
    BY <2>1 DEF CloseTurn
  <2>. HIDE DEF s, j, C
  <2>4. /\ d \in Nat /\ P[j] + 1 \in Nat /\ l \in Int /\ d <= P[j] + 1 /\ (P[j] + 1) + l <= M
        /\ j \in Nat
    <3>. DEFINE pj == P[j] pi == P[i]
    <3>1. j \in Int /\ j >= 0
      BY <2>1, SMT
    <3>2. /\ pj \in Int /\ pi \in Int /\ pj >= 0 /\ pi < M /\ pj < pi /\ pj - j >= 0 /\ M \in Nat
          /\ d = pj - j /\ l = pi - pj - 1
      BY <2>1 DEF d, l
    <3>. HIDE DEF pj, pi, d, l
    <3>3. /\ d \in Nat /\ pj + 1 \in Nat /\ l \in Int /\ d <= pj + 1 /\ (pj + 1) + l <= M /\ j \in Nat
      BY <3>1, <3>2, SMT
    <3>. QED BY <3>3 DEF pj
  <2>5. /\ s \in [D -> BOOLEAN]
        /\ \A q \in D : /\ d <= q /\ q < d + l => s[q] = y[q + (P[j] + 1) - d]
                        /\ q < d \/ d + l <= q => s[q] = y[q]
    <3>. DEFINE f == P[j] + 1
    <3>. HIDE DEF d, l, f
    <3>1. f \in Nat /\ d \in Nat /\ l \in Int /\ d <= f /\ f + l <= M
      BY <2>4 DEF f
    <3>2. Moved(s, y, M, d, f, l)
      <4>1. y \in [0 .. M - 1 -> BOOLEAN]
        BY <2>2
      <4>2. s = Graph!memmove(y, d, f, l)
        BY <2>3 DEF f
      <4>. QED BY <3>1, <4>1, <4>2, MoveIs
    <3>. QED BY <3>2 DEF f, Moved
  <2>. DEFINE pj == P[j]
              pi == P[i]
  <2>10. /\ pj \in Int /\ pi \in Int /\ pj < pi /\ i \in Int /\ j \in Int /\ i = j + 1
         /\ d = pj - j /\ l = pi - pj - 1 /\ d \in Int /\ l \in Int
    <3>1. i \in Int /\ j \in Int
      BY <2>4, SMT
    <3>. QED BY <3>1, <2>1, <2>4
  <2>11. pj + 1 >= 0 /\ pi < M /\ j >= 0 /\ d >= 0
    BY <2>1, <2>4, SMT
  <2>. HIDE DEF d, l, pj, pi
  <2>6. d + l = P[i] - i /\ d <= P[i] - i
    <3>1. d + l = pi - i /\ d <= pi - i
      BY <2>10, SMT
    <3>. QED BY <3>1 DEF pi
  <2>7. ASSUME NEW q \in D, q >= P[i] - i PROVE s[q] = m[q]
    <3>1. d + l <= q /\ q >= d
      <4>1. d + l = pi - i /\ d <= pi - i /\ q >= pi - i /\ q \in Int
        BY <2>6, <2>7 DEF pi
      <4>. QED BY <4>1, <2>10, SMT
    <3>. QED BY <3>1, <2>5, <2>2
  <2>8. ASSUME NEW k \in 0 .. i, NEW t \in D, (k = 0 \/ P[k - 1] < t) /\ t < P[k] PROVE s[t - k] = m[t]
    <3>1. CASE k = i
      <4>1. P[j] < t /\ t < P[i] /\ k - 1 = j /\ k # 0
        <5>1. k - 1 = j /\ k # 0
          BY <3>1, <2>10, <2>11, SMT
        <5>. QED BY <2>8, <3>1, <5>1
      <4>. DEFINE q == t - k
      <4>2. /\ q \in D /\ d <= q /\ q < d + l /\ q + (P[j] + 1) - d = t /\ t >= d
        <5>1. pj < t /\ t < pi /\ t \in Int /\ k = i
          BY <4>1, <3>1 DEF pi, pj
        <5>2. t - i >= pj - j /\ t - i < pi - i /\ (t - i) + (pj + 1) - (pj - j) = t /\ t >= pj - j
          BY <5>1, <2>10, <2>11, SMT
        <5>3. pj - j >= 0 /\ pi - i < M
          BY <2>10, <2>11, SMT
        <5>4. t - i \in 0 .. M - 1
          BY <5>1, <5>2, <5>3, <2>10, SMT
        <5>5. d + l = pi - i
          BY <2>6 DEF pi
        <5>. QED BY <5>1, <5>2, <5>4, <5>5, <2>10 DEF pj
      <4>. HIDE DEF q
      <4>3. s[q] = y[q + (P[j] + 1) - d]
        BY <4>2, <2>5
      <4>4. s[q] = y[t]
        BY <4>2, <4>3
      <4>. QED BY <4>2, <4>4, <2>2 DEF q
    <3>2. CASE k # i
      <4>1. k \in 0 .. j /\ k \in C /\ k <= j
        BY <3>2, <2>1, <2>4, SMT DEF C
      <4>2. y[t - k] = m[t]
        BY <4>1, <2>8, <2>2
      <4>3. P[k] - k <= d /\ P[k] \in Int
        BY <4>1, <2>1, <1>1, <1>3 DEF d
      <4>4. t - k < d /\ t - k \in Int /\ t \in Int
        <5>. DEFINE pk == P[k]
        <5>1. pk - k <= d /\ pk \in Int /\ t < pk /\ t \in Int /\ k \in Int
          BY <4>1, <4>3, <2>8
        <5>. HIDE DEF pk
        <5>. QED BY <5>1, <2>10, SMT
      <4>5. t - k >= 0
        <5>1. CASE k = 0
          BY <5>1, SMT
        <5>2. CASE k # 0
          <6>1. k - 1 \in C /\ P[k - 1] < t
            BY <5>2, <4>1, <2>8, SMT DEF C
          <6>2. P[k - 1] - (k - 1) >= 0 /\ P[k - 1] \in Int
            BY <6>1, <1>4, <1>3
          <6>. QED BY <6>1, <6>2, <4>4, SMT
        <5>. QED BY <5>1, <5>2
      <4>6. t - k \in D /\ t - k < d
        BY <4>4, <4>5, SMT
      <4>. QED BY <4>2, <4>6, <2>5
    <3>. QED BY <3>1, <3>2
  <2>9. s = CloseTurn(y, P, i - 1)
    BY DEF s, j
  <2>. QED BY <2>5, <2>7, <2>8, <2>9, <1>3 DEF Closed
<1>. DEFINE N == {i \in 0 .. K : ~ Closed(x[i], m, P, i)}
<1>7. N = {}
  <2>1. SUFFICES ASSUME N # {} PROVE FALSE
    OBVIOUS
  <2>2. PICK k \in N : \A i \in N : k <= i
    <3>1. N \in SUBSET Nat
      <4>1. N \subseteq 0 .. K
        OBVIOUS
      <4>2. 0 .. K \subseteq Nat
        BY SMT
      <4>. HIDE DEF N
      <4>. QED BY <4>1, <4>2
    <3>. HIDE DEF N
    <3>. QED BY <2>1, <3>1, Least
  <2>3. k \in 0 .. K /\ ~ Closed(x[k], m, P, k)
    BY <2>2
  <2>4. k # 0
    BY <2>3, <1>5
  <2>5. k \in 1 .. K /\ k - 1 \in 0 .. K /\ ~ (k <= k - 1)
    BY <2>3, <2>4, SMT
  <2>6. Closed(x[k - 1], m, P, k - 1)
    BY <2>2, <2>5
  <2>. QED BY <2>3, <2>5, <2>6, <1>2, <1>6
<1>8. K \in 0 .. K
  BY SMT
<1>. QED BY <1>7, <1>8 DEF P

\* The vertex that comes to a place when another is deleted.
Up(v, a) == IF a < v THEN a ELSE a + 1

\* A pair moves down by the places before it that are closed up.
LEMMA ShiftIs ==
  ASSUME NEW n \in Nat, NEW v \in 1 .. n - 1, NEW a \in 0 .. n - 2, NEW b \in 0 .. n - 2, a < b
  PROVE  Graph!matrix_at(n - 1, a, b) =
           Graph!matrix_at(n, Up(v, a), Up(v, b)) - (IF a >= v THEN n - 1 ELSE IF b >= v THEN a + 1 ELSE a)
<1>. DEFINE u == Up(v, a)
            w == Up(v, b)
            s == Graph!matrix_at(n - 1, a, b)
            t == Graph!matrix_at(n, u, w)
<1>1. u \in Nat /\ w \in Nat /\ u < w /\ n - 1 \in Nat /\ a \in Nat /\ b \in Nat
  BY SMT DEF Up
<1>2. /\ s \in Int /\ 2 * s = 2 * (a * (n - 1)) + 2 * b - (a + 1) * (a + 2)
      /\ t \in Int /\ 2 * t = 2 * (u * n) + 2 * w - (u + 1) * (u + 2)
  BY <1>1, AtIs, ZenonT(40)
<1>. DEFINE p == a * n
            q == (a + 1) * (a + 2)
<1>3. p \in Int /\ q \in Int /\ a * (n - 1) = p - a
  BY SMT
<1>. HIDE DEF s, t
<1>4. CASE a < v
  <2>1. u = a /\ u * n = p /\ (u + 1) * (u + 2) = q
    BY <1>4 DEF Up
  <2>. HIDE DEF p, q
  <2>2. CASE b < v
    <3>1. w = b
      BY <2>2 DEF Up
    <3>2. 2 * s = 2 * (p - a) + 2 * b - q /\ 2 * t = 2 * p + 2 * b - q
      BY <1>2, <1>3, <2>1, <3>1 DEF q
    <3>3. s = t - a
      BY <3>2, <1>2, <1>3, SMT
    <3>. QED BY <3>3, <2>2, <1>4, SMT DEF s, t
  <2>3. CASE ~ (b < v)
    <3>1. w = b + 1
      BY <2>3 DEF Up
    <3>2. 2 * s = 2 * (p - a) + 2 * b - q /\ 2 * t = 2 * p + 2 * (b + 1) - q
      BY <1>2, <1>3, <2>1, <3>1 DEF q
    <3>3. s = t - (a + 1)
      BY <3>2, <1>2, <1>3, SMT
    <3>. QED BY <3>3, <2>3, <1>4, SMT DEF s, t
  <2>. QED BY <2>2, <2>3
<1>5. CASE ~ (a < v)
  <2>1. u = a + 1 /\ w = b + 1
    BY <1>5, SMT DEF Up
  <2>2. (a + 1) * n = p + n /\ ((a + 1) + 1) * ((a + 1) + 2) = q + 2 * a + 4
    BY SMT
  <2>. HIDE DEF p, q, u, w
  <2>3. 2 * s = 2 * (p - a) + 2 * b - q /\ 2 * t = 2 * (p + n) + 2 * (b + 1) - (q + 2 * a + 4)
    BY <1>2, <1>3, <2>1, <2>2 DEF q
  <2>4. s = t - (n - 1)
    BY <2>3, <1>2, <1>3, SMT
  <2>5. a >= v
    BY <1>5, SMT
  <2>. QED BY <2>4, <2>5 DEF s, t, u, w
<1>. QED BY <1>4, <1>5
\* Where a pair without the vertex stands among the places of the vertex.
LEMMA Between ==
  ASSUME NEW n \in Nat, NEW v \in 1 .. n - 1, NEW a \in 0 .. n - 2, NEW b \in 0 .. n - 2, a < b
  PROVE  LET P == Graph!Places(n, v)
             t == Graph!matrix_at(n, Up(v, a), Up(v, b))
         IN /\ a >= v => P[n - 2] < t
            /\ a < v /\ b < v => t < P[a] /\ (a = 0 \/ P[a - 1] < t)
            /\ a < v /\ b >= v => P[a] < t /\ t < P[a + 1] /\ a + 1 \in 0 .. n - 2
<1>. DEFINE P == Graph!Places(n, v)
            T(y, x) == Graph!matrix_at(n, y, x)
            t == Graph!matrix_at(n, Up(v, a), Up(v, b))
<1>1. \A i \in 0 .. n - 2 : P[i] = IF i < v THEN T(i, v) ELSE T(v, i + 1)
  BY PlacesAre
<1>2. \A y, x, w, u \in Nat : y < x /\ x < n /\ w < u /\ u < n /\ (y < w \/ (y = w /\ x < u)) => T(y, x) < T(w, u)
  BY AtOrder
<1>3. a \in Nat /\ b \in Nat /\ v \in Nat /\ a + 1 \in Nat /\ b + 1 \in Nat /\ b + 1 < n /\ n - 2 \in 0 .. n - 2 /\ v < n
  BY SMT
<1>. HIDE DEF P, T, t
<1>4. CASE a >= v
  <2>1. t = T(a + 1, b + 1)
    <3>1. Up(v, a) = a + 1 /\ Up(v, b) = b + 1
      BY <1>4, SMT DEF Up
    <3>. QED BY <3>1 DEF t, T
  <2>2. P[n - 2] = T(v, n - 1)
    <3>1. ~ (n - 2 < v) /\ (n - 2) + 1 = n - 1
      BY <1>4, SMT
    <3>. QED BY <3>1, <1>1, <1>3
  <2>3. n - 1 \in Nat /\ v < n - 1 /\ n - 1 < n /\ a + 1 < b + 1 /\ v < a + 1
    BY <1>4, SMT
  <2>4. T(v, n - 1) < T(a + 1, b + 1)
    BY <2>3, <1>2, <1>3
  <2>5. P[n - 2] < t /\ ~ (a < v)
    <3>1. ~ (a < v)
      BY <1>4, SMT
    <3>. QED BY <2>1, <2>2, <2>4, <3>1
  <2>. QED BY <2>5 DEF P, t
<1>5. CASE a < v /\ b < v
  <2>1. t = T(a, b)
    <3>1. Up(v, a) = a /\ Up(v, b) = b
      BY <1>5, SMT DEF Up
    <3>. QED BY <3>1 DEF t, T
  <2>2. P[a] = T(a, v)
    BY <1>1, <1>5
  <2>3. T(a, b) < T(a, v)
    BY <1>2, <1>3, <1>5, b < n
  <2>4. a = 0 \/ P[a - 1] < t
    <3>1. SUFFICES ASSUME a # 0 PROVE P[a - 1] < t
      OBVIOUS
    <3>2. a - 1 \in 0 .. n - 2 /\ a - 1 \in Nat /\ a - 1 < v /\ a - 1 < a
      BY <3>1, <1>5, SMT
    <3>3. P[a - 1] = T(a - 1, v)
      BY <3>2, <1>1
    <3>4. T(a - 1, v) < T(a, b)
      BY <3>2, <1>2, <1>3, <1>5, b < n
    <3>. QED BY <3>3, <3>4, <2>1
  <2>5. ~ (a >= v) /\ ~ (b >= v)
    BY <1>5, SMT
  <2>. QED BY <2>1, <2>2, <2>3, <2>4, <2>5 DEF P, t
<1>6. CASE a < v /\ b >= v
  <2>1. t = T(a, b + 1)
    <3>1. Up(v, a) = a /\ Up(v, b) = b + 1
      BY <1>6, SMT DEF Up
    <3>. QED BY <3>1 DEF t, T
  <2>2. P[a] = T(a, v)
    BY <1>1, <1>6
  <2>3. T(a, v) < T(a, b + 1)
    <3>1. v < b + 1 /\ a < b + 1
      BY <1>6, SMT
    <3>. QED BY <3>1, <1>2, <1>3, <1>6
  <2>4. a + 1 \in 0 .. n - 2
    BY <1>6, SMT
  <2>5. T(a, b + 1) < P[a + 1]
    <3>1. CASE a + 1 < v
      <4>1. P[a + 1] = T(a + 1, v)
        BY <3>1, <2>4, <1>1
      <4>2. a < b + 1 /\ a < a + 1
        BY <1>6, SMT
      <4>3. T(a, b + 1) < T(a + 1, v)
        BY <3>1, <4>2, <1>2, <1>3
      <4>. QED BY <4>1, <4>3
    <3>2. CASE ~ (a + 1 < v)
      <4>1. P[a + 1] = T(v, (a + 1) + 1)
        BY <3>2, <2>4, <1>1
      <4>2. a < b + 1 /\ (a + 1) + 1 \in Nat /\ v < (a + 1) + 1 /\ (a + 1) + 1 < n
        BY <1>6, <3>2, <2>4, SMT
      <4>3. T(a, b + 1) < T(v, (a + 1) + 1)
        BY <4>2, <1>2, <1>3, <1>6
      <4>. QED BY <4>1, <4>3
    <3>. QED BY <3>1, <3>2
  <2>6. ~ (a >= v) /\ ~ (b < v)
    BY <1>6, SMT
  <2>. QED BY <2>1, <2>2, <2>3, <2>4, <2>5, <2>6 DEF P, t
<1>. QED BY <1>4, <1>5, <1>6, SMT

\* Without a vertex the others are neighbours as they were.
LEMMA DeleteIs ==
  ASSUME NEW all \in Nat, NEW mx, IsMatrix(mx, all), NEW v \in 1 .. mx.vertices - 1, Graph!Deletable(mx, v)
  PROVE  LET md == Graph!matrix_delete(mx, v)
         IN /\ IsMatrix(md, all) /\ md.vertices = mx.vertices - 1
            /\ \A a, b \in 0 .. mx.vertices - 2 : Get(md, a, b) = Get(mx, Up(v, a), Up(v, b))
<1>. DEFINE n == mx.vertices
            m == mx.m
            M == Graph!matrix_count(all)
            c == Graph!matrix_count(n)
            P == Graph!Places(n, v)
            K == Graph!Moves(n, v)
            C == 0 .. n - 2
            D == 0 .. M - 1
            T(y, x) == Graph!matrix_at(n, y, x)
            R(y, x) == Graph!matrix_at(n - 1, y, x)
<1>1. /\ n \in Nat /\ n <= all /\ m \in [D -> BOOLEAN] /\ M \in Nat /\ c \in Nat /\ c <= M /\ n >= 2
      /\ DOMAIN m = D
  <2>1. /\ n \in Nat /\ n <= all /\ m \in [D -> BOOLEAN] /\ n >= 2
    BY SMT DEF IsMatrix
  <2>2. M \in Nat /\ c \in Nat /\ c <= M
    BY <2>1, CountIs, CountGrows
  <2>. QED BY <2>1, <2>2
<1>2. K \in C /\ (v + 1 = n => K = n - 3) /\ (v + 1 # n => K = v /\ K # 0)
  <2>1. v # 0 /\ K >= 0 /\ K = IF v + 1 = n THEN v - 2 ELSE v
    BY SMT DEF Graph!Deletable, Graph!Moves
  <2>. QED BY <2>1, <1>1, SMT
<1>3. \E x : x = [i \in 0 .. K |->
                    IF i = 0 THEN m
                    ELSE Graph!memmove(x[i - 1], P[i - 1] - (i - 1), P[i - 1] + 1, P[i] - P[i - 1] - 1)]
  <2>. HIDE DEF P, m, K
  <2>1. K \in Nat
    BY <1>1, <1>2, SMT
  <2>2. PICK x : CloseRun(m, P, x, K)
    BY <2>1, CloseRuns
  <2>3. \A i \in 0 .. K : i # 0 =>
           CloseTurn(x[i - 1], P, i - 1) =
             Graph!memmove(x[i - 1], P[i - 1] - (i - 1), P[i - 1] + 1, P[i] - P[i - 1] - 1)
    <3>1. \A i \in 0 .. K : (i - 1) + 1 = i
      BY <2>1, SMT
    <3>. QED BY <3>1 DEF CloseTurn
  <2>. QED BY <2>2, <2>3 DEF CloseRun
<1>4. PICK x :
        /\ x = [i \in 0 .. K |->
                  IF i = 0 THEN m
                  ELSE Graph!memmove(x[i - 1], P[i - 1] - (i - 1), P[i - 1] + 1, P[i] - P[i - 1] - 1)]
        /\ Graph!matrix_delete(mx, v) =
             [vertices |-> n - 1,
              m |-> IF v + 1 = n THEN x[K]
                    ELSE Graph!memmove(x[K], IF K = 0 THEN 0 ELSE P[K] - K, P[n - 2] + 1, c - P[n - 2] - 1)]
  BY <1>3 DEF Graph!matrix_delete
<1>5. CloseRun(m, P, x, K)
  <2>. HIDE DEF P, m, K
  <2>1. \A i \in 0 .. K : i # 0 =>
           CloseTurn(x[i - 1], P, i - 1) =
             Graph!memmove(x[i - 1], P[i - 1] - (i - 1), P[i - 1] + 1, P[i] - P[i - 1] - 1)
    <3>1. \A i \in 0 .. K : (i - 1) + 1 = i
      BY <1>1, <1>2, SMT
    <3>. QED BY <3>1 DEF CloseTurn
  <2>. QED BY <2>1, <1>4 DEF CloseRun
<1>6. Closed(x[K], m, P, K)
  <2>. HIDE DEF m, K
  <2>. QED BY <1>1, <1>2, <1>5, CloseIsClosed
<1>. DEFINE y == x[K]
            md == Graph!matrix_delete(mx, v)
<1>7. /\ y \in [D -> BOOLEAN]
      /\ \A q \in D : q >= P[K] - K => y[q] = m[q]
      /\ \A k \in 0 .. K : \A s \in D : (k = 0 \/ P[k - 1] < s) /\ s < P[k] => y[s - k] = m[s]
  BY <1>1, <1>6 DEF Closed
<1>8. /\ \A i \in C : P[i] \in 0 .. c - 1
      /\ \A i \in C : P[i] = IF i < v THEN T(i, v) ELSE T(v, i + 1)
      /\ \A i, j \in C : i <= j => P[i] - i <= P[j] - j
  BY <1>1, PlacesAre
<1>. HIDE DEF P, md, y, m, M, c, K
\* what a pair is in md, by its places
<1>9. ASSUME IsMatrix(md, all), md.vertices = n - 1,
             NEW a \in C, NEW b \in C, a < b,
             md.m[R(a, b)] = m[T(Up(v, a), Up(v, b))]
      PROVE  Get(md, a, b) = Get(mx, Up(v, a), Up(v, b))
  <2>1. a \in 0 .. md.vertices - 1 /\ b \in 0 .. md.vertices - 1
    BY <1>1, <1>9, SMT
  <2>2. Get(md, a, b) = md.m[R(a, b)]
    BY <1>9, <2>1, GetIs
  <2>3. Up(v, a) \in 0 .. n - 1 /\ Up(v, b) \in 0 .. n - 1 /\ Up(v, a) < Up(v, b)
    <3>1. a \in C /\ b \in C /\ a < b
      BY <1>9
    <3>. QED BY <3>1, <1>1, SMT DEF Up
  <2>4. Get(mx, Up(v, a), Up(v, b)) = mx.m[T(Up(v, a), Up(v, b))]
    BY <2>3, GetIs
  <2>. QED BY <2>2, <2>4, <1>9 DEF m
<1>10. ASSUME IsMatrix(md, all), md.vertices = n - 1,
              \A a, b \in C : a < b => md.m[R(a, b)] = m[T(Up(v, a), Up(v, b))]
       PROVE  \A a, b \in C : Get(md, a, b) = Get(mx, Up(v, a), Up(v, b))
  <2>. SUFFICES ASSUME NEW a \in C, NEW b \in C PROVE Get(md, a, b) = Get(mx, Up(v, a), Up(v, b))
    OBVIOUS
  <2>1. a \in 0 .. md.vertices - 1 /\ b \in 0 .. md.vertices - 1
    BY <1>1, <1>10, SMT
  <2>2. Up(v, a) \in 0 .. n - 1 /\ Up(v, b) \in 0 .. n - 1
    BY <1>1, SMT DEF Up
  <2>3. /\ Get(md, a, b) = Get(md, b, a) /\ ~ Get(md, a, a) /\ Get(md, a, a) \in BOOLEAN
    BY <1>10, <2>1, GetIs
  <2>4. /\ Get(mx, Up(v, a), Up(v, b)) = Get(mx, Up(v, b), Up(v, a))
        /\ ~ Get(mx, Up(v, a), Up(v, a)) /\ Get(mx, Up(v, a), Up(v, a)) \in BOOLEAN
    BY <2>2, GetIs
  <2>5. a < b \/ b < a \/ a = b
    BY <1>1, SMT
  <2>. QED BY <1>9, <1>10, <2>3, <2>4, <2>5
<1>11. ASSUME NEW a \in C, NEW b \in C, a < b
       PROVE  LET t == T(Up(v, a), Up(v, b))
              IN /\ t \in D /\ t \in 0 .. c - 1 /\ R(a, b) \in D
                 /\ a >= v => R(a, b) = t - (n - 1) /\ P[n - 2] < t
                 /\ a < v /\ b < v => R(a, b) = t - a /\ t < P[a] /\ (a = 0 \/ P[a - 1] < t)
                 /\ a < v /\ b >= v => /\ R(a, b) = t - (a + 1) /\ P[a] < t /\ t < P[a + 1] /\ a + 1 \in C
  <2>. DEFINE t == T(Up(v, a), Up(v, b))
  <2>1. Up(v, a) \in Nat /\ Up(v, b) \in Nat /\ Up(v, a) < Up(v, b) /\ Up(v, b) < n
    BY <1>1, <1>11, SMT DEF Up
  <2>2. t \in 0 .. c - 1
    BY <1>1, <2>1, AtRange DEF c
  <2>3. t \in D
    BY <1>1, <2>2, SMT
  <2>4. R(a, b) = t - (IF a >= v THEN n - 1 ELSE IF b >= v THEN a + 1 ELSE a)
    BY <1>1, <1>11, ShiftIs
  <2>5. /\ a >= v => P[n - 2] < t
        /\ a < v /\ b < v => t < P[a] /\ (a = 0 \/ P[a - 1] < t)
        /\ a < v /\ b >= v => P[a] < t /\ t < P[a + 1] /\ a + 1 \in C
    BY <1>1, <1>11, Between DEF P
  <2>6. R(a, b) \in D
    <3>. DEFINE c1 == Graph!matrix_count(n - 1)
    <3>1. n - 1 \in Nat /\ n - 1 <= all /\ a \in Nat /\ b \in Nat /\ b < n - 1 /\ all \in Nat
      BY <1>1, SMT
    <3>2. R(a, b) \in 0 .. c1 - 1 /\ c1 \in Nat /\ c1 <= M
      BY <3>1, <1>11, AtRange, CountIs, CountGrows DEF M
    <3>. HIDE DEF c1
    <3>. QED BY <3>2, <1>1, SMT
  <2>7. /\ a < v => ~ (a >= v)
        /\ b < v => ~ (b >= v)
    BY <1>1, SMT
  <2>. HIDE DEF t, R
  <2>8. /\ a >= v => R(a, b) = t - (n - 1)
        /\ a < v /\ b < v => R(a, b) = t - a
        /\ a < v /\ b >= v => R(a, b) = t - (a + 1)
    BY <2>4, <2>7
  <2>. QED BY <2>2, <2>3, <2>5, <2>6, <2>8 DEF t
\* the pairs closed up by the moves
<1>12. ASSUME NEW a \in C, NEW b \in C, a < b, a < v, v + 1 # n \/ b < v
       PROVE  /\ y[R(a, b)] = m[T(Up(v, a), Up(v, b))]
              /\ v + 1 # n => R(a, b) < P[v] - v
  <2>. DEFINE t == T(Up(v, a), Up(v, b))
  <2>1. t \in D /\ \A i \in C : P[i] \in Int
    BY <1>11, <1>12, <1>8, <1>1, SMT
  <2>2. CASE b < v
    <3>1. R(a, b) = t - a /\ t < P[a] /\ (a = 0 \/ P[a - 1] < t)
      BY <1>11, <1>12, <2>2
    <3>2. a \in 0 .. K
      BY <1>1, <1>2, <1>12, <2>2, SMT
    <3>3. y[t - a] = m[t]
      BY <2>1, <3>1, <3>2, <1>7
    <3>4. v + 1 # n => t - a < P[v] - v
      <4>1. SUFFICES ASSUME v + 1 # n PROVE t - a < P[v] - v
        OBVIOUS
      <4>2. v \in C /\ a <= v
        BY <4>1, <1>1, <1>12, SMT
      <4>. DEFINE pa == P[a] pv == P[v]
      <4>3. pa - a <= pv - v /\ pa \in Int /\ pv \in Int /\ t < pa /\ t \in Int
        BY <4>2, <1>8, <2>1, <3>1
      <4>. HIDE DEF t, pa, pv
      <4>4. t - a < pv - v
        BY <4>3, SMT
      <4>. QED BY <4>4 DEF pv
    <3>. QED BY <3>1, <3>3, <3>4
  <2>3. CASE ~ (b < v)
    <3>0. b >= v /\ v + 1 # n
      BY <2>3, <1>12, SMT
    <3>1. R(a, b) = t - (a + 1) /\ P[a] < t /\ t < P[a + 1] /\ a + 1 \in C
      BY <1>11, <1>12, <3>0
    <3>2. a + 1 \in 0 .. K /\ a = (a + 1) - 1
      BY <1>1, <1>2, <1>12, <3>0, SMT
    <3>3. y[t - (a + 1)] = m[t]
      BY <2>1, <3>1, <3>2, <1>7
    <3>4. t - (a + 1) < P[v] - v
      <4>2. v \in C /\ a + 1 <= v
        BY <3>0, <1>1, <1>12, SMT
      <4>. DEFINE pa == P[a + 1] pv == P[v]
      <4>3. pa - (a + 1) <= pv - v /\ pa \in Int /\ pv \in Int /\ t < pa /\ t \in Int
        BY <4>2, <1>8, <2>1, <3>1
      <4>. HIDE DEF t, pa, pv
      <4>4. t - (a + 1) < pv - v
        BY <4>3, SMT
      <4>. QED BY <4>4 DEF pv
    <3>. QED BY <3>1, <3>3, <3>4
  <2>. QED BY <2>2, <2>3
<1>13. CASE v + 1 = n
  <2>1. md = [vertices |-> n - 1, m |-> y]
    BY <1>4, <1>13 DEF md, y
  <2>2. IsMatrix(md, all) /\ md.vertices = n - 1 /\ md.m = y
    <3>1. n - 1 \in 0 .. all
      BY <1>1, SMT
    <3>. QED BY <2>1, <3>1, <1>7 DEF IsMatrix, M
  <2>3. ASSUME NEW a \in C, NEW b \in C, a < b PROVE md.m[R(a, b)] = m[T(Up(v, a), Up(v, b))]
    <3>1. a < v /\ b < v
      BY <1>1, <1>13, <2>3, SMT
    <3>. QED BY <3>1, <2>2, <2>3, <1>12
  <2>. QED BY <2>2, <2>3, <1>10 DEF md
<1>14. CASE v + 1 # n
  <2>. DEFINE e == P[n - 2]
              d == P[v] - v
              f == e + 1
              l == c - e - 1
  <2>1. md = [vertices |-> n - 1, m |-> Graph!memmove(y, d, f, l)]
    BY <1>2, <1>4, <1>14 DEF md, y
  <2>2. /\ n - 2 \in C /\ v \in C /\ v <= n - 2 /\ P[v] \in Int /\ e \in Int /\ e >= 0 /\ e <= c - 1
        /\ d >= 0 /\ d \in Int /\ d + n - 2 = e
    <3>1. n - 2 \in C /\ v \in C /\ 0 \in C /\ v <= n - 2 /\ 0 <= v /\ ~ (v < v) /\ ~ (n - 2 < v) /\ n - 1 \in Nat /\ v + 1 \in Nat
      BY <1>1, <1>14, SMT
    <3>2. P[v] = T(v, v + 1) /\ P[n - 2] = T(v, (n - 2) + 1)
      BY <3>1, <1>8
    <3>3. P[v] \in 0 .. c - 1 /\ P[n - 2] \in 0 .. c - 1 /\ P[0] \in 0 .. c - 1 /\ P[0] - 0 <= P[v] - v
      BY <3>1, <1>8
    <3>4. (n - 2) + 1 = n - 1 /\ v < v + 1 /\ v < n - 1 /\ v \in Nat
      BY <1>1, <1>14, SMT
    <3>. DEFINE s1 == T(v, v + 1) s2 == T(v, n - 1)
    <3>12. /\ n \in Int /\ v \in Int /\ c \in Int /\ n \in Nat
      BY <1>1, SMT
    <3>13. s1 \in Int /\ 2 * s1 = 2 * (v * n) + 2 * (v + 1) - (v + 1) * (v + 2)
      BY <3>1, <3>4, <3>12, AtIs, ZenonT(40)
    <3>14. s2 \in Int /\ 2 * s2 = 2 * (v * n) + 2 * (n - 1) - (v + 1) * (v + 2)
      BY <3>1, <3>4, <3>12, AtIs, ZenonT(40)
    <3>5. /\ s1 \in Int /\ 2 * s1 = 2 * (v * n) + 2 * (v + 1) - (v + 1) * (v + 2)
          /\ s2 \in Int /\ 2 * s2 = 2 * (v * n) + 2 * (n - 1) - (v + 1) * (v + 2)
      BY <3>13, <3>14
    <3>. DEFINE p == v * n q == (v + 1) * (v + 2)
    <3>6. p \in Int /\ q \in Int
      BY <1>1, SMT
    <3>. HIDE DEF s1, s2, p, q
    <3>7. s2 - s1 = n - 2 - v
      <4>1. 2 * s1 = 2 * p + 2 * (v + 1) - q /\ 2 * s2 = 2 * p + 2 * (n - 1) - q
        BY <3>5 DEF p, q
      <4>2. s1 \in Int /\ s2 \in Int
        BY <3>5
      <4>. QED BY <4>1, <4>2, <3>6, <3>12, SMT
    <3>8. P[v] = s1 /\ e = s2
      BY <3>2, <3>4 DEF s1, s2
    <3>9. e \in Int /\ e >= 0 /\ e <= c - 1 /\ P[v] \in Int
      BY <3>3, <1>1, SMT
    <3>10. d >= 0 /\ d \in Int
      <4>. DEFINE p0 == P[0] pv == P[v]
      <4>1. p0 \in 0 .. c - 1 /\ pv \in 0 .. c - 1 /\ p0 - 0 <= pv - v
        BY <3>3
      <4>. HIDE DEF p0, pv
      <4>2. pv - v >= 0 /\ pv - v \in Int
        BY <4>1, <1>1, SMT
      <4>. QED BY <4>2 DEF pv
    <3>11. d + n - 2 = e
      <4>1. (s1 - v) + n - 2 = s2
        <5>1. s1 \in Int /\ s2 \in Int
          BY <3>5
        <5>. QED BY <5>1, <3>7, <3>12, SMT
      <4>. QED BY <4>1, <3>8
    <3>. QED BY <3>1, <3>9, <3>10, <3>11
  <2>. DEFINE s == Graph!memmove(y, d, f, l)
  <2>. HIDE DEF d, e, f, l, s
  <2>3. /\ d \in Nat /\ f \in Nat /\ l \in Int /\ d <= f /\ f + l <= M
        /\ f - d = n - 1 /\ d + l = c - (n - 1)
    <3>1. f = e + 1 /\ l = c - e - 1
      BY DEF f, l
    <3>2. c \in Int /\ M \in Int /\ c <= M /\ n \in Int /\ n >= 2
      BY <1>1, SMT
    <3>3. e \in Int /\ e >= 0 /\ e <= c - 1 /\ d >= 0 /\ d \in Int /\ d + n - 2 = e
      BY <2>2
    <3>. QED BY <3>1, <3>2, <3>3, SMT
  <2>7. /\ c \in Int /\ M \in Int /\ c <= M /\ n \in Int /\ n >= 2
        /\ e \in Int /\ e >= 0 /\ e <= c - 1 /\ d >= 0 /\ d \in Int /\ d + n - 2 = e
        /\ f \in Int /\ l \in Int
    BY <1>1, <2>2, <2>3, SMT
  <2>4. Moved(s, y, M, d, f, l)
    BY <2>3, <1>1, <1>7, MoveIs DEF s
  <2>5. IsMatrix(md, all) /\ md.vertices = n - 1 /\ md.m = s
    <3>1. n - 1 \in 0 .. all
      BY <1>1, SMT
    <3>2. md = [vertices |-> n - 1, m |-> s]
      BY <2>1 DEF s, d, f, l, e
    <3>. QED BY <3>1, <3>2, <2>4 DEF IsMatrix, M, Moved
  <2>6. ASSUME NEW a \in C, NEW b \in C, a < b PROVE md.m[R(a, b)] = m[T(Up(v, a), Up(v, b))]
    <3>. DEFINE q == R(a, b)
                t == T(Up(v, a), Up(v, b))
    <3>1. q \in D /\ t \in D /\ t \in 0 .. c - 1
      BY <2>6, <1>11
    <3>2. CASE a < v
      <4>1. y[q] = m[t] /\ q < d
        BY <3>2, <2>6, <1>12, <1>14 DEF d
      <4>2. s[q] = y[q]
        BY <3>1, <4>1, <2>4 DEF Moved
      <4>. QED BY <4>1, <4>2, <2>5
    <3>3. CASE ~ (a < v)
      <4>0. a >= v
        BY <3>3, SMT
      <4>1. q = t - (n - 1) /\ e < t
        BY <4>0, <2>6, <1>11 DEF e
      <4>2. d <= q /\ q < d + l /\ q + f - d = t /\ t >= P[v] - v
        <5>1. t \in Int /\ t < c /\ t >= d /\ q \in Int
          <6>1. t \in Int /\ t < c /\ q \in Int
            BY <3>1, <2>7, SMT
          <6>2. e < t
            BY <4>1
          <6>. HIDE DEF t, q
          <6>. QED BY <6>1, <6>2, <2>7, SMT
        <5>2. d <= q /\ q < d + l /\ q + f - d = t
          <6>1. t \in Int /\ t < c /\ q \in Int /\ q = t - (n - 1) /\ e < t
            BY <5>1, <4>1
          <6>2. f - d = n - 1 /\ d + l = c - (n - 1)
            BY <2>3
          <6>. HIDE DEF t, q
          <6>. QED BY <6>1, <6>2, <2>7, SMT
        <5>. QED BY <5>1, <5>2 DEF d
      <4>3. s[q] = y[q + f - d]
        BY <3>1, <4>2, <2>4 DEF Moved
      <4>4. y[t] = m[t]
        BY <3>1, <4>2, <1>2, <1>14, <1>7
      <4>. QED BY <4>2, <4>3, <4>4, <2>5
    <3>. QED BY <3>2, <3>3
  <2>. QED BY <2>5, <2>6, <1>10 DEF md
<1>. QED BY <1>13, <1>14
\* There is an edge from one list of vertices to the other.
Touch(es, s, t) == \E i \in DOMAIN s, j \in DOMAIN t : <<s[i], t[j]>> \in es \/ <<t[j], s[i]>> \in es

LEMMA TouchBack == ASSUME NEW es, NEW s, NEW t PROVE Touch(es, s, t) <=> Touch(es, t, s)
  BY DEF Touch

\* Every vertex is in one list, once, and there are no edges within a list.
Parted(es, vs, all) ==
  /\ vs \in Seq(Seq(0 .. all - 1))
  /\ \A k \in DOMAIN vs : \A i, j \in DOMAIN vs[k] : vs[k][i] = vs[k][j] => i = j
  /\ \A k, l \in DOMAIN vs : \A i \in DOMAIN vs[k], j \in DOMAIN vs[l] : vs[k][i] = vs[l][j] => k = l
  /\ \A x \in 0 .. all - 1 : \E k \in DOMAIN vs : \E i \in DOMAIN vs[k] : vs[k][i] = x
  /\ \A k \in DOMAIN vs : ~ Touch(es, vs[k], vs[k])

\* The matrix shows which lists have an edge between them.
Shows(es, mx, vs) ==
  \A a, b \in 0 .. mx.vertices - 1 : a # b => (Get(mx, a, b) <=> Touch(es, vs[a + 1], vs[b + 1]))

\* Only the list that is being filled, and those before it, have more than one vertex.
Singles(mx, vs) ==
  \A a, b, k \in 0 .. mx.vertices - 1 : a < b /\ ~ Get(mx, a, b) /\ a < k => Len(vs[k + 1]) = 1

\* A list with the one vertex of another before it.
LEMMA ListIs ==
  ASSUME NEW S, NEW s \in Seq(S), NEW t \in Seq(S), Len(t) = 1
  PROVE  LET l == Graph!vertex_join(t, s)
         IN /\ l \in Seq(S) /\ DOMAIN l = 1 .. Len(s) + 1 /\ l[1] = t[1] /\ DOMAIN t = {1}
            /\ DOMAIN s = 1 .. Len(s) /\ Len(s) \in Nat
            /\ \A i \in 1 .. Len(s) : l[i + 1] = s[i]
            /\ \A i \in 2 .. Len(s) + 1 : i - 1 \in 1 .. Len(s) /\ l[i] = s[i - 1]
<1>. DEFINE l == Graph!vertex_join(t, s)
            h == <<t[1]>>
<1>1. /\ Len(s) \in Nat /\ DOMAIN s = 1 .. Len(s) /\ DOMAIN t = {1} /\ t[1] \in S
  <2>1. DOMAIN t = 1 .. 1 /\ 1 .. 1 = {1}
    BY LenProperties, SMT
  <2>2. t[1] \in S
    BY <2>1, ElementOfSeq, 1 \in 1 .. 1
  <2>. QED BY <2>1, <2>2, LenProperties
<1>2. h \in Seq(S) /\ Len(h) = 1 /\ h[1] = t[1]
  BY <1>1
<1>3. l = h \o s
  BY DEF Graph!vertex_join
<1>. HIDE DEF h, l
<1>12. /\ h \o s \in Seq(S) /\ Len(h \o s) = Len(h) + Len(s)
       /\ \A i \in 1 .. Len(h) + Len(s) : (h \o s)[i] = IF i <= Len(h) THEN h[i] ELSE s[i - Len(h)]
  <2>1. h \in Seq(S) /\ s \in Seq(S)
    BY <1>2
  <2>. QED BY <2>1, ConcatProperties, Zenon
<1>4. l \in Seq(S) /\ Len(l) = 1 + Len(s)
  BY <1>2, <1>3, <1>12
<1>5. \A i \in 1 .. 1 + Len(s) : l[i] = IF i <= 1 THEN h[i] ELSE s[i - 1]
  BY <1>2, <1>3, <1>12, Zenon
<1>6. DOMAIN l = 1 .. Len(s) + 1
  BY <1>1, <1>4, LenProperties, SMT
<1>7. l[1] = t[1]
  <2>1. 1 \in 1 .. 1 + Len(s) /\ 1 <= 1
    BY <1>1, SMT
  <2>. QED BY <2>1, <1>2, <1>5
<1>8. \A i \in 1 .. Len(s) : i + 1 \in 1 .. 1 + Len(s) /\ ~ (i + 1 <= 1) /\ (i + 1) - 1 = i
  BY <1>1, SMT
<1>9. \A i \in 2 .. Len(s) + 1 : i \in 1 .. 1 + Len(s) /\ ~ (i <= 1) /\ i - 1 \in 1 .. Len(s)
  BY <1>1, SMT
<1>10. \A i \in 1 .. Len(s) : l[i + 1] = s[i]
  BY <1>5, <1>8
<1>11. \A i \in 2 .. Len(s) + 1 : i - 1 \in 1 .. Len(s) /\ l[i] = s[i - 1]
  BY <1>5, <1>9
<1>. QED BY <1>1, <1>4, <1>6, <1>7, <1>10, <1>11 DEF l

\* It touches what one of the two touches.
LEMMA TouchJoined ==
  ASSUME NEW S, NEW s \in Seq(S), NEW t \in Seq(S), Len(t) = 1, NEW es, NEW u
  PROVE  Touch(es, Graph!vertex_join(t, s), u) <=> Touch(es, s, u) \/ Touch(es, t, u)
<1>. DEFINE l == Graph!vertex_join(t, s)
            By(x, y) == <<x, y>> \in es \/ <<y, x>> \in es
<1>1. /\ DOMAIN l = 1 .. Len(s) + 1 /\ l[1] = t[1] /\ DOMAIN t = {1}
      /\ DOMAIN s = 1 .. Len(s) /\ Len(s) \in Nat
      /\ \A i \in 1 .. Len(s) : l[i + 1] = s[i]
      /\ \A i \in 2 .. Len(s) + 1 : i - 1 \in 1 .. Len(s) /\ l[i] = s[i - 1]
  BY ListIs
<1>. HIDE DEF l
<1>2. /\ Touch(es, l, u) <=> \E i \in DOMAIN l, j \in DOMAIN u : By(l[i], u[j])
      /\ Touch(es, s, u) <=> \E i \in DOMAIN s, j \in DOMAIN u : By(s[i], u[j])
      /\ Touch(es, t, u) <=> \E i \in DOMAIN t, j \in DOMAIN u : By(t[i], u[j])
  BY DEF Touch
<1>. HIDE DEF By
<1>3. ASSUME NEW i \in DOMAIN l, NEW j \in DOMAIN u, By(l[i], u[j]) PROVE Touch(es, s, u) \/ Touch(es, t, u)
  <2>1. i = 1 \/ i \in 2 .. Len(s) + 1
    BY <1>1, SMT
  <2>2. CASE i = 1
    BY <2>2, <1>1, <1>2, <1>3
  <2>3. CASE i \in 2 .. Len(s) + 1
    BY <2>3, <1>1, <1>2, <1>3
  <2>. QED BY <2>1, <2>2, <2>3
<1>4. ASSUME NEW i \in DOMAIN s, NEW j \in DOMAIN u, By(s[i], u[j]) PROVE Touch(es, l, u)
  <2>1. i + 1 \in DOMAIN l /\ l[i + 1] = s[i]
    BY <1>1, SMT
  <2>. QED BY <2>1, <1>2, <1>4
<1>5. ASSUME NEW j \in DOMAIN u, By(t[1], u[j]) PROVE Touch(es, l, u)
  <2>1. 1 \in DOMAIN l
    BY <1>1, SMT
  <2>. QED BY <2>1, <1>1, <1>2, <1>5
<1>. QED BY <1>1, <1>2, <1>3, <1>4, <1>5 DEF l

\* A part of a sequence.
LEMMA PartIs ==
  ASSUME NEW S, NEW s \in Seq(S), NEW x \in Nat \ {0}, NEW y \in Nat, x <= y + 1, y <= Len(s)
  PROVE  /\ SubSeq(s, x, y) \in Seq(S) /\ Len(SubSeq(s, x, y)) = (y + 1) - x
         /\ \A k \in 1 .. (y + 1) - x : SubSeq(s, x, y)[k] = s[x + (k - 1)]
<1>1. \A i \in x .. y : s[i] \in S
  BY SMT
<1>. QED BY <1>1, SubSeqProperties, SMT

\* The lists when one is put before another and its place closed up.
Merged(vs, r, c) == SubSeq([vs EXCEPT ![r + 1] = Graph!vertex_join(vs[c + 1], vs[r + 1])], 1, c)
                    \o SubSeq([vs EXCEPT ![r + 1] = Graph!vertex_join(vs[c + 1], vs[r + 1])], c + 2, Len(vs))

IsMerged(S, ws, vs, r, c, n) ==
  /\ ws \in Seq(Seq(S)) /\ Len(ws) = n - 1
  /\ \A k \in 0 .. n - 2 : ws[k + 1] = IF k = r THEN Graph!vertex_join(vs[c + 1], vs[r + 1]) ELSE vs[Up(c, k) + 1]

LEMMA MergedIs ==
  ASSUME NEW S, NEW n \in Nat, NEW vs \in Seq(Seq(S)), Len(vs) = n,
         NEW r \in 0 .. n - 1, NEW c \in 0 .. n - 1, r < c, Len(vs[c + 1]) = 1
  PROVE  IsMerged(S, Merged(vs, r, c), vs, r, c, n)
<1>. DEFINE l == Graph!vertex_join(vs[c + 1], vs[r + 1])
            us == [vs EXCEPT ![r + 1] = l]
            p == SubSeq(us, 1, c)
            q == SubSeq(us, c + 2, n)
            w == p \o q
<1>1. r + 1 \in 1 .. n /\ c + 1 \in 1 .. n /\ DOMAIN vs = 1 .. n
  BY LenProperties, SMT
<1>2. vs[c + 1] \in Seq(S) /\ vs[r + 1] \in Seq(S)
  BY <1>1, ElementOfSeq
<1>3. l \in Seq(S)
  BY <1>2, ListIs
<1>. HIDE DEF l
<1>4. us \in Seq(Seq(S)) /\ Len(us) = n /\ \A k \in 1 .. n : us[k] = IF k = r + 1 THEN l ELSE vs[k]
  <2>1. us \in Seq(Seq(S)) /\ Len(us) = Len(vs)
    BY <1>1, <1>3, ExceptSeq
  <2>2. \A k \in 1 .. n : us[k] = IF k = r + 1 THEN l ELSE vs[k]
    BY <1>1
  <2>. QED BY <2>1, <2>2
<1>. HIDE DEF us
<1>10. \A k \in 1 .. n : us[k] \in Seq(S)
  BY <1>4, ElementOfSeq
<1>5. p \in Seq(Seq(S)) /\ Len(p) = c /\ \A k \in 1 .. c : p[k] = us[k]
  <2>1. 1 \in Nat \ {0} /\ c \in Nat /\ 1 <= c + 1 /\ c <= Len(us)
    BY <1>4, SMT
  <2>2. p \in Seq(Seq(S)) /\ Len(p) = (c + 1) - 1 /\ \A k \in 1 .. (c + 1) - 1 : p[k] = us[1 + (k - 1)]
    BY <2>1, <1>4, PartIs
  <2>3. (c + 1) - 1 = c /\ \A k \in 1 .. c : 1 + (k - 1) = k
    BY SMT
  <2>. HIDE DEF p
  <2>. QED BY <2>2, <2>3
<1>6. q \in Seq(Seq(S)) /\ Len(q) = n - c - 1 /\ \A k \in 1 .. n - c - 1 : q[k] = us[c + 1 + k]
  <2>1. c + 2 \in Nat \ {0} /\ n \in Nat /\ c + 2 <= n + 1 /\ n <= Len(us)
    BY <1>4, SMT
  <2>2. /\ q \in Seq(Seq(S)) /\ Len(q) = (n + 1) - (c + 2)
        /\ \A k \in 1 .. (n + 1) - (c + 2) : q[k] = us[(c + 2) + (k - 1)]
    BY <2>1, <1>4, PartIs
  <2>3. (n + 1) - (c + 2) = n - c - 1 /\ \A k \in 1 .. n - c - 1 : (c + 2) + (k - 1) = c + 1 + k
    BY SMT
  <2>. HIDE DEF q
  <2>. QED BY <2>2, <2>3
<1>7. w \in Seq(Seq(S)) /\ Len(w) = n - 1
  <2>1. w \in Seq(Seq(S)) /\ Len(w) = Len(p) + Len(q)
    BY <1>5, <1>6, ConcatProperties
  <2>2. c \in Int /\ c + (n - c - 1) = n - 1
    BY SMT
  <2>. QED BY <2>1, <2>2, <1>5, <1>6
<1>8. \A k \in 1 .. n - 1 : w[k] = IF k <= c THEN p[k] ELSE q[k - c]
  <2>1. \A k \in 1 .. Len(p) + Len(q) : w[k] = IF k <= Len(p) THEN p[k] ELSE q[k - Len(p)]
    BY <1>5, <1>6, ConcatProperties
  <2>2. c + (n - c - 1) = n - 1
    BY SMT
  <2>. QED BY <2>1, <2>2, <1>5, <1>6
<1>. HIDE DEF p, q, w
<1>9. ASSUME NEW k \in 0 .. n - 2 PROVE w[k + 1] = IF k = r THEN l ELSE vs[Up(c, k) + 1]
  <2>1. CASE k < c
    <3>1. k + 1 \in 1 .. n - 1 /\ k + 1 <= c /\ k + 1 \in 1 .. c /\ k + 1 \in 1 .. n /\ (k = r <=> k + 1 = r + 1)
      BY <2>1, SMT
    <3>2. Up(c, k) = k
      BY <2>1 DEF Up
    <3>. QED BY <3>1, <3>2, <1>4, <1>5, <1>8
  <2>2. CASE ~ (k < c)
    <3>1. /\ k + 1 \in 1 .. n - 1 /\ ~ (k + 1 <= c) /\ (k + 1) - c \in 1 .. n - c - 1
          /\ c + 1 + ((k + 1) - c) = (k + 1) + 1 /\ (k + 1) + 1 \in 1 .. n /\ k # r /\ (k + 1) + 1 # r + 1
      BY <2>2, SMT
    <3>2. Up(c, k) = k + 1
      BY <2>2 DEF Up
    <3>. QED BY <3>1, <3>2, <1>4, <1>6, <1>8
  <2>. QED BY <2>1, <2>2
<1>11. Merged(vs, r, c) = w
  BY DEF Merged, w, p, q, us, l
<1>. QED BY <1>7, <1>9, <1>11 DEF l, IsMerged

\* A merged list touches what one of the two touched.
LEMMA MergedTouch ==
  ASSUME NEW all \in Nat, NEW es, NEW vs, Parted(es, vs, all), NEW n \in Nat, Len(vs) = n,
         NEW r \in 0 .. n - 1, NEW c \in 0 .. n - 1, r < c, Len(vs[c + 1]) = 1
  PROVE  LET ws == Merged(vs, r, c)
         IN \A k, j \in 0 .. n - 2 : k # j =>
              (Touch(es, ws[k + 1], ws[j + 1]) <=>
                 IF k = r THEN Touch(es, vs[r + 1], vs[Up(c, j) + 1]) \/ Touch(es, vs[c + 1], vs[Up(c, j) + 1])
                 ELSE IF j = r THEN Touch(es, vs[r + 1], vs[Up(c, k) + 1]) \/ Touch(es, vs[c + 1], vs[Up(c, k) + 1])
                 ELSE Touch(es, vs[Up(c, k) + 1], vs[Up(c, j) + 1]))
<1>. DEFINE ws == Merged(vs, r, c)
            S == 0 .. all - 1
            l == Graph!vertex_join(vs[c + 1], vs[r + 1])
<1>1. \A k \in 0 .. n - 2 : ws[k + 1] = IF k = r THEN l ELSE vs[Up(c, k) + 1]
  <2>1. vs \in Seq(Seq(S))
    BY DEF Parted
  <2>2. IsMerged(S, Merged(vs, r, c), vs, r, c, n)
    BY <2>1, MergedIs, Zenon
  <2>. QED BY <2>2 DEF IsMerged
<1>2. vs[c + 1] \in Seq(S) /\ vs[r + 1] \in Seq(S)
  <2>1. r + 1 \in 1 .. n /\ c + 1 \in 1 .. n
    BY SMT
  <2>. QED BY <2>1, ElementOfSeq DEF Parted
<1>3. \A u : Touch(es, l, u) <=> Touch(es, vs[r + 1], u) \/ Touch(es, vs[c + 1], u)
  BY <1>2, TouchJoined
<1>4. \A u : Touch(es, u, l) <=> Touch(es, vs[r + 1], u) \/ Touch(es, vs[c + 1], u)
  BY <1>3, TouchBack
<1>. HIDE DEF ws, l
<1>5. ASSUME NEW k \in 0 .. n - 2, NEW j \in 0 .. n - 2, k # j
      PROVE  Touch(es, ws[k + 1], ws[j + 1]) <=>
                 IF k = r THEN Touch(es, vs[r + 1], vs[Up(c, j) + 1]) \/ Touch(es, vs[c + 1], vs[Up(c, j) + 1])
                 ELSE IF j = r THEN Touch(es, vs[r + 1], vs[Up(c, k) + 1]) \/ Touch(es, vs[c + 1], vs[Up(c, k) + 1])
                 ELSE Touch(es, vs[Up(c, k) + 1], vs[Up(c, j) + 1])
  BY <1>1, <1>3, <1>4, <1>5
<1>. QED BY <1>5 DEF ws

\* Merging lists that do not touch leaves every vertex in one list.
LEMMA MergedParts ==
  ASSUME NEW all \in Nat, NEW es \in SUBSET Graph!Pairs(all), NEW vs, Parted(es, vs, all), NEW n \in Nat, Len(vs) = n,
         NEW r \in 0 .. n - 1, NEW c \in 0 .. n - 1, r < c, Len(vs[c + 1]) = 1,
         ~ Touch(es, vs[r + 1], vs[c + 1])
  PROVE  Parted(es, Merged(vs, r, c), all)
<1>. DEFINE ws == Merged(vs, r, c)
            S == 0 .. all - 1
            s == vs[r + 1]
            t == vs[c + 1]
            l == Graph!vertex_join(t, s)
<1>1. /\ ws \in Seq(Seq(S)) /\ Len(ws) = n - 1
      /\ \A k \in 0 .. n - 2 : ws[k + 1] = IF k = r THEN l ELSE vs[Up(c, k) + 1]
  <2>1. vs \in Seq(Seq(S))
    BY DEF Parted
  <2>2. IsMerged(S, Merged(vs, r, c), vs, r, c, n)
    BY <2>1, MergedIs, Zenon
  <2>. QED BY <2>2 DEF IsMerged
<1>2. /\ vs \in Seq(Seq(S)) /\ DOMAIN vs = 1 .. n /\ r + 1 \in DOMAIN vs /\ c + 1 \in DOMAIN vs
      /\ s \in Seq(S) /\ t \in Seq(S) /\ r + 1 # c + 1
  <2>1. r + 1 \in 1 .. n /\ c + 1 \in 1 .. n /\ r + 1 # c + 1
    BY SMT
  <2>2. vs \in Seq(Seq(S)) /\ DOMAIN vs = 1 .. n
    BY LenProperties DEF Parted
  <2>. QED BY <2>1, <2>2, ElementOfSeq
<1>3. /\ l \in Seq(S) /\ DOMAIN l = 1 .. Len(s) + 1 /\ l[1] = t[1] /\ DOMAIN t = {1}
      /\ DOMAIN s = 1 .. Len(s) /\ Len(s) \in Nat
      /\ \A i \in 1 .. Len(s) : l[i + 1] = s[i]
      /\ \A i \in 2 .. Len(s) + 1 : i - 1 \in 1 .. Len(s) /\ l[i] = s[i - 1]
  BY <1>2, ListIs, SMTT(40)
\* the index of a list of ws among those of vs
<1>. DEFINE Old(k) == Up(c, k - 1) + 1
<1>4. DOMAIN ws = 1 .. n - 1
  BY <1>1, LenProperties
<1>5. \A k \in DOMAIN ws : Old(k) \in DOMAIN vs /\ Old(k) # c + 1 /\ (k = r + 1 <=> Old(k) = r + 1)
  <2>. SUFFICES ASSUME NEW k \in 1 .. n - 1
                PROVE Old(k) \in 1 .. n /\ Old(k) # c + 1 /\ (k = r + 1 <=> Old(k) = r + 1)
    BY <1>2, <1>4
  <2>. QED BY SMT DEF Up
<1>6. \A k, j \in DOMAIN ws : Old(k) = Old(j) => k = j
  <2>. SUFFICES ASSUME NEW k \in 1 .. n - 1, NEW j \in 1 .. n - 1, Old(k) = Old(j) PROVE k = j
    BY <1>4
  <2>. QED BY SMT DEF Up
<1>7. \A k \in DOMAIN vs : k # c + 1 => \E j \in DOMAIN ws : Old(j) = k
  <2>. SUFFICES ASSUME NEW k \in 1 .. n, k # c + 1 PROVE \E j \in 1 .. n - 1 : Old(j) = k
    BY <1>2, <1>4
  <2>. DEFINE j == IF k <= c THEN k ELSE k - 1
  <2>1. j \in 1 .. n - 1 /\ Old(j) = k
    BY SMT DEF Up
  <2>. QED BY <2>1
<1>8. \A k \in DOMAIN ws : ws[k] = IF Old(k) = r + 1 THEN l ELSE vs[Old(k)]
  <2>. SUFFICES ASSUME NEW k \in 1 .. n - 1 PROVE ws[k] = IF Old(k) = r + 1 THEN l ELSE vs[Old(k)]
    BY <1>4
  <2>1. k - 1 \in 0 .. n - 2 /\ (k - 1) + 1 = k /\ (k - 1 = r <=> k = r + 1)
    BY SMT
  <2>2. ws[(k - 1) + 1] = IF k - 1 = r THEN l ELSE vs[Up(c, k - 1) + 1]
    BY <2>1, <1>1
  <2>3. k = r + 1 <=> Old(k) = r + 1
    BY <1>4, <1>5
  <2>. QED BY <2>1, <2>2, <2>3
<1>9. /\ \A k \in DOMAIN vs : \A i, j \in DOMAIN vs[k] : vs[k][i] = vs[k][j] => i = j
      /\ \A k, j \in DOMAIN vs : \A i \in DOMAIN vs[k], h \in DOMAIN vs[j] : vs[k][i] = vs[j][h] => k = j
      /\ \A x \in S : \E k \in DOMAIN vs : \E i \in DOMAIN vs[k] : vs[k][i] = x
      /\ \A k \in DOMAIN vs : ~ Touch(es, vs[k], vs[k])
  BY DEF Parted
<1>. HIDE DEF ws, Old, l, s, t
<1>10. ASSUME NEW i \in DOMAIN l
       PROVE  (i = 1 /\ l[i] = t[1]) \/ (i # 1 /\ i - 1 \in DOMAIN s /\ l[i] = s[i - 1])
  <2>1. i = 1 \/ (i # 1 /\ i \in 2 .. Len(s) + 1)
    BY <1>3, SMT
  <2>. QED BY <2>1, <1>3
<1>11. \A i \in DOMAIN s : s[i] # t[1]
  <2>1. r + 1 \in DOMAIN vs /\ c + 1 \in DOMAIN vs /\ r + 1 # c + 1 /\ 1 \in DOMAIN vs[c + 1]
    BY <1>2, <1>3 DEF t
  <2>. QED BY <2>1, <1>9 DEF s, t
<1>12. \A i, j \in DOMAIN s : s[i] = s[j] => i = j
  BY <1>2, <1>9 DEF s
<1>13. \A i, j \in DOMAIN l : l[i] = l[j] => i = j
  <2>. SUFFICES ASSUME NEW i \in DOMAIN l, NEW j \in DOMAIN l, l[i] = l[j] PROVE i = j
    OBVIOUS
  <2>1. i \in Int /\ j \in Int
    BY <1>3, SMT
  <2>2. i - 1 = j - 1 => i = j
    BY <2>1, SMT
  <2>. QED BY <2>2, <1>10, <1>11, <1>12
<1>14. \A i \in DOMAIN l : l[i] = vs[c + 1][1] \/ \E j \in DOMAIN vs[r + 1] : l[i] = vs[r + 1][j]
  BY <1>10 DEF s, t
<1>15. ASSUME NEW k \in DOMAIN ws, NEW i \in DOMAIN ws[k]
       PROVE  \/ \E h \in DOMAIN vs[Old(k)] : ws[k][i] = vs[Old(k)][h]
              \/ Old(k) = r + 1 /\ ws[k][i] = vs[c + 1][1]
  <2>1. CASE Old(k) = r + 1
    BY <2>1, <1>8, <1>14, <1>15
  <2>2. CASE Old(k) # r + 1
    BY <2>2, <1>8, <1>15
  <2>. QED BY <2>1, <2>2
<1>16. 1 \in DOMAIN vs[c + 1]
  BY <1>3 DEF t
<1>17. \A k \in DOMAIN ws : \A i, j \in DOMAIN ws[k] : ws[k][i] = ws[k][j] => i = j
  <2>. SUFFICES ASSUME NEW k \in DOMAIN ws, NEW i \in DOMAIN ws[k], NEW j \in DOMAIN ws[k], ws[k][i] = ws[k][j]
                PROVE  i = j
    OBVIOUS
  <2>1. CASE Old(k) = r + 1
    BY <2>1, <1>8, <1>13
  <2>2. CASE Old(k) # r + 1
    BY <2>2, <1>5, <1>8, <1>9
  <2>. QED BY <2>1, <2>2
<1>18. ASSUME NEW k \in DOMAIN ws, NEW j \in DOMAIN ws, NEW i \in DOMAIN ws[k], NEW h \in DOMAIN ws[j],
              ws[k][i] = ws[j][h]
       PROVE  k = j
  <2>1. Old(k) \in DOMAIN vs /\ Old(j) \in DOMAIN vs /\ Old(k) # c + 1 /\ Old(j) # c + 1 /\ c + 1 \in DOMAIN vs
    BY <1>2, <1>5
  <2>2. \/ \E e \in DOMAIN vs[Old(k)] : ws[k][i] = vs[Old(k)][e]
        \/ Old(k) = r + 1 /\ ws[k][i] = vs[c + 1][1]
    BY <1>15
  <2>3. \/ \E e \in DOMAIN vs[Old(j)] : ws[j][h] = vs[Old(j)][e]
        \/ Old(j) = r + 1 /\ ws[j][h] = vs[c + 1][1]
    BY <1>15
  <2>4. Old(k) = Old(j)
    BY <2>1, <2>2, <2>3, <1>9, <1>16, <1>18
  <2>. QED BY <2>4, <1>6
<1>19. ASSUME NEW x \in S PROVE \E k \in DOMAIN ws : \E i \in DOMAIN ws[k] : ws[k][i] = x
  <2>0. PICK k \in DOMAIN vs : \E i \in DOMAIN vs[k] : vs[k][i] = x
    BY <1>9
  <2>1. PICK i \in DOMAIN vs[k] : vs[k][i] = x
    BY <2>0
  <2>2. CASE k = c + 1
    <3>1. i = 1 /\ x = t[1]
      BY <2>1, <2>2, <1>3 DEF t
    <3>2. PICK j \in DOMAIN ws : Old(j) = r + 1
      BY <1>2, <1>7
    <3>3. ws[j] = l /\ 1 \in DOMAIN l
      BY <3>2, <1>3, <1>8, SMT
    <3>. QED BY <3>1, <3>3, <1>3
  <2>3. CASE k = r + 1
    <3>1. PICK j \in DOMAIN ws : Old(j) = r + 1
      BY <1>2, <1>7
    <3>2. ws[j] = l
      BY <3>1, <1>8
    <3>3. i \in DOMAIN s /\ s[i] = x
      BY <2>1, <2>3 DEF s
    <3>4. i + 1 \in DOMAIN l /\ i \in 1 .. Len(s)
      BY <3>3, <1>3, SMTT(30)
    <3>. QED BY <3>2, <3>3, <3>4, <1>3
  <2>4. CASE k # c + 1 /\ k # r + 1
    <3>1. PICK j \in DOMAIN ws : Old(j) = k
      BY <2>1, <2>4, <1>7
    <3>2. ws[j] = vs[k]
      BY <3>1, <2>4, <1>8
    <3>. QED BY <2>1, <3>2
  <2>. QED BY <2>2, <2>3, <2>4
<1>20. ASSUME NEW k \in DOMAIN ws PROVE ~ Touch(es, ws[k], ws[k])
  <2>1. CASE Old(k) # r + 1
    BY <2>1, <1>5, <1>8, <1>9
  <2>2. CASE Old(k) = r + 1
    <3>1. \A u : Touch(es, l, u) <=> Touch(es, s, u) \/ Touch(es, t, u)
      <4>1. Len(t) = 1
        BY DEF t
      <4>. QED BY <4>1, <1>2, TouchJoined DEF l
    <3>2. ~ Touch(es, s, s) /\ ~ Touch(es, t, t) /\ ~ Touch(es, s, t) /\ ~ Touch(es, t, s)
      <4>1. ~ Touch(es, s, s) /\ ~ Touch(es, t, t)
        BY <1>2, <1>9 DEF s, t
      <4>2. ~ Touch(es, s, t)
        BY DEF s, t
      <4>. QED BY <4>1, <4>2, TouchBack
    <3>3. ~ Touch(es, l, l)
      BY <3>1, <3>2, TouchBack
    <3>. QED BY <3>3, <2>2, <1>8
  <2>. QED BY <2>1, <2>2
<1>21. Parted(es, ws, all)
  BY <1>1, <1>17, <1>18, <1>19, <1>20 DEF Parted
<1>. QED BY <1>21 DEF ws
\* What holds of the matrix and the lists until the colours are printed.
Colours(es, mx, vs, all) ==
  /\ IsMatrix(mx, all) /\ Len(vs) = mx.vertices
  /\ Parted(es, vs, all) /\ Shows(es, mx, vs) /\ Singles(mx, vs)

\* The matrix of the graph that was read.
Drawn(es, mx, n) ==
  /\ IsMatrix(mx, n) /\ mx.vertices = n
  /\ \A q \in 0 .. Graph!matrix_count(n) - 1 :
       mx.m[q] <=> \E e \in es : Graph!matrix_at(n, e[1], e[2]) = q

\* At first every vertex is a list, and the matrix shows the edges.
LEMMA ColoursInit ==
  ASSUME NEW n \in Nat, NEW es \in SUBSET Graph!Pairs(n), NEW vs, NEW mx,
         vs = [v \in 1 .. n |-> <<v - 1>>], Drawn(es, mx, n)
  PROVE  Colours(es, mx, vs, n)
<1>. DEFINE S == 0 .. n - 1
            T(y, x) == Graph!matrix_at(n, y, x)
<1>1. /\ IsMatrix(mx, n) /\ mx.vertices = n
      /\ \A q \in 0 .. Graph!matrix_count(n) - 1 : mx.m[q] <=> \E e \in es : T(e[1], e[2]) = q
  BY DEF Drawn
<1>2. vs \in Seq(Seq(S)) /\ Len(vs) = n /\ DOMAIN vs = 1 .. n
  <2>1. \A v \in 1 .. n : v - 1 \in S
    BY SMT
  <2>2. \A v \in 1 .. n : <<v - 1>> \in Seq(S)
    BY <2>1
  <2>. HIDE DEF S
  <2>3. vs \in [1 .. n -> Seq(S)]
    BY <2>2
  <2>. QED BY <2>3, SMT
<1>3. \A a \in S : a + 1 \in 1 .. n /\ vs[a + 1] = <<a>>
  <2>1. \A a \in S : a + 1 \in 1 .. n /\ (a + 1) - 1 = a
    BY SMT
  <2>. QED BY <2>1
<1>4. \A k \in 1 .. n : k - 1 \in S /\ vs[k] = <<k - 1>> /\ DOMAIN vs[k] = {1} /\ vs[k][1] = k - 1
  <2>1. \A k \in 1 .. n : k - 1 \in S
    BY SMT
  <2>. QED BY <2>1
<1>5. \A e \in es : e = <<e[1], e[2]>> /\ e[1] \in S /\ e[2] \in S /\ e[1] < e[2]
  BY DEF Graph!Pairs
<1>6. \A a, b : Touch(es, <<a>>, <<b>>) <=> <<a, b>> \in es \/ <<b, a>> \in es
  <2>1. \A x : DOMAIN <<x>> = {1} /\ <<x>>[1] = x
    OBVIOUS
  <2>. QED BY <2>1, Zenon DEF Touch
<1>7. ASSUME NEW a \in S, NEW b \in S, a < b PROVE Get(mx, a, b) <=> Touch(es, <<a>>, <<b>>)
  <2>1. a \in Nat /\ b \in Nat /\ a < n /\ b < n
    BY SMT
  <2>2. Get(mx, a, b) = mx.m[T(a, b)] /\ T(a, b) \in 0 .. Graph!matrix_count(n) - 1
    <3>1. a \in 0 .. mx.vertices - 1 /\ b \in 0 .. mx.vertices - 1
      BY <1>1
    <3>2. /\ Graph!matrix_at(mx.vertices, a, b) \in 0 .. Graph!matrix_count(n) - 1
          /\ Get(mx, a, b) = mx.m[Graph!matrix_at(mx.vertices, a, b)]
      BY <3>1, <1>1, <1>7, GetIs
    <3>. QED BY <3>2, <1>1
  <2>3. Get(mx, a, b) <=> \E e \in es : T(e[1], e[2]) = T(a, b)
    BY <2>2, <1>1
  <2>4. ASSUME NEW e \in es, T(e[1], e[2]) = T(a, b) PROVE <<a, b>> \in es
    <3>1. e[1] \in Nat /\ e[2] \in Nat /\ e[1] < e[2] /\ e[2] < n
      BY <1>5, SMT
    <3>2. e[1] = a /\ e[2] = b
      BY <3>1, <2>1, <2>4, <1>7, AtOnce, SMTT(40)
    <3>. QED BY <3>2, <1>5
  <2>5. <<a, b>> \in es => \E e \in es : T(e[1], e[2]) = T(a, b)
    <3>. DEFINE e == <<a, b>>
    <3>1. e[1] = a /\ e[2] = b
      OBVIOUS
    <3>. HIDE DEF e
    <3>2. e \in es => T(e[1], e[2]) = T(a, b)
      BY <3>1
    <3>. QED BY <3>2 DEF e
  <2>6. <<b, a>> \notin es
    <3>. SUFFICES ASSUME <<b, a>> \in es PROVE FALSE
      OBVIOUS
    <3>1. b < a
      BY <1>5
    <3>. QED BY <3>1, <2>1, <1>7, SMT
  <2>. QED BY <2>3, <2>4, <2>5, <2>6, <1>6
<1>8. Shows(es, mx, vs)
  <2>. SUFFICES ASSUME NEW a \in S, NEW b \in S, a # b
                PROVE Get(mx, a, b) <=> Touch(es, <<a>>, <<b>>)
    <3>. HIDE DEF S
    <3>1. \A a, b \in S : a # b => (Get(mx, a, b) <=> Touch(es, vs[a + 1], vs[b + 1]))
      BY <1>3
    <3>. QED BY <3>1, <1>1 DEF Shows, S
  <2>1. Get(mx, a, b) <=> Get(mx, b, a)
    <3>1. a \in 0 .. mx.vertices - 1 /\ b \in 0 .. mx.vertices - 1
      BY <1>1
    <3>. QED BY <3>1, <1>1, GetIs, Zenon
  <2>2. a < b \/ b < a
    BY SMT
  <2>. QED BY <2>1, <2>2, <1>7, TouchBack
<1>9. Singles(mx, vs)
  BY <1>1, <1>3 DEF Singles
<1>10. ASSUME NEW k \in 1 .. n PROVE ~ Touch(es, vs[k], vs[k])
  <2>1. <<k - 1, k - 1>> \notin es
    <3>. SUFFICES ASSUME <<k - 1, k - 1>> \in es PROVE FALSE
      OBVIOUS
    <3>1. k - 1 < k - 1
      BY <1>5
    <3>. QED BY <3>1, SMT
  <2>. QED BY <2>1, <1>4, <1>6
<1>11. \A k, l \in 1 .. n : k - 1 = l - 1 => k = l
  BY SMT
<1>12. \A x \in S : x + 1 \in 1 .. n /\ 1 \in DOMAIN vs[x + 1] /\ vs[x + 1][1] = x
  BY <1>3
<1>13. \A k \in 1 .. n : \A i, j \in DOMAIN vs[k] : i = j
  BY <1>4
<1>14. \A k, l \in 1 .. n : \A i \in DOMAIN vs[k], j \in DOMAIN vs[l] : vs[k][i] = vs[l][j] => k = l
  BY <1>4, <1>11
<1>15. Parted(es, vs, n)
  <2>1. \A x \in S : \E k \in 1 .. n : \E i \in DOMAIN vs[k] : vs[k][i] = x
    BY <1>12
  <2>2. vs \in Seq(Seq(0 .. n - 1))
    BY <1>2
  <2>3. \A k \in DOMAIN vs : \A i, j \in DOMAIN vs[k] : vs[k][i] = vs[k][j] => i = j
    BY <1>2, <1>13
  <2>4. \A k, l \in DOMAIN vs : \A i \in DOMAIN vs[k], j \in DOMAIN vs[l] : vs[k][i] = vs[l][j] => k = l
    BY <1>2, <1>14
  <2>5. \A x \in 0 .. n - 1 : \E k \in DOMAIN vs : \E i \in DOMAIN vs[k] : vs[k][i] = x
    BY <1>2, <2>1
  <2>6. \A k \in DOMAIN vs : ~ Touch(es, vs[k], vs[k])
    BY <1>2, <1>10
  <2>. QED BY <2>2, <2>3, <2>4, <2>5, <2>6 DEF Parted
<1>. QED BY <1>1, <1>2, <1>8, <1>9, <1>15 DEF Colours

\* The first two that are no neighbours become one.
LEMMA ColoursJoin ==
  ASSUME NEW all \in Nat, NEW es \in SUBSET Graph!Pairs(all), NEW mx, NEW vs, Colours(es, mx, vs, all),
         NEW r \in 0 .. mx.vertices - 1, NEW c \in 0 .. mx.vertices - 1, r < c, ~ Get(mx, r, c),
         \A y, x \in 0 .. mx.vertices - 1 : y < r /\ y < x => Get(mx, y, x),
         Graph!Deletable(Graph!matrix_join(mx, r, c), c)
  PROVE  Colours(es, Graph!matrix_delete(Graph!matrix_join(mx, r, c), c), Merged(vs, r, c), all)
<1>. DEFINE n == mx.vertices
            mj == Graph!matrix_join(mx, r, c)
            md == Graph!matrix_delete(mj, c)
            ws == Merged(vs, r, c)
            C == 0 .. n - 2
<1>1. /\ IsMatrix(mx, all) /\ Len(vs) = n /\ n \in Nat /\ n <= all
      /\ Parted(es, vs, all) /\ Shows(es, mx, vs) /\ Singles(mx, vs) /\ r # c
      /\ c \in 1 .. n - 1 /\ n - 2 = (n - 1) - 1
  BY SMT DEF Colours, IsMatrix
<1>2. Len(vs[c + 1]) = 1 /\ ~ Touch(es, vs[r + 1], vs[c + 1])
  BY <1>1 DEF Singles, Shows
<1>3. /\ IsMatrix(mj, all) /\ mj.vertices = n
      /\ \A a, b \in 0 .. n - 1 : a # b =>
            Get(mj, a, b) = IF a = r THEN Get(mx, r, b) \/ Get(mx, c, b)
                            ELSE IF b = r THEN Get(mx, r, a) \/ Get(mx, c, a)
                            ELSE Get(mx, a, b)
  BY <1>1, JoinIs
<1>4. /\ IsMatrix(md, all) /\ md.vertices = n - 1
      /\ \A a, b \in C : Get(md, a, b) = Get(mj, Up(c, a), Up(c, b))
  <2>. HIDE DEF mj
  <2>. QED BY <1>1, <1>3, DeleteIs DEF mj
<1>5. IsMerged(0 .. all - 1, ws, vs, r, c, n)
  <2>1. vs \in Seq(Seq(0 .. all - 1))
    BY <1>1 DEF Parted
  <2>. QED BY <2>1, <1>1, <1>2, MergedIs, Zenon
<1>6. Parted(es, ws, all)
  BY <1>1, <1>2, MergedParts
<1>7. \A k, j \in C : k # j =>
        (Touch(es, ws[k + 1], ws[j + 1]) <=>
           IF k = r THEN Touch(es, vs[r + 1], vs[Up(c, j) + 1]) \/ Touch(es, vs[c + 1], vs[Up(c, j) + 1])
           ELSE IF j = r THEN Touch(es, vs[r + 1], vs[Up(c, k) + 1]) \/ Touch(es, vs[c + 1], vs[Up(c, k) + 1])
           ELSE Touch(es, vs[Up(c, k) + 1], vs[Up(c, j) + 1]))
  BY <1>1, <1>2, MergedTouch, ZenonT(40)
<1>. HIDE DEF mj, md, ws
<1>8. \A k \in C : Up(c, k) \in 0 .. n - 1 /\ Up(c, k) # c /\ (Up(c, k) = r <=> k = r)
  BY <1>1, SMT DEF Up
<1>9. \A k, j \in C : k # j => Up(c, k) # Up(c, j)
  BY <1>1, SMT DEF Up
<1>10. \A x, y \in 0 .. n - 1 : x # y => (Get(mx, x, y) <=> Touch(es, vs[x + 1], vs[y + 1]))
  BY <1>1 DEF Shows
<1>11. ASSUME NEW a \in C, NEW b \in C, a # b
       PROVE  Get(md, a, b) = IF a = r THEN Get(mx, r, Up(c, b)) \/ Get(mx, c, Up(c, b))
                              ELSE IF b = r THEN Get(mx, r, Up(c, a)) \/ Get(mx, c, Up(c, a))
                              ELSE Get(mx, Up(c, a), Up(c, b))
  <2>1. Get(md, a, b) = Get(mj, Up(c, a), Up(c, b))
    BY <1>4
  <2>2. /\ Up(c, a) \in 0 .. n - 1 /\ Up(c, b) \in 0 .. n - 1 /\ Up(c, a) # Up(c, b)
        /\ (Up(c, a) = r <=> a = r) /\ (Up(c, b) = r <=> b = r)
    BY <1>8, <1>9, <1>11
  <2>. QED BY <2>1, <2>2, <1>3
<1>12. Shows(es, md, ws)
  <2>1. ASSUME NEW a \in C, NEW b \in C, a # b
        PROVE Get(md, a, b) <=> Touch(es, ws[a + 1], ws[b + 1])
    <3>1. /\ Up(c, a) \in 0 .. n - 1 /\ Up(c, b) \in 0 .. n - 1 /\ Up(c, a) # Up(c, b)
          /\ Up(c, a) # c /\ Up(c, b) # c
          /\ (Up(c, a) = r <=> a = r) /\ (Up(c, b) = r <=> b = r)
      BY <1>8, <1>9, <2>1
    <3>2. CASE a = r
      <4>1. /\ Get(mx, r, Up(c, b)) <=> Touch(es, vs[r + 1], vs[Up(c, b) + 1])
            /\ Get(mx, c, Up(c, b)) <=> Touch(es, vs[c + 1], vs[Up(c, b) + 1])
        BY <3>1, <3>2, <2>1, <1>10
      <4>. QED BY <4>1, <3>2, <2>1, <1>7, <1>11
    <3>3. CASE a # r /\ b = r
      <4>1. /\ Get(mx, r, Up(c, a)) <=> Touch(es, vs[r + 1], vs[Up(c, a) + 1])
            /\ Get(mx, c, Up(c, a)) <=> Touch(es, vs[c + 1], vs[Up(c, a) + 1])
        BY <3>1, <3>3, <2>1, <1>10
      <4>. QED BY <4>1, <3>3, <2>1, <1>7, <1>11
    <3>4. CASE a # r /\ b # r
      <4>1. Get(mx, Up(c, a), Up(c, b)) <=> Touch(es, vs[Up(c, a) + 1], vs[Up(c, b) + 1])
        BY <3>1, <1>10
      <4>. QED BY <4>1, <3>4, <2>1, <1>7, <1>11
    <3>. QED BY <3>2, <3>3, <3>4
  <2>. QED BY <2>1, <1>1, <1>4 DEF Shows
<1>13. Singles(md, ws)
  <2>1. ASSUME NEW a \in C, NEW b \in C, NEW k \in C, a < b, ~ Get(md, a, b), a < k
        PROVE  Len(ws[k + 1]) = 1
    <3>1. ~ (a < r)
      <4>. SUFFICES ASSUME a < r PROVE Get(md, a, b)
        BY <2>1
      <4>1. /\ a # r /\ a # b /\ Up(c, a) = a /\ a \in 0 .. n - 1 /\ a < c
            /\ Up(c, b) \in 0 .. n - 1 /\ a < Up(c, b)
        BY <2>1, <1>1, SMT DEF Up
      <4>2. CASE b = r
        <5>1. Get(mx, a, r) /\ Get(mx, r, a) = Get(mx, a, r)
          BY <4>1, <1>1, GetIs
        <5>. QED BY <5>1, <4>1, <4>2, <1>11
      <4>3. CASE b # r
        <5>1. Get(mx, a, Up(c, b))
          BY <4>1
        <5>. QED BY <5>1, <4>1, <4>3, <1>11
      <4>. QED BY <4>2, <4>3
    <3>2. k # r /\ r < Up(c, k) /\ Up(c, k) \in 0 .. n - 1
      BY <3>1, <2>1, <1>1, SMT DEF Up
    <3>3. ws[k + 1] = vs[Up(c, k) + 1]
      BY <3>2, <1>5 DEF IsMerged
    <3>4. Len(vs[Up(c, k) + 1]) = 1
      BY <3>2, <1>1 DEF Singles
    <3>. QED BY <3>3, <3>4
  <2>. QED BY <2>1, <1>1, <1>4 DEF Singles
<1>14. Len(ws) = md.vertices
  BY <1>4, <1>5 DEF IsMerged
<1>15. Colours(es, md, ws, all)
  BY <1>4, <1>6, <1>12, <1>13, <1>14 DEF Colours
<1>. QED BY <1>15 DEF md, mj, ws
\* Two that are no neighbours, and cannot become one, are all there is.
LEMMA ColoursStuck ==
  ASSUME NEW all \in Nat, NEW es \in SUBSET Graph!Pairs(all), NEW mx, NEW vs, Colours(es, mx, vs, all),
         NEW r \in 0 .. mx.vertices - 1, NEW c \in 0 .. mx.vertices - 1, r < c, ~ Get(mx, r, c),
         ~ Graph!Deletable(Graph!matrix_join(mx, r, c), c)
  PROVE  es = {}
<1>. DEFINE n == mx.vertices
            mj == Graph!matrix_join(mx, r, c)
<1>1. /\ IsMatrix(mx, all) /\ Len(vs) = n /\ n \in Nat
      /\ Parted(es, vs, all) /\ Shows(es, mx, vs) /\ r # c
  BY SMT DEF Colours, IsMatrix
<1>2. mj.vertices = n
  BY <1>1, JoinIs
<1>3. r = 0 /\ c = 1 /\ n = 2
  <2>1. (IF c = 0 THEN 0 ELSE IF c + 1 = n THEN c - 2 ELSE c) < 0
    BY <1>2, SMT DEF Graph!Deletable, Graph!Moves
  <2>. QED BY <2>1, <1>1, SMT
<1>4. ~ Touch(es, vs[1], vs[2]) /\ ~ Touch(es, vs[2], vs[1])
  <2>1. ~ Touch(es, vs[r + 1], vs[c + 1])
    BY <1>1 DEF Shows
  <2>2. r + 1 = 1 /\ c + 1 = 2
    BY <1>3
  <2>. QED BY <2>1, <2>2, TouchBack
<1>5. DOMAIN vs = {1, 2}
  <2>1. vs \in Seq(Seq(0 .. all - 1))
    BY <1>1 DEF Parted
  <2>. QED BY <2>1, <1>1, <1>3, SMT
<1>6. ASSUME NEW e \in es PROVE FALSE
  <2>1. e = <<e[1], e[2]>> /\ e[1] \in 0 .. all - 1 /\ e[2] \in 0 .. all - 1
    BY DEF Graph!Pairs
  <2>2. PICK k \in DOMAIN vs : \E i \in DOMAIN vs[k] : vs[k][i] = e[1]
    BY <2>1, <1>1 DEF Parted
  <2>3. PICK l \in DOMAIN vs : \E i \in DOMAIN vs[l] : vs[l][i] = e[2]
    BY <2>1, <1>1 DEF Parted
  <2>4. Touch(es, vs[k], vs[l])
    BY <2>1, <2>2, <2>3 DEF Touch
  <2>5. k # l
    BY <2>4, <1>1 DEF Parted
  <2>. QED BY <2>4, <2>5, <1>4, <1>5
<1>. QED BY <1>6

\* The inductive invariant of the colouring.
GraphInv(all) ==
  /\ all \in Nat /\ edges \in SUBSET Graph!Pairs(all)
  /\ g = [state |-> g.state, vertices |-> g.vertices, matrix |-> g.matrix]
  /\ Colours(edges, g.matrix, g.vertices, all)
  /\ g.state = "printed" => \A a, b \in 0 .. g.matrix.vertices - 1 : a # b => Get(g.matrix, a, b)
  /\ g.state = "crashed" => edges = {}

LEMMA GraphStarts == ASSUME Sizes \subseteq Nat, Graph!Init PROVE \E n \in Nat : GraphInv(n)
<1>1. PICK n \in Sizes : \E es \in SUBSET Graph!Pairs(n) :
        /\ edges = es
        /\ g = [state |-> "joins", vertices |-> [v \in 1 .. n |-> <<v - 1>>],
                matrix |-> [vertices |-> n,
                            m |-> [q \in 0 .. Graph!matrix_count(n) - 1 |->
                                     \E e \in es : Graph!matrix_at(n, e[1], e[2]) = q]]]
  BY DEF Graph!Init
<1>. DEFINE mx == g.matrix
            vs == g.vertices
<1>2. n \in Nat /\ edges \in SUBSET Graph!Pairs(n)
  BY <1>1
<1>3. /\ g = [state |-> "joins", vertices |-> vs, matrix |-> mx]
      /\ vs = [v \in 1 .. n |-> <<v - 1>>]
      /\ mx = [vertices |-> n, m |-> [q \in 0 .. Graph!matrix_count(n) - 1 |->
                                       \E e \in edges : Graph!matrix_at(n, e[1], e[2]) = q]]
  BY <1>1
<1>4. /\ mx.vertices = n
      /\ mx.m = [q \in 0 .. Graph!matrix_count(n) - 1 |-> \E e \in edges : Graph!matrix_at(n, e[1], e[2]) = q]
      /\ mx = [vertices |-> mx.vertices, m |-> mx.m]
  BY <1>3
<1>5. mx.m \in [0 .. Graph!matrix_count(n) - 1 -> BOOLEAN]
  BY <1>4
<1>6. IsMatrix(mx, n)
  <2>1. n \in 0 .. n
    BY <1>2, SMT
  <2>. HIDE DEF mx
  <2>. QED BY <2>1, <1>4, <1>5 DEF IsMatrix
<1>7. \A q \in 0 .. Graph!matrix_count(n) - 1 :
        mx.m[q] <=> \E e \in edges : Graph!matrix_at(n, e[1], e[2]) = q
  BY <1>4
<1>8. g.state = "joins"
  BY <1>1
<1>9. Colours(edges, mx, vs, n)
  <2>. HIDE DEF mx, vs
  <2>1. Drawn(edges, mx, n)
    BY <1>4, <1>6, <1>7 DEF Drawn
  <2>2. vs = [v \in 1 .. n |-> <<v - 1>>]
    BY <1>3
  <2>. QED BY <1>2, <2>1, <2>2, ColoursInit
<1>10. GraphInv(n)
  BY <1>2, <1>3, <1>8, <1>9 DEF GraphInv
<1>. QED BY <1>2, <1>10

LEMMA GraphSteps ==
  ASSUME NEW all \in Nat, GraphInv(all), [Graph!Next]_(Graph!vars) PROVE GraphInv(all)'
<1>. DEFINE n == g.matrix.vertices
            mx == g.matrix
            vs == g.vertices
<1>1. /\ edges \in SUBSET Graph!Pairs(all)
      /\ g = [state |-> g.state, vertices |-> vs, matrix |-> mx]
      /\ Colours(edges, mx, vs, all) /\ IsMatrix(mx, all) /\ Len(vs) = n /\ n \in Nat
  BY SMT DEF GraphInv, Colours, IsMatrix
<1>2. Graph!non_neighbour_vertices = {p \in Graph!Pairs(n) : ~ mx.m[Graph!matrix_at(n, p[1], p[2])]}
  BY <1>1 DEF Graph!non_neighbour_vertices
<1>3. ASSUME NEW y \in 0 .. n - 1, NEW x \in 0 .. n - 1, y < x
      PROVE  <<y, x>> \in Graph!non_neighbour_vertices <=> ~ Get(mx, y, x)
  <2>. HIDE DEF n, mx
  <2>1. Get(mx, y, x) = mx.m[Graph!matrix_at(n, y, x)]
    BY <1>1, <1>3, GetIs DEF n, mx
  <2>2. <<y, x>> \in Graph!Pairs(n)
    BY <1>3 DEF Graph!Pairs
  <2>3. <<y, x>>[1] = y /\ <<y, x>>[2] = x
    OBVIOUS
  <2>. QED BY <2>1, <2>2, <2>3, <1>2
<1>4. CASE Graph!Join
  <2>1. PICK p \in Graph!non_neighbour_vertices :
          /\ \A q \in Graph!non_neighbour_vertices : Graph!Before(p, q)
          /\ LET joined == Graph!matrix_join(mx, p[1], p[2])
                 list == Graph!vertex_join(vs[p[2] + 1], vs[p[1] + 1])
             IN g' = IF Graph!Deletable(joined, p[2])
                     THEN [g EXCEPT !.matrix = Graph!matrix_delete(joined, p[2]),
                                    !.vertices = Graph!RemoveAt([@ EXCEPT ![p[1] + 1] = list], p[2] + 1)]
                     ELSE [g EXCEPT !.state = "crashed"]
    BY <1>4 DEF Graph!Join
  <2>. DEFINE r == p[1]
              c == p[2]
              mj == Graph!matrix_join(mx, r, c)
              ws == Merged(vs, r, c)
              us == [vs EXCEPT ![r + 1] = Graph!vertex_join(vs[c + 1], vs[r + 1])]
  <2>2. r \in 0 .. n - 1 /\ c \in 0 .. n - 1 /\ r < c /\ p = <<r, c>>
    BY <1>2 DEF Graph!Pairs
  <2>3. ~ Get(mx, r, c)
    BY <2>2, <1>3
  <2>4. ASSUME NEW y \in 0 .. n - 1, NEW x \in 0 .. n - 1, y < r, y < x PROVE Get(mx, y, x)
    <3>. SUFFICES ASSUME ~ Get(mx, y, x) PROVE FALSE
      OBVIOUS
    <3>1. <<y, x>> \in Graph!non_neighbour_vertices
      BY <2>4, <1>3
    <3>2. r < y \/ (r = y /\ c <= x)
      BY <3>1, <2>1 DEF Graph!Before
    <3>. HIDE DEF r, c, n
    <3>. QED BY <3>2, <2>2, <2>4, SMT
  <2>5. edges' = edges /\ g.state = "joins"
    BY <1>4 DEF Graph!Join
  <2>6. CASE Graph!Deletable(mj, c)
    <3>1. g' = [g EXCEPT !.matrix = Graph!matrix_delete(mj, c), !.vertices = Graph!RemoveAt(us, c + 1)]
      BY <2>1, <2>6
    <3>2. Graph!RemoveAt(us, c + 1) = ws
      <4>1. (c + 1) - 1 = c /\ (c + 1) + 1 = c + 2
        BY <2>2, SMT
      <4>2. Len(us) = Len(vs)
        <5>1. vs \in Seq(Seq(0 .. all - 1))
          BY <1>1 DEF Colours, Parted
        <5>2. DOMAIN us = DOMAIN vs
          OBVIOUS
        <5>3. DOMAIN vs = 1 .. Len(vs) /\ Len(vs) \in Nat
          BY <5>1, LenProperties
        <5>. HIDE DEF us
        <5>. QED BY <5>2, <5>3, SMT
      <4>3. ws = SubSeq(us, 1, c) \o SubSeq(us, c + 2, Len(vs))
        BY DEF Merged
      <4>. HIDE DEF us, ws
      <4>4. Graph!RemoveAt(us, c + 1) = SubSeq(us, 1, (c + 1) - 1) \o SubSeq(us, (c + 1) + 1, Len(us))
        BY DEF Graph!RemoveAt
      <4>. QED BY <4>1, <4>2, <4>3, <4>4, Zenon
    <3>3. /\ g'.matrix = Graph!matrix_delete(mj, c) /\ g'.vertices = ws /\ g'.state = "joins"
          /\ g' = [state |-> g'.state, vertices |-> g'.vertices, matrix |-> g'.matrix]
      <4>. HIDE DEF mj, ws, us, c, mx, vs
      <4>1. g' = [g EXCEPT !.matrix = Graph!matrix_delete(mj, c), !.vertices = ws]
        BY <3>1, <3>2
      <4>. QED BY <4>1, <2>5, <1>1
    <3>4. Colours(edges, Graph!matrix_delete(mj, c), ws, all)
      BY <1>1, <2>2, <2>3, <2>4, <2>6, ColoursJoin
    <3>. HIDE DEF mj, ws
    <3>5. Colours(edges, g.matrix, g.vertices, all)'
      BY <3>3, <3>4, <2>5
    <3>. QED BY <3>3, <3>5, <2>5, <1>1 DEF GraphInv
  <2>7. CASE ~ Graph!Deletable(mj, c)
    <3>1. g' = [g EXCEPT !.state = "crashed"]
      BY <2>1, <2>7
    <3>2. edges = {}
      BY <1>1, <2>2, <2>3, <2>7, ColoursStuck
    <3>3. /\ g'.matrix = mx /\ g'.vertices = vs /\ g'.state = "crashed"
          /\ g' = [state |-> g'.state, vertices |-> g'.vertices, matrix |-> g'.matrix]
      BY <3>1, <1>1
    <3>4. Colours(edges, g.matrix, g.vertices, all)'
      BY <3>3, <2>5, <1>1
    <3>. QED BY <3>2, <3>3, <3>4, <2>5, <1>1 DEF GraphInv
  <2>. QED BY <2>6, <2>7
<1>5. CASE Graph!Complete
  <2>1. /\ edges' = edges /\ g.state = "joins" /\ Graph!non_neighbour_vertices = {}
        /\ g' = [g EXCEPT !.state = "printed"]
    BY <1>5 DEF Graph!Complete
  <2>2. /\ g'.matrix = mx /\ g'.vertices = vs /\ g'.state = "printed"
        /\ g' = [state |-> g'.state, vertices |-> g'.vertices, matrix |-> g'.matrix]
    BY <2>1, <1>1
  <2>3. ASSUME NEW a \in 0 .. n - 1, NEW b \in 0 .. n - 1, a # b PROVE Get(mx, a, b)
    <3>1. a < b \/ b < a
      BY <1>1, <2>3, SMT
    <3>2. Get(mx, a, b) = Get(mx, b, a)
      BY <1>1, GetIs
    <3>. QED BY <3>1, <3>2, <2>1, <1>3
  <2>4. Colours(edges, g.matrix, g.vertices, all)'
    BY <2>1, <2>2, <1>1
  <2>5. (\A a, b \in 0 .. g.matrix.vertices - 1 : a # b => Get(g.matrix, a, b))'
    BY <2>2, <2>3 DEF Get
  <2>. QED BY <2>1, <2>2, <2>4, <2>5, <1>1 DEF GraphInv
<1>6. CASE UNCHANGED Graph!vars
  BY <1>6 DEF GraphInv, Graph!vars, Get
<1>. QED BY <1>4, <1>5, <1>6 DEF Graph!Next
\* The colours are right when they are printed.
LEMMA GraphShows == ASSUME NEW all \in Nat, GraphInv(all) PROVE Graph!Coloured
<1>. DEFINE n == g.matrix.vertices
            vs == g.vertices
<1>1. /\ edges \in SUBSET Graph!Pairs(all) /\ IsMatrix(g.matrix, all) /\ Len(vs) = n /\ n \in Nat
      /\ Parted(edges, vs, all) /\ Shows(edges, g.matrix, vs)
  BY SMT DEF GraphInv, Colours, IsMatrix
<1>2. DOMAIN vs = 1 .. n
  BY <1>1, LenProperties DEF Parted
<1>3. \A k : Graph!Colour(k) = {vs[k][i] : i \in DOMAIN vs[k]}
  BY DEF Graph!Colour, Graph!ToSet
<1>4. \A k, l : (\E a \in Graph!Colour(k), b \in Graph!Colour(l) : Graph!Apart(a, b)) <=> Touch(edges, vs[k], vs[l])
  BY <1>3, Zenon DEF Touch, Graph!Apart
<1>5. Graph!OneColour
  <2>1. \A k, l \in DOMAIN vs : \A i \in DOMAIN vs[k], j \in DOMAIN vs[l] :
          vs[k][i] = vs[l][j] => k = l /\ i = j
    BY <1>1 DEF Parted
  <2>2. ASSUME NEW e \in edges PROVE Graph!ToSet(e) \subseteq UNION {Graph!Colour(k) : k \in DOMAIN vs}
    <3>1. e = <<e[1], e[2]>> /\ e[1] \in 0 .. all - 1 /\ e[2] \in 0 .. all - 1
      BY <1>1 DEF Graph!Pairs
    <3>2. Graph!ToSet(e) = {e[1], e[2]}
      <4>1. DOMAIN e = {1, 2}
        BY <3>1
      <4>. QED BY <4>1 DEF Graph!ToSet
    <3>3. \A x \in 0 .. all - 1 : \E k \in DOMAIN vs : x \in Graph!Colour(k)
      <4>1. \A x \in 0 .. all - 1 : \E k \in DOMAIN vs : \E i \in DOMAIN vs[k] : vs[k][i] = x
        BY <1>1 DEF Parted
      <4>. QED BY <4>1, <1>3
    <3>. QED BY <3>1, <3>2, <3>3
  <2>. QED BY <2>1, <2>2 DEF Graph!OneColour
<1>6. ASSUME g.state = "printed", NEW k \in DOMAIN vs
      PROVE  /\ \A a, b \in Graph!Colour(k) : ~ Graph!Apart(a, b)
             /\ \A l \in 1 .. k - 1 : \E a \in Graph!Colour(k), b \in Graph!Colour(l) : Graph!Apart(a, b)
  <2>1. ~ Touch(edges, vs[k], vs[k])
    BY <1>1 DEF Parted
  <2>2. ASSUME NEW l \in 1 .. k - 1 PROVE Touch(edges, vs[k], vs[l])
    <3>1. k - 1 \in 0 .. n - 1 /\ l - 1 \in 0 .. n - 1 /\ k - 1 # l - 1 /\ (k - 1) + 1 = k /\ (l - 1) + 1 = l
      BY <1>1, <1>2, SMT
    <3>2. Get(g.matrix, k - 1, l - 1)
      BY <3>1, <1>6 DEF GraphInv
    <3>3. Touch(edges, vs[(k - 1) + 1], vs[(l - 1) + 1])
      BY <3>1, <3>2, <1>1 DEF Shows
    <3>. QED BY <3>1, <3>3
  <2>. QED BY <2>1, <2>2, <1>4
<1>7. g.state = "crashed" => edges = {}
  BY DEF GraphInv
<1>. QED BY <1>5, <1>6, <1>7 DEF Graph!Coloured

\* The colouring of any graph: every vertex has one colour, neighbours have two, and no two
\* colours could be one (ial11.c, graph.c, matrix.c).
THEOREM GraphColouredAlways ==
  Sizes \subseteq Nat => (Graph!Init /\ [][Graph!Next]_(Graph!vars) => []Graph!Coloured)
<1>. SUFFICES ASSUME Sizes \subseteq Nat PROVE Graph!Init /\ [][Graph!Next]_(Graph!vars) => []Graph!Coloured
  OBVIOUS
<1>1. Graph!Init => \E all \in Nat : GraphInv(all)
  BY GraphStarts
<1>2. (\E all \in Nat : GraphInv(all)) /\ [Graph!Next]_(Graph!vars) => (\E all \in Nat : GraphInv(all))'
  BY GraphSteps
<1>3. (\E all \in Nat : GraphInv(all)) => Graph!Coloured
  BY GraphShows
<1>. QED BY <1>1, <1>2, <1>3, PTL

-----------------------------------------------------------------------------
(***************************************************************************)
(* The output unit.                                                        *)
(***************************************************************************)

CONSTANTS none, B, BufLen, Orders, Others, MaxFrames, MaxChanged, MaxLost
VARIABLES st, frame_ok, buffer, outputs, fifo, master
Out == INSTANCE OutputUnit WITH Values <- Orders, m <- master

(***************************************************************************)
(* The buffer takes the digits of a frame, and of all the characters one   *)
(* at most arrives as another: two that are changed may pass the LRC.      *)
(***************************************************************************)
OutSizes ==
  /\ B \in Nat /\ B > 1 /\ BufLen \in Nat /\ BufLen >= Out!FrameChars
  /\ Orders \subseteq 0 .. B * B - 1 /\ Others \subseteq 0 .. B * B - 1
  /\ MaxFrames \in Nat /\ MaxLost \in Nat /\ MaxChanged \in {0, 1}

\* A frame, and how many characters of it have arrived or were lost: of the last
\* frame begun, or of the one before as long as nothing of the last has.
Frames == (0 .. B * B - 1) \X (0 .. B * B - 1)
Chars(f) == Out!FrameOf(f[1], f[2])
Came == IF Len(master.rest) = 9 THEN 9 ELSE 9 - Len(master.rest)
Untrue == master.changed = 1

OutTypes ==
  /\ st \in {"idle", "reception", "eof", "control"} /\ frame_ok \in BOOLEAN
  /\ buffer \in Seq(Out!Chars)
  /\ fifo = [q |-> fifo.q, oerr |-> fifo.oerr] /\ fifo.q \in Seq(Out!Chars) /\ fifo.oerr \in BOOLEAN
  /\ master = [val |-> master.val, prev |-> master.prev, rest |-> master.rest, clean |-> master.clean,
               frames |-> master.frames, changed |-> master.changed, lost |-> master.lost]
  /\ master.rest \in Seq(Out!Chars) /\ master.clean \in BOOLEAN /\ master.changed \in {0, 1}

\* What the master still has to send is the end of frame f.
Sends(f) ==
  /\ Len(master.rest) \in 0 .. 9
  /\ \A i \in 1 .. Len(master.rest) : master.rest[i] = Chars(f)[9 - Len(master.rest) + i]
  /\ master.val = IF f[1] = Out!Command THEN f[2] ELSE none

\* The loop polls the line before the next character comes, unless it controls a frame.
Room ==
  /\ Len(fifo.q) <= 2
  /\ st \in {"reception", "eof"} => Len(fifo.q) <= 1
  /\ fifo.oerr => Len(fifo.q) = 2

(***************************************************************************)
(* What the receiver holds: a colon that is not the first of a frame is a  *)
(* changed character.                                                      *)
(***************************************************************************)
Receives(f) ==
  LET q == fifo.q IN
  /\ Room
  /\ Len(q) = 1 /\ q[1] = Out!Colon /\ Came >= 3 => Untrue
  /\ Len(q) = 2 /\ q[1] = Out!Colon =>
       /\ Came \in {2, 3}
       /\ Came = 2 => Untrue \/ q[2] = Chars(f)[2]
  /\ Len(q) = 2 /\ q[2] = Out!Colon /\ (Came >= 3 \/ q[1] = Out!Colon) => Untrue
  /\ st = "eof" /\ Len(q) = 1 /\ q[1] = Out!Lf => Came = 9 \/ Untrue
  /\ st = "control" =>
       /\ Len(q) = 0 => Came = 9 \/ Untrue
       /\ Len(q) = 1 /\ q[1] = Out!Colon => Came = 1
       /\ Len(q) = 2 /\ ~ fifo.oerr => /\ q[1] = Out!Colon => Came = 2
                                       /\ q[2] = Out!Colon /\ Came >= 2 => Untrue

\* What control_frame and the command let pass, and the value.
Passes(s) ==
  /\ Len(s) = Out!FrameChars /\ Out!IsHex(s)
  /\ LET b == Out!Bytes(s) IN (b[1] + b[2] + b[3]) % (B * B) = 0 /\ b[1] = Out!Command
Value(s) == Out!Bytes(s)[2]
NoFrame(s) == Len(s) > Out!FrameChars \/ ~ Out!IsHex(s)

\* The buffer begins with frame f, but for one character if it was changed.
Begun(f) ==
  LET q == fifo.q IN
  /\ Len(buffer) <= Out!FrameChars /\ Len(buffer) + Len(q) = Came - 1
  /\ \E k \in 0 .. 8 :
       /\ \A i \in 1 .. Len(buffer) : i # k => buffer[i] = Chars(f)[i + 1]
       /\ Len(q) = 1 /\ k # Len(buffer) + 1 => q[1] = Chars(f)[Came]
       /\ k # 0 => Untrue

\* The end of the frame comes too early for the buffer to have all of its digits.
Short ==
  LET q == fifo.q IN
  /\ Came - Len(q) \in 1 .. 8 /\ Len(buffer) + Len(q) + 9 - Came < 8
  /\ Len(q) = 1 /\ q[1] = Out!Colon => Untrue
  /\ Len(q) = 1 /\ Came = 8 /\ q[1] # Out!Cr => Untrue
  /\ Came - Len(q) = 8 => Untrue /\ (Len(q) = 1 => q[1] = Out!Lf)

\* The last character was changed into a colon.
Restarted ==
  /\ Untrue /\ buffer = <<>>
  /\ \/ Len(fifo.q) = 0 /\ Came = 9
     \/ Len(fifo.q) = 1 /\ Came = 1 /\ fifo.q[1] = Out!Colon

Reception(f) == NoFrame(buffer) \/ Begun(f) \/ Short \/ Restarted

\* A carriage return was read: a buffer that passes is the frame of which the line
\* feed is still to come or to be read.
Eof ==
  LET q == fifo.q IN
  Passes(buffer) =>
    /\ Came \in {8, 9} /\ Len(q) = Came - 8
    /\ Value(buffer) = IF Len(master.rest) = 9 THEN master.prev ELSE master.val

\* While the frame is controlled the next may begin.
Controls ==
  Passes(buffer) =>
    \/ master.rest = <<>> /\ Len(fifo.q) = 0 /\ ~ fifo.oerr /\ Value(buffer) = master.val
    \/ /\ Len(master.rest) = 9 - Len(fifo.q) - (IF fifo.oerr THEN 1 ELSE 0)
       /\ Value(buffer) = master.prev

\* A frame that comes as it was sent is on its way.
Intact(f) ==
  LET q == fifo.q
      Has(n) == Len(buffer) = n /\ \A i \in 1 .. n : buffer[i] = Chars(f)[i + 1]
  IN
  \/ Len(master.rest) = 9
  \/ /\ ~ fifo.oerr
     /\ \/ Came <= Len(q) /\ \A i \in 1 .. Came : q[Len(q) - Came + i] = Chars(f)[i]
        \/ /\ frame_ok /\ st = "reception" /\ Came - Len(q) \in 1 .. 7 /\ Has(Came - Len(q) - 1)
           /\ Len(q) = 1 => q[1] = Chars(f)[Came]
        \/ /\ frame_ok /\ st = "eof" /\ Came - Len(q) = 8 /\ Has(6)
           /\ Len(q) = 1 => q[1] = Chars(f)[Came]
        \/ frame_ok /\ st = "control" /\ Len(q) = 0 /\ Came = 9 /\ Has(6)
        \/ st = "idle" /\ Len(q) = 0 /\ Came = 9 /\ (f[1] = Out!Command => outputs = f[2])

\* What is inductive.
OutInv(f) ==
  /\ f \in Frames /\ OutTypes /\ Sends(f) /\ Receives(f)
  /\ frame_ok /\ st = "reception" => Reception(f)
  /\ frame_ok /\ st = "eof" => Eof
  /\ frame_ok /\ st = "control" => Controls
  /\ master.clean => Intact(f)

\* What a sum lacks of a multiple of w.
LEMMA Negated ==
  ASSUME NEW w \in Nat \ {0}, NEW x \in Nat
  PROVE  (-x) % w \in 0 .. w - 1 /\ (x + ((-x) % w)) % w = 0
<1>. DEFINE r == (-x) % w
            q == (-x) \div w
            n == x + r
<1>1. r \in 0 .. w - 1 /\ q \in Int /\ -x = w * q + r
  BY SMT
<1>. HIDE DEF r, q
<1>2. n \in Nat /\ n = w * (-q)
  BY <1>1, SMT
<1>3. n % w \in 0 .. w - 1 /\ n \div w \in Nat /\ n = w * (n \div w) + (n % w)
  BY <1>2, DivMod
<1>. DEFINE k == (-q) - (n \div w)
<1>4. k \in Int /\ n % w = w * k
  BY <1>1, <1>2, <1>3, SMT
<1>. HIDE DEF n, k
<1>5. ~ k >= 1 /\ ~ k <= -1
  BY <1>3, <1>4, Multiples, SMT
<1>6. n % w = 0
  BY <1>4, <1>5, Multiples
<1>. QED BY <1>1, <1>6 DEF n, r
-----------------------------------------------------------------------------

\* The characters of a frame: the colon, six digits, the end.
LEMMA FrameIs ==
  ASSUME OutSizes, NEW f \in Frames
  PROVE  /\ f[1] \in 0 .. B * B - 1 /\ f[2] \in 0 .. B * B - 1 /\ f = <<f[1], f[2]>>
         /\ Out!Lrc(f[1], f[2]) \in 0 .. B * B - 1
         /\ (f[1] + f[2] + Out!Lrc(f[1], f[2])) % (B * B) = 0
<1>1. B * B \in Nat /\ B * B >= 2
  BY SMT DEF OutSizes
<1>2. f[1] \in 0 .. B * B - 1 /\ f[2] \in 0 .. B * B - 1 /\ f = <<f[1], f[2]>>
  <2>. DEFINE S == 0 .. B * B - 1
  <2>1. f \in S \X S
    BY DEF Frames
  <2>. HIDE DEF S
  <2>2. f[1] \in S /\ f[2] \in S /\ f = <<f[1], f[2]>>
    BY <2>1
  <2>. QED BY <2>2 DEF S
<1>. DEFINE w == B * B
            x == f[1] + f[2]
<1>3. w \in Nat \ {0} /\ x \in Nat
  BY <1>1, <1>2
<1>4. Out!Lrc(f[1], f[2]) = (-x) % w
  BY DEF Out!Lrc
<1>. HIDE DEF w, x
<1>5. (-x) % w \in 0 .. w - 1 /\ (x + ((-x) % w)) % w = 0
  BY <1>3, Negated
<1>. QED BY <1>2, <1>4, <1>5 DEF w, x

\* Two bytes of a digit each.
LEMMA HiLo ==
  ASSUME OutSizes, NEW n \in 0 .. B * B - 1
  PROVE  /\ Out!Hi(n) \in 0 .. B - 1 /\ Out!Lo(n) \in 0 .. B - 1
         /\ B * Out!Hi(n) + Out!Lo(n) = n
<1>1. B \in Nat \ {0} /\ B * B \in Nat
  BY SMT DEF OutSizes
<1>2. n \in Nat /\ n < B * B
  BY <1>1
<1>3. n % B \in 0 .. B - 1 /\ n \div B \in Nat /\ n = B * (n \div B) + (n % B)
  BY <1>1, <1>2, DivMod
<1>4. n \div B < B
  BY <1>1, <1>2, <1>3, SMT
<1>. QED BY <1>1, <1>3, <1>4 DEF Out!Hi, Out!Lo

\* The characters of a frame: the colon, six digits, the end.
LEMMA CharsAre ==
  ASSUME OutSizes, NEW f \in Frames
  PROVE  /\ Chars(f) \in Seq(Out!Chars) /\ Len(Chars(f)) = 9
         /\ Chars(f)[1] = Out!Colon /\ Chars(f)[8] = Out!Cr /\ Chars(f)[9] = Out!Lf
         /\ \A i \in 2 .. 7 : Chars(f)[i] \in 0 .. B - 1
         /\ B * Chars(f)[2] + Chars(f)[3] = f[1]
         /\ B * Chars(f)[4] + Chars(f)[5] = f[2]
         /\ B * Chars(f)[6] + Chars(f)[7] = Out!Lrc(f[1], f[2])
<1>. DEFINE l == Out!Lrc(f[1], f[2])
<1>1. Chars(f) = <<Out!Colon, Out!Hi(f[1]), Out!Lo(f[1]), Out!Hi(f[2]), Out!Lo(f[2]), Out!Hi(l), Out!Lo(l),
                   Out!Cr, Out!Lf>>
  BY DEF Chars, Out!FrameOf
<1>2. /\ Out!Hi(f[1]) \in 0 .. B - 1 /\ Out!Lo(f[1]) \in 0 .. B - 1
      /\ B * Out!Hi(f[1]) + Out!Lo(f[1]) = f[1]
  BY FrameIs, HiLo
<1>3. /\ Out!Hi(f[2]) \in 0 .. B - 1 /\ Out!Lo(f[2]) \in 0 .. B - 1
      /\ B * Out!Hi(f[2]) + Out!Lo(f[2]) = f[2]
  BY FrameIs, HiLo
<1>4. /\ Out!Hi(l) \in 0 .. B - 1 /\ Out!Lo(l) \in 0 .. B - 1
      /\ B * Out!Hi(l) + Out!Lo(l) = l
  BY FrameIs, HiLo
<1>. DEFINE e == [i \in 1 .. 9 |-> Chars(f)[i]]
<1>5. B \in Nat /\ B > 1
  BY DEF OutSizes
<1>6. \A i \in 2 .. 7 : Chars(f)[i] \in 0 .. B - 1
  <2>. HIDE DEF l
  <2>1. 2 .. 7 = {2, 3, 4, 5, 6, 7}
    BY SMT
  <2>. QED BY <1>1, <1>2, <1>3, <1>4, <2>1
<1>7. Out!Colon \in Out!Chars /\ Out!Cr \in Out!Chars /\ Out!Lf \in Out!Chars /\ 0 .. B - 1 \subseteq Out!Chars
  BY <1>5, SMT DEF Out!Colon, Out!Cr, Out!Lf, Out!Chars, Out!Junk
<1>8. Chars(f) \in Seq(Out!Chars) /\ Len(Chars(f)) = 9
  <2>. HIDE DEF l
  <2>. QED BY <1>1, <1>2, <1>3, <1>4, <1>7
<1>. HIDE DEF l
<1>. QED BY <1>1, <1>2, <1>3, <1>4, <1>6, <1>8 DEF l

\* Another digit changes the sum by less than a turn.
LEMMA SumTells ==
  ASSUME NEW w \in Nat \ {0}, NEW x \in Nat, NEW y \in Nat, x % w = 0, y % w = 0, x - y < w, y - x < w
  PROVE  x = y
<1>1. x = w * (x \div w) /\ y = w * (y \div w) /\ x \div w \in Nat /\ y \div w \in Nat
  BY DivMod
<1>. DEFINE k == (x \div w) - (y \div w)
<1>2. k \in Int /\ w * k = x - y
  BY <1>1
<1>. HIDE DEF k
<1>3. ~ k >= 1 /\ ~ k <= -1
  BY <1>2, Multiples, SMT
<1>. QED BY <1>2, <1>3

LEMMA OneDigit ==
  ASSUME NEW b \in Nat \ {0}, NEW p \in 0 .. b - 1, NEW q \in 0 .. b - 1, NEW n \in Nat, NEW o \in Nat,
         n % (b * b) = 0, o % (b * b) = 0, n - o = b * p - b * q \/ n - o = p - q
  PROVE  p = q
<1>. DEFINE w == b * b
            x == b * p
            y == b * q
<1>1. w \in Nat \ {0} /\ w >= b /\ x \in Nat /\ y \in Nat /\ x < w /\ y < w /\ (x = y => p = q)
  BY SMT
<1>2. n % w = 0 /\ o % w = 0 /\ (n - o = x - y \/ n - o = p - q)
  OBVIOUS
<1>. HIDE DEF w, x, y
<1>3. n - o < w /\ o - n < w
  BY <1>1, <1>2
<1>4. n = o
  BY <1>1, <1>2, <1>3, SumTells
<1>. QED BY <1>1, <1>2, <1>4

\* Six digits of which at most one, the k-th, is another; and a sum of three bytes that is zero.
Apart(k, u, v) ==
  \A i \in 1 .. 6 : u[i] \in 0 .. B - 1 /\ v[i] \in 0 .. B - 1 /\ (i # k => u[i] = v[i])
ZeroSum(u) == (B * u[1] + u[2] + (B * u[3] + u[4]) + (B * u[5] + u[6])) % (B * B) = 0

LEMMA SixDigits ==
  ASSUME B \in Nat \ {0}, NEW k, NEW u, NEW v, Apart(k, u, v), ZeroSum(u), ZeroSum(v)
  PROVE  \A i \in 1 .. 6 : u[i] = v[i]
<1>. DEFINE u1 == u[1]
            u2 == u[2]
            u3 == u[3]
            u4 == u[4]
            u5 == u[5]
            u6 == u[6]
            v1 == v[1]
            v2 == v[2]
            v3 == v[3]
            v4 == v[4]
            v5 == v[5]
            v6 == v[6]
<1>0. /\ u1 \in 0 .. B - 1 /\ u2 \in 0 .. B - 1 /\ u3 \in 0 .. B - 1
      /\ u4 \in 0 .. B - 1 /\ u5 \in 0 .. B - 1 /\ u6 \in 0 .. B - 1
      /\ v1 \in 0 .. B - 1 /\ v2 \in 0 .. B - 1 /\ v3 \in 0 .. B - 1
      /\ v4 \in 0 .. B - 1 /\ v5 \in 0 .. B - 1 /\ v6 \in 0 .. B - 1
      /\ k # 1 => u1 = v1
      /\ k # 2 => u2 = v2
      /\ k # 3 => u3 = v3
      /\ k # 4 => u4 = v4
      /\ k # 5 => u5 = v5
      /\ k # 6 => u6 = v6
      /\ (B * u1 + u2 + (B * u3 + u4) + (B * u5 + u6)) % (B * B) = 0
      /\ (B * v1 + v2 + (B * v3 + v4) + (B * v5 + v6)) % (B * B) = 0
  BY DEF Apart, ZeroSum
<1>. SUFFICES u1 = v1 /\ u2 = v2 /\ u3 = v3 /\ u4 = v4 /\ u5 = v5 /\ u6 = v6
  <2>1. 1 .. 6 = {1, 2, 3, 4, 5, 6}
    OBVIOUS
  <2>. QED BY <2>1
<1>. HIDE DEF u1, u2, u3, u4, u5, u6, v1, v2, v3, v4, v5, v6
<1>. DEFINE n == B * u1 + u2 + (B * u3 + u4) + (B * u5 + u6)
            o == B * v1 + v2 + (B * v3 + v4) + (B * v5 + v6)
            p1 == B * u1
            p3 == B * u3
            p5 == B * u5
            q1 == B * v1
            q3 == B * v3
            q5 == B * v5
<1>1. /\ p1 \in Nat /\ p3 \in Nat /\ p5 \in Nat /\ q1 \in Nat /\ q3 \in Nat /\ q5 \in Nat
      /\ n % (B * B) = 0 /\ o % (B * B) = 0
  BY <1>0, SMT
<1>2. /\ n = p1 + u2 + (p3 + u4) + (p5 + u6)
      /\ o = q1 + v2 + (q3 + v4) + (q5 + v6)
      /\ k # 1 => p1 = q1
      /\ k # 3 => p3 = q3
      /\ k # 5 => p5 = q5
  BY <1>0
<1>. HIDE DEF n, o
<1>3. \A p, q \in 0 .. B - 1 : n - o = B * p - B * q \/ n - o = p - q => p = q
  <2>1. n \in Nat /\ o \in Nat
    <3>. HIDE DEF p1, p3, p5, q1, q3, q5
    <3>. QED BY <1>0, <1>1, <1>2
  <2>. QED BY <1>1, <2>1, OneDigit
<1>4. /\ k = 1 => n - o = p1 - q1
      /\ k = 2 => n - o = u2 - v2
      /\ k = 3 => n - o = p3 - q3
      /\ k = 4 => n - o = u4 - v4
      /\ k = 5 => n - o = p5 - q5
      /\ k = 6 => n - o = u6 - v6
  <2>. HIDE DEF p1, p3, p5, q1, q3, q5
  <2>. QED BY <1>0, <1>1, <1>2
<1>. QED BY <1>0, <1>3, <1>4

\* The LRC finds one changed character (output.c 280): what passes is the frame.
LEMMA LrcTells ==
  ASSUME OutSizes, NEW f \in Frames, NEW s \in Seq(Out!Chars), NEW k \in 0 .. 8,
         Len(s) = 6, \A i \in 1 .. 6 : i # k => s[i] = Chars(f)[i + 1], Passes(s)
  PROVE  f[1] = Out!Command /\ Value(s) = f[2]
<1>. DEFINE d == [i \in 1 .. 6 |-> Chars(f)[i + 1]]
            b == Out!Bytes(s)
<1>1. B \in Nat \ {0}
  BY DEF OutSizes
<1>2. \A i \in 1 .. 6 : s[i] \in 0 .. B - 1
  <2>1. \A i \in 1 .. 6 : s[i] < B
    BY DEF Passes, Out!IsHex
  <2>2. \A i \in 1 .. 6 : s[i] \in 0 .. B + 3
    <3>1. \A i \in 1 .. 6 : s[i] \in Out!Chars
      BY ElementOfSeq
    <3>. QED BY <3>1 DEF Out!Chars, Out!Junk
  <2>. QED BY <2>1, <2>2, <1>1
<1>3. \A i \in 1 .. 6 : d[i] \in 0 .. B - 1
  BY CharsAre
<1>4. b[1] = B * s[1] + s[2] /\ b[2] = B * s[3] + s[4] /\ b[3] = B * s[5] + s[6]
  <2>1. Len(s) \div 2 = 3
    BY SMT
  <2>. QED BY <2>1, SMT DEF Out!Bytes
<1>5. f[1] = B * d[1] + d[2] /\ f[2] = B * d[3] + d[4] /\ Out!Lrc(f[1], f[2]) = B * d[5] + d[6]
  BY CharsAre
<1>6. \A i \in 1 .. 6 : i # k => s[i] = d[i]
  OBVIOUS
<1>7. (b[1] + b[2] + b[3]) % (B * B) = 0 /\ b[1] = Out!Command
  BY DEF Passes
<1>8. (f[1] + f[2] + Out!Lrc(f[1], f[2])) % (B * B) = 0
  BY FrameIs
<1>. HIDE DEF d, b
<1>9. ZeroSum(s) /\ ZeroSum(d)
  BY <1>4, <1>5, <1>7, <1>8 DEF ZeroSum
<1>10. Apart(k, s, d)
  BY <1>2, <1>3, <1>6 DEF Apart
<1>11. \A i \in 1 .. 6 : s[i] = d[i]
  BY <1>1, <1>9, <1>10, SixDigits
<1>12. b[1] = f[1] /\ b[2] = f[2]
  BY <1>4, <1>5, <1>11
<1>. QED BY <1>7, <1>12 DEF b, Value

\* And the frame itself passes, if it is for the unit.
LEMMA FramePasses ==
  ASSUME OutSizes, NEW f \in Frames, f[1] = Out!Command, NEW s \in Seq(Out!Chars),
         Len(s) = 6, \A i \in 1 .. 6 : s[i] = Chars(f)[i + 1]
  PROVE  Passes(s) /\ Value(s) = f[2]
<1>1. B \in Nat \ {0}
  BY DEF OutSizes
<1>2. \A i \in DOMAIN s : s[i] < B
  <2>1. DOMAIN s = 1 .. 6
    OBVIOUS
  <2>2. \A i \in 1 .. 6 : Chars(f)[i + 1] \in 0 .. B - 1
    BY CharsAre
  <2>. QED BY <2>1, <2>2, <1>1
<1>3. /\ Out!Bytes(s)[1] = B * s[1] + s[2] /\ Out!Bytes(s)[2] = B * s[3] + s[4]
      /\ Out!Bytes(s)[3] = B * s[5] + s[6]
  <2>1. Len(s) \div 2 = 3
    BY SMT
  <2>. QED BY <2>1, SMT DEF Out!Bytes
<1>4. /\ Out!Bytes(s)[1] = f[1] /\ Out!Bytes(s)[2] = f[2]
      /\ Out!Bytes(s)[3] = Out!Lrc(f[1], f[2])
  BY <1>3, CharsAre
<1>. QED BY <1>2, <1>4, FrameIs DEF Passes, Value, Out!IsHex, Out!FrameChars
-----------------------------------------------------------------------------

\* A sequence with one more and with one less.
LEMMA OneMore ==
  ASSUME NEW S, NEW s \in Seq(S), NEW e \in S
  PROVE  /\ Append(s, e) \in Seq(S) /\ Len(Append(s, e)) = Len(s) + 1
         /\ \A i \in 1 .. Len(s) : Append(s, e)[i] = s[i]
         /\ Append(s, e)[Len(s) + 1] = e
  OBVIOUS

LEMMA OneLess ==
  ASSUME NEW S, NEW s \in Seq(S), s # <<>>
  PROVE  /\ Tail(s) \in Seq(S) /\ Len(s) >= 1 /\ Len(Tail(s)) = Len(s) - 1
         /\ Head(s) = s[1] /\ s[1] \in S
         /\ \A i \in 1 .. Len(s) - 1 : Tail(s)[i] = s[i + 1]
  OBVIOUS

\* How much of the frame has come.
LEMMA CameIs ==
  ASSUME OutTypes, NEW f, Sends(f)
  PROVE  /\ Came \in 1 .. 9 /\ Len(master.rest) \in 0 .. 9
         /\ Len(master.rest) = 9 => Came = 9
         /\ Len(master.rest) # 9 => Came = 9 - Len(master.rest)
         /\ Len(fifo.q) \in Nat /\ Len(buffer) \in Nat
<1>. DEFINE n == Len(master.rest)
<1>1. n \in 0 .. 9
  BY DEF Sends
<1>2. Len(fifo.q) \in Nat /\ Len(buffer) \in Nat
  BY DEF OutTypes
<1>3. Came = IF n = 9 THEN 9 ELSE 9 - n
  BY DEF Came
<1>. HIDE DEF n
<1>4. Came \in 1 .. 9 /\ (n = 9 => Came = 9) /\ (n # 9 => Came = 9 - n)
  BY <1>1, <1>3
<1>. QED BY <1>1, <1>2, <1>4 DEF n

\* How much the receiver holds.
LEMMA RoomIs ==
  ASSUME OutTypes, NEW f, Receives(f)
  PROVE  /\ Len(fifo.q) \in 0 .. 2
         /\ st \in {"reception", "eof"} => Len(fifo.q) <= 1
         /\ fifo.oerr => Len(fifo.q) = 2
<1>. DEFINE n == Len(fifo.q)
<1>1. Room
  BY DEF Receives
<1>2. n \in Nat /\ n <= 2
  BY <1>1 DEF Room, OutTypes
<1>. HIDE DEF n
<1>3. n \in 0 .. 2
  BY <1>2
<1>. QED BY <1>1, <1>3 DEF Room, n

\* The signs are no digits, and differ.
LEMMA SignsDiffer ==
  ASSUME OutSizes
  PROVE  /\ Out!Colon \in Out!Chars /\ Out!Cr \in Out!Chars /\ Out!Lf \in Out!Chars
         /\ Out!Colon # Out!Cr /\ Out!Colon # Out!Lf /\ Out!Cr # Out!Lf
         /\ Out!Colon >= B /\ Out!Cr >= B /\ Out!Lf >= B /\ Out!FrameChars = 6 /\ B \in Nat
  BY DEF OutSizes, Out!Colon, Out!Cr, Out!Lf, Out!Chars, Out!Junk, Out!FrameChars

\* What stands where in a frame.
LEMMA SignsStand ==
  ASSUME OutSizes, NEW f \in Frames, NEW i \in 1 .. 9
  PROVE  /\ Chars(f)[i] \in Out!Chars
         /\ Chars(f)[i] = Out!Colon <=> i = 1
         /\ Chars(f)[i] = Out!Cr <=> i = 8
         /\ Chars(f)[i] = Out!Lf <=> i = 9
<1>1. Chars(f)[i] \in Out!Chars
  <2>1. Chars(f) \in Seq(Out!Chars) /\ Len(Chars(f)) = 9
    BY CharsAre
  <2>. QED BY <2>1, ElementOfSeq
<1>2. CASE i \in 2 .. 7
  <2>1. Chars(f)[i] \in 0 .. B - 1
    BY <1>2, CharsAre
  <2>2. B \in Nat /\ Out!Colon >= B /\ Out!Cr >= B /\ Out!Lf >= B
    BY SignsDiffer
  <2>3. Chars(f)[i] # Out!Colon /\ Chars(f)[i] # Out!Cr /\ Chars(f)[i] # Out!Lf
    BY <2>1, <2>2
  <2>. QED BY <1>1, <1>2, <2>3
<1>3. CASE i \in {1, 8, 9}
  <2>1. Chars(f)[1] = Out!Colon /\ Chars(f)[8] = Out!Cr /\ Chars(f)[9] = Out!Lf
    BY CharsAre
  <2>. QED BY <1>1, <1>3, <2>1, SignsDiffer
<1>. QED BY <1>2, <1>3

\* What does not touch the line.
LEMMA SameLine ==
  ASSUME NEW f, Sends(f), master'.rest = master.rest, master'.val = master.val
  PROVE  Sends(f)' /\ Came' = Came
  BY DEF Sends, Came, Chars

LEMMA OutStarts == ASSUME OutSizes, Out!Init PROVE \E f \in Frames : OutInv(f)
<1>1. B * B \in Nat /\ B * B >= 2
  BY SMT DEF OutSizes
<1>. DEFINE f == <<0, 0>>
<1>2. f \in Frames
  BY <1>1 DEF Frames
<1>3. OutTypes
  <2>1. /\ st = "idle" /\ frame_ok = FALSE /\ buffer = <<>> /\ fifo = [q |-> <<>>, oerr |-> FALSE]
        /\ master = [val |-> none, prev |-> none, rest |-> <<>>, clean |-> FALSE,
                      frames |-> 0, changed |-> 0, lost |-> 0]
    BY DEF Out!Init
  <2>2. <<>> \in Seq(Out!Chars)
    OBVIOUS
  <2>. QED BY <2>1, <2>2 DEF OutTypes
<1>4. Sends(f) /\ Came = 9 /\ Len(fifo.q) = 0 /\ ~ fifo.oerr
  BY DEF Out!Init, Sends, Came, Out!Command
<1>5. Receives(f)
  BY <1>4 DEF Receives, Room, Out!Init
<1>6. OutInv(f)
  BY <1>2, <1>3, <1>4, <1>5 DEF OutInv, Out!Init
<1>. QED BY <1>2, <1>6

\* The receiver waits in vain.
LEMMA OutTimesOut == ASSUME OutSizes, NEW f, OutInv(f), Out!TimedOut PROVE OutInv(f)'
<1>1. f \in Frames /\ OutTypes /\ Sends(f) /\ Receives(f)
  BY DEF OutInv
<1>2. /\ master' = master /\ fifo' = fifo /\ st' = st /\ buffer' = buffer /\ outputs' = outputs
      /\ st # "control" /\ fifo.q = <<>> /\ master.rest = <<>> /\ frame_ok' = FALSE
  BY DEF Out!TimedOut
<1>3. Sends(f)' /\ Came' = Came /\ Came = 9
  BY <1>1, <1>2, SameLine, CameIs
<1>4. OutTypes' /\ Receives(f)'
  BY <1>1, <1>2, <1>3 DEF OutTypes, Receives, Room, Untrue, Chars
<1>5. master.clean => Intact(f)'
  BY <1>2, <1>3 DEF OutInv, Intact, Chars
<1>. QED BY <1>1, <1>2, <1>3, <1>4, <1>5 DEF OutInv

\* The receiver is started again.
LEMMA OutOverruns == ASSUME OutSizes, NEW f, OutInv(f), Out!Overrun PROVE OutInv(f)'
<1>1. f \in Frames /\ OutTypes /\ Sends(f) /\ Receives(f)
  BY DEF OutInv
<1>2. PICK p \in {fifo.q, <<>>} : fifo' = [q |-> p, oerr |-> FALSE]
  BY DEF Out!Overrun
<1>3. /\ master' = [master EXCEPT !.clean = FALSE] /\ st' = st /\ buffer' = buffer
      /\ st # "control" /\ fifo.oerr /\ frame_ok' = FALSE
  BY DEF Out!Overrun
<1>4. /\ master'.rest = master.rest /\ master'.val = master.val /\ master'.changed = master.changed
      /\ ~ master'.clean /\ OutTypes'
  <2>1. p \in Seq(Out!Chars)
    <3>1. fifo.q \in Seq(Out!Chars) /\ <<>> \in Seq(Out!Chars)
      BY <1>1 DEF OutTypes
    <3>. QED BY <3>1
  <2>. QED BY <1>1, <1>2, <1>3, <2>1 DEF OutTypes
<1>5. Sends(f)' /\ Came' = Came
  BY <1>1, <1>4, SameLine
<1>6. Receives(f)'
  BY <1>1, <1>2, <1>3, <1>4, <1>5 DEF Receives, Room, Untrue, Chars
<1>. QED BY <1>1, <1>3, <1>4, <1>5, <1>6 DEF OutInv

\* A character is lost, or the master pauses.
LEMMA OutLoses == ASSUME OutSizes, NEW f, OutInv(f), Out!Lost PROVE OutInv(f)'
<1>1. f \in Frames /\ OutTypes /\ Sends(f) /\ Receives(f)
  BY DEF OutInv
<1>2. PICK r \in {master.rest, Tail(master.rest)} :
        master' = [master EXCEPT !.rest = r, !.clean = FALSE, !.lost = @ + 1]
  BY DEF Out!Lost
<1>3. /\ fifo' = fifo /\ st' = st /\ buffer' = buffer /\ st # "control" /\ fifo.q = <<>>
      /\ master.rest # <<>> /\ frame_ok' = FALSE
  BY DEF Out!Lost
<1>4. master.rest \in Seq(Out!Chars) /\ Len(master.rest) \in 0 .. 9
  BY <1>1 DEF OutTypes, Sends
<1>5. /\ r \in Seq(Out!Chars) /\ Len(r) \in 0 .. 9
      /\ \A i \in 1 .. Len(r) : r[i] = Chars(f)[9 - Len(r) + i]
  <2>1. CASE r = master.rest
    BY <2>1, <1>1, <1>4 DEF Sends
  <2>2. CASE r = Tail(master.rest)
    <3>1. /\ r \in Seq(Out!Chars) /\ Len(master.rest) >= 1 /\ Len(r) = Len(master.rest) - 1
          /\ \A i \in 1 .. Len(master.rest) - 1 : r[i] = master.rest[i + 1]
      BY <2>2, <1>3, <1>4, OneLess
    <3>2. \A i \in 1 .. Len(r) : i + 1 \in 1 .. Len(master.rest) /\ r[i] = master.rest[i + 1]
      BY <3>1, <1>4
    <3>3. \A i \in 1 .. Len(r) : r[i] = Chars(f)[9 - Len(master.rest) + (i + 1)]
      BY <3>2, <1>1 DEF Sends
    <3>4. \A i \in 1 .. Len(r) : 9 - Len(master.rest) + (i + 1) = 9 - Len(r) + i
      BY <3>1, <1>4
    <3>5. \A i \in 1 .. Len(r) : r[i] = Chars(f)[9 - Len(r) + i]
      BY <3>3, <3>4
    <3>6. Len(r) \in 0 .. 9
      BY <3>1, <1>4
    <3>. QED BY <3>1, <3>5, <3>6
  <2>. QED BY <2>1, <2>2, <1>2
<1>6. /\ master'.rest = r /\ master'.val = master.val /\ master'.changed = master.changed
      /\ ~ master'.clean /\ OutTypes'
  BY <1>1, <1>2, <1>3, <1>5 DEF OutTypes
<1>7. Sends(f)'
  BY <1>1, <1>5, <1>6 DEF Sends, Chars
<1>8. Receives(f)'
  BY <1>1, <1>3 DEF Receives, Room
<1>. QED BY <1>1, <1>3, <1>6, <1>7, <1>8 DEF OutInv

\* The master begins a frame, perhaps while the one before is controlled.
LEMMA OutBegins == ASSUME OutSizes, NEW f, OutInv(f), Out!Begin PROVE \E h \in Frames : OutInv(h)'
<1>1. f \in Frames /\ OutTypes /\ Sends(f) /\ Receives(f)
  BY DEF OutInv
<1>2. PICK v \in Orders, cmd \in Others \union {Out!Command} :
        master' = [master EXCEPT !.prev = master.val,
                                 !.val = IF cmd = Out!Command THEN v ELSE none,
                                 !.rest = Out!FrameOf(cmd, v),
                                 !.clean = TRUE, !.frames = @ + 1]
  BY DEF Out!Begin
<1>3. /\ master.rest = <<>> /\ st' = st /\ frame_ok' = frame_ok /\ buffer' = buffer
      /\ outputs' = outputs /\ fifo' = fifo
  BY DEF Out!Begin
<1>. DEFINE h == <<cmd, v>>
<1>4. h \in Frames
  <2>1. B * B \in Nat /\ B * B >= 2
    BY SMT DEF OutSizes
  <2>2. v \in 0 .. B * B - 1 /\ cmd \in 0 .. B * B - 1
    BY <2>1 DEF OutSizes, Out!Command
  <2>. QED BY <2>2 DEF Frames
<1>5. Chars(h) = Out!FrameOf(cmd, v) /\ Chars(h) \in Seq(Out!Chars) /\ Len(Chars(h)) = 9
  BY <1>4, CharsAre DEF Chars
<1>6. /\ master'.rest = Chars(h) /\ master'.val = (IF cmd = Out!Command THEN v ELSE none)
      /\ master'.prev = master.val /\ master'.changed = master.changed /\ master'.clean = TRUE
      /\ OutTypes'
  <2>. HIDE DEF h
  <2>. QED BY <1>1, <1>2, <1>3, <1>5 DEF OutTypes
<1>7. Came = 9 /\ Came' = 9 /\ Len(master.rest) = 0 /\ Len(master'.rest) = 9
  BY <1>1, <1>3, <1>5, <1>6 DEF Came
<1>8. Sends(h)'
  <2>1. \A i \in 1 .. 9 : master'.rest[i] = Chars(h)[9 - 9 + i]
    BY <1>6
  <2>2. h[1] = cmd /\ h[2] = v /\ Chars(h)' = Chars(h)
    BY DEF Chars
  <2>. HIDE DEF h
  <2>. QED BY <1>6, <1>7, <2>1, <2>2 DEF Sends, Chars
<1>9. Receives(h)'
  BY <1>1, <1>3, <1>6, <1>7 DEF Receives, Room, Untrue, Chars
<1>. HIDE DEF h
<1>10. /\ Len(buffer) \in Nat /\ Len(fifo.q) \in 0 .. 2
       /\ st \in {"reception", "eof"} => Len(fifo.q) <= 1
  BY <1>1, CameIs, RoomIs
<1>11. frame_ok /\ st = "reception" => Reception(h)'
  <2>. SUFFICES ASSUME frame_ok, st = "reception" PROVE Reception(h)'
    OBVIOUS
  <2>1. ~ Begun(f)
    BY <1>7, <1>10, SignsDiffer DEF Begun
  <2>2. Short => Short'
    BY <1>3, <1>6, <1>7 DEF Short, Untrue
  <2>3. Restarted => Restarted'
    BY <1>3, <1>6, <1>7 DEF Restarted, Untrue
  <2>4. Reception(f)
    BY DEF OutInv
  <2>. QED BY <2>1, <2>2, <2>3, <2>4, <1>3 DEF Reception, NoFrame
<1>12. frame_ok /\ st = "eof" => Eof'
  <2>. SUFFICES ASSUME frame_ok, st = "eof", Passes(buffer) PROVE Eof'
    BY <1>3 DEF Eof, Passes
  <2>1. Eof
    BY DEF OutInv
  <2>2. Len(fifo.q) = 1 /\ Value(buffer) = master.val
    BY <2>1, <1>7 DEF Eof
  <2>. QED BY <2>2, <1>3, <1>6, <1>7 DEF Eof, Value
<1>13. frame_ok /\ st = "control" => Controls'
  <2>. SUFFICES ASSUME frame_ok, st = "control", Passes(buffer) PROVE Controls'
    BY <1>3 DEF Controls, Passes
  <2>1. Controls
    BY DEF OutInv
  <2>2. ~ Len(master.rest) = 9 - Len(fifo.q) - (IF fifo.oerr THEN 1 ELSE 0)
    <3>. DEFINE n == Len(fifo.q)
                o == IF fifo.oerr THEN 1 ELSE 0
    <3>1. n \in 0 .. 2 /\ o \in 0 .. 1
      BY <1>10
    <3>. HIDE DEF n, o
    <3>2. 9 - n - o # 0
      BY <3>1
    <3>. QED BY <3>2, <1>7 DEF n, o
  <2>3. Len(fifo.q) = 0 /\ ~ fifo.oerr /\ Value(buffer) = master.val
    BY <2>1, <2>2 DEF Controls
  <2>4. Len(master'.rest) = 9 - Len(fifo'.q) - (IF fifo'.oerr THEN 1 ELSE 0)
    BY <2>3, <1>3, <1>7
  <2>5. Value(buffer') = master'.prev
    BY <2>3, <1>3, <1>6
  <2>. QED BY <2>4, <2>5 DEF Controls, Value
<1>14. OutInv(h)'
  BY <1>3, <1>4, <1>6, <1>7, <1>8, <1>9, <1>11, <1>12, <1>13 DEF OutInv, Intact
<1>. QED BY <1>4, <1>14
\* What arrives is c, the next character of frame f or another.
Arrived(f, c) ==
  /\ c \in Out!Chars /\ OutTypes' /\ Sends(f)'
  /\ Len(master.rest) \in 1 .. 9 /\ Len(master'.rest) \in 0 .. 8 /\ Came' \in 1 .. 9
  /\ Len(master'.rest) = 9 - Came' /\ Len(master'.rest) = Len(master.rest) - 1
  /\ c = Chars(f)[Came'] \/ (~ Untrue /\ Untrue')
  /\ Untrue => Untrue'
  /\ Len(fifo.q) # 2 => fifo' = [q |-> Append(fifo.q, c), oerr |-> FALSE]
  /\ Len(fifo.q) = 2 => fifo' = [q |-> fifo.q, oerr |-> TRUE]
  /\ master'.clean => master.clean /\ c = Chars(f)[Came'] /\ Len(fifo.q) # 2
  /\ master'.val = master.val /\ master'.prev = master.prev
  /\ ~ fifo.oerr /\ (st # "control" => fifo.q = <<>>)
  /\ st' = st /\ frame_ok' = frame_ok /\ buffer' = buffer /\ outputs' = outputs

LEMMA ArriveIs ==
  ASSUME OutSizes, NEW f \in Frames, OutTypes, Sends(f), Out!Arrive
  PROVE  \E c \in Out!Chars : Arrived(f, c)
<1>. DEFINE same(c) == c = Head(master.rest)
            full == Len(fifo.q) = 2
            rest == master.rest
<1>1. PICK c \in Out!Chars :
        /\ same(c) \/ master.changed < MaxChanged
        /\ fifo' = IF full THEN [fifo EXCEPT !.oerr = TRUE] ELSE [fifo EXCEPT !.q = Append(@, c)]
        /\ master' = [master EXCEPT !.rest = Tail(@), !.clean = @ /\ same(c) /\ ~ full,
                                    !.changed = IF same(c) THEN @ ELSE @ + 1]
  BY DEF Out!Arrive
<1>2. /\ rest # <<>> /\ ~ fifo.oerr /\ (st # "control" => fifo.q = <<>>)
      /\ st' = st /\ frame_ok' = frame_ok /\ buffer' = buffer /\ outputs' = outputs
  BY DEF Out!Arrive
<1>3. rest \in Seq(Out!Chars) /\ Len(rest) \in 0 .. 9
  BY DEF OutTypes, Sends
<1>4. /\ Tail(rest) \in Seq(Out!Chars) /\ Len(rest) \in 1 .. 9 /\ Len(Tail(rest)) = Len(rest) - 1
      /\ Head(rest) = rest[1] /\ rest[1] \in Out!Chars
      /\ \A i \in 1 .. Len(rest) - 1 : Tail(rest)[i] = rest[i + 1]
  BY <1>2, <1>3, OneLess
<1>5. /\ master'.rest = Tail(rest) /\ master'.val = master.val /\ master'.prev = master.prev
      /\ master'.clean = (master.clean /\ same(c) /\ ~ full)
      /\ master'.changed = IF same(c) THEN master.changed ELSE master.changed + 1
  <2>. HIDE DEF same, full
  <2>. QED BY <1>1 DEF OutTypes
<1>6. /\ Len(fifo.q) # 2 => fifo' = [q |-> Append(fifo.q, c), oerr |-> FALSE]
      /\ Len(fifo.q) = 2 => fifo' = [q |-> fifo.q, oerr |-> TRUE]
  <2>. DEFINE q == fifo.q
  <2>1. fifo = [q |-> q, oerr |-> FALSE]
    BY <1>2 DEF OutTypes
  <2>2. fifo' = IF Len(q) = 2 THEN [fifo EXCEPT !.oerr = TRUE] ELSE [fifo EXCEPT !.q = Append(q, c)]
    BY <1>1
  <2>. HIDE DEF q
  <2>3. /\ Len(q) # 2 => fifo' = [q |-> Append(q, c), oerr |-> FALSE]
        /\ Len(q) = 2 => fifo' = [q |-> q, oerr |-> TRUE]
    BY <2>1, <2>2
  <2>. QED BY <2>3 DEF q
<1>7. master.changed \in {0, 1} /\ (master.changed = 1 => same(c)) /\ master'.changed \in {0, 1}
  BY <1>1, <1>5 DEF OutTypes, OutSizes
<1>8. OutTypes'
  <2>1. fifo' = [q |-> fifo'.q, oerr |-> fifo'.oerr] /\ fifo'.q \in Seq(Out!Chars) /\ fifo'.oerr \in BOOLEAN
    <3>1. fifo.q \in Seq(Out!Chars)
      BY DEF OutTypes
    <3>2. Append(fifo.q, c) \in Seq(Out!Chars)
      BY <3>1, OneMore
    <3>. DEFINE q == fifo.q
                p == Append(q, c)
    <3>3. \E r \in {p, q}, o \in BOOLEAN : fifo' = [q |-> r, oerr |-> o]
      BY <1>6
    <3>4. p \in Seq(Out!Chars) /\ q \in Seq(Out!Chars)
      BY <3>1, <3>2
    <3>. HIDE DEF p, q
    <3>5. PICK r \in {p, q}, o \in BOOLEAN : fifo' = [q |-> r, oerr |-> o]
      BY <3>3
    <3>6. fifo' = [q |-> fifo'.q, oerr |-> fifo'.oerr] /\ fifo'.q = r /\ fifo'.oerr = o
      BY <3>5
    <3>. QED BY <3>4, <3>6
  <2>2. master' = [val |-> master'.val, prev |-> master'.prev, rest |-> master'.rest, clean |-> master'.clean,
                   frames |-> master'.frames, changed |-> master'.changed, lost |-> master'.lost]
    <3>. HIDE DEF same, full
    <3>. QED BY <1>1 DEF OutTypes
  <2>3. master'.clean \in BOOLEAN
    BY <1>5
  <2>. QED BY <1>2, <1>4, <1>5, <1>7, <2>1, <2>2, <2>3 DEF OutTypes
<1>9. /\ Came' \in 1 .. 9 /\ Len(master'.rest) = 9 - Came' /\ Len(master'.rest) \in 0 .. 8
      /\ Len(master'.rest) = Len(rest) - 1
  <2>. DEFINE n == Len(rest)
  <2>1. Came' = IF n - 1 = 9 THEN 9 ELSE 9 - (n - 1)
    BY <1>4, <1>5 DEF Came
  <2>2. n \in 1 .. 9 /\ Len(master'.rest) = n - 1
    BY <1>4, <1>5
  <2>. HIDE DEF n
  <2>3. Came' = 10 - n /\ Came' \in 1 .. 9 /\ n - 1 = 9 - Came' /\ n - 1 \in 0 .. 8
    BY <2>1, <2>2
  <2>4. Len(master'.rest) = Len(rest) - 1
    BY <1>4, <1>5
  <2>. QED BY <2>2, <2>3, <2>4
<1>10. Head(rest) = Chars(f)[Came']
  <2>1. rest[1] = Chars(f)[9 - Len(rest) + 1]
    <3>1. 1 \in 1 .. Len(rest)
      BY <1>4
    <3>. QED BY <3>1 DEF Sends
  <2>2. 9 - Len(rest) + 1 = Came'
    BY <1>4, <1>9
  <2>. QED BY <1>4, <2>1, <2>2
<1>11. Sends(f)'
  <2>. DEFINE n == Len(rest)
              n1 == Len(master'.rest)
  <2>1. \A i \in 1 .. n1 : i + 1 \in 1 .. n /\ master'.rest[i] = rest[i + 1]
    BY <1>4, <1>5
  <2>2. \A i \in 1 .. n1 : master'.rest[i] = Chars(f)[9 - n + (i + 1)]
    BY <2>1 DEF Sends
  <2>3. n \in 1 .. 9 /\ n1 = n - 1
    BY <1>4, <1>9
  <2>4. n1 \in 0 .. 9 /\ \A i \in 1 .. n1 : master'.rest[i] = Chars(f)[9 - n1 + i]
    <3>. HIDE DEF n, n1
    <3>1. n1 \in 0 .. 9 /\ \A i \in 1 .. n1 : 9 - n + (i + 1) = 9 - n1 + i
      BY <2>3
    <3>. QED BY <2>2, <3>1
  <2>6. master'.val = IF f[1] = Out!Command THEN f[2] ELSE none
    BY <1>5 DEF Sends
  <2>. QED BY <2>4, <2>6 DEF Sends, Chars
<1>12. c = Chars(f)[Came'] \/ (~ Untrue /\ Untrue')
  BY <1>5, <1>7, <1>10 DEF Untrue
<1>13. Untrue => Untrue'
  BY <1>5, <1>7 DEF Untrue
<1>14. master'.clean => master.clean /\ c = Chars(f)[Came'] /\ Len(fifo.q) # 2
  BY <1>5, <1>10
<1>15. c \in Out!Chars
  BY <1>1
<1>. QED BY <1>2, <1>4, <1>5, <1>6, <1>8, <1>9, <1>11, <1>12, <1>13, <1>14, <1>15 DEF Arrived

\* How the count and the line follow.
LEMMA ArrivedLine ==
  ASSUME OutSizes, NEW f \in Frames, OutInv(f), NEW c, Arrived(f, c)
  PROVE  /\ \/ Len(master.rest) = 9 /\ Came = 9 /\ Came' = 1
            \/ Len(master.rest) # 9 /\ Came \in 1 .. 8 /\ Came' = Came + 1
         /\ \/ Len(fifo.q) = 2 /\ Len(fifo'.q) = 2 /\ fifo'.q = fifo.q /\ fifo'.oerr
            \/ Len(fifo.q) = 1 /\ Len(fifo'.q) = 2 /\ fifo'.q[1] = fifo.q[1] /\ fifo'.q[2] = c /\ ~ fifo'.oerr
            \/ Len(fifo.q) = 0 /\ Len(fifo'.q) = 1 /\ fifo'.q[1] = c /\ ~ fifo'.oerr
         /\ st # "control" => Len(fifo.q) = 0
         /\ c = Out!Colon => Came' = 1 \/ (~ Untrue /\ Untrue')
         /\ c = Out!Lf => Came' = 9 \/ (~ Untrue /\ Untrue')
<1>1. OutTypes /\ Sends(f) /\ Receives(f)
  BY DEF OutInv
<1>2. \/ Len(master.rest) = 9 /\ Came = 9 /\ Came' = 1
      \/ Len(master.rest) # 9 /\ Came \in 1 .. 8 /\ Came' = Came + 1
  <2>. DEFINE n == Len(master.rest)
              d == Came
              e == Came'
  <2>1. n \in 1 .. 9 /\ e \in 1 .. 9 /\ n - 1 = 9 - e
    BY DEF Arrived
  <2>2. (n = 9 => d = 9) /\ (n # 9 => d = 9 - n)
    BY <1>1, CameIs
  <2>. HIDE DEF n, d, e
  <2>3. \/ n = 9 /\ d = 9 /\ e = 1
        \/ n # 9 /\ d \in 1 .. 8 /\ e = d + 1
    BY <2>1, <2>2
  <2>. QED BY <2>3 DEF n, d, e
<1>3. \/ Len(fifo.q) = 2 /\ Len(fifo'.q) = 2 /\ fifo'.q = fifo.q /\ fifo'.oerr
      \/ Len(fifo.q) = 1 /\ Len(fifo'.q) = 2 /\ fifo'.q[1] = fifo.q[1] /\ fifo'.q[2] = c /\ ~ fifo'.oerr
      \/ Len(fifo.q) = 0 /\ Len(fifo'.q) = 1 /\ fifo'.q[1] = c /\ ~ fifo'.oerr
  <2>. DEFINE q == fifo.q
              n == Len(q)
              p == Append(q, c)
  <2>1. n \in 0 .. 2
    BY <1>1, RoomIs
  <2>2. q \in Seq(Out!Chars) /\ c \in Out!Chars
    BY <1>1 DEF OutTypes, Arrived
  <2>3. Len(p) = n + 1 /\ p[n + 1] = c /\ \A i \in 1 .. n : p[i] = q[i]
    BY <2>2, OneMore
  <2>4. (n # 2 => fifo' = [q |-> p, oerr |-> FALSE]) /\ (n = 2 => fifo' = [q |-> q, oerr |-> TRUE])
    BY DEF Arrived
  <2>. HIDE DEF p
  <2>5. CASE n = 2
    BY <2>4, <2>5
  <2>6. CASE n = 1
    <3>1. fifo'.q = p /\ ~ fifo'.oerr
      BY <2>4, <2>6
    <3>2. Len(p) = 2 /\ p[2] = c /\ p[1] = q[1]
      BY <2>3, <2>6
    <3>. QED BY <3>1, <3>2, <2>6
  <2>7. CASE n = 0
    <3>1. fifo'.q = p /\ ~ fifo'.oerr
      BY <2>4, <2>7
    <3>2. Len(p) = 1 /\ p[1] = c
      BY <2>3, <2>7
    <3>. QED BY <3>1, <3>2, <2>7
  <2>. QED BY <2>1, <2>5, <2>6, <2>7
<1>4. st # "control" => Len(fifo.q) = 0
  BY DEF Arrived
<1>5. Came' \in 1 .. 9 /\ (c = Chars(f)[Came'] \/ (~ Untrue /\ Untrue'))
  BY DEF Arrived
<1>6. c = Chars(f)[Came'] => (c = Out!Colon <=> Came' = 1) /\ (c = Out!Lf <=> Came' = 9)
  BY <1>5, SignsStand
<1>. QED BY <1>2, <1>3, <1>4, <1>5, <1>6

LEMMA ArrivedHolds ==
  ASSUME OutSizes, NEW f \in Frames, OutInv(f), NEW c, Arrived(f, c)
  PROVE  Receives(f)'
<1>. DEFINE q == fifo.q
            p == fifo'.q
            n == Len(q)
            n1 == Len(p)
            d == Came
            e == Came'
<1>1. OutTypes /\ Sends(f) /\ Receives(f)
  BY DEF OutInv
<1>2. /\ \/ Len(master.rest) = 9 /\ d = 9 /\ e = 1
         \/ Len(master.rest) # 9 /\ d \in 1 .. 8 /\ e = d + 1
      /\ \/ n = 2 /\ n1 = 2 /\ p = q /\ fifo'.oerr
         \/ n = 1 /\ n1 = 2 /\ p[1] = q[1] /\ p[2] = c /\ ~ fifo'.oerr
         \/ n = 0 /\ n1 = 1 /\ p[1] = c /\ ~ fifo'.oerr
      /\ st # "control" => n = 0
      /\ c = Out!Colon => e = 1 \/ (~ Untrue /\ Untrue')
      /\ c = Out!Lf => e = 9 \/ (~ Untrue /\ Untrue')
  BY ArrivedLine
<1>3. st' = st /\ ~ fifo.oerr /\ (Untrue => Untrue') /\ (c = Chars(f)[e] \/ (~ Untrue /\ Untrue'))
  BY DEF Arrived
<1>4. /\ n = 1 /\ q[1] = Out!Colon /\ d >= 3 => Untrue
      /\ n = 2 /\ q[1] = Out!Colon =>
           /\ d \in {2, 3}
           /\ d = 2 => Untrue \/ q[2] = Chars(f)[2]
      /\ n = 2 /\ q[2] = Out!Colon /\ (d >= 3 \/ q[1] = Out!Colon) => Untrue
      /\ st = "control" =>
           /\ n = 0 => d = 9 \/ Untrue
           /\ n = 1 /\ q[1] = Out!Colon => d = 1
           /\ n = 2 /\ ~ fifo.oerr => /\ q[1] = Out!Colon => d = 2
                                      /\ q[2] = Out!Colon /\ d >= 2 => Untrue
  BY <1>1 DEF Receives
<1>5. Chars(f)' = Chars(f)
  BY DEF Chars
<1>6. n1 = Len(fifo'.q) /\ p = fifo'.q /\ e = Came'
  OBVIOUS
<1>. HIDE DEF q, p, n, n1, d, e
<1>7. Room'
  <2>1. n1 <= 2 /\ (st' \in {"reception", "eof"} => n1 <= 1) /\ (fifo'.oerr => n1 = 2)
    BY <1>2, <1>3
  <2>. QED BY <2>1, <1>6 DEF Room
<1>8. n1 = 1 /\ p[1] = Out!Colon /\ e >= 3 => Untrue'
  BY <1>2, <1>3
<1>9. ASSUME n1 = 2, p[1] = Out!Colon PROVE e \in {2, 3} /\ (e = 2 => Untrue' \/ p[2] = Chars(f)[2])
  BY <1>9, <1>2, <1>3, <1>4
<1>10. n1 = 2 /\ p[2] = Out!Colon /\ (e >= 3 \/ p[1] = Out!Colon) => Untrue'
  BY <1>2, <1>3, <1>4
<1>11. st' = "eof" /\ n1 = 1 /\ p[1] = Out!Lf => e = 9 \/ Untrue'
  BY <1>2, <1>3
<1>12. ASSUME st' = "control"
       PROVE  /\ n1 = 0 => e = 9 \/ Untrue'
              /\ n1 = 1 /\ p[1] = Out!Colon => e = 1
              /\ n1 = 2 /\ ~ fifo'.oerr => /\ p[1] = Out!Colon => e = 2
                                           /\ p[2] = Out!Colon /\ e >= 2 => Untrue'
  BY <1>12, <1>2, <1>3, <1>4
<1>. QED BY <1>5, <1>6, <1>7, <1>8, <1>9, <1>10, <1>11, <1>12 DEF Receives

LEMMA ArrivedReception ==
  ASSUME OutSizes, NEW f \in Frames, OutInv(f), NEW c, Arrived(f, c), frame_ok, st = "reception"
  PROVE  Reception(f)'
<1>. DEFINE l == Len(buffer)
            d == Came
            e == Came'
<1>1. OutTypes /\ Sends(f) /\ Receives(f) /\ Reception(f)
  BY DEF OutInv
<1>2. /\ \/ Len(master.rest) = 9 /\ d = 9 /\ e = 1
         \/ Len(master.rest) # 9 /\ d \in 1 .. 8 /\ e = d + 1
      /\ Len(fifo.q) = 0 /\ Len(fifo'.q) = 1 /\ fifo'.q[1] = c
      /\ c = Out!Colon => e = 1 \/ (~ Untrue /\ Untrue')
  BY ArrivedLine
<1>3. /\ buffer' = buffer /\ (Untrue => Untrue') /\ e \in 1 .. 9
      /\ c = Chars(f)[e] \/ (~ Untrue /\ Untrue')
  BY DEF Arrived
<1>4. l \in Nat /\ Out!FrameChars = 6 /\ Chars(f)' = Chars(f)
  BY <1>1, CameIs, SignsDiffer DEF Chars
<1>5. l = Len(buffer) /\ d = Came /\ e = Came'
  OBVIOUS
<1>. HIDE DEF l, d, e
<1>6. CASE NoFrame(buffer)
  BY <1>6, <1>3 DEF Reception, NoFrame
<1>7. CASE Begun(f)
  <2>1. l <= 6 /\ l = d - 1
    BY <1>7, <1>2, <1>4, <1>5 DEF Begun
  <2>2. d \in 1 .. 7 /\ e = d + 1 /\ l + 1 = e - 1
    BY <2>1, <1>2, <1>4
  <2>3. PICK k \in 0 .. 8 :
          /\ \A i \in 1 .. Len(buffer) : i # k => buffer[i] = Chars(f)[i + 1]
          /\ k # 0 => Untrue
    BY <1>7 DEF Begun
  <2>. DEFINE h == IF c = Chars(f)[e] THEN k ELSE l + 1
  <2>4. h \in 0 .. 8 /\ (h # 0 => Untrue') /\ (c # Chars(f)[e] => h = l + 1)
    BY <2>1, <2>2, <2>3, <1>3, <1>4
  <2>5. \A i \in 1 .. Len(buffer) : i # h => buffer[i] = Chars(f)[i + 1]
    BY <2>3, <1>3
  <2>. HIDE DEF h
  <2>6. Len(fifo'.q) = 1 /\ h # Len(buffer) + 1 => fifo'.q[1] = Chars(f)[Came']
    BY <2>4, <1>2, <1>5
  <2>7. /\ Len(buffer') <= 6 /\ Len(buffer') + Len(fifo'.q) = Came' - 1
    BY <2>1, <2>2, <1>2, <1>3, <1>5
  <2>8. Begun(f)'
    BY <2>4, <2>5, <2>6, <2>7, <1>3, <1>4 DEF Begun
  <2>. QED BY <2>8 DEF Reception
<1>8. CASE Short
  <2>1. d \in 1 .. 8 /\ l + 9 - d < 8 /\ (d = 8 => Untrue)
    BY <1>8, <1>2, <1>5 DEF Short
  <2>2. d \in 1 .. 8 /\ e = d + 1 /\ e - 1 \in 1 .. 8 /\ l + 1 + 9 - e < 8
    BY <2>1, <1>2, <1>4
  <2>3. c = Out!Colon => Untrue'
    BY <2>2, <1>2
  <2>4. e = 8 /\ c # Out!Cr => Untrue'
    BY <1>3, SignsStand
  <2>5. e - 1 = 8 => Untrue' /\ c = Out!Lf
    <3>. SUFFICES ASSUME e - 1 = 8 PROVE Untrue' /\ c = Out!Lf
      OBVIOUS
    <3>1. d = 8 /\ e = 9
      BY <2>2
    <3>2. Untrue /\ Untrue' /\ c = Chars(f)[9]
      BY <3>1, <2>1, <1>3
    <3>. QED BY <3>2, SignsStand
  <2>6. Short'
    BY <2>2, <2>3, <2>4, <2>5, <1>2, <1>3, <1>5 DEF Short
  <2>. QED BY <2>6 DEF Reception
<1>9. CASE Restarted
  <2>1. Untrue /\ buffer = <<>> /\ d = 9
    BY <1>9, <1>2, <1>5 DEF Restarted
  <2>2. e = 1 /\ Untrue' /\ c = Chars(f)[1]
    BY <2>1, <1>2, <1>3
  <2>3. c = Out!Colon
    BY <2>2, SignsStand
  <2>. QED BY <2>1, <2>2, <2>3, <1>2, <1>3, <1>5 DEF Reception, Restarted
<1>. QED BY <1>1, <1>6, <1>7, <1>8, <1>9 DEF Reception

LEMMA ArrivedIntact ==
  ASSUME OutSizes, NEW f \in Frames, OutInv(f), NEW c, Arrived(f, c), master'.clean
  PROVE  Intact(f)'
<1>. DEFINE q == fifo.q
            p == fifo'.q
            n == Len(q)
            n1 == Len(p)
            d == Came
            e == Came'
            Has(k) == Len(buffer) = k /\ \A i \in 1 .. k : buffer[i] = Chars(f)[i + 1]
<1>1. Intact(f)
  BY DEF OutInv, Arrived
<1>2. /\ \/ Len(master.rest) = 9 /\ d = 9 /\ e = 1
         \/ Len(master.rest) # 9 /\ d \in 1 .. 8 /\ e = d + 1
      /\ \/ n = 2 /\ n1 = 2 /\ p = q /\ fifo'.oerr
         \/ n = 1 /\ n1 = 2 /\ p[1] = q[1] /\ p[2] = c /\ ~ fifo'.oerr
         \/ n = 0 /\ n1 = 1 /\ p[1] = c /\ ~ fifo'.oerr
      /\ st # "control" => n = 0
  BY ArrivedLine
<1>3. st' = st /\ frame_ok' = frame_ok /\ buffer' = buffer /\ outputs' = outputs /\ c = Chars(f)[e] /\ n # 2
  BY DEF Arrived
<1>4. Chars(f)' = Chars(f)
  BY DEF Chars
<1>5. \/ Len(master.rest) = 9
      \/ d <= n /\ \A i \in 1 .. d : q[n - d + i] = Chars(f)[i]
      \/ /\ frame_ok /\ st = "reception" /\ d - n \in 1 .. 7 /\ Has(d - n - 1)
         /\ n = 1 => q[1] = Chars(f)[d]
      \/ /\ frame_ok /\ st = "eof" /\ d - n = 8 /\ Has(6)
         /\ n = 1 => q[1] = Chars(f)[d]
      \/ frame_ok /\ st = "control" /\ n = 0 /\ d = 9 /\ Has(6)
      \/ st = "idle" /\ n = 0 /\ d = 9 /\ (f[1] = Out!Command => outputs = f[2])
  BY <1>1 DEF Intact
<1>6. n1 = Len(fifo'.q) /\ p = fifo'.q /\ e = Came'
  OBVIOUS
<1>7. ASSUME \/ e <= n1 /\ \A i \in 1 .. e : p[n1 - e + i] = Chars(f)[i]
             \/ /\ frame_ok /\ st = "reception" /\ e - n1 \in 1 .. 7 /\ Has(e - n1 - 1)
                /\ n1 = 1 => p[1] = Chars(f)[e]
             \/ /\ frame_ok /\ st = "eof" /\ e - n1 = 8 /\ Has(6)
                /\ n1 = 1 => p[1] = Chars(f)[e]
      PROVE  Intact(f)'
  BY <1>2, <1>3, <1>4, <1>7 DEF Intact
<1>. HIDE DEF q, p, n, n1, d, e, Has
<1>8. CASE Len(master.rest) = 9
  <2>1. e = 1 /\ n1 \in {1, 2} /\ p[n1] = c /\ n1 - 1 + 1 = n1
    BY <1>8, <1>2, <1>3
  <2>2. e <= n1 /\ \A i \in 1 .. e : p[n1 - e + i] = Chars(f)[i]
    BY <2>1, <1>3
  <2>. QED BY <2>2, <1>7
<1>9. CASE Len(master.rest) # 9 /\ d <= n /\ \A i \in 1 .. d : q[n - d + i] = Chars(f)[i]
  <2>1. n = 1 /\ d = 1 /\ e = 2 /\ n1 = 2 /\ p[1] = q[1] /\ p[2] = c
    BY <1>9, <1>2, <1>3
  <2>2. q[1] = Chars(f)[1]
    <3>1. 1 \in 1 .. d /\ n - d + 1 = 1
      BY <2>1
    <3>. QED BY <3>1, <1>9
  <2>3. e <= n1 /\ \A i \in 1 .. e : p[n1 - e + i] = Chars(f)[i]
    BY <2>1, <2>2, <1>3
  <2>. QED BY <2>3, <1>7
<1>10. CASE /\ Len(master.rest) # 9
            /\ frame_ok /\ st = "reception" /\ d - n \in 1 .. 7 /\ Has(d - n - 1)
            /\ n = 1 => q[1] = Chars(f)[d]
  <2>1. n = 0 /\ n1 = 1 /\ e = d + 1 /\ p[1] = c /\ d \in 1 .. 8
    BY <1>10, <1>2
  <2>2. e - n1 = d - n /\ e - n1 - 1 = d - n - 1
    BY <2>1
  <2>. QED BY <2>1, <2>2, <1>3, <1>7, <1>10
<1>11. CASE /\ Len(master.rest) # 9
            /\ frame_ok /\ st = "eof" /\ d - n = 8 /\ Has(6)
            /\ n = 1 => q[1] = Chars(f)[d]
  <2>1. n = 0 /\ n1 = 1 /\ e = d + 1 /\ p[1] = c /\ d \in 1 .. 8
    BY <1>11, <1>2
  <2>2. e - n1 = 8
    BY <2>1, <1>11
  <2>. QED BY <2>1, <2>2, <1>3, <1>7, <1>11
<1>12. CASE Len(master.rest) # 9 /\ d = 9
  BY <1>12, <1>2
<1>. QED BY <1>5, <1>8, <1>9, <1>10, <1>11, <1>12

\* A character arrives.
LEMMA OutArrives == ASSUME OutSizes, NEW f, OutInv(f), Out!Arrive PROVE OutInv(f)'
<1>1. f \in Frames /\ OutTypes /\ Sends(f) /\ Receives(f)
  BY DEF OutInv
<1>2. PICK c \in Out!Chars : Arrived(f, c)
  BY <1>1, ArriveIs
<1>3. Receives(f)' /\ (frame_ok /\ st = "reception" => Reception(f)') /\ (master'.clean => Intact(f)')
  BY <1>1, <1>2, ArrivedHolds, ArrivedReception, ArrivedIntact
<1>4. /\ \/ Len(master.rest) = 9 /\ Came = 9 /\ Came' = 1
         \/ Len(master.rest) # 9 /\ Came \in 1 .. 8 /\ Came' = Came + 1
      /\ \/ Len(fifo.q) = 2 /\ Len(fifo'.q) = 2 /\ fifo'.q = fifo.q /\ fifo'.oerr
         \/ Len(fifo.q) = 1 /\ Len(fifo'.q) = 2 /\ fifo'.q[1] = fifo.q[1] /\ fifo'.q[2] = c /\ ~ fifo'.oerr
         \/ Len(fifo.q) = 0 /\ Len(fifo'.q) = 1 /\ fifo'.q[1] = c /\ ~ fifo'.oerr
      /\ st # "control" => Len(fifo.q) = 0
  BY <1>1, <1>2, ArrivedLine
<1>5. /\ st' = st /\ frame_ok' = frame_ok /\ buffer' = buffer /\ ~ fifo.oerr
      /\ master'.val = master.val /\ master'.prev = master.prev
      /\ Len(master.rest) \in 1 .. 9 /\ Len(master'.rest) = Len(master.rest) - 1
      /\ Len(master'.rest) = 9 - Came' /\ OutTypes' /\ Sends(f)'
  BY <1>2 DEF Arrived
<1>6. ASSUME frame_ok, st = "eof" PROVE Eof'
  <2>. SUFFICES ASSUME Passes(buffer) PROVE Eof'
    BY <1>5 DEF Eof, Passes
  <2>1. Eof
    BY <1>6 DEF OutInv
  <2>2. Len(fifo.q) = 0 /\ Len(fifo'.q) = 1
    BY <1>4, <1>6
  <2>3. Came = 8 /\ Value(buffer) = IF Len(master.rest) = 9 THEN master.prev ELSE master.val
    BY <2>1, <2>2 DEF Eof
  <2>4. Came' = 9 /\ Len(master'.rest) = 0 /\ Value(buffer) = master.val
    <3>1. Len(master.rest) # 9 /\ Came' = 9
      BY <2>3, <1>4
    <3>2. Len(master'.rest) = 9 - 9
      BY <3>1, <1>5
    <3>. QED BY <3>1, <3>2, <2>3
  <2>. QED BY <2>2, <2>4, <1>5 DEF Eof, Value
<1>7. ASSUME frame_ok, st = "control" PROVE Controls'
  <2>. SUFFICES ASSUME Passes(buffer) PROVE Controls'
    BY <1>5 DEF Controls, Passes
  <2>1. Controls
    BY <1>7 DEF OutInv
  <2>2. master.rest # <<>>
    BY <1>5
  <2>3. Len(master.rest) = 9 - Len(fifo.q) /\ Value(buffer) = master.prev
    <3>1. /\ Len(master.rest) = 9 - Len(fifo.q) - (IF fifo.oerr THEN 1 ELSE 0)
          /\ Value(buffer) = master.prev
      BY <2>1, <2>2 DEF Controls
    <3>2. (IF fifo.oerr THEN 1 ELSE 0) = 0
      BY <1>5
    <3>. DEFINE n == Len(fifo.q)
    <3>3. n \in 0 .. 2
      BY <1>1, RoomIs
    <3>4. 9 - n - 0 = 9 - n
      <4>. HIDE DEF n
      <4>. QED BY <3>3
    <3>. QED BY <3>1, <3>2, <3>4
  <2>4. Len(master'.rest) = 9 - Len(fifo'.q) - (IF fifo'.oerr THEN 1 ELSE 0)
    <3>. DEFINE n == Len(fifo.q)
                n1 == Len(fifo'.q)
                o == IF fifo'.oerr THEN 1 ELSE 0
                r == Len(master'.rest)
    <3>1. r = 9 - n - 1
      BY <2>3, <1>5
    <3>2. (n = 2 /\ n1 = 2 /\ o = 1) \/ (n = 1 /\ n1 = 2 /\ o = 0) \/ (n = 0 /\ n1 = 1 /\ o = 0)
      BY <1>4
    <3>. HIDE DEF n, n1, o, r
    <3>3. r = 9 - n1 - o
      BY <3>1, <3>2
    <3>. QED BY <3>3 DEF n1, o, r
  <2>. QED BY <2>3, <2>4, <1>5 DEF Controls, Value
<1>. QED BY <1>1, <1>3, <1>5, <1>6, <1>7 DEF OutInv
\* The automaton reads c.
Read(f, c) ==
  /\ c = fifo.q[1] /\ c \in Out!Chars /\ Sends(f)' /\ Came' = Came /\ Chars(f)' = Chars(f)
  /\ ~ fifo.oerr /\ ~ fifo'.oerr /\ fifo'.q \in Seq(Out!Chars)
  /\ \/ Len(fifo.q) = 1 /\ Len(fifo'.q) = 0
     \/ Len(fifo.q) = 2 /\ Len(fifo'.q) = 1 /\ fifo'.q[1] = fifo.q[2] /\ st = "idle"
  /\ master' = master /\ outputs' = outputs
  /\ \/ c = Out!Colon /\ frame_ok' = TRUE /\ buffer' = <<>> /\ st' = "reception"
     \/ c # Out!Colon /\ st = "idle" /\ st' = st /\ frame_ok' = frame_ok /\ buffer' = buffer
     \/ /\ c \notin {Out!Colon, Out!Cr} /\ st = "reception" /\ st' = "reception"
        /\ IF Len(buffer) < BufLen
           THEN buffer' = Append(buffer, c) /\ frame_ok' = frame_ok
           ELSE frame_ok' = FALSE /\ buffer' = buffer
     \/ c = Out!Cr /\ st = "reception" /\ st' = "eof" /\ frame_ok' = frame_ok /\ buffer' = buffer
     \/ c = Out!Lf /\ st = "eof" /\ st' = "control" /\ frame_ok' = frame_ok /\ buffer' = buffer
     \/ c \notin {Out!Colon, Out!Lf} /\ st = "eof" /\ frame_ok' = FALSE /\ st' = st /\ buffer' = buffer

LEMMA GetcReads ==
  ASSUME OutSizes, NEW f \in Frames, OutInv(f), Out!Getc
  PROVE  Read(f, fifo.q[1]) /\ OutTypes'
<1>. DEFINE q == fifo.q
            p == Tail(q)
            n == Len(q)
            c == q[1]
<1>1. OutTypes /\ Sends(f) /\ Receives(f)
  BY DEF OutInv
<1>2. /\ st # "control" /\ q # <<>> /\ ~ fifo.oerr /\ fifo' = [fifo EXCEPT !.q = Tail(@)]
      /\ master' = master /\ outputs' = outputs
  BY DEF Out!Getc
<1>3. q \in Seq(Out!Chars)
  BY <1>1 DEF OutTypes
<1>4. /\ p \in Seq(Out!Chars) /\ n >= 1 /\ Len(p) = n - 1 /\ Head(q) = c /\ c \in Out!Chars
      /\ \A i \in 1 .. n - 1 : p[i] = q[i + 1]
  BY <1>2, <1>3, OneLess
<1>5. \/ c = Out!Colon /\ frame_ok' = TRUE /\ buffer' = <<>> /\ st' = "reception"
      \/ c # Out!Colon /\ st = "idle" /\ st' = st /\ frame_ok' = frame_ok /\ buffer' = buffer
      \/ /\ c \notin {Out!Colon, Out!Cr} /\ st = "reception" /\ st' = "reception"
         /\ IF Len(buffer) < BufLen
            THEN buffer' = Append(buffer, c) /\ frame_ok' = frame_ok
            ELSE frame_ok' = FALSE /\ buffer' = buffer
      \/ c = Out!Cr /\ st = "reception" /\ st' = "eof" /\ frame_ok' = frame_ok /\ buffer' = buffer
      \/ c = Out!Lf /\ st = "eof" /\ st' = "control" /\ frame_ok' = frame_ok /\ buffer' = buffer
      \/ c \notin {Out!Colon, Out!Lf} /\ st = "eof" /\ frame_ok' = FALSE /\ st' = st /\ buffer' = buffer
  <2>1. Head(fifo.q) = c
    BY <1>4
  <2>. HIDE DEF c
  <2>. QED BY <2>1 DEF Out!Getc, Out!StartOfFrame, Out!ConcatChar
<1>6. fifo' = [q |-> p, oerr |-> FALSE]
  <2>1. fifo = [q |-> q, oerr |-> FALSE]
    BY <1>1, <1>2 DEF OutTypes
  <2>2. fifo' = [fifo EXCEPT !.q = p]
    BY <1>2
  <2>. HIDE DEF p, q
  <2>. QED BY <2>1, <2>2
<1>7. \/ n = 1 /\ Len(p) = 0
      \/ n = 2 /\ Len(p) = 1 /\ p[1] = q[2] /\ st = "idle"
  <2>1. n \in 0 .. 2 /\ (st \in {"reception", "eof"} => n <= 1)
    BY <1>1, RoomIs
  <2>2. st \in {"idle", "reception", "eof"}
    BY <1>1, <1>2 DEF OutTypes
  <2>3. n = 1 => Len(p) = 0
    BY <1>4
  <2>4. n = 2 => Len(p) = 1 /\ p[1] = q[2] /\ st = "idle"
    <3>. SUFFICES ASSUME n = 2 PROVE Len(p) = 1 /\ p[1] = q[2] /\ st = "idle"
      OBVIOUS
    <3>1. Len(p) = 1 /\ 1 \in 1 .. n - 1
      BY <1>4
    <3>2. p[1] = q[2]
      BY <3>1, <1>4
    <3>3. st = "idle"
      BY <2>1, <2>2
    <3>. QED BY <3>1, <3>2, <3>3
  <2>5. n = 1 \/ n = 2
    <3>1. n >= 1
      BY <1>4
    <3>. HIDE DEF n
    <3>. QED BY <3>1, <2>1
  <2>. QED BY <2>3, <2>4, <2>5
<1>8. fifo'.q = p /\ ~ fifo'.oerr
  <2>. HIDE DEF p
  <2>. QED BY <1>6
<1>9. Sends(f)' /\ Came' = Came /\ Chars(f)' = Chars(f)
  BY <1>1, <1>2, SameLine DEF Chars
<1>10. Read(f, c)
  <2>. HIDE DEF c, p, n
  <2>1. c = fifo.q[1] /\ n = Len(fifo.q)
    BY DEF c, n
  <2>. QED BY <1>2, <1>4, <1>5, <1>7, <1>8, <1>9, <2>1 DEF Read
<1>11. buffer' \in Seq(Out!Chars) /\ frame_ok' \in BOOLEAN /\ st' \in {"idle", "reception", "eof", "control"}
  <2>1. buffer \in Seq(Out!Chars) /\ frame_ok \in BOOLEAN /\ <<>> \in Seq(Out!Chars)
    BY <1>1 DEF OutTypes
  <2>2. Append(buffer, c) \in Seq(Out!Chars)
    BY <2>1, <1>4, OneMore
  <2>3. buffer' \in {buffer, <<>>, Append(buffer, c)}
    BY <1>5
  <2>4. frame_ok' \in {frame_ok, TRUE, FALSE} /\ st' \in {"idle", "reception", "eof", "control"}
    BY <1>5
  <2>. HIDE DEF c
  <2>. QED BY <2>1, <2>2, <2>3, <2>4
<1>12. fifo' = [q |-> fifo'.q, oerr |-> fifo'.oerr] /\ fifo'.q \in Seq(Out!Chars) /\ fifo'.oerr \in BOOLEAN
  <2>. HIDE DEF p
  <2>. QED BY <1>4, <1>6
<1>. QED BY <1>1, <1>2, <1>10, <1>11, <1>12 DEF OutTypes

LEMMA ReadHolds ==
  ASSUME OutSizes, NEW f \in Frames, OutInv(f), NEW c, Read(f, c)
  PROVE  Receives(f)'
<1>. DEFINE q == fifo.q
            p == fifo'.q
            n == Len(q)
            n1 == Len(p)
<1>1. /\ n = 2 /\ q[2] = Out!Colon /\ (Came >= 3 \/ q[1] = Out!Colon) => Untrue
      /\ st = "eof" /\ n = 1 /\ q[1] = Out!Lf => Came = 9 \/ Untrue
  BY DEF OutInv, Receives
<1>2. /\ (n = 1 /\ n1 = 0) \/ (n = 2 /\ n1 = 1 /\ p[1] = q[2] /\ st = "idle")
      /\ c = q[1] /\ ~ fifo'.oerr /\ master' = master /\ Came' = Came
      /\ st' = "control" => st = "eof" /\ c = Out!Lf
      /\ st' = "eof" => st # "idle"
  BY DEF Read
<1>3. n1 = Len(fifo'.q) /\ p = fifo'.q
  OBVIOUS
<1>. HIDE DEF q, p, n, n1
<1>4. Room'
  <2>1. n1 <= 2 /\ (st' \in {"reception", "eof"} => n1 <= 1) /\ ~ fifo'.oerr
    BY <1>2
  <2>. QED BY <2>1, <1>3 DEF Room
<1>5. n1 = 1 /\ p[1] = Out!Colon /\ Came >= 3 => Untrue
  BY <1>1, <1>2
<1>6. n1 # 2 /\ (st' = "eof" => n1 # 1)
  BY <1>2
<1>7. st' = "control" => n1 = 0 /\ (Came = 9 \/ Untrue)
  BY <1>1, <1>2
<1>. QED BY <1>2, <1>3, <1>4, <1>5, <1>6, <1>7 DEF Receives, Untrue

\* A colon begins a buffer: of the frame, or of its end when one is a changed character.
LEMMA ReadColon ==
  ASSUME OutSizes, NEW f \in Frames, OutInv(f), Read(f, Out!Colon)
  PROVE  Reception(f)'
<1>. DEFINE q == fifo.q
            p == fifo'.q
            n == Len(q)
            n1 == Len(p)
            d == Came
            c == Out!Colon
<1>1. OutTypes /\ Sends(f) /\ Receives(f) /\ d \in 1 .. 9
  <2>1. OutTypes /\ Sends(f) /\ Receives(f)
    BY DEF OutInv
  <2>. QED BY <2>1, CameIs
<1>2. /\ n = 1 /\ q[1] = Out!Colon /\ d >= 3 => Untrue
      /\ n = 2 /\ q[1] = Out!Colon =>
           /\ d \in {2, 3}
           /\ d = 2 => Untrue \/ q[2] = Chars(f)[2]
      /\ n = 2 /\ q[2] = Out!Colon /\ (d >= 3 \/ q[1] = Out!Colon) => Untrue
  BY <1>1 DEF Receives
<1>3. /\ (n = 1 /\ n1 = 0) \/ (n = 2 /\ n1 = 1 /\ p[1] = q[2])
      /\ c = q[1] /\ master' = master /\ Came' = d /\ Chars(f)' = Chars(f)
  BY DEF Read
<1>4. buffer' = <<>> /\ Len(buffer') = 0
  <2>1. buffer' = <<>>
    BY SignsDiffer DEF Read
  <2>. QED BY <2>1
<1>5. Out!FrameChars = 6 /\ (Untrue <=> Untrue')
  BY <1>3, SignsDiffer DEF Untrue
<1>6. n1 = Len(fifo'.q) /\ p = fifo'.q
  OBVIOUS
<1>7. ASSUME n1 = d - 1, NEW k \in 0 .. 1, n1 = 1 /\ k # 1 => p[1] = Chars(f)[d], k # 0 => Untrue
      PROVE  Reception(f)'
  <2>1. k \in 0 .. 8
    OBVIOUS
  <2>2. Len(buffer') <= 6 /\ Len(buffer') + Len(fifo'.q) = Came' - 1
    <3>. HIDE DEF n1, d
    <3>1. n1 \in 0 .. 1 /\ d \in 1 .. 9
      BY <1>1, <1>3
    <3>2. 0 <= 6 /\ 0 + n1 = d - 1
      BY <3>1, <1>7
    <3>. QED BY <3>2, <1>3, <1>4, <1>6
  <2>3. \A i \in 1 .. Len(buffer') : i # k => buffer'[i] = Chars(f)[i + 1]
    BY <1>4
  <2>4. Len(fifo'.q) = 1 /\ k # Len(buffer') + 1 => fifo'.q[1] = Chars(f)[Came']
    BY <1>3, <1>4, <1>7
  <2>. QED BY <2>1, <2>2, <2>3, <2>4, <1>3, <1>5, <1>7 DEF Reception, Begun
<1>8. ASSUME d - n1 \in 1 .. 8, 0 + n1 + 9 - d < 8, n1 = 1 => d = 3, n1 = 1 /\ p[1] = Out!Colon => Untrue, d - n1 = 8 => Untrue
      PROVE  Reception(f)'
  <2>1. Came' - Len(fifo'.q) \in 1 .. 8 /\ Len(buffer') + Len(fifo'.q) + 9 - Came' < 8
    BY <1>3, <1>4, <1>6, <1>8
  <2>2. (Len(fifo'.q) = 1 => Came' = 3) /\ (Len(fifo'.q) = 1 /\ fifo'.q[1] = Out!Colon => Untrue)
    BY <1>3, <1>6, <1>8
  <2>3. Came' - Len(fifo'.q) = 8 => Untrue /\ (Len(fifo'.q) = 1 => fifo'.q[1] = Out!Lf)
    BY <1>3, <1>6, <1>8
  <2>. QED BY <2>1, <2>2, <2>3, <1>5 DEF Reception, Short
<1>. HIDE DEF q, p, n, n1, d
<1>9. CASE n = 1 /\ d = 1
  BY <1>9, <1>3, <1>7
<1>10. CASE n = 1 /\ d \in 2 .. 8
  <2>1. d - n1 \in 1 .. 8 /\ 0 + n1 + 9 - d < 8 /\ n1 # 1 /\ (d - n1 = 8 => Untrue)
    BY <1>10, <1>2, <1>3
  <2>. QED BY <2>1, <1>8
<1>11. CASE n = 1 /\ d = 9
  <2>1. Untrue /\ n1 = 0
    BY <1>11, <1>2, <1>3
  <2>. QED BY <2>1, <1>11, <1>3, <1>4, <1>5, <1>6 DEF Reception, Restarted
<1>12. CASE n = 2 /\ d = 2
  <2>1. n1 = d - 1 /\ n1 = 1 /\ p[1] = q[2] /\ (Untrue \/ q[2] = Chars(f)[2])
    BY <1>12, <1>2, <1>3
  <2>2. CASE q[2] = Chars(f)[2]
    BY <2>1, <2>2, <1>7, <1>12
  <2>3. CASE Untrue
    BY <2>1, <2>3, <1>7
  <2>. QED BY <2>1, <2>2, <2>3
<1>13. CASE n = 2 /\ d = 3
  <2>1. d - n1 \in 1 .. 8 /\ 0 + n1 + 9 - d < 8 /\ n1 = 1 /\ (p[1] = Out!Colon => Untrue) /\ d - n1 # 8
    BY <1>13, <1>2, <1>3
  <2>. QED BY <2>1, <1>8, <1>13
<1>. QED BY <1>1, <1>2, <1>3, <1>9, <1>10, <1>11, <1>12, <1>13

\* A character is added to the buffer.
LEMMA ReadConcat ==
  ASSUME OutSizes, NEW f \in Frames, OutInv(f), NEW c, Read(f, c), frame_ok, st = "reception",
         c \notin {Out!Colon, Out!Cr}, buffer' = Append(buffer, c)
  PROVE  Reception(f)'
<1>. DEFINE l == Len(buffer)
            l1 == Len(buffer')
            d == Came
<1>1. OutTypes /\ Sends(f) /\ Receives(f) /\ Reception(f)
  BY DEF OutInv
<1>2. /\ Len(fifo.q) = 1 /\ Len(fifo'.q) = 0 /\ c = fifo.q[1] /\ c \in Out!Chars
      /\ master' = master /\ Came' = d /\ Chars(f)' = Chars(f)
  BY DEF Read
<1>3. buffer \in Seq(Out!Chars)
  BY <1>1 DEF OutTypes
<1>4. l1 = l + 1 /\ buffer'[l + 1] = c /\ (\A i \in 1 .. l : buffer'[i] = buffer[i]) /\ l \in Nat /\ d \in 1 .. 9
      /\ DOMAIN buffer = 1 .. l /\ DOMAIN buffer' = 1 .. l1
  <2>1. buffer' \in Seq(Out!Chars) /\ l1 = l + 1 /\ buffer'[l + 1] = c /\ \A i \in 1 .. l : buffer'[i] = buffer[i]
    BY <1>2, <1>3, OneMore
  <2>2. l \in Nat /\ d \in 1 .. 9
    BY <1>1, CameIs
  <2>3. DOMAIN buffer = 1 .. l /\ DOMAIN buffer' = 1 .. l1
    BY <1>3, <2>1
  <2>. QED BY <2>1, <2>2, <2>3
<1>5. Out!FrameChars = 6 /\ (Untrue <=> Untrue') /\ B \in Nat /\ Out!Lf >= B
  BY <1>2, SignsDiffer DEF Untrue
<1>6. l = Len(buffer) /\ l1 = Len(buffer') /\ d = Came
  OBVIOUS
<1>. HIDE DEF l, l1, d
<1>7. ~ c < B => NoFrame(buffer')
  <2>1. l + 1 \in DOMAIN buffer'
    BY <1>4
  <2>. QED BY <2>1, <1>4 DEF NoFrame, Out!IsHex
<1>8. CASE NoFrame(buffer)
  <2>1. CASE l > 6
    BY <2>1, <1>4, <1>5, <1>6 DEF Reception, NoFrame
  <2>2. CASE ~ Out!IsHex(buffer)
    <3>1. PICK i \in 1 .. l : ~ buffer[i] < B
      BY <2>2, <1>4 DEF Out!IsHex
    <3>2. i \in DOMAIN buffer' /\ buffer'[i] = buffer[i]
      BY <1>4
    <3>. QED BY <3>1, <3>2 DEF Reception, NoFrame, Out!IsHex
  <2>. QED BY <1>8, <2>1, <2>2, <1>5, <1>6 DEF NoFrame
<1>9. CASE Begun(f)
  <2>1. l <= 6 /\ l + 1 = d - 1
    BY <1>9, <1>2, <1>5, <1>6 DEF Begun
  <2>2. PICK k \in 0 .. 8 :
          /\ \A i \in 1 .. Len(buffer) : i # k => buffer[i] = Chars(f)[i + 1]
          /\ Len(fifo.q) = 1 /\ k # Len(buffer) + 1 => fifo.q[1] = Chars(f)[Came]
          /\ k # 0 => Untrue
    BY <1>9 DEF Begun
  <2>3. d \in 2 .. 8 /\ l + 1 + 1 = d
    BY <2>1, <1>4
  <2>4. CASE d = 8
    <3>1. l1 > 6
      BY <2>3, <2>4, <1>4
    <3>. QED BY <3>1, <1>5, <1>6 DEF Reception, NoFrame
  <2>5. CASE d # 8
    <3>1. l1 <= 6 /\ l1 + 0 = d - 1
      BY <2>3, <2>5, <1>4
    <3>2. \A i \in 1 .. l : i # k => buffer'[i] = Chars(f)[i + 1]
      BY <2>2, <1>4, <1>6
    <3>3. l + 1 # k => buffer'[l + 1] = Chars(f)[l + 1 + 1]
      BY <2>2, <2>3, <1>2, <1>4, <1>6
    <3>4. \A i \in 1 .. l1 : i \in 1 .. l \/ i = l + 1
      BY <1>4
    <3>5. \A i \in 1 .. l1 : i # k => buffer'[i] = Chars(f)[i + 1]
      BY <3>2, <3>3, <3>4
    <3>6. Begun(f)'
      <4>1. Len(buffer') <= 6 /\ Len(buffer') + Len(fifo'.q) = Came' - 1
        BY <3>1, <1>2, <1>6
      <4>2. \A i \in 1 .. Len(buffer') : i # k => buffer'[i] = Chars(f)[i + 1]
        BY <3>5, <1>6
      <4>3. k \in 0 .. 8 /\ (k # 0 => Untrue') /\ Len(fifo'.q) # 1
        BY <2>2, <1>2, <1>5
      <4>. QED BY <4>1, <4>2, <4>3, <1>2, <1>5 DEF Begun
    <3>. QED BY <3>6 DEF Reception
  <2>. QED BY <2>4, <2>5
<1>10. CASE Short
  <2>1. /\ d - 1 \in 1 .. 8 /\ l + 1 + 9 - d < 8
        /\ d = 8 /\ c # Out!Cr => Untrue
        /\ d - 1 = 8 => c = Out!Lf
    BY <1>10, <1>2, <1>6 DEF Short
  <2>2. CASE d = 9
    <3>1. c = Out!Lf
      BY <2>1, <2>2
    <3>2. ~ c < B
      <4>1. Out!Lf \in Int
        BY <1>5, SignsDiffer DEF Out!Lf
      <4>. QED BY <3>1, <4>1, <1>5
    <3>. QED BY <3>2, <1>7 DEF Reception
  <2>3. CASE d # 9
    <3>1. d - 0 \in 1 .. 8 /\ l1 + 0 + 9 - d < 8 /\ (d - 0 = 8 => Untrue)
      BY <2>1, <2>3, <1>4
    <3>2. Short'
      BY <3>1, <1>2, <1>5, <1>6 DEF Short
    <3>. QED BY <3>2 DEF Reception
  <2>. QED BY <2>2, <2>3
<1>11. CASE Restarted
  BY <1>11, <1>2 DEF Restarted
<1>. QED BY <1>1, <1>8, <1>9, <1>10, <1>11 DEF Reception

\* A carriage return ends the digits.
LEMMA ReadCr ==
  ASSUME OutSizes, NEW f \in Frames, OutInv(f), Read(f, Out!Cr), frame_ok, st = "reception", buffer' = buffer
  PROVE  Eof'
<1>. DEFINE d == Came
<1>1. OutTypes /\ Sends(f) /\ Receives(f) /\ Reception(f)
  BY DEF OutInv
<1>2. /\ Len(fifo.q) = 1 /\ Len(fifo'.q) = 0 /\ fifo.q[1] = Out!Cr
      /\ master' = master /\ Came' = d
  BY DEF Read
<1>3. Out!FrameChars = 6 /\ Out!Cr # Out!Lf /\ Out!Cr # Out!Colon /\ buffer \in Seq(Out!Chars)
  BY <1>1, SignsDiffer DEF OutTypes
<1>. SUFFICES ASSUME Passes(buffer)
              PROVE  d = 8 /\ Value(buffer) = IF Len(master.rest) = 9 THEN master.prev ELSE master.val
  BY <1>2 DEF Eof, Passes, Value
<1>4. Len(buffer) = 6 /\ ~ NoFrame(buffer)
  BY <1>3 DEF Passes, NoFrame
<1>5. ~ Restarted
  BY <1>4 DEF Restarted
<1>6. ~ Short
  <2>. SUFFICES ASSUME Short PROVE FALSE
    OBVIOUS
  <2>1. d - 1 \in 1 .. 8 /\ 6 + 1 + 9 - d < 8 /\ (d - 1 = 8 => Out!Cr = Out!Lf)
    BY <1>2, <1>4 DEF Short
  <2>2. d \in 1 .. 9
    BY <1>1, CameIs
  <2>. HIDE DEF d
  <2>3. d = 9
    BY <2>1, <2>2
  <2>. QED BY <2>1, <2>3, <1>3
<1>7. Begun(f)
  BY <1>1, <1>4, <1>5, <1>6 DEF Reception
<1>8. d = 8
  <2>1. 6 + 1 = d - 1
    BY <1>2, <1>4, <1>7 DEF Begun
  <2>2. d \in 1 .. 9
    BY <1>1, CameIs
  <2>. HIDE DEF d
  <2>. QED BY <2>1, <2>2
<1>9. f[1] = Out!Command /\ Value(buffer) = f[2]
  <2>1. PICK k \in 0 .. 8 : \A i \in 1 .. Len(buffer) : i # k => buffer[i] = Chars(f)[i + 1]
    BY <1>7 DEF Begun
  <2>. QED BY <2>1, <1>3, <1>4, LrcTells
<1>10. Len(master.rest) # 9
  BY <1>1, <1>8, CameIs
<1>11. master.val = f[2]
  BY <1>1, <1>9 DEF Sends
<1>. QED BY <1>8, <1>9, <1>10, <1>11

\* A line feed ends the frame.
LEMMA ReadLf ==
  ASSUME OutSizes, NEW f \in Frames, OutInv(f), Read(f, Out!Lf), frame_ok, st = "eof", buffer' = buffer
  PROVE  Controls'
<1>. DEFINE d == Came
            r == Len(master.rest)
<1>1. OutTypes /\ Sends(f) /\ Eof
  BY DEF OutInv
<1>2. Len(fifo.q) = 1 /\ Len(fifo'.q) = 0 /\ ~ fifo'.oerr /\ master' = master
  BY DEF Read
<1>. SUFFICES ASSUME Passes(buffer) PROVE Controls'
  BY DEF Controls, Passes
<1>3. d \in {8, 9} /\ 1 = d - 8 /\ Value(buffer) = IF r = 9 THEN master.prev ELSE master.val
  BY <1>1, <1>2 DEF Eof
<1>4. r \in 0 .. 9 /\ (r = 9 => d = 9) /\ (r # 9 => d = 9 - r) /\ master.rest \in Seq(Out!Chars)
  BY <1>1, CameIs DEF OutTypes
<1>5. r = 9 \/ r = 0
  <2>. HIDE DEF d, r
  <2>. QED BY <1>3, <1>4
<1>6. CASE r = 9
  <2>1. Len(master'.rest) = 9 - Len(fifo'.q) - (IF fifo'.oerr THEN 1 ELSE 0)
    BY <1>2, <1>6
  <2>2. Value(buffer') = master'.prev
    BY <1>2, <1>3, <1>6
  <2>. QED BY <2>1, <2>2 DEF Controls, Value
<1>7. CASE r = 0
  <2>1. master'.rest = <<>> /\ Value(buffer') = master'.val
    BY <1>2, <1>3, <1>4, <1>7
  <2>. QED BY <2>1, <1>2 DEF Controls, Value
<1>. QED BY <1>5, <1>6, <1>7

LEMMA ReadIntact ==
  ASSUME OutSizes, NEW f \in Frames, OutInv(f), NEW c, Read(f, c), master.clean
  PROVE  Intact(f)'
<1>. DEFINE q == fifo.q
            p == fifo'.q
            n == Len(q)
            n1 == Len(p)
            d == Came
            Has(b, k) == Len(b) = k /\ \A i \in 1 .. k : b[i] = Chars(f)[i + 1]
<1>1. OutTypes /\ Sends(f) /\ Receives(f) /\ Intact(f)
  BY DEF OutInv
<1>2. /\ (n = 1 /\ n1 = 0) \/ (n = 2 /\ n1 = 1 /\ p[1] = q[2] /\ st = "idle")
      /\ c = q[1] /\ c \in Out!Chars /\ ~ fifo'.oerr /\ master' = master /\ Came' = d /\ Chars(f)' = Chars(f)
  BY DEF Read
<1>3. d \in 1 .. 9
  BY <1>1, CameIs
<1>4. \/ Len(master.rest) = 9
      \/ d <= n /\ \A i \in 1 .. d : q[n - d + i] = Chars(f)[i]
      \/ /\ frame_ok /\ st = "reception" /\ d - n \in 1 .. 7 /\ Has(buffer, d - n - 1)
         /\ n = 1 => q[1] = Chars(f)[d]
      \/ /\ frame_ok /\ st = "eof" /\ d - n = 8 /\ Has(buffer, 6)
         /\ n = 1 => q[1] = Chars(f)[d]
      \/ frame_ok /\ st = "control" /\ n = 0 /\ d = 9 /\ Has(buffer, 6)
      \/ st = "idle" /\ n = 0 /\ d = 9 /\ (f[1] = Out!Command => outputs = f[2])
  BY <1>1 DEF Intact
<1>5. n1 = Len(fifo'.q) /\ p = fifo'.q
  OBVIOUS
<1>6. ASSUME \/ Len(master.rest) = 9
             \/ d <= n1 /\ \A i \in 1 .. d : p[n1 - d + i] = Chars(f)[i]
             \/ /\ frame_ok' /\ st' = "reception" /\ d - n1 \in 1 .. 7 /\ Has(buffer', d - n1 - 1)
                /\ n1 = 1 => p[1] = Chars(f)[d]
             \/ /\ frame_ok' /\ st' = "eof" /\ d - n1 = 8 /\ Has(buffer', 6) /\ n1 # 1
             \/ frame_ok' /\ st' = "control" /\ n1 = 0 /\ d = 9 /\ Has(buffer', 6)
      PROVE  Intact(f)'
  BY <1>2, <1>6 DEF Intact
<1>7. \A i \in 1 .. 9 : c = Chars(f)[i] =>
        (c = Out!Colon <=> i = 1) /\ (c = Out!Cr <=> i = 8) /\ (c = Out!Lf <=> i = 9)
  BY SignsStand
<1>8. c = Out!Colon => frame_ok' /\ buffer' = <<>> /\ st' = "reception"
  BY SignsDiffer DEF Read
<1>9. c \notin {Out!Colon, Out!Cr} /\ st = "reception" =>
        /\ st' = "reception"
        /\ IF Len(buffer) < BufLen
           THEN buffer' = Append(buffer, c) /\ frame_ok' = frame_ok
           ELSE frame_ok' = FALSE /\ buffer' = buffer
  BY DEF Read
<1>10. c = Out!Cr /\ st = "reception" => st' = "eof" /\ frame_ok' = frame_ok /\ buffer' = buffer
  BY SignsDiffer DEF Read
<1>11. c = Out!Lf /\ st = "eof" => st' = "control" /\ frame_ok' = frame_ok /\ buffer' = buffer
  BY SignsDiffer DEF Read
<1>. HIDE DEF q, p, n, n1, d, Has
<1>12. CASE d <= n /\ \A i \in 1 .. d : q[n - d + i] = Chars(f)[i]
  <2>1. d \in {1, 2} /\ n \in {1, 2} /\ 1 \in 1 .. d
    BY <1>12, <1>2, <1>3
  <2>2. q[n - d + 1] = Chars(f)[1]
    BY <2>1, <1>12
  <2>3. CASE d = n
    <3>1. c = Chars(f)[1]
      BY <2>1, <2>2, <2>3, <1>2
    <3>2. frame_ok' /\ buffer' = <<>> /\ st' = "reception"
      BY <3>1, <1>7, <1>8
    <3>3. d - n1 = 1 /\ d - n1 - 1 = 0 /\ Has(buffer', 0)
      BY <3>2, <2>1, <2>3, <1>2 DEF Has
    <3>4. n1 = 1 => p[1] = Chars(f)[d]
      <4>. SUFFICES ASSUME n1 = 1 PROVE p[1] = Chars(f)[d]
        OBVIOUS
      <4>1. d = 2 /\ n = 2 /\ p[1] = q[2] /\ n - d + 2 = 2 /\ 2 \in 1 .. d
        BY <2>3, <1>2
      <4>. QED BY <4>1, <1>12
    <3>5. d - n1 \in 1 .. 7
      BY <3>3
    <3>. QED BY <3>2, <3>3, <3>4, <3>5, <1>6
  <2>4. CASE d # n
    <3>1. d = 1 /\ n = 2 /\ n1 = 1 /\ p[1] = q[2] /\ n - d + 1 = 2 /\ n1 - d + 1 = 1
      BY <2>1, <2>4, <1>2, <1>12
    <3>2. d <= n1 /\ \A i \in 1 .. d : p[n1 - d + i] = Chars(f)[i]
      BY <3>1, <2>2
    <3>. QED BY <3>2, <1>6
  <2>. QED BY <2>3, <2>4
<1>13. CASE /\ frame_ok /\ st = "reception" /\ d - n \in 1 .. 7 /\ Has(buffer, d - n - 1)
            /\ n = 1 => q[1] = Chars(f)[d]
  <2>1. n = 1 /\ n1 = 0 /\ c = Chars(f)[d] /\ d \in 2 .. 8
    BY <1>13, <1>2, <1>3
  <2>2. CASE d = 8
    <3>1. st' = "eof" /\ frame_ok' /\ buffer' = buffer /\ Has(buffer, 6)
      <4>1. c = Out!Cr
        BY <2>1, <2>2, <1>7
      <4>2. d - n - 1 = 6
        BY <2>1, <2>2
      <4>. QED BY <4>1, <4>2, <1>10, <1>13
    <3>. QED BY <3>1, <2>1, <2>2, <1>6
  <2>3. CASE d # 8
    <3>. DEFINE l == Len(buffer)
    <3>1. c \notin {Out!Colon, Out!Cr} /\ l = d - 2 /\ \A i \in 1 .. l : buffer[i] = Chars(f)[i + 1]
      <4>1. d - n - 1 = d - 2
        BY <2>1
      <4>. QED BY <4>1, <2>1, <2>3, <1>7, <1>13 DEF Has
    <3>2. BufLen \in Nat /\ BufLen >= 6 /\ buffer \in Seq(Out!Chars)
      BY <1>1, SignsDiffer DEF OutTypes, OutSizes
    <3>3. l < BufLen
      <4>. HIDE DEF l
      <4>. QED BY <3>1, <3>2, <2>1, <2>3
    <3>4. st' = "reception" /\ buffer' = Append(buffer, c) /\ frame_ok'
      BY <3>1, <3>3, <1>9, <1>13
    <3>5. Len(buffer') = l + 1 /\ buffer'[l + 1] = c /\ \A i \in 1 .. l : buffer'[i] = buffer[i]
      BY <3>2, <3>4, <1>2, OneMore
    <3>6. d - n1 \in 1 .. 7 /\ d - n1 - 1 = d - 1 /\ l + 1 = d - 1 /\ l + 1 + 1 = d /\ n1 # 1
      <4>. HIDE DEF l
      <4>. QED BY <3>1, <2>1, <2>3
    <3>7. \A i \in 1 .. d - 1 : i \in 1 .. l \/ i = l + 1
      <4>. HIDE DEF l
      <4>. QED BY <3>1, <2>1
    <3>8. \A i \in 1 .. d - 1 : buffer'[i] = Chars(f)[i + 1]
      BY <3>1, <3>5, <3>6, <3>7, <2>1
    <3>9. Has(buffer', d - n1 - 1)
      BY <3>5, <3>6, <3>8 DEF Has
    <3>. QED BY <3>4, <3>6, <3>9, <1>6
  <2>. QED BY <2>2, <2>3
<1>14. CASE /\ frame_ok /\ st = "eof" /\ d - n = 8 /\ Has(buffer, 6)
            /\ n = 1 => q[1] = Chars(f)[d]
  <2>1. n = 1 /\ n1 = 0 /\ d = 9 /\ c = Chars(f)[9]
    BY <1>14, <1>2, <1>3
  <2>2. st' = "control" /\ frame_ok' /\ buffer' = buffer
    <3>1. c = Out!Lf
      BY <2>1, <1>7
    <3>. QED BY <3>1, <1>11, <1>14
  <2>. QED BY <2>1, <2>2, <1>6, <1>14
<1>15. CASE n = 0
  BY <1>15, <1>2
<1>. QED BY <1>4, <1>6, <1>12, <1>13, <1>14, <1>15

\* The automaton reads a character.
LEMMA OutReads == ASSUME OutSizes, NEW f, OutInv(f), Out!Getc PROVE OutInv(f)'
<1>. DEFINE c == fifo.q[1]
<1>1. f \in Frames /\ OutTypes /\ Sends(f) /\ Receives(f)
  BY DEF OutInv
<1>2. Read(f, c) /\ OutTypes'
  BY <1>1, GetcReads
<1>. HIDE DEF c
<1>3. Sends(f)' /\ master' = master
  BY <1>2 DEF Read
<1>4. Receives(f)' /\ (master'.clean => Intact(f)')
  BY <1>1, <1>2, <1>3, ReadHolds, ReadIntact
<1>5. ASSUME frame_ok', st' = "reception" PROVE Reception(f)'
  <2>1. CASE c = Out!Colon
    BY <2>1, <1>1, <1>2, ReadColon
  <2>2. CASE c # Out!Colon
    <3>1. /\ c \notin {Out!Colon, Out!Cr} /\ st = "reception"
          /\ IF Len(buffer) < BufLen
             THEN buffer' = Append(buffer, c) /\ frame_ok' = frame_ok
             ELSE frame_ok' = FALSE /\ buffer' = buffer
      BY <2>2, <1>2, <1>5 DEF Read
    <3>2. frame_ok /\ buffer' = Append(buffer, c)
      BY <3>1, <1>5
    <3>. QED BY <3>1, <3>2, <1>1, <1>2, ReadConcat
  <2>. QED BY <2>1, <2>2
<1>6. ASSUME frame_ok', st' = "eof" PROVE Eof'
  <2>1. c = Out!Cr /\ st = "reception" /\ frame_ok /\ buffer' = buffer
    BY <1>2, <1>6 DEF Read
  <2>. QED BY <2>1, <1>1, <1>2, ReadCr
<1>7. ASSUME frame_ok', st' = "control" PROVE Controls'
  <2>1. c = Out!Lf /\ st = "eof" /\ frame_ok /\ buffer' = buffer
    BY <1>1, <1>2, <1>7 DEF Read
  <2>. QED BY <2>1, <1>1, <1>2, ReadLf
<1>. QED BY <1>1, <1>2, <1>3, <1>4, <1>5, <1>6, <1>7 DEF OutInv

\* What the unit accepts is what passes.
LEMMA AcceptedIs == Out!Accepted <=> frame_ok /\ Passes(buffer)
  BY DEF Out!Accepted, Passes

\* The frame is controlled.
LEMMA OutControls == ASSUME OutSizes, NEW f, OutInv(f), Out!Control PROVE OutInv(f)'
<1>1. f \in Frames /\ OutTypes /\ Sends(f) /\ Receives(f)
  BY DEF OutInv
<1>2. /\ st = "control" /\ st' = "idle" /\ frame_ok' = frame_ok /\ buffer' = buffer
      /\ fifo' = fifo /\ master' = master
      /\ outputs' = IF Out!Accepted THEN Value(buffer) ELSE outputs
  BY DEF Out!Control, Value
<1>3. Sends(f)' /\ Came' = Came
  BY <1>1, <1>2, SameLine
<1>4. OutTypes' /\ Receives(f)'
  BY <1>1, <1>2, <1>3 DEF OutTypes, Receives, Room, Untrue, Chars
<1>5. ASSUME master.clean PROVE Intact(f)'
  <2>1. Intact(f)
    BY <1>5 DEF OutInv
  <2>2. CASE Len(master.rest) = 9
    BY <2>2, <1>2 DEF Intact
  <2>3. CASE ~ fifo.oerr /\ Came <= Len(fifo.q) /\ \A i \in 1 .. Came : fifo.q[Len(fifo.q) - Came + i] = Chars(f)[i]
    <3>1. Chars(f)' = Chars(f)
      BY DEF Chars
    <3>. QED BY <2>3, <3>1, <1>2, <1>3 DEF Intact
  <2>4. CASE /\ ~ fifo.oerr /\ frame_ok /\ Len(fifo.q) = 0 /\ Came = 9
             /\ Len(buffer) = 6 /\ \A i \in 1 .. 6 : buffer[i] = Chars(f)[i + 1]
    <3>1. f[1] = Out!Command => outputs' = f[2]
      <4>. SUFFICES ASSUME f[1] = Out!Command PROVE outputs' = f[2]
        OBVIOUS
      <4>1. buffer \in Seq(Out!Chars)
        BY <1>1 DEF OutTypes
      <4>2. Passes(buffer) /\ Value(buffer) = f[2]
        BY <4>1, <1>1, <2>4, FramePasses
      <4>. QED BY <4>2, <2>4, <1>2, AcceptedIs
    <3>. QED BY <3>1, <2>4, <1>2, <1>3 DEF Intact
  <2>. QED BY <2>1, <2>2, <2>3, <2>4, <1>2 DEF Intact
<1>. QED BY <1>1, <1>2, <1>3, <1>4, <1>5 DEF OutInv

LEMMA OutSteps ==
  ASSUME OutSizes, NEW f, OutInv(f), [Out!Next]_(Out!vars)
  PROVE  \E h \in Frames : OutInv(h)'
<1>1. f \in Frames
  BY DEF OutInv
<1>2. CASE Out!Begin
  BY <1>2, OutBegins
<1>3. CASE Out!Arrive
  BY <1>1, <1>3, OutArrives
<1>4. CASE Out!Lost
  BY <1>1, <1>4, OutLoses
<1>5. CASE Out!TimedOut
  BY <1>1, <1>5, OutTimesOut
<1>6. CASE Out!Overrun
  BY <1>1, <1>6, OutOverruns
<1>7. CASE Out!Getc
  BY <1>1, <1>7, OutReads
<1>8. CASE Out!Control
  BY <1>1, <1>8, OutControls
<1>9. CASE UNCHANGED Out!vars
  <2>1. /\ st' = st /\ frame_ok' = frame_ok /\ buffer' = buffer /\ outputs' = outputs
        /\ fifo' = fifo /\ master' = master
    BY <1>9 DEF Out!vars
  <2>2. Sends(f)' /\ Came' = Came
    BY <2>1, SameLine DEF OutInv
  <2>3. /\ OutTypes' <=> OutTypes
        /\ Receives(f)' <=> Receives(f)
        /\ Reception(f)' <=> Reception(f)
        /\ Eof' <=> Eof
        /\ Controls' <=> Controls
        /\ Intact(f)' <=> Intact(f)
    BY <2>1, <2>2 DEF OutTypes, Receives, Room, Reception, NoFrame, Begun, Short, Restarted, Eof, Controls, Intact,
                      Untrue, Chars, Passes, Value
  <2>4. OutInv(f)'
    BY <2>1, <2>2, <2>3 DEF OutInv
  <2>. QED BY <2>4, <1>1
<1>. QED BY <1>2, <1>3, <1>4, <1>5, <1>6, <1>7, <1>8, <1>9 DEF Out!Next

\* A whole frame that was read has been obeyed.
LEMMA OutObeyed == ASSUME OutSizes, NEW f, OutInv(f) PROVE Out!WholeIsObeyed
<1>. SUFFICES ASSUME master.clean, master.rest = <<>>, master.val # none, fifo.q = <<>>, st = "idle"
              PROVE  outputs = master.val
  BY DEF Out!WholeIsObeyed
<1>1. OutTypes /\ Sends(f) /\ Intact(f)
  BY DEF OutInv
<1>2. Len(master.rest) = 0 /\ Len(fifo.q) = 0 /\ Came = 9
  BY DEF Came
<1>3. f[1] = Out!Command => outputs = f[2]
  BY <1>1, <1>2 DEF Intact
<1>. QED BY <1>1, <1>3 DEF Sends

\* The outputs change only when a frame is controlled.
LEMMA OutOnlySent == ASSUME OutSizes, NEW f, OutInv(f), [Out!Next]_(Out!vars) PROVE Out!OnlyWhatWasSent
<1>. SUFFICES ASSUME outputs' # outputs PROVE outputs' \in {master.val, master.prev}
  BY DEF Out!OnlyWhatWasSent
<1>1. Out!Control
  BY DEF Out!Next, Out!vars, Out!Begin, Out!Arrive, Out!Lost, Out!TimedOut, Out!Overrun, Out!Getc
<1>2. Out!Accepted /\ st = "control" /\ outputs' = Value(buffer)
  BY <1>1 DEF Out!Control, Value
<1>3. Controls /\ Passes(buffer)
  BY <1>2, AcceptedIs DEF OutInv
<1>. QED BY <1>2, <1>3 DEF Controls

\* The output unit is told by nothing but the master: of the characters that arrive, one
\* may be another with the right parity, any number are lost, and the receiver is overrun;
\* the outputs take only a value that was sent last or before, and a frame that comes
\* whole is obeyed, whatever came before it (output.c's automaton and control_frame).
THEOREM ObeysAlways ==
  OutSizes => (Out!Init /\ [][Out!Next]_(Out!vars) => []Out!WholeIsObeyed /\ [][Out!OnlyWhatWasSent]_(Out!vars))
<1>. SUFFICES ASSUME OutSizes
              PROVE  Out!Init /\ [][Out!Next]_(Out!vars) => []Out!WholeIsObeyed /\ [][Out!OnlyWhatWasSent]_(Out!vars)
  OBVIOUS
<1>. DEFINE I == \E f \in Frames : OutInv(f)
<1>1. Out!Init => I
  BY OutStarts
<1>2. I /\ [Out!Next]_(Out!vars) => I'
  BY OutSteps
<1>3. I => Out!WholeIsObeyed
  BY OutObeyed
<1>4. I /\ [Out!Next]_(Out!vars) => [Out!OnlyWhatWasSent]_(Out!vars)
  BY OutOnlySent
<1>. HIDE DEF I
<1>. QED BY <1>1, <1>2, <1>3, <1>4, PTL
=============================================================================
