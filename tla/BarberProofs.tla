---------------------------- MODULE BarberProofs ----------------------------
(***************************************************************************)
(* Proofs about the sleeping barber, for any number of customers and       *)
(* seats.  The inductive invariant accounts for the tokens of each         *)
(* semaphore: a seat is free or taken by a customer who has not given it   *)
(* back, and every line of the barber is matched by a token, by a customer *)
(* on his way to his own line, or by that line.  cust_served is never more *)
(* than the number of customers who are gone, though it may be less.       *)
(***************************************************************************)
EXTENDS Barber, TLAPS, FiniteSetTheorems

Count(states) == Cardinality(In(states))

Seated == {"waiting", "called", "rising"}

Typed ==
  /\ barber \in {"loop", "look", "ready", "call", "cut", "release", "gone"}
  /\ customer \in [Customers -> CustomerStates]
  /\ loaded \in [Customers -> Nat]
  /\ forked \in 0 .. N /\ finished \in BOOLEAN
  /\ mutex_waiting_room \in Nat /\ mutex_serving \in Nat /\ mutex_served \in Nat
  /\ cust_served \in Nat
  /\ lines \in [LineKinds -> Nat]

SeatsAccounted == mutex_waiting_room + Count(Seated) = Q

\* The barber between his line and his post.
Owes(at) == IF barber = at THEN 1 ELSE 0

\* The four line counts.
BR == lines["barber ready"]
BF == lines["barber finished"]
CR == lines["customer ready"]
CS == lines["customer served"]

TokensAccounted ==
  /\ BR = mutex_serving + CR + Count({"called"}) + Owes("call")
  /\ BF = mutex_served + CS + Count({"served"}) + Owes("release")

CountIsLow ==
  /\ cust_served <= Count({"gone"})
  /\ \A c \in Customers : customer[c] = "storing" => loaded[c] <= Count({"gone"})

Ending ==
  /\ \A c \in Customers : c > forked => customer[c] = "unborn"
  /\ \A c \in Customers : loaded[c] <= N
  /\ barber = "gone" => In({"gone"}) = Customers
  /\ finished => barber = "gone"

Inv == Typed /\ SeatsAccounted /\ TokensAccounted /\ CountIsLow /\ Ending

-----------------------------------------------------------------------------
\* Counting customers gives a number, at most N; all N are all of them.
LEMMA CountType ==
  ASSUME NEW S
  PROVE  /\ IsFiniteSet(In(S)) /\ Count(S) \in 0 .. N
         /\ Count(S) = N => In(S) = Customers
<1>1. IsFiniteSet(Customers) /\ Cardinality(Customers) = N
  BY FS_Interval, BarberAssumption DEF Customers
<1>2. In(S) \in SUBSET Customers BY DEF In
<1>3. IsFiniteSet(In(S)) /\ Cardinality(In(S)) <= N BY <1>1, <1>2, FS_Subset
<1>4. Cardinality(In(S)) \in Nat BY <1>3, FS_CardinalityType
<1>5. Cardinality(In(S)) = N => In(S) = Customers BY <1>1, <1>2, FS_Subset
<1>. QED BY <1>3, <1>4, <1>5, BarberAssumption DEF Count

\* How a count changes when one customer moves.
LEMMA CountMoves ==
  ASSUME NEW S, NEW c \in Customers, NEW to,
         customer \in [Customers -> CustomerStates],
         customer' = [customer EXCEPT ![c] = to]
  PROVE  /\ customer[c] \in S /\ to \in S => Count(S)' = Count(S)
         /\ customer[c] \notin S /\ to \notin S => Count(S)' = Count(S)
         /\ customer[c] \notin S /\ to \in S => Count(S)' = Count(S) + 1
         /\ customer[c] \in S /\ to \notin S => Count(S)' = Count(S) - 1
<1>1. IsFiniteSet(In(S)) BY CountType
<1>2. CASE customer[c] \in S /\ to \in S
  <2>1. In(S)' = In(S) BY <1>2 DEF In
  <2>. QED BY <1>2, <2>1 DEF Count
<1>3. CASE customer[c] \notin S /\ to \notin S
  <2>1. In(S)' = In(S) BY <1>3 DEF In
  <2>. QED BY <1>3, <2>1 DEF Count
<1>4. CASE customer[c] \notin S /\ to \in S
  <2>1. In(S)' = In(S) \cup {c} /\ c \notin In(S) BY <1>4 DEF In
  <2>2. Cardinality(In(S) \cup {c}) = Cardinality(In(S)) + 1 BY <1>1, <2>1, FS_AddElement
  <2>. QED BY <1>4, <2>1, <2>2 DEF Count
<1>5. CASE customer[c] \in S /\ to \notin S
  <2>1. In(S)' = In(S) \ {c} /\ c \in In(S) BY <1>5 DEF In
  <2>2. Cardinality(In(S) \ {c}) = Cardinality(In(S)) - 1 BY <1>1, <2>1, FS_RemoveElement
  <2>. QED BY <1>5, <2>1, <2>2 DEF Count
<1>. QED BY <1>2, <1>3, <1>4, <1>5

LEMMA CountSame ==
  ASSUME NEW S, customer' = customer
  PROVE  Count(S)' = Count(S) /\ In(S)' = In(S)
BY DEF Count, In

\* The four counts the invariant is about.
LEMMA CountsType ==
  /\ Count(Seated) \in Nat /\ Count({"called"}) \in Nat
  /\ Count({"served"}) \in Nat /\ Count({"gone"}) \in Nat
BY CountType, BarberAssumption

\* The line counts, and what writing one line does to them.
LinesTyped == BR \in Nat /\ BF \in Nat /\ CR \in Nat /\ CS \in Nat

LEMMA LineTypes ==
  ASSUME lines \in [LineKinds -> Nat]
  PROVE  LinesTyped
BY DEF LinesTyped, BR, BF, CR, CS, LineKinds

LEMMA LineWritten ==
  ASSUME lines \in [LineKinds -> Nat], NEW kind \in LineKinds, Write(kind)
  PROVE  /\ lines' \in [LineKinds -> Nat]
         /\ kind = "barber ready" => BR' = BR + 1 /\ BF' = BF /\ CR' = CR /\ CS' = CS
         /\ kind = "barber finished" => BR' = BR /\ BF' = BF + 1 /\ CR' = CR /\ CS' = CS
         /\ kind = "customer ready" => BR' = BR /\ BF' = BF /\ CR' = CR + 1 /\ CS' = CS
         /\ kind = "customer served" => BR' = BR /\ BF' = BF /\ CR' = CR /\ CS' = CS + 1
<1>1. \A k \in LineKinds : lines[k] \in Nat OBVIOUS
<1>2. \A k \in LineKinds : lines'[k] = IF k = kind THEN lines[k] + 1 ELSE lines[k]
  BY DEF Write
<1>3. lines' \in [LineKinds -> Nat] BY <1>1 DEF Write
<1>4. /\ "barber ready" \in LineKinds /\ "barber finished" \in LineKinds
      /\ "customer ready" \in LineKinds /\ "customer served" \in LineKinds
  BY DEF LineKinds
<1>5. /\ BR' = IF "barber ready" = kind THEN BR + 1 ELSE BR
      /\ BF' = IF "barber finished" = kind THEN BF + 1 ELSE BF
      /\ CR' = IF "customer ready" = kind THEN CR + 1 ELSE CR
      /\ CS' = IF "customer served" = kind THEN CS + 1 ELSE CS
  BY <1>2, <1>4 DEF BR, BF, CR, CS
<1>. QED BY <1>3, <1>5

LEMMA LinesKept ==
  ASSUME lines' = lines
  PROVE  BR' = BR /\ BF' = BF /\ CR' = CR /\ CS' = CS
BY DEF BR, BF, CR, CS

-----------------------------------------------------------------------------
LEMMA InvInit == Init => Inv
<1> SUFFICES ASSUME Init PROVE Inv OBVIOUS
<1>. USE BarberAssumption
<1>1. ASSUME NEW S, "unborn" \notin S PROVE Count(S) = 0
  <2>1. In(S) = {} BY <1>1 DEF Init, In
  <2>. QED BY <2>1, FS_EmptySet DEF Count
<1>2. Count(Seated) = 0 BY <1>1 DEF Seated
<1>3. Count({"called"}) = 0 /\ Count({"served"}) = 0 /\ Count({"gone"}) = 0 BY <1>1
<1>4. Typed
  <2>1. lines \in [LineKinds -> Nat] /\ loaded \in [Customers -> Nat] BY DEF Init
  <2>2. customer \in [Customers -> CustomerStates] BY DEF Init, CustomerStates
  <2>3. forked \in 0 .. N /\ mutex_waiting_room \in Nat BY DEF Init
  <2>. QED BY <2>1, <2>2, <2>3 DEF Init, Typed, semaphores
<1>5. SeatsAccounted BY <1>2 DEF Init, SeatsAccounted
<1>6. TokensAccounted
  <2>1. BR = 0 /\ BF = 0 /\ CR = 0 /\ CS = 0
    BY DEF Init, BR, BF, CR, CS, LineKinds
  <2>2. Owes("call") = 0 /\ Owes("release") = 0 BY DEF Init, Owes
  <2>3. mutex_serving = 0 /\ mutex_served = 0 BY DEF Init
  <2>. QED BY <1>3, <2>1, <2>2, <2>3 DEF TokensAccounted
<1>7. CountIsLow BY <1>3 DEF Init, CountIsLow
<1>8. Ending BY DEF Init, Ending
<1>. QED BY <1>4, <1>5, <1>6, <1>7, <1>8 DEF Inv

\* The barber moves no customer.
LEMMA BarberInv ==
  ASSUME Inv, Barber
  PROVE  Inv'
<1>. USE BarberAssumption
<1>1. customer' = customer /\ loaded' = loaded /\ forked' = forked
      /\ finished' = finished /\ cust_served' = cust_served
  BY DEF Barber, BarberElse, BarberLoops, BarberLooks, BarberReady, BarberCalls,
         BarberFinishes, BarberReleases
<1>2. /\ Count(Seated)' = Count(Seated) /\ Count({"called"})' = Count({"called"})
      /\ Count({"served"})' = Count({"served"}) /\ Count({"gone"})' = Count({"gone"})
      /\ In({"gone"})' = In({"gone"})
  BY <1>1, CountSame
<1>3. /\ Count({"called"}) \in Nat /\ Count({"served"}) \in Nat
  BY CountsType
<1>4. CountIsLow' BY <1>1, <1>2 DEF Inv, CountIsLow
<1>5. mutex_waiting_room' = mutex_waiting_room /\ SeatsAccounted'
  BY <1>2 DEF Inv, SeatsAccounted, Barber, BarberLoops, BarberLooks, BarberReady,
         BarberCalls, BarberFinishes, BarberReleases, semaphores
<1>6. barber' \in {"loop", "look", "ready", "call", "cut", "release", "gone"}
  BY DEF Barber, BarberLoops, BarberLooks, BarberReady, BarberCalls, BarberFinishes,
         BarberReleases, BarberAt
<1>7. /\ mutex_serving' \in Nat /\ mutex_served' \in Nat /\ lines' \in [LineKinds -> Nat]
      /\ TokensAccounted'
  <2>0. /\ LinesTyped /\ mutex_serving \in Nat /\ mutex_served \in Nat
        /\ lines \in [LineKinds -> Nat]
    BY LineTypes DEF Inv, Typed
  <2>1. CASE BarberLoops \/ BarberLooks
    <3>1. /\ mutex_serving' = mutex_serving /\ mutex_served' = mutex_served /\ lines' = lines
          /\ barber \in {"loop", "look"} /\ barber' \in {"loop", "look", "ready", "gone"}
      BY <2>1 DEF BarberLoops, BarberLooks, BarberAt, semaphores
    <3>2. /\ Owes("call") = 0 /\ Owes("release") = 0
          /\ Owes("call")' = 0 /\ Owes("release")' = 0
      BY <3>1 DEF Owes
    <3>3. BR' = BR /\ BF' = BF /\ CR' = CR /\ CS' = CS BY <3>1, LinesKept
    <3>. QED BY <1>2, <2>0, <3>1, <3>2, <3>3 DEF Inv, TokensAccounted
  <2>2. CASE BarberReady
    <3>1. /\ mutex_serving' = mutex_serving /\ mutex_served' = mutex_served
          /\ barber = "ready" /\ barber' = "call"
      BY <2>2 DEF BarberReady, BarberAt, semaphores
    <3>w. Write("barber ready") BY <2>2 DEF BarberReady
    <3>2. /\ Owes("call") = 0 /\ Owes("release") = 0
          /\ Owes("call")' = 1 /\ Owes("release")' = 0
      BY <3>1 DEF Owes
    <3>3. /\ lines' \in [LineKinds -> Nat]
          /\ BR' = BR + 1 /\ BF' = BF /\ CR' = CR /\ CS' = CS
      BY <2>0, <3>w, LineWritten DEF LineKinds
    <3>4. TokensAccounted'
      BY <1>2, <1>3, <2>0, <3>1, <3>2, <3>3 DEF Inv, TokensAccounted, LinesTyped
    <3>. QED BY <2>0, <3>1, <3>3, <3>4
  <2>3. CASE BarberCalls
    <3>1. /\ mutex_serving' = mutex_serving + 1 /\ mutex_served' = mutex_served
          /\ barber = "call" /\ barber' = "cut" /\ lines' = lines
      BY <2>3 DEF BarberCalls, BarberAt, semaphores
    <3>2. /\ Owes("call") = 1 /\ Owes("release") = 0
          /\ Owes("call")' = 0 /\ Owes("release")' = 0
      BY <3>1 DEF Owes
    <3>3. /\ lines' \in [LineKinds -> Nat]
          /\ BR' = BR /\ BF' = BF /\ CR' = CR /\ CS' = CS
      BY <2>0, <3>1, LinesKept
    <3>4. TokensAccounted'
      BY <1>2, <1>3, <2>0, <3>1, <3>2, <3>3 DEF Inv, TokensAccounted, LinesTyped
    <3>. QED BY <2>0, <3>1, <3>3, <3>4
  <2>4. CASE BarberFinishes
    <3>1. /\ mutex_serving' = mutex_serving /\ mutex_served' = mutex_served
          /\ barber = "cut" /\ barber' = "release"
      BY <2>4 DEF BarberFinishes, BarberAt, semaphores
    <3>w. Write("barber finished") BY <2>4 DEF BarberFinishes
    <3>2. /\ Owes("call") = 0 /\ Owes("release") = 0
          /\ Owes("call")' = 0 /\ Owes("release")' = 1
      BY <3>1 DEF Owes
    <3>3. /\ lines' \in [LineKinds -> Nat]
          /\ BR' = BR /\ BF' = BF + 1 /\ CR' = CR /\ CS' = CS
      BY <2>0, <3>w, LineWritten DEF LineKinds
    <3>4. TokensAccounted'
      BY <1>2, <1>3, <2>0, <3>1, <3>2, <3>3 DEF Inv, TokensAccounted, LinesTyped
    <3>. QED BY <2>0, <3>1, <3>3, <3>4
  <2>5. CASE BarberReleases
    <3>1. /\ mutex_serving' = mutex_serving /\ mutex_served' = mutex_served + 1
          /\ barber = "release" /\ barber' = "loop" /\ lines' = lines
      BY <2>5 DEF BarberReleases, BarberAt, semaphores
    <3>2. /\ Owes("call") = 0 /\ Owes("release") = 1
          /\ Owes("call")' = 0 /\ Owes("release")' = 0
      BY <3>1 DEF Owes
    <3>3. /\ lines' \in [LineKinds -> Nat]
          /\ BR' = BR /\ BF' = BF /\ CR' = CR /\ CS' = CS
      BY <2>0, <3>1, LinesKept
    <3>4. TokensAccounted'
      BY <1>2, <1>3, <2>0, <3>1, <3>2, <3>3 DEF Inv, TokensAccounted, LinesTyped
    <3>. QED BY <2>0, <3>1, <3>3, <3>4
  <2>. QED BY <2>1, <2>2, <2>3, <2>4, <2>5 DEF Barber
<1>8. Ending'
  <2>1. barber' = "gone" => In({"gone"}) = Customers
    <3> SUFFICES ASSUME barber' = "gone" PROVE In({"gone"}) = Customers OBVIOUS
    <3>1. barber = "loop" /\ ~(cust_served < N)
      BY DEF Barber, BarberLoops, BarberLooks, BarberReady, BarberCalls,
             BarberFinishes, BarberReleases, BarberAt
    <3>2. Count({"gone"}) = N BY <3>1, CountType DEF Inv, Typed, CountIsLow
    <3>. QED BY <3>2, CountType
  <2>2. barber # "gone"
    BY DEF Barber, BarberLoops, BarberLooks, BarberReady, BarberCalls,
           BarberFinishes, BarberReleases, BarberAt
  <2>. QED BY <1>1, <1>2, <2>1, <2>2 DEF Inv, Ending
<1>9. Typed' BY <1>1, <1>5, <1>6, <1>7 DEF Inv, Typed
<1>. QED BY <1>4, <1>5, <1>7, <1>8, <1>9 DEF Inv

-----------------------------------------------------------------------------
\* What a move adds to a count.
Shift(S, from, to) == (IF to \in S THEN 1 ELSE 0) - (IF from \in S THEN 1 ELSE 0)

\* How a customer's step moves the four counts.
LEMMA CustomerMoves ==
  ASSUME Inv, NEW c \in Customers, NEW from, NEW to \in CustomerStates,
         CustomerAt(c, from, to)
  PROVE  /\ customer' \in [Customers -> CustomerStates]
         /\ Count(Seated)' = Count(Seated) + Shift(Seated, from, to)
         /\ Count({"called"})' = Count({"called"}) + Shift({"called"}, from, to)
         /\ Count({"served"})' = Count({"served"}) + Shift({"served"}, from, to)
         /\ Count({"gone"})' = Count({"gone"}) + Shift({"gone"}, from, to)
<1>1. customer \in [Customers -> CustomerStates] BY DEF Inv, Typed
<1>2. customer[c] = from /\ customer' = [customer EXCEPT ![c] = to] BY DEF CustomerAt
<1>3. ASSUME NEW S PROVE Count(S)' = Count(S) + Shift(S, from, to)
  <2>1. Count(S) \in Nat BY CountType, BarberAssumption
  <2>2. /\ from \in S /\ to \in S => Count(S)' = Count(S)
        /\ from \notin S /\ to \notin S => Count(S)' = Count(S)
        /\ from \notin S /\ to \in S => Count(S)' = Count(S) + 1
        /\ from \in S /\ to \notin S => Count(S)' = Count(S) - 1
    BY <1>1, <1>2, CountMoves
  <2>. QED BY <2>1, <2>2 DEF Shift
<1>4. customer' \in [Customers -> CustomerStates] BY <1>1, <1>2
<1>. QED BY <1>3, <1>4

\* What the accounting of a customer's step comes to: everything that remains
\* once the move itself is understood.
Accounted ==
  /\ loaded \in [Customers -> Nat] /\ \A c \in Customers : loaded[c] <= N
  /\ mutex_waiting_room \in Nat /\ mutex_serving \in Nat /\ mutex_served \in Nat
  /\ cust_served \in Nat /\ lines \in [LineKinds -> Nat]
  /\ SeatsAccounted /\ TokensAccounted /\ CountIsLow

LEMMA InvAccounted ==
  ASSUME Inv
  PROVE  /\ Accounted /\ LinesTyped
         /\ Count(Seated) \in Nat /\ Count({"called"}) \in Nat
         /\ Count({"served"}) \in Nat /\ Count({"gone"}) \in Nat
         /\ Count({"gone"}) <= N
         /\ Owes("call") \in Nat /\ Owes("release") \in Nat
BY CountsType, LineTypes, CountType, BarberAssumption
   DEF Inv, Typed, Accounted, Ending, Owes

\* The barber stands still while a customer moves.
LEMMA OwesSame ==
  ASSUME barber' = barber
  PROVE  Owes("call")' = Owes("call") /\ Owes("release")' = Owes("release")
BY DEF Owes

\* Each step of a customer keeps the accounts.
LEMMA CustomerAccounts ==
  ASSUME Inv, NEW c \in Customers, Customer(c)
  PROVE  Accounted'
<1>. USE BarberAssumption
<1>1. /\ Accounted /\ LinesTyped
      /\ Count(Seated) \in Nat /\ Count({"called"}) \in Nat
      /\ Count({"served"}) \in Nat /\ Count({"gone"}) \in Nat
      /\ Count({"gone"}) <= N
      /\ Owes("call") \in Nat /\ Owes("release") \in Nat
  BY InvAccounted
<1>2. Owes("call")' = Owes("call") /\ Owes("release")' = Owes("release")
  BY OwesSame DEF Customer, CustomerElse, Enters, IsCalled, SaysReady, Rises, IsReleased,
                  SaysServed, Loads, Stores
<1>3. customer \in [Customers -> CustomerStates] BY DEF Inv, Typed
<1>4. ASSUME NEW to \in CustomerStates, NEW from, CustomerAt(c, from, to), to # "storing",
             loaded' = loaded, cust_served' = cust_served, from # "gone"
      PROVE  CountIsLow'
  <2>1. Count({"gone"})' >= Count({"gone"}) /\ Count({"gone"})' \in Int
    BY <1>1, <1>4, CustomerMoves DEF Shift
  <2>2. cust_served' <= Count({"gone"})'
    BY <1>1, <1>4, <2>1 DEF Accounted, CountIsLow
  <2>3. \A d \in Customers : customer'[d] = "storing" => customer[d] = "storing"
    BY <1>3, <1>4 DEF CustomerAt
  <2>4. \A d \in Customers : loaded[d] \in Nat BY <1>1 DEF Accounted
  <2>5. ASSUME NEW d \in Customers, customer'[d] = "storing"
        PROVE  loaded'[d] <= Count({"gone"})'
    <3>1. loaded[d] <= Count({"gone"}) BY <1>1, <2>3, <2>5 DEF Accounted, CountIsLow
    <3>2. loaded'[d] = loaded[d] BY <1>4
    <3>. QED BY <1>1, <2>1, <2>4, <3>1, <3>2
  <2>. QED BY <2>2, <2>5 DEF CountIsLow
<1>5. CASE Enters(c) /\ mutex_waiting_room > 0
  <2>1. CustomerAt(c, "entering", "waiting") BY <1>5 DEF Enters
  <2>2. /\ mutex_waiting_room' = mutex_waiting_room - 1
        /\ mutex_serving' = mutex_serving
        /\ mutex_served' = mutex_served
        /\ mutex_waiting_room > 0
    BY <1>5 DEF Enters, semaphores
  <2>3. loaded' = loaded /\ cust_served' = cust_served BY <1>5 DEF Enters
  <2>4. /\ Count(Seated)' = Count(Seated) + 1
        /\ Count({"called"})' = Count({"called"})
        /\ Count({"served"})' = Count({"served"})
    BY <1>1, <2>1, CustomerMoves DEF Shift, Seated, CustomerStates
  <2>5. CountIsLow' BY <1>4, <2>1, <2>3 DEF CustomerStates
  <2>6. /\ lines' \in [LineKinds -> Nat]
        /\ BR' = BR /\ BF' = BF /\ CR' = CR /\ CS' = CS
    BY <1>1, <1>5, LinesKept DEF Enters, Accounted
  <2>7. SeatsAccounted' BY <1>1, <2>2, <2>4 DEF Accounted, SeatsAccounted
  <2>8. TokensAccounted'
    BY <1>1, <1>2, <2>2, <2>4, <2>6 DEF Accounted, TokensAccounted, LinesTyped
  <2>9. mutex_waiting_room' \in Nat /\ mutex_serving' \in Nat /\ mutex_served' \in Nat
    BY <1>1, <2>2 DEF Accounted
  <2>. QED BY <1>1, <2>3, <2>5, <2>6, <2>7, <2>8, <2>9 DEF Accounted
<1>6. CASE Enters(c) /\ ~(mutex_waiting_room > 0)
  <2>1. CustomerAt(c, "entering", "counting") BY <1>6 DEF Enters
  <2>2. /\ mutex_waiting_room' = mutex_waiting_room
        /\ mutex_serving' = mutex_serving
        /\ mutex_served' = mutex_served
    BY <1>6 DEF Enters, semaphores
  <2>3. loaded' = loaded /\ cust_served' = cust_served BY <1>6 DEF Enters
  <2>4. /\ Count(Seated)' = Count(Seated)
        /\ Count({"called"})' = Count({"called"})
        /\ Count({"served"})' = Count({"served"})
    BY <1>1, <2>1, CustomerMoves DEF Shift, Seated, CustomerStates
  <2>5. CountIsLow' BY <1>4, <2>1, <2>3 DEF CustomerStates
  <2>6. /\ lines' \in [LineKinds -> Nat]
        /\ BR' = BR /\ BF' = BF /\ CR' = CR /\ CS' = CS
    BY <1>1, <1>6, LinesKept DEF Enters, Accounted
  <2>7. SeatsAccounted' BY <1>1, <2>2, <2>4 DEF Accounted, SeatsAccounted
  <2>8. TokensAccounted'
    BY <1>1, <1>2, <2>2, <2>4, <2>6 DEF Accounted, TokensAccounted, LinesTyped
  <2>9. mutex_waiting_room' \in Nat /\ mutex_serving' \in Nat /\ mutex_served' \in Nat
    BY <1>1, <2>2 DEF Accounted
  <2>. QED BY <1>1, <2>3, <2>5, <2>6, <2>7, <2>8, <2>9 DEF Accounted
<1>7. CASE IsCalled(c)
  <2>1. CustomerAt(c, "waiting", "called") BY <1>7 DEF IsCalled
  <2>2. /\ mutex_waiting_room' = mutex_waiting_room
        /\ mutex_serving' = mutex_serving - 1
        /\ mutex_served' = mutex_served
        /\ mutex_serving > 0
    BY <1>7 DEF IsCalled, semaphores
  <2>3. loaded' = loaded /\ cust_served' = cust_served BY <1>7 DEF IsCalled
  <2>4. /\ Count(Seated)' = Count(Seated)
        /\ Count({"called"})' = Count({"called"}) + 1
        /\ Count({"served"})' = Count({"served"})
    BY <1>1, <2>1, CustomerMoves DEF Shift, Seated, CustomerStates
  <2>5. CountIsLow' BY <1>4, <2>1, <2>3 DEF CustomerStates
  <2>6. /\ lines' \in [LineKinds -> Nat]
        /\ BR' = BR /\ BF' = BF /\ CR' = CR /\ CS' = CS
    BY <1>1, <1>7, LinesKept DEF IsCalled, Accounted
  <2>7. SeatsAccounted' BY <1>1, <2>2, <2>4 DEF Accounted, SeatsAccounted
  <2>8. TokensAccounted'
    BY <1>1, <1>2, <2>2, <2>4, <2>6 DEF Accounted, TokensAccounted, LinesTyped
  <2>9. mutex_waiting_room' \in Nat /\ mutex_serving' \in Nat /\ mutex_served' \in Nat
    BY <1>1, <2>2 DEF Accounted
  <2>. QED BY <1>1, <2>3, <2>5, <2>6, <2>7, <2>8, <2>9 DEF Accounted
<1>8. CASE SaysReady(c)
  <2>1. CustomerAt(c, "called", "rising") BY <1>8 DEF SaysReady
  <2>2. /\ mutex_waiting_room' = mutex_waiting_room
        /\ mutex_serving' = mutex_serving
        /\ mutex_served' = mutex_served
    BY <1>8 DEF SaysReady, semaphores
  <2>3. loaded' = loaded /\ cust_served' = cust_served BY <1>8 DEF SaysReady
  <2>4. /\ Count(Seated)' = Count(Seated)
        /\ Count({"called"})' = Count({"called"}) - 1
        /\ Count({"served"})' = Count({"served"})
    BY <1>1, <2>1, CustomerMoves DEF Shift, Seated, CustomerStates
  <2>5. CountIsLow' BY <1>4, <2>1, <2>3 DEF CustomerStates
  <2>w. Write("customer ready") BY <1>8 DEF SaysReady
  <2>6. /\ lines' \in [LineKinds -> Nat]
        /\ BR' = BR /\ BF' = BF /\ CR' = CR + 1 /\ CS' = CS
    BY <1>1, <2>w, LineWritten DEF LineKinds, Accounted
  <2>7. SeatsAccounted' BY <1>1, <2>2, <2>4 DEF Accounted, SeatsAccounted
  <2>8. TokensAccounted'
    BY <1>1, <1>2, <2>2, <2>4, <2>6 DEF Accounted, TokensAccounted, LinesTyped
  <2>9. mutex_waiting_room' \in Nat /\ mutex_serving' \in Nat /\ mutex_served' \in Nat
    BY <1>1, <2>2 DEF Accounted
  <2>. QED BY <1>1, <2>3, <2>5, <2>6, <2>7, <2>8, <2>9 DEF Accounted
<1>9. CASE Rises(c)
  <2>1. CustomerAt(c, "rising", "chair") BY <1>9 DEF Rises
  <2>2. /\ mutex_waiting_room' = mutex_waiting_room + 1
        /\ mutex_serving' = mutex_serving
        /\ mutex_served' = mutex_served
    BY <1>9 DEF Rises, semaphores
  <2>3. loaded' = loaded /\ cust_served' = cust_served BY <1>9 DEF Rises
  <2>4. /\ Count(Seated)' = Count(Seated) - 1
        /\ Count({"called"})' = Count({"called"})
        /\ Count({"served"})' = Count({"served"})
    BY <1>1, <2>1, CustomerMoves DEF Shift, Seated, CustomerStates
  <2>5. CountIsLow' BY <1>4, <2>1, <2>3 DEF CustomerStates
  <2>6. /\ lines' \in [LineKinds -> Nat]
        /\ BR' = BR /\ BF' = BF /\ CR' = CR /\ CS' = CS
    BY <1>1, <1>9, LinesKept DEF Rises, Accounted
  <2>7. SeatsAccounted' BY <1>1, <2>2, <2>4 DEF Accounted, SeatsAccounted
  <2>8. TokensAccounted'
    BY <1>1, <1>2, <2>2, <2>4, <2>6 DEF Accounted, TokensAccounted, LinesTyped
  <2>9. mutex_waiting_room' \in Nat /\ mutex_serving' \in Nat /\ mutex_served' \in Nat
    BY <1>1, <2>2 DEF Accounted
  <2>. QED BY <1>1, <2>3, <2>5, <2>6, <2>7, <2>8, <2>9 DEF Accounted
<1>10. CASE IsReleased(c)
  <2>1. CustomerAt(c, "chair", "served") BY <1>10 DEF IsReleased
  <2>2. /\ mutex_waiting_room' = mutex_waiting_room
        /\ mutex_serving' = mutex_serving
        /\ mutex_served' = mutex_served - 1
        /\ mutex_served > 0
    BY <1>10 DEF IsReleased, semaphores
  <2>3. loaded' = loaded /\ cust_served' = cust_served BY <1>10 DEF IsReleased
  <2>4. /\ Count(Seated)' = Count(Seated)
        /\ Count({"called"})' = Count({"called"})
        /\ Count({"served"})' = Count({"served"}) + 1
    BY <1>1, <2>1, CustomerMoves DEF Shift, Seated, CustomerStates
  <2>5. CountIsLow' BY <1>4, <2>1, <2>3 DEF CustomerStates
  <2>6. /\ lines' \in [LineKinds -> Nat]
        /\ BR' = BR /\ BF' = BF /\ CR' = CR /\ CS' = CS
    BY <1>1, <1>10, LinesKept DEF IsReleased, Accounted
  <2>7. SeatsAccounted' BY <1>1, <2>2, <2>4 DEF Accounted, SeatsAccounted
  <2>8. TokensAccounted'
    BY <1>1, <1>2, <2>2, <2>4, <2>6 DEF Accounted, TokensAccounted, LinesTyped
  <2>9. mutex_waiting_room' \in Nat /\ mutex_serving' \in Nat /\ mutex_served' \in Nat
    BY <1>1, <2>2 DEF Accounted
  <2>. QED BY <1>1, <2>3, <2>5, <2>6, <2>7, <2>8, <2>9 DEF Accounted
<1>11. CASE SaysServed(c)
  <2>1. CustomerAt(c, "served", "counting") BY <1>11 DEF SaysServed
  <2>2. /\ mutex_waiting_room' = mutex_waiting_room
        /\ mutex_serving' = mutex_serving
        /\ mutex_served' = mutex_served
    BY <1>11 DEF SaysServed, semaphores
  <2>3. loaded' = loaded /\ cust_served' = cust_served BY <1>11 DEF SaysServed
  <2>4. /\ Count(Seated)' = Count(Seated)
        /\ Count({"called"})' = Count({"called"})
        /\ Count({"served"})' = Count({"served"}) - 1
    BY <1>1, <2>1, CustomerMoves DEF Shift, Seated, CustomerStates
  <2>5. CountIsLow' BY <1>4, <2>1, <2>3 DEF CustomerStates
  <2>w. Write("customer served") BY <1>11 DEF SaysServed
  <2>6. /\ lines' \in [LineKinds -> Nat]
        /\ BR' = BR /\ BF' = BF /\ CR' = CR /\ CS' = CS + 1
    BY <1>1, <2>w, LineWritten DEF LineKinds, Accounted
  <2>7. SeatsAccounted' BY <1>1, <2>2, <2>4 DEF Accounted, SeatsAccounted
  <2>8. TokensAccounted'
    BY <1>1, <1>2, <2>2, <2>4, <2>6 DEF Accounted, TokensAccounted, LinesTyped
  <2>9. mutex_waiting_room' \in Nat /\ mutex_serving' \in Nat /\ mutex_served' \in Nat
    BY <1>1, <2>2 DEF Accounted
  <2>. QED BY <1>1, <2>3, <2>5, <2>6, <2>7, <2>8, <2>9 DEF Accounted
<1>12. CASE Loads(c)
  <2>1. CustomerAt(c, "counting", "storing") BY <1>12 DEF Loads
  <2>2. /\ mutex_waiting_room' = mutex_waiting_room /\ mutex_serving' = mutex_serving
        /\ mutex_served' = mutex_served /\ lines' = lines
    BY <1>12 DEF Loads, semaphores
  <2>4. /\ Count(Seated)' = Count(Seated) /\ Count({"called"})' = Count({"called"})
        /\ Count({"served"})' = Count({"served"})
        /\ Count({"gone"})' = Count({"gone"}) + 0
    BY <1>1, <2>1, CustomerMoves DEF Shift, Seated, CustomerStates
  <2>a. loaded' = [loaded EXCEPT ![c] = cust_served] /\ cust_served' = cust_served
    BY <1>12 DEF Loads
  <2>b. cust_served \in Nat /\ cust_served <= Count({"gone"})
    BY <1>1 DEF Accounted, CountIsLow
  <2>c. cust_served <= N BY <1>1, <2>b
  <2>d. loaded \in [Customers -> Nat] /\ \A d \in Customers : loaded[d] <= N
    BY <1>1 DEF Accounted
  <2>3. /\ loaded' \in [Customers -> Nat] /\ \A d \in Customers : loaded'[d] <= N
        /\ cust_served' \in Nat
    BY <2>a, <2>b, <2>c, <2>d
  <2>5. CountIsLow'
    <3>1. cust_served' <= Count({"gone"})' BY <1>1, <2>a, <2>b, <2>4
    <3>2. \A d \in Customers : customer'[d] = "storing" => d = c \/ customer[d] = "storing"
      BY <1>3, <2>1 DEF CustomerAt
    <3>3. \A d \in Customers : customer'[d] = "storing" => loaded'[d] <= Count({"gone"})
      BY <1>1, <2>a, <2>b, <2>d, <3>2 DEF Accounted, CountIsLow
    <3>. QED BY <1>1, <2>4, <3>1, <3>3 DEF CountIsLow
  <2>6. BR' = BR /\ BF' = BF /\ CR' = CR /\ CS' = CS BY <2>2, LinesKept
  <2>7. SeatsAccounted' BY <1>1, <2>2, <2>4 DEF Accounted, SeatsAccounted
  <2>8. TokensAccounted'
    BY <1>1, <1>2, <2>2, <2>4, <2>6 DEF Accounted, TokensAccounted, LinesTyped
  <2>. QED BY <1>1, <2>2, <2>3, <2>5, <2>7, <2>8 DEF Accounted
<1>13. CASE Stores(c)
  <2>1. CustomerAt(c, "storing", "gone") BY <1>13 DEF Stores
  <2>2. /\ mutex_waiting_room' = mutex_waiting_room /\ mutex_serving' = mutex_serving
        /\ mutex_served' = mutex_served /\ lines' = lines
    BY <1>13 DEF Stores, semaphores
  <2>4. /\ Count(Seated)' = Count(Seated) /\ Count({"called"})' = Count({"called"})
        /\ Count({"served"})' = Count({"served"})
        /\ Count({"gone"})' = Count({"gone"}) + 1
    BY <1>1, <2>1, CustomerMoves DEF Shift, Seated, CustomerStates
  <2>a. loaded' = loaded /\ cust_served' = loaded[c] + 1 BY <1>13 DEF Stores
  <2>b. loaded[c] \in Nat /\ loaded[c] <= Count({"gone"})
    BY <1>1, <2>1 DEF Accounted, CountIsLow, CustomerAt
  <2>3. /\ loaded' \in [Customers -> Nat] /\ \A d \in Customers : loaded'[d] <= N
        /\ cust_served' \in Nat
    BY <1>1, <2>a, <2>b DEF Accounted
  <2>5. CountIsLow'
    <3>1. cust_served' <= Count({"gone"})' BY <1>1, <2>a, <2>b, <2>4
    <3>2. \A d \in Customers : customer'[d] = "storing" => customer[d] = "storing"
      BY <1>3, <2>1 DEF CustomerAt
    <3>3. ASSUME NEW d \in Customers, customer'[d] = "storing"
          PROVE  loaded'[d] <= Count({"gone"})'
      <4>1. loaded[d] \in Nat /\ loaded[d] <= Count({"gone"})
        BY <1>1, <3>2, <3>3 DEF Accounted, CountIsLow
      <4>. QED BY <1>1, <2>a, <2>4, <4>1
    <3>. QED BY <3>1, <3>3 DEF CountIsLow
  <2>6. BR' = BR /\ BF' = BF /\ CR' = CR /\ CS' = CS BY <2>2, LinesKept
  <2>7. SeatsAccounted' BY <1>1, <2>2, <2>4 DEF Accounted, SeatsAccounted
  <2>8. TokensAccounted'
    BY <1>1, <1>2, <2>2, <2>4, <2>6 DEF Accounted, TokensAccounted, LinesTyped
  <2>. QED BY <1>1, <2>2, <2>3, <2>5, <2>7, <2>8 DEF Accounted
<1>. QED BY <1>5, <1>6, <1>7, <1>8, <1>9, <1>10, <1>11, <1>12, <1>13 DEF Customer

\* ... and the rest of the invariant.  A customer who can still step is not
\* gone, so the barber, who leaves only when all are, has not left.
LEMMA CustomerInv ==
  ASSUME Inv, NEW c \in Customers, Customer(c)
  PROVE  Inv'
<1>1. Accounted' BY CustomerAccounts
<1>2. /\ customer \in [Customers -> CustomerStates] /\ barber' = barber
      /\ forked' = forked /\ finished' = finished
  BY DEF Inv, Typed, Customer, CustomerElse, Enters, IsCalled, SaysReady, Rises,
         IsReleased, SaysServed, Loads, Stores
<1>3. PICK to \in CustomerStates :
        customer[c] \notin {"unborn", "gone"} /\ customer' = [customer EXCEPT ![c] = to]
  BY DEF Customer, CustomerAt, CustomerStates, Enters, IsCalled, SaysReady, Rises,
         IsReleased, SaysServed, Loads, Stores
<1>4. customer' \in [Customers -> CustomerStates] BY <1>2, <1>3
<1>5. Typed' BY <1>1, <1>2, <1>4 DEF Inv, Typed, Accounted
<1>6. barber # "gone"
  <2>1. c \notin In({"gone"}) BY <1>3 DEF In
  <2>. QED BY <2>1 DEF Inv, Ending
<1>7. Ending'
  <2>1. \A d \in Customers : d > forked' => customer'[d] = "unborn"
    BY <1>2, <1>3 DEF Inv, Ending
  <2>. QED BY <1>1, <1>2, <1>6, <2>1 DEF Inv, Ending, Accounted
<1>. QED BY <1>1, <1>5, <1>7 DEF Inv, Accounted

LEMMA ParentInv ==
  ASSUME Inv, Parent
  PROVE  Inv'
<1>. USE BarberAssumption
<1>1. CASE Fork
  <2>. DEFINE c == forked + 1
  <2>1. c \in Customers /\ customer[c] = "unborn"
    <3>1. forked \in 0 .. N /\ forked < N BY <1>1 DEF Fork, Inv, Typed
    <3>2. c \in Customers /\ c > forked BY <3>1 DEF Customers
    <3>. QED BY <3>2 DEF Inv, Ending
  <2>2. CustomerAt(c, "unborn", "entering") BY <1>1, <2>1 DEF Fork, CustomerAt
  <2>3. /\ mutex_waiting_room' = mutex_waiting_room /\ mutex_serving' = mutex_serving
        /\ mutex_served' = mutex_served /\ lines' = lines /\ barber' = barber
        /\ loaded' = loaded /\ cust_served' = cust_served /\ finished' = finished
        /\ forked' = forked + 1
    BY <1>1 DEF Fork, semaphores
  <2>4. /\ customer' \in [Customers -> CustomerStates]
        /\ Count(Seated)' = Count(Seated) /\ Count({"called"})' = Count({"called"})
        /\ Count({"served"})' = Count({"served"}) /\ Count({"gone"})' = Count({"gone"})
    <3>. HIDE DEF c
    <3>. QED BY <2>1, <2>2, CustomerMoves, CountsType DEF Shift, Seated, CustomerStates
  <2>5. customer \in [Customers -> CustomerStates] BY DEF Inv, Typed
  <2>6. \A d \in Customers : customer'[d] = "storing" => customer[d] = "storing"
    BY <2>2, <2>5 DEF CustomerAt
  <2>7. CountIsLow' BY <2>3, <2>4, <2>6 DEF Inv, CountIsLow
  <2>8. SeatsAccounted' BY <2>3, <2>4 DEF Inv, SeatsAccounted
  <2>9. TokensAccounted'
    <3>1. BR' = BR /\ BF' = BF /\ CR' = CR /\ CS' = CS BY <2>3, LinesKept
    <3>. QED BY <2>3, <2>4, <3>1, OwesSame DEF Inv, TokensAccounted
  <2>10. Typed'
    <3>1. forked' \in 0 .. N BY <1>1, <2>3 DEF Fork, Inv, Typed
    <3>. QED BY <2>3, <2>4, <3>1 DEF Inv, Typed
  <2>11. barber # "gone"
    <3>1. c \notin In({"gone"}) BY <2>1 DEF In
    <3>. QED BY <2>1, <3>1 DEF Inv, Ending
  <2>12. Ending'
    <3>1. forked \in Int /\ \A d \in Customers : d \in Int BY DEF Inv, Typed, Customers
    <3>2. \A d \in Customers : d > forked' => customer'[d] = "unborn"
      <4> SUFFICES ASSUME NEW d \in Customers, d > forked' PROVE customer'[d] = "unborn"
        OBVIOUS
      <4>1. d > forked /\ d # c BY <2>3, <3>1
      <4>2. customer[d] = "unborn" BY <4>1 DEF Inv, Ending
      <4>. QED BY <2>2, <2>5, <4>1, <4>2 DEF CustomerAt
    <3>. QED BY <2>3, <2>11, <3>2 DEF Inv, Ending
  <2>. QED BY <2>7, <2>8, <2>9, <2>10, <2>12 DEF Inv
<1>2. CASE Finish
  <2>1. /\ customer' = customer /\ loaded' = loaded /\ forked' = forked /\ lines' = lines
        /\ barber' = barber /\ barber = "gone" /\ finished' = TRUE
        /\ cust_served' = cust_served /\ mutex_waiting_room' = mutex_waiting_room
        /\ mutex_serving' = mutex_serving /\ mutex_served' = mutex_served
    BY <1>2 DEF Finish, semaphores
  <2>2. /\ Count(Seated)' = Count(Seated) /\ Count({"called"})' = Count({"called"})
        /\ Count({"served"})' = Count({"served"}) /\ Count({"gone"})' = Count({"gone"})
        /\ In({"gone"})' = In({"gone"})
    BY <2>1, CountSame
  <2>3. BR' = BR /\ BF' = BF /\ CR' = CR /\ CS' = CS BY <2>1, LinesKept
  <2>4. TokensAccounted' BY <2>1, <2>2, <2>3, OwesSame DEF Inv, TokensAccounted
  <2>5. SeatsAccounted' /\ CountIsLow' BY <2>1, <2>2 DEF Inv, SeatsAccounted, CountIsLow
  <2>6. Ending' BY <2>1, <2>2 DEF Inv, Ending
  <2>7. Typed' BY <2>1 DEF Inv, Typed
  <2>. QED BY <2>4, <2>5, <2>6, <2>7 DEF Inv
<1>. QED BY <1>1, <1>2 DEF Parent

LEMMA InvNext == Inv /\ [Next]_vars => Inv'
<1> SUFFICES ASSUME Inv, [Next]_vars PROVE Inv' OBVIOUS
<1>1. CASE Next BY <1>1, BarberInv, CustomerInv, ParentInv DEF Next
<1>2. CASE UNCHANGED vars
  <2>1. /\ customer' = customer /\ loaded' = loaded /\ forked' = forked /\ lines' = lines
        /\ barber' = barber /\ finished' = finished
        /\ cust_served' = cust_served /\ mutex_waiting_room' = mutex_waiting_room
        /\ mutex_serving' = mutex_serving /\ mutex_served' = mutex_served
    BY <1>2 DEF vars, semaphores
  <2>2. /\ Count(Seated)' = Count(Seated) /\ Count({"called"})' = Count({"called"})
        /\ Count({"served"})' = Count({"served"}) /\ Count({"gone"})' = Count({"gone"})
        /\ In({"gone"})' = In({"gone"})
    BY <2>1, CountSame
  <2>3. BR' = BR /\ BF' = BF /\ CR' = CR /\ CS' = CS BY <2>1, LinesKept
  <2>4. TokensAccounted' BY <2>1, <2>2, <2>3, OwesSame DEF Inv, TokensAccounted
  <2>5. SeatsAccounted' /\ CountIsLow' BY <2>1, <2>2 DEF Inv, SeatsAccounted, CountIsLow
  <2>6. Ending' BY <2>1, <2>2 DEF Inv, Ending
  <2>7. Typed' BY <2>1 DEF Inv, Typed
  <2>. QED BY <2>4, <2>5, <2>6, <2>7 DEF Inv
<1>. QED BY <1>1, <1>2

\* For any number of customers and seats: the semaphore of the waiting room
\* stays within the seats and the count within the customers, although
\* ++shm->cust_served is not protected.
THEOREM TypeCorrect == Spec => []TypeOK
<1>1. Inv => TypeOK
  <2> SUFFICES ASSUME Inv PROVE TypeOK OBVIOUS
  <2>. USE BarberAssumption
  <2>1. Count(Seated) \in Nat /\ Count({"gone"}) \in 0 .. N BY CountType
  <2>2. mutex_waiting_room \in 0 .. Q BY <2>1 DEF Inv, Typed, SeatsAccounted
  <2>3. cust_served \in 0 .. N BY <2>1 DEF Inv, Typed, CountIsLow
  <2>4. loaded \in [Customers -> 0 .. N] BY DEF Inv, Typed, Ending
  <2>. QED BY <2>2, <2>3, <2>4 DEF Inv, Typed, TypeOK
<1>. QED BY <1>1, InvInit, InvNext, PTL DEF Spec

\* For any number of customers and seats: main destroys the semaphores only
\* after the last customer used them, though it waits for the barber alone.
THEOREM DestroyedUnusedAlways == Spec => []DestroyedUnused
<1>1. Inv => DestroyedUnused BY DEF Inv, Ending, DestroyedUnused
<1>. QED BY <1>1, InvInit, InvNext, PTL DEF Spec

\* For any number of customers and seats: the log shows no more customers ready
\* than calls, and no more served than haircuts finished.
THEOREM LogOrderAlways == Spec => []LogOrder
<1>1. Inv => LogOrder
  <2> SUFFICES ASSUME Inv PROVE LogOrder OBVIOUS
  <2>1. /\ BR \in Nat /\ BF \in Nat /\ CR \in Nat /\ CS \in Nat
        /\ Count({"called"}) \in Nat /\ Count({"served"}) \in Nat
        /\ Owes("call") \in Nat /\ Owes("release") \in Nat
    BY InvAccounted DEF LinesTyped
  <2>2. mutex_serving \in Nat /\ mutex_served \in Nat BY DEF Inv, Typed
  <2>3. CR <= BR /\ CS <= BF BY <2>1, <2>2 DEF Inv, TokensAccounted
  <2>. QED BY <2>3 DEF LogOrder, BR, BF, CR, CS
<1>. QED BY <1>1, InvInit, InvNext, PTL DEF Spec

\* Only Enters takes a customer past the door, and turns him away only when no
\* seat is free.
LEMMA RefusalStep ==
  ASSUME Inv, [Next]_vars, NEW c \in Customers,
         customer[c] = "entering", customer'[c] = "counting"
  PROVE  Count(Seated) = Q
<1>1. PICK d \in Customers : Customer(d)
  <2>1. CASE Barber
    <3>1. customer' = customer
      BY <2>1 DEF Barber, BarberLoops, BarberLooks, BarberReady, BarberCalls,
                  BarberFinishes, BarberReleases, BarberElse
    <3>. QED BY <3>1
  <2>2. CASE Fork
    <3>1. customer'[c] \in {customer[c], "entering"} BY <2>2 DEF Fork, Inv, Typed
    <3>. QED BY <3>1
  <2>3. CASE Finish BY <2>3 DEF Finish
  <2>4. CASE UNCHANGED vars BY <2>4 DEF vars
  <2>. QED BY <2>1, <2>2, <2>3, <2>4 DEF Next, Parent
<1>2. PICK from, to \in CustomerStates : CustomerAt(d, from, to)
  BY <1>1 DEF Customer, Enters, IsCalled, SaysReady, Rises, IsReleased, SaysServed,
              Loads, Stores, CustomerAt, CustomerStates
<1>3. d = c BY <1>2 DEF CustomerAt, Inv, Typed
<1>4. Enters(c)
  BY <1>1, <1>3 DEF Customer, Enters, IsCalled, SaysReady, Rises, IsReleased, SaysServed,
                    Loads, Stores, CustomerAt
<1>5. mutex_waiting_room = 0
  <2>1. CASE mutex_waiting_room > 0
    <3>1. customer'[c] = "waiting" BY <1>4, <2>1 DEF Enters, CustomerAt, Inv, Typed
    <3>. QED BY <3>1
  <2>. QED BY <2>1 DEF Inv, Typed
<1>. QED BY <1>5, CountsType, BarberAssumption DEF Inv, SeatsAccounted

\* For any number of customers and seats: nobody is turned away while a seat is
\* free, in whatever order the processes come to the semaphore.
THEOREM RefusedOnlyWhenFullAlways == Spec => RefusedOnlyWhenFull
<1>1. Inv /\ [Next]_vars
        => [ \A c \in Customers :
               customer[c] = "entering" /\ customer'[c] = "counting"
                 => Cardinality(In({"waiting", "called", "rising"})) = Q ]_vars
  BY RefusalStep DEF Count, Seated
<1>. QED BY <1>1, InvInit, InvNext, PTL DEF Spec, RefusedOnlyWhenFull
=============================================================================
