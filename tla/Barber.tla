------------------------------- MODULE Barber -------------------------------
(***************************************************************************)
(* The sleeping barber of main.c: a barber process, N customer processes   *)
(* forked one after another, and the parent that waits for the barber and  *)
(* then destroys the semaphores they share.                                *)
(*                                                                         *)
(* mutex_waiting_room counts the free seats, mutex_serving and             *)
(* mutex_served are signalled by the barber and waited on by customers.    *)
(* Lines are written under mutex_action, so a line is one step; `lines'    *)
(* counts those that the two sides write about a haircut.  ++cust_served   *)
(* is done outside any mutex, so it is a load and a store.                 *)
(***************************************************************************)
EXTENDS Integers, FiniteSets

CONSTANTS
  N,        \* number of customers
  Q,        \* seats in the waiting room
  MaxCalls  \* bound: how often the barber says he is ready

ASSUME BarberAssumption == N \in Nat /\ Q \in Nat \ {0} /\ MaxCalls \in Nat

Customers == 1 .. N

VARIABLES
  barber,       \* where the barber is in do_barber
  customer,     \* where each customer is in do_customer
  loaded,       \* cust_served as each customer loaded it in ++
  forked,       \* the parent: how many customers it has forked
  finished,     \* the parent: the barber was waited for, semaphores destroyed
  mutex_waiting_room, mutex_serving, mutex_served, cust_served,
  lines         \* lines written so far, of the four kinds that matter

semaphores == <<mutex_waiting_room, mutex_serving, mutex_served>>
vars == <<barber, customer, loaded, forked, finished, semaphores, cust_served, lines>>

LineKinds == {"barber ready", "barber finished", "customer ready", "customer served"}

Init ==
  /\ barber = "loop"
  /\ customer = [c \in Customers |-> "unborn"]
  /\ loaded = [c \in Customers |-> 0]
  /\ forked = 0 /\ finished = FALSE
  /\ mutex_waiting_room = Q /\ mutex_serving = 0 /\ mutex_served = 0
  /\ cust_served = 0
  /\ lines = [k \in LineKinds |-> 0]

-----------------------------------------------------------------------------
\* do_barber.  The line "checks" and both sleeps change nothing shared.

BarberAt(from, to) == barber = from /\ barber' = to
BarberElse == UNCHANGED <<customer, loaded, forked, finished, cust_served>>
Write(kind) == lines' = [lines EXCEPT ![kind] = @ + 1]

\* Mutant of BarberLoops: he goes home one customer early.
BarberLoopsTooFew ==
  /\ IF cust_served + 1 < N THEN BarberAt("loop", "look") ELSE BarberAt("loop", "gone")
  /\ BarberElse /\ UNCHANGED <<semaphores, lines>>

BarberLoops ==
  /\ IF cust_served < N THEN BarberAt("loop", "look") ELSE BarberAt("loop", "gone")
  /\ BarberElse /\ UNCHANGED <<semaphores, lines>>

\* sem_getvalue: a snapshot, on which the rest of the round relies.  The bound
\* MaxCalls holds him here only while someone sits in the waiting room.
BarberLooks ==
  /\ mutex_waiting_room < Q => lines["barber ready"] < MaxCalls
  /\ IF mutex_waiting_room < Q THEN BarberAt("look", "ready") ELSE BarberAt("look", "loop")
  /\ BarberElse /\ UNCHANGED <<semaphores, lines>>

BarberReady ==
  /\ BarberAt("ready", "call") /\ Write("barber ready")
  /\ BarberElse /\ UNCHANGED semaphores

BarberCalls ==
  /\ BarberAt("call", "cut") /\ mutex_serving' = mutex_serving + 1
  /\ BarberElse /\ UNCHANGED <<mutex_waiting_room, mutex_served, lines>>

BarberFinishes ==
  /\ BarberAt("cut", "release") /\ Write("barber finished")
  /\ BarberElse /\ UNCHANGED semaphores

\* Mutant of BarberReleases: the second semaphore is forgotten.
BarberForgets ==
  /\ BarberAt("release", "loop")
  /\ BarberElse /\ UNCHANGED <<semaphores, lines>>

BarberReleases ==
  /\ BarberAt("release", "loop") /\ mutex_served' = mutex_served + 1
  /\ BarberElse /\ UNCHANGED <<mutex_waiting_room, mutex_serving, lines>>

Barber ==
  \/ BarberLoops \/ BarberLooks \/ BarberReady \/ BarberCalls
  \/ BarberFinishes \/ BarberReleases

-----------------------------------------------------------------------------
\* do_customer.  The lines "created", "enters" and "refused" come before steps
\* of the same process and need no step of their own.

CustomerAt(c, from, to) == customer[c] = from /\ customer' = [customer EXCEPT ![c] = to]
CustomerElse == UNCHANGED <<barber, forked, finished>>

\* Mutant of Enters: whoever is refused frees a seat all the same.
EntersFreeing(c) ==
  /\ IF mutex_waiting_room > 0
       THEN /\ CustomerAt(c, "entering", "waiting")
            /\ mutex_waiting_room' = mutex_waiting_room - 1
       ELSE /\ CustomerAt(c, "entering", "counting")
            /\ mutex_waiting_room' = mutex_waiting_room + 1
  /\ CustomerElse /\ UNCHANGED <<mutex_serving, mutex_served, cust_served, loaded, lines>>

\* sem_trywait
Enters(c) ==
  /\ IF mutex_waiting_room > 0
       THEN /\ CustomerAt(c, "entering", "waiting")
            /\ mutex_waiting_room' = mutex_waiting_room - 1
       ELSE CustomerAt(c, "entering", "counting") /\ UNCHANGED mutex_waiting_room
  /\ CustomerElse /\ UNCHANGED <<mutex_serving, mutex_served, cust_served, loaded, lines>>

\* Mutant of IsCalled: the result of the wait is not looked at.
IsCalledAnyway(c) ==
  /\ CustomerAt(c, "waiting", "called")
  /\ mutex_serving' = IF mutex_serving > 0 THEN mutex_serving - 1 ELSE 0
  /\ CustomerElse /\ UNCHANGED <<mutex_waiting_room, mutex_served, cust_served, loaded, lines>>

IsCalled(c) ==
  /\ CustomerAt(c, "waiting", "called")
  /\ mutex_serving > 0 /\ mutex_serving' = mutex_serving - 1
  /\ CustomerElse /\ UNCHANGED <<mutex_waiting_room, mutex_served, cust_served, loaded, lines>>

SaysReady(c) ==
  /\ CustomerAt(c, "called", "rising") /\ Write("customer ready")
  /\ CustomerElse /\ UNCHANGED <<semaphores, cust_served, loaded>>

\* Mutant of Rises: the seat is not given back.
RisesKeepingSeat(c) ==
  /\ CustomerAt(c, "rising", "chair")
  /\ CustomerElse /\ UNCHANGED <<semaphores, cust_served, loaded, lines>>

Rises(c) ==
  /\ CustomerAt(c, "rising", "chair")
  /\ mutex_waiting_room' = mutex_waiting_room + 1
  /\ CustomerElse /\ UNCHANGED <<mutex_serving, mutex_served, cust_served, loaded, lines>>

IsReleased(c) ==
  /\ CustomerAt(c, "chair", "served")
  /\ mutex_served > 0 /\ mutex_served' = mutex_served - 1
  /\ CustomerElse /\ UNCHANGED <<mutex_waiting_room, mutex_serving, cust_served, loaded, lines>>

SaysServed(c) ==
  /\ CustomerAt(c, "served", "counting") /\ Write("customer served")
  /\ CustomerElse /\ UNCHANGED <<semaphores, cust_served, loaded>>

\* ++shm->cust_served
Loads(c) ==
  /\ CustomerAt(c, "counting", "storing")
  /\ loaded' = [loaded EXCEPT ![c] = cust_served]
  /\ CustomerElse /\ UNCHANGED <<semaphores, cust_served, lines>>

Stores(c) ==
  /\ CustomerAt(c, "storing", "gone")
  /\ cust_served' = loaded[c] + 1
  /\ CustomerElse /\ UNCHANGED <<semaphores, loaded, lines>>

Customer(c) ==
  \/ Enters(c) \/ IsCalled(c) \/ SaysReady(c) \/ Rises(c)
  \/ IsReleased(c) \/ SaysServed(c) \/ Loads(c) \/ Stores(c)

-----------------------------------------------------------------------------
\* main: fork all customers, wait for the barber only, destroy.
Fork ==
  /\ forked < N /\ forked' = forked + 1
  /\ customer' = [customer EXCEPT ![forked + 1] = "entering"]
  /\ UNCHANGED <<barber, loaded, finished, semaphores, cust_served, lines>>

Finish ==
  /\ forked = N /\ barber = "gone" /\ ~finished
  /\ finished' = TRUE
  /\ UNCHANGED <<barber, customer, loaded, forked, semaphores, cust_served, lines>>

Parent == Fork \/ Finish

Next == Barber \/ (\E c \in Customers : Customer(c)) \/ Parent

Spec == Init /\ [][Next]_vars

\* The scheduler runs every process that can run.  sem_post wakes a waiter, and
\* nobody else takes what the last waiter needs, so weak fairness is enough
\* for each process.
FairSpec ==
  /\ Spec /\ WF_vars(Barber) /\ WF_vars(Parent)
  /\ \A c \in Customers : WF_vars(Customer(c))

-----------------------------------------------------------------------------
CustomerStates ==
  {"unborn", "entering", "waiting", "called", "rising", "chair", "served",
   "counting", "storing", "gone"}

TypeOK ==
  /\ barber \in {"loop", "look", "ready", "call", "cut", "release", "gone"}
  /\ customer \in [Customers -> CustomerStates]
  /\ loaded \in [Customers -> 0 .. N]
  /\ forked \in 0 .. N /\ finished \in BOOLEAN
  /\ mutex_waiting_room \in 0 .. Q
  /\ mutex_serving \in Nat /\ mutex_served \in Nat
  /\ cust_served \in 0 .. N
  /\ lines \in [LineKinds -> Nat]

In(states) == {c \in Customers : customer[c] \in states}

\* The parent waits for the barber alone; nevertheless, when it destroys the
\* semaphores no customer uses them any more, although updates of cust_served
\* may be lost.
DestroyedUnused == finished => In({"gone"}) = Customers

\* What the log shows: a customer is ready only after the barber called him and
\* served only after the barber finished, counted over all of them, whatever
\* happens to tokens that nobody was there to take.
LogOrder ==
  /\ lines["customer ready"] <= lines["barber ready"]
  /\ lines["customer served"] <= lines["barber finished"]

\* A customer is turned away only when every seat is taken.
RefusedOnlyWhenFull ==
  [][ \A c \in Customers :
        customer[c] = "entering" /\ customer'[c] = "counting"
          => Cardinality(In({"waiting", "called", "rising"})) = Q ]_vars

\* Every customer comes to an end: nobody waits in the room or in the chair for
\* a signal that the barber gave to nobody.
EveryoneLeaves == \A c \in Customers : <>(customer[c] = "gone")

\* The program ends.
Ends == <>finished
=============================================================================
