------------------------------ MODULE Speedway ------------------------------
(* The cars of the model of the motorway (vehicle.cc).  A car holds its section  *)
(* of the road until it has the next one; a section full of cars makes the others  *)
(* wait in the order they came.  How long a section takes, with the accidents on     *)
(* it, is left open.                                                                   *)
EXTENDS RouteGenerator, FiniteSets

CONSTANTS PerLane,      \* length of a section -> cars to a lane of it: 250 to the kilometre
          Traffic,      \* the cars of a run and the routes they draw from
          nobody

VARIABLES routes,       \* what the cars of this run draw from
          car,          \* car -> where it is
          used,         \* cars in a section's store
          queue         \* cars waiting for the section

vars == <<routes, car, used, queue>>

Places == {p \in {-1, 1} \X (1 .. Len(praha)) : p[2] \in DOMAIN Sections(p[1])}
At(p) == Sections(p[1])[p[2]]
kapacita(p) == PerLane[At(p).delka] * At(p).pocet_pruhu
is_last(p) == p[2] = Len(Sections(p[1]))
get_next(p) == <<p[1], p[2] + 1>>

Init ==
    /\ \E t \in Traffic :
        /\ routes = t.routes
        /\ car = [v \in t.cars |-> [mode |-> "born", route |-> <<0, 0>>, at |-> nobody, to |-> nobody,
                                   passed_distance |-> 0]]
    /\ used = [p \in Places |-> 0]
    /\ queue = [p \in Places |-> <<>>]

-----------------------------------------------------------------------------
(* The store of SIMLIB: one that leaves lets the first that waits in.                *)

Free(p) == used[p] < kapacita(p)

(* v, now as c, leaves the store of p, when it has entered those in entered.           *)
Leave(p, v, c, entered) ==
    LET letIn == IF queue[p] = <<>> THEN {} ELSE {Head(queue[p])}
    IN /\ used' = [q \in Places |-> used[q] + (IF q \in entered THEN 1 ELSE 0)
                                            - (IF q = p /\ letIn = {} THEN 1 ELSE 0)]
       /\ queue' = [queue EXCEPT ![p] = IF @ = <<>> THEN @ ELSE Tail(@)]
       /\ car' = [u \in DOMAIN car |->
                    IF u = v THEN c ELSE IF u \in letIn THEN [car[u] EXCEPT !.mode = "granted"] ELSE car[u]]

(* v, now as c, waits for p.                                                             *)
Join(p, v, c) ==
    /\ car' = [car EXCEPT ![v] = [c EXCEPT !.mode = "waits", !.to = p]]
    /\ queue' = [queue EXCEPT ![p] = Append(@, v)]
    /\ UNCHANGED used

-----------------------------------------------------------------------------
(* A car draws its route; with no section from its entry or to its exit it is gone.      *)
Behavior(v) ==
    /\ car[v].mode = "born"
    /\ \E r \in routes :
        LET direction == IF r[1] < r[2] THEN 1 ELSE -1
            u_strt == get_by_strt_exit(direction, r[1])
            c == [car[v] EXCEPT !.route = r]
        IN IF r[1] = r[2] \/ u_strt = {} \/ get_by_end_exit(direction, r[2]) = {}
           THEN /\ car' = [car EXCEPT ![v] = [c EXCEPT !.mode = "no path"]]
                /\ UNCHANGED <<used, queue>>
           ELSE \E n \in u_strt :
                LET p == <<direction, n>>
                IN IF Free(p)
                   THEN /\ car' = [car EXCEPT ![v] = [c EXCEPT !.mode = "rides", !.at = p]]
                        /\ used' = [used EXCEPT ![p] = @ + 1]
                        /\ UNCHANGED queue
                   ELSE Join(p, v, c)
    /\ UNCHANGED routes

Passed(v) == [car[v] EXCEPT !.passed_distance = @ + At(car[v].at).delka]
Onto(v, p) == [Passed(v) EXCEPT !.at = p, !.to = nobody, !.mode = "rides"]
Out(v) == [Passed(v) EXCEPT !.mode = "done", !.at = nobody]
Ends(v) == At(car[v].at).km_do = car[v].route[2]

(* The end of a section: the car goes out, or on, or waits for the next with this one    *)
(* held.                                                                                    *)
DriveOut(v) ==
    /\ car[v].mode = "rides"
    /\ Ends(v) \/ is_last(car[v].at)
    /\ Leave(car[v].at, v, Out(v), {})
    /\ UNCHANGED routes

(* Mutant of DriveOn: a car looks at the exit only after it has taken the next section.   *)
DriveOnThenOut(v) ==
    LET p == car[v].at
        next == get_next(p)
    IN /\ car[v].mode = "rides"
       /\ ~is_last(p)
       /\ IF Free(next)
          THEN IF Ends(v) THEN Leave(p, v, Out(v), {next}) ELSE Leave(p, v, Onto(v, next), {next})
          ELSE Join(next, v, car[v])
       /\ UNCHANGED routes

DriveOn(v) ==
    LET p == car[v].at
        next == get_next(p)
    IN /\ car[v].mode = "rides"
       /\ ~Ends(v) /\ ~is_last(p)
       /\ IF Free(next) THEN Leave(p, v, Onto(v, next), {next}) ELSE Join(next, v, car[v])
       /\ UNCHANGED routes

(* A car that was let in goes on and lets the section it held go.                            *)
Granted(v) ==
    LET p == car[v].at
    IN /\ car[v].mode = "granted"
       /\ IF p = nobody
          THEN /\ car' = [car EXCEPT ![v] = [@ EXCEPT !.mode = "rides", !.at = car[v].to, !.to = nobody]]
               /\ UNCHANGED <<used, queue>>
          ELSE Leave(p, v, Onto(v, car[v].to), {})
       /\ UNCHANGED routes

Next == \E v \in DOMAIN car : Behavior(v) \/ DriveOut(v) \/ DriveOn(v) \/ Granted(v)
Spec == Init /\ [][Next]_vars

-----------------------------------------------------------------------------
(* A section's store counts the cars on it and let into it, no more than it takes, and    *)
(* one for whom there is room does not wait (the Enter and Leave of drive_to).                *)
StoresAreHeld ==
    LET busy == {car[v].at : v \in DOMAIN car} \union {car[v].to : v \in DOMAIN car}
    IN \A p \in DOMAIN used :
       IF p \notin busy THEN used[p] = 0 /\ queue[p] = <<>>
       ELSE
        /\ used[p] = Cardinality({v \in DOMAIN car : car[v].at = p})
                     + Cardinality({v \in DOMAIN car : car[v].mode = "granted" /\ car[v].to = p})
        /\ used[p] <= kapacita(p)
        /\ queue[p] # <<>> => ~Free(p)

(* A car that found its way has gone the kilometres from its entry to its exit: the          *)
(* sections of model_impl.h follow each other.                                                  *)
ArrivesWhereItWould ==
    \A v \in DOMAIN car :
        LET r == car[v].route
        IN car[v].mode = "done" =>
             car[v].passed_distance = IF r[1] < r[2] THEN r[2] - r[1] ELSE r[1] - r[2]

(* As long as a car is on the road one of them can move.                                         *)
SomeoneMoves ==
    (\E v \in DOMAIN car : car[v].mode \notin {"done", "no path"}) =>
    \E v \in DOMAIN car : car[v].mode \in {"born", "rides", "granted"}
=============================================================================
