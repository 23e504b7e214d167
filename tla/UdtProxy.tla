------------------------------ MODULE UdtProxy ------------------------------
(* The proxy that makes the network between Alice and Bob unreliable            *)
(* (udtproxy.c): the main loop receives packets into two pools of slots, with     *)
(* the alarm blocked, and the alarm of every millisecond sends the slots whose     *)
(* timeout has run down, in the order of the slots.                                *)
EXTENDS Integers, Sequences, FiniteSets

CONSTANTS
    Sides,       \* Alice and Bob
    QueueSize,   \* queue_size: slots of each pool
    Options,     \* the delays and jitters tried
    Incoming,    \* bound: packets that come from each side
    MaxMs        \* bound: milliseconds told apart

VARIABLES
    opt,       \* delay and jitter
    pool,      \* buffer_alice, buffer_bob: free, or a timeout and when it came
    waiting,   \* packets in each socket, and how many are still to come
    ready,     \* what select returned; none waits at select
    sent,      \* when the packets that went to each other side had come
    count,     \* packets_received, packets_sent, packets_dropped
    ms

vars == <<opt, pool, waiting, ready, sent, count, ms>>

Free == [timeout |-> 0, came |-> -1]
Slots == 1..QueueSize

Init ==
    /\ opt \in Options
    /\ pool = [s \in Sides |-> [i \in Slots |-> Free]]
    /\ waiting = [s \in Sides |-> [now |-> 0, later |-> Incoming]]
    /\ ready = {}
    /\ sent = [s \in Sides |-> <<>>]
    /\ count = [received |-> 0, sent |-> 0, dropped |-> 0]
    /\ ms = 0

-----------------------------------------------------------------------------
Arrive ==
    /\ \E s \in Sides :
         /\ waiting[s].later > 0
         /\ waiting' = [waiting EXCEPT ![s] = [now |-> @.now + 1, later |-> @.later - 1]]
    /\ UNCHANGED <<opt, pool, ready, sent, count, ms>>

\* Mutant of Delays: where no jitter is set it is the delay.
DelaysWide ==
    LET jitter == IF opt.jitter = 0 THEN opt.delay ELSE opt.jitter
    IN {opt.delay + r - jitter : r \in 0..(2 * jitter - 1)}

(* determine_delay: less than nothing if the jitter is more than the delay.          *)
Delays ==
    IF opt.jitter = 0 THEN {opt.delay}
    ELSE {opt.delay + r - opt.jitter : r \in 0..(2 * opt.jitter - 1)}

Empty(p) == {i \in Slots : p[i] = Free}
FirstEmpty(p) == CHOOSE i \in Empty(p) : \A j \in Empty(p) : i <= j

(* select; the alarm may still come before it is blocked.                             *)
Select ==
    /\ ready = {}
    /\ ready' = {s \in Sides : waiting[s].now > 0} /\ ready' # {}
    /\ UNCHANGED <<opt, pool, waiting, sent, count, ms>>

(* One packet of each side that is ready, with the alarm blocked.  A pool without an   *)
(* empty slot drops it.                                                                  *)
Receive ==
    /\ ready # {} /\ ready' = {}
    /\ waiting' = [s \in Sides |-> IF s \in ready THEN [waiting[s] EXCEPT !.now = @ - 1] ELSE waiting[s]]
    /\ \E d \in [ready -> Delays] :
         pool' = [s \in Sides |->
                    IF s \in ready /\ Empty(pool[s]) # {}
                    THEN [pool[s] EXCEPT ![FirstEmpty(pool[s])] = [timeout |-> d[s], came |-> ms]]
                    ELSE pool[s]]
    /\ count' = [count EXCEPT !.received = @ + Cardinality(ready),
                              !.dropped = @ + Cardinality({s \in ready : Empty(pool[s]) = {}})]
    /\ UNCHANGED <<opt, sent, ms>>

(* sigalrm_handler.                                                                      *)
Left(slot) == IF slot.timeout > 0 THEN slot.timeout - 1 ELSE slot.timeout
\* Mutant of Due: only what is counted down in this millisecond is sent.
DueCounted(p) == {i \in Slots : p[i] # Free /\ p[i].timeout = 1}

Due(p) == {i \in Slots : p[i] # Free /\ Left(p[i]) = 0}

(* The slots of a set, in their order.                                                     *)
Ordered(S) ==
    CHOOSE f \in [1..Cardinality(S) -> S] : \A k, l \in 1..Cardinality(S) : k < l => f[k] < f[l]

SigAlrm ==
    /\ ms' = IF ms < MaxMs THEN ms + 1 ELSE ms
    /\ pool' = [s \in Sides |->
                  [i \in Slots |-> IF i \in Due(pool[s]) \/ pool[s][i] = Free THEN Free
                                   ELSE [pool[s][i] EXCEPT !.timeout = Left(pool[s][i])]]]
    /\ sent' = [s \in Sides |->
                  sent[s] \o LET due == Ordered(Due(pool[s]))
                             IN [k \in DOMAIN due |-> pool[s][due[k]].came]]
    /\ count' = [count EXCEPT !.sent = @ + Len(sent'["alice"]) + Len(sent'["bob"])
                                         - Len(sent["alice"]) - Len(sent["bob"])]
    /\ UNCHANGED <<opt, waiting, ready>>

Main == Select \/ Receive
Next == Main \/ SigAlrm \/ Arrive

-----------------------------------------------------------------------------
(* Without jitter packets that came in different milliseconds leave in the order     *)
(* they came, though slots are reused in any order.  (Those of one millisecond may     *)
(* change places.)                                                                       *)
InOrder ==
    opt.jitter = 0 =>
      \A s \in Sides : \A i, j \in DOMAIN sent[s] : i < j => sent[s][i] <= sent[s][j]

(* Every packet is sent or was dropped, in the end, if the jitter is at most the       *)
(* delay.  (If it is more, a timeout may be negative: it is never counted down to        *)
(* zero, the packet is never sent and its slot never free again.)                         *)
Emptied == \A s \in Sides : waiting[s].now = 0 /\ waiting[s].later = 0 /\ \A i \in Slots : pool[s][i] = Free
AllLeave == opt.jitter > opt.delay \/ ~ (\A s \in Sides : waiting[s].later = 0) \/
            (Emptied /\ count.received = count.sent + count.dropped)
=============================================================================
