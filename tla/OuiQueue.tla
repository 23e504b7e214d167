------------------------------ MODULE OuiQueue ------------------------------
(***************************************************************************)
(* The queue of ouiqueue.c: a ring of QueueMax addresses with a front and  *)
(* a back pointer and a size.                                              *)
(***************************************************************************)
EXTENDS Integers, Sequences

CONSTANT QueueMax   \* IN6_QUEUE_MAXSIZE

ASSUME QueueAssumption == QueueMax \in Nat \ {0}

Slots == 0 .. QueueMax - 1

\* An address is its place in the order of generation; 0 is none.
queue_t ==
  [size : 0 .. QueueMax, front : Slots, back : Slots, data : [Slots -> Nat]]

queue_init == [size |-> 0, front |-> 0, back |-> 0, data |-> [i \in Slots |-> 0]]

queue_pop(q) == [q EXCEPT !.front = (@ + 1) % QueueMax, !.size = @ - 1]

queue_push(q, addr) ==
  [q EXCEPT !.data[q.back] = addr, !.back = (@ + 1) % QueueMax, !.size = @ + 1]

\* Mutant of Full: one address too many.
FullLate(q) == q.size > QueueMax

Full(q) == q.size >= QueueMax

\* What is waiting, the oldest first.
Contents(q) == [i \in 1 .. q.size |-> q.data[(q.front + i - 1) % QueueMax]]
=============================================================================
