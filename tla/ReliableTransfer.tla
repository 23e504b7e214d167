------------------------- MODULE ReliableTransfer -------------------------
(***************************************************************************)
(* What the transfer of rdt.c promises, without packets or windows.  A     *)
(* receiver holds some chunks of the sender's input and gives its user the *)
(* input in order, never beyond the chunks it holds without a gap.  The    *)
(* sender takes chunks for delivered, and reports success only when it     *)
(* does so for all of them; it takes for delivered only what is held.      *)
(***************************************************************************)
EXTENDS Integers, Sequences

CONSTANT Chunks

VARIABLES
  held,        \* chunks the receiver has
  stream,      \* what its user has been given
  confirmed,   \* chunks the sender takes for delivered
  verdict      \* "running", "done" or "failed"

vars == <<held, stream, confirmed, verdict>>

Prefix(n) == [i \in 1 .. n |-> i]

Init ==
  /\ held = {} /\ stream = <<>> /\ confirmed = {}
  /\ verdict = "running"

\* At most one chunk arrives; the user is given none or more of those due.
Receive ==
  /\ \/ held' = held
     \/ \E k \in 1 .. Chunks : held' = held \cup {k}
  /\ \E n \in Len(stream) .. Chunks :
        /\ 1 .. n \subseteq held'
        /\ stream' = Prefix(n)
  /\ UNCHANGED <<confirmed, verdict>>

Confirm ==
  /\ verdict = "running"
  /\ \E k \in held : confirmed' = confirmed \cup {k}
  /\ UNCHANGED <<held, stream, verdict>>

Finish ==
  /\ verdict = "running" /\ confirmed = 1 .. Chunks
  /\ verdict' = "done"
  /\ UNCHANGED <<held, stream, confirmed>>

\* The step that gives up may first have learnt of one more chunk.
GiveUp ==
  /\ verdict = "running"
  /\ verdict' = "failed"
  /\ \/ confirmed' = confirmed
     \/ \E k \in held : confirmed' = confirmed \cup {k}
  /\ UNCHANGED <<held, stream>>

Next == Receive \/ Confirm \/ Finish \/ GiveUp

Spec == Init /\ [][Next]_vars
=============================================================================
