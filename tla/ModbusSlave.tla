---------------------------- MODULE ModbusSlave ----------------------------
(* What a unit on a Modbus line promises its master, whatever the unit      *)
(* does inside: it speaks only when it was asked, once, and what it says is  *)
(* the answer to the last request.  A request that is not for it, or that    *)
(* reached it broken, is never answered.  The adapter (TqsAdapter) and the   *)
(* temperature sensor (TempSensor) are shown to implement this.              *)
CONSTANTS
    Requests,   \* what the master asks
    AnswerOf,   \* the answer to each request; none for what gets no answer
    none        \* no request, no answer

VARIABLES
    req,        \* the last request of the master
    rep         \* the answer the master has heard to it

Init == req = none /\ rep = none

(* The master asks; what was not answered by then never will be.             *)
Ask == \E r \in Requests : req' = r /\ rep' = none

Answer ==
    /\ req # none /\ rep = none
    /\ AnswerOf[req] # none
    /\ rep' = AnswerOf[req]
    /\ UNCHANGED req

Next == Ask \/ Answer

Spec == Init /\ [][Next]_<<req, rep>>
=============================================================================
