----------------------------- MODULE OuiSearch -----------------------------
(***************************************************************************)
(* The scan of ouisearch: the main thread generates addresses and pushes   *)
(* them into the queue, waiting at most 100 ms at a time for a free place; *)
(* a second thread polls the raw socket, sends an echo request to the next *)
(* address of the queue when the rate limiter allows it, and reports the   *)
(* hosts that answer.  _terminate is set by SIGINT and by a failed send.   *)
(***************************************************************************)
EXTENDS OuiQueue, FiniteSets

CONSTANTS
  Total,      \* number of addresses the three loops generate
  Alive,      \* addresses of hosts that answer
  EndWait,    \* endwait_sec: turns of the thread after the scan is done
  Interval    \* ticks of the clock between two packets

ASSUME SearchAssumption ==
  /\ Total \in Nat /\ EndWait \in Nat /\ Interval \in Nat
  /\ Alive \subseteq 1 .. Total

VARIABLES
  queue,
  next,        \* the address the main thread is to push
  main,        \* where the main thread is
  thread,      \* where the socket thread is
  scan_done, terminate,
  pollout,     \* events asks for POLLOUT
  endwait,
  dt, since,   \* the limiter's dt, and the time since its t0
  sent,        \* this turn sent a packet
  probed,      \* addresses given to sendmsg so far
  replies,     \* echo replies waiting at the socket
  found        \* addresses reported

mainvars == <<next, main, scan_done>>
limiter == <<dt, since>>
turn == <<pollout, endwait, sent>>
net == <<probed, replies, found>>
vars == <<queue, mainvars, thread, terminate, turn, limiter, net>>

Init ==
  /\ queue = queue_init /\ next = 1
  /\ main = "push" /\ thread = "top"
  /\ scan_done = FALSE /\ terminate = FALSE
  /\ pollout = TRUE /\ endwait = EndWait /\ sent = FALSE
  /\ dt = 0 /\ since = Interval + 1
  /\ probed = <<>> /\ replies = {} /\ found = {}

-----------------------------------------------------------------------------
\* The main thread: the generating loops around _eui64_result.  Everything
\* ouiqueue_push does between taking the mutex and giving it back is one step.
MainElse == UNCHANGED <<thread, terminate, turn, limiter, net>>

\* The loops go on to the next address, or end.
Advance ==
  /\ next' = next + 1 /\ main' = "push"
  /\ queue' = queue_push(queue, next)

Push ==
  /\ main = "push" /\ next <= Total /\ ~terminate
  /\ IF Full(queue) THEN main' = "wait" /\ UNCHANGED <<queue, next>> ELSE Advance
  /\ UNCHANGED scan_done /\ MainElse

\* pthread_cond_timedwait returns after a signal: the loop looks again.
Woken ==
  /\ main = "woken"
  /\ IF Full(queue) THEN main' = "wait" /\ UNCHANGED <<queue, next>> ELSE Advance
  /\ UNCHANGED scan_done /\ MainElse

\* Mutant of TimesOut: the address is taken for pushed.
TimesOutAsPushed ==
  /\ main = "wait" /\ main' = "push" /\ next' = next + 1
  /\ UNCHANGED <<queue, scan_done>> /\ MainElse

\* Mutant of TimesOut: pthread_cond_wait, which does not time out.
TimesOutNever ==
  /\ main = "wait" /\ FALSE
  /\ UNCHANGED vars

\* It returns ETIMEDOUT: nothing is pushed even if there is room, and
\* _eui64_result tries again.
TimesOut ==
  /\ main = "wait" /\ main' = "push"
  /\ UNCHANGED <<queue, next, scan_done>> /\ MainElse

ScanDone ==
  /\ main = "push" /\ (next > Total \/ terminate)
  /\ main' = "join" /\ scan_done' = TRUE
  /\ UNCHANGED <<queue, next>> /\ MainElse

Join ==
  /\ main = "join" /\ thread = "gone" /\ main' = "done"
  /\ UNCHANGED <<queue, next, scan_done>> /\ MainElse

Main == Push \/ Woken \/ TimesOut \/ ScanDone \/ Join

-----------------------------------------------------------------------------
\* The socket thread, one turn of its loop in up to five steps.

Limit ==
  /\ thread = "top"
  /\ IF terminate \/ endwait = 0 THEN thread' = "gone" /\ UNCHANGED turn
     ELSE /\ thread' = "count" /\ sent' = FALSE
          /\ pollout' = (dt > Interval /\ ~scan_done)
          /\ UNCHANGED endwait
  /\ UNCHANGED <<queue, mainvars, terminate, limiter, net>>

CountDown ==
  /\ thread = "count" /\ thread' = "poll"
  /\ endwait' = IF scan_done THEN endwait - 1 ELSE endwait
  /\ UNCHANGED <<queue, mainvars, terminate, pollout, sent, limiter, net>>

\* Mutant of Reported: whose the reply is is not looked at.
ReportedAny(r) == {r.addr}

\* A reply to another process's request, or from outside the prefix, is dropped.
Reported(r) == IF r.ours THEN {r.addr} ELSE {}

\* poll, and the reply if there is one; `out' is whether the socket is writable.
Poll(out) ==
  /\ thread = "poll"
  /\ \/ replies = {} /\ UNCHANGED <<replies, found>>
     \/ \E r \in replies :
          replies' = replies \ {r} /\ found' = found \cup Reported(r)
  /\ thread' = IF pollout /\ out THEN "send" ELSE "clock"
  /\ UNCHANGED <<queue, mainvars, terminate, turn, limiter, probed>>

\* ouiqueue_pop and sendmsg, which may fail.
Send ==
  /\ thread = "send" /\ queue.size > 0
  /\ queue' = queue_pop(queue) /\ probed' = Append(probed, Contents(queue)[1])
  /\ \/ sent' = TRUE /\ thread' = "clock" /\ UNCHANGED terminate
     \/ terminate' = TRUE /\ thread' = "gone" /\ UNCHANGED sent
  /\ UNCHANGED <<mainvars, pollout, endwait, limiter, replies, found>>

FindsEmpty ==
  /\ thread = "send" /\ queue.size = 0
  /\ thread' = "signal"
  /\ UNCHANGED <<queue, mainvars, terminate, turn, limiter, net>>

\* pthread_cond_signal, after the mutex was given back.
Signal ==
  /\ thread = "signal" /\ thread' = "clock"
  /\ main' = IF main = "wait" THEN "woken" ELSE main
  /\ UNCHANGED <<queue, next, scan_done, terminate, turn, limiter, net>>

\* dt is taken against the old t0 even if a packet has just been sent.
Clock ==
  /\ thread = "clock" /\ thread' = "top"
  /\ dt' = since /\ since' = IF sent THEN 0 ELSE since
  /\ UNCHANGED <<queue, mainvars, terminate, turn, net>>

Thread ==
  \/ Limit \/ CountDown \/ (\E out \in BOOLEAN : Poll(out))
  \/ Send \/ FindsEmpty \/ Signal \/ Clock

-----------------------------------------------------------------------------
\* Outside: the clock, the hosts, other processes' replies, and SIGINT.
Outside == UNCHANGED <<queue, mainvars, thread, turn>>

Tick ==
  /\ since <= Interval /\ since' = since + 1
  /\ Outside /\ UNCHANGED <<dt, terminate, net>>

\* Each host answers once; the answer may come late or be lost.
Answer ==
  /\ \E i \in DOMAIN probed :
       /\ probed[i] \in Alive \ found
       /\ replies' = replies \cup {[addr |-> probed[i], ours |-> TRUE]}
  /\ Outside /\ UNCHANGED <<terminate, limiter, probed, found>>

Stray ==
  /\ replies = {}
  /\ \E a \in 1 .. Total : replies' = {[addr |-> a, ours |-> FALSE]}
  /\ Outside /\ UNCHANGED <<terminate, limiter, probed, found>>

Interrupt ==
  /\ ~terminate /\ terminate' = TRUE
  /\ Outside /\ UNCHANGED <<limiter, net>>

Next == Main \/ Thread \/ Tick \/ Answer \/ Stray \/ Interrupt

Spec == Init /\ [][Next]_vars

\* Both threads are scheduled, waits time out, time passes, and a socket that
\* something is to be sent to is writable again and again.
FairSpec ==
  /\ Spec /\ WF_vars(Main) /\ WF_vars(Thread) /\ WF_vars(Tick)
  /\ SF_vars(pollout /\ Poll(TRUE))

-----------------------------------------------------------------------------
TypeOK ==
  /\ queue \in queue_t /\ next \in 1 .. Total + 1
  /\ main \in {"push", "wait", "woken", "join", "done"}
  /\ thread \in {"top", "count", "poll", "send", "signal", "clock", "gone"}
  /\ scan_done \in BOOLEAN /\ terminate \in BOOLEAN
  /\ pollout \in BOOLEAN /\ endwait \in 0 .. EndWait /\ sent \in BOOLEAN
  /\ dt \in 0 .. Interval + 1 /\ since \in 0 .. Interval + 1
  /\ probed \in Seq(1 .. Total)
  /\ replies \subseteq [addr : 1 .. Total, ours : BOOLEAN]
  /\ found \subseteq 1 .. Total

\* Between the two threads no address is lost, repeated or overtaken, whatever
\* waits time out: those probed and then those queued are all that were pushed.
NothingSkipped == probed \o Contents(queue) = [i \in 1 .. next - 1 |-> i]

\* Only a host that was probed and answered is reported.
FoundAnswered ==
  found \subseteq Alive \cap {probed[i] : i \in DOMAIN probed}


\* The scan ends, whether it runs to its end or is broken off.
Ends == <>(main = "done")
=============================================================================
