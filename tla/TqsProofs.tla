------------------------------ MODULE TqsProofs ------------------------------
(***************************************************************************)
(* The TQS adapter, for every length of a request (of two characters at    *)
(* least, since the flag of one may be lost) and of an answer, and for     *)
(* every number of requests and faults: Inv is inductive, a step that      *)
(* changes what the master has asked or heard is one of ModbusSlave, and   *)
(* without a broken frame no more than one frame is in the buffer.         *)
(***************************************************************************)
EXTENDS TqsAdapter, TLAPS, SequenceTheorems

\* The constants: a request has two characters at least, an answer one, and none is neither.
Sizes == FrameLen \in Nat /\ FrameLen >= 2 /\ ReplyLen \in Nat \ {0} /\ none \notin Requests \cup {"id", "link", "echo"}

Masters == [req : Requests \cup {none}, left : Nat, frames : Nat, faults : Nat,
            lost : BOOLEAN, broken : BOOLEAN]
Flags == [t15 : BOOLEAN, t35 : BOOLEAN, sent : BOOLEAN, rcvd : BOOLEAN, err : BOOLEAN]

TypeOK ==
  /\ fsm \in {"SINIT", "SIDLE", "SRECEPTION", "SCONTROL", "SEMISSION"}
  /\ act \in {"AINIT", "AIDLE", "ACONTROL", "APROCESS"}
  /\ pc \in {"fsm", "clear", "act", "write", "put"}
  /\ tmr \in {"run", "1.5", "off"}
  /\ rcie \in BOOLEAN
  /\ flags \in Flags
  /\ m \in Masters
  /\ tx \in [ie : BOOLEAN, n : Nat]
  /\ line \in Seq({"id", "link", "echo"} \X Nat)

\* When the timer can be off, and which flags exclude each other.
Timing ==
  /\ fsm = "SIDLE" => tmr = "off"
  /\ fsm = "SRECEPTION" => tmr = "run" \/ (tmr = "1.5" /\ flags.t15)
  /\ fsm = "SCONTROL" => tmr # "off" \/ flags.t35
  /\ flags.t35 => tmr = "off" /\ ~ tx.ie /\ pc \notin {"write", "put"} /\ ~ flags.rcvd /\ ~ flags.sent
  /\ flags.rcvd => ~ flags.sent

\* Which states of the two machines go together.
Places ==
  /\ act = "AINIT" => fsm = "SINIT" /\ tmr = "off" /\ m.left = 0 /\ flags = Down /\ rcie
  /\ act = "ACONTROL" => fsm = "SCONTROL" /\ pc = "act"
  /\ act = "APROCESS" => fsm = "SIDLE" /\ pc = "act" /\ ~ flags.t35
  /\ pc = "clear" => fsm \in {"SINIT", "SIDLE"}
  /\ fsm = "SEMISSION" \/ flags.sent => ~ rcie

\* A character of the last request has come and is not dealt with yet.
Following == flags.rcvd \/ fsm \in {"SRECEPTION", "SCONTROL"} \/ act = "APROCESS"

\* What is in the buffer, up to its last character.
Hearing ==
  /\ m.left > 0 => m.req \in Requests /\ m.left <= FrameLen /\ rcie /\ line = <<>>
  /\ rcie => buf \in Seq(Requests \X Nat)
  /\ Following => /\ rcie /\ m.req \in Requests /\ line = <<>> /\ Len(buf) > 0
                  /\ buf[Len(buf)][1] = m.req /\ buf[Len(buf)][2] <= FrameLen - m.left
  /\ (fsm = "SCONTROL" /\ act = "AIDLE") \/ act = "APROCESS" =>
        flags.err \/ (buf = Whole(m.req) /\ m.left = 0)
  /\ act = "APROCESS" => flags.err \/ ~ flags.rcvd

\* The characters of the answer to r.
Reply(r) == [i \in 1..ReplyLen |-> <<AnswerOf[r], i>>]

\* The answer in the buffer, the characters still to send and those sent.
Answering ==
  /\ ~ rcie => /\ m.req \in Requests /\ AnswerOf[m.req] # none /\ m.left = 0 /\ buf = Reply(m.req)
               /\ fsm \in {"SIDLE", "SEMISSION"} /\ act = "AIDLE"
               /\ tx.n + Len(line) + (IF pc = "put" THEN 1 ELSE 0) = ReplyLen
  /\ rcie => tx.n = 0 /\ pc \notin {"write", "put"} /\ (line # <<>> => Len(line) = ReplyLen)
  /\ tx.ie <=> tx.n >= 1 /\ pc # "write"
  /\ pc = "write" => tx.n >= 1
  /\ line # <<>> => m.req \in Requests /\ AnswerOf[m.req] # none
  /\ \A i \in 1..Len(line) : line[i] = <<AnswerOf[m.req], i>>

\* Something will see to what is in the buffer.
Kept == fsm \in {"SRECEPTION", "SCONTROL"} \/ act = "APROCESS" \/ (flags.rcvd /\ pc # "clear")
\* The first k characters of r.
First(r, k) == [i \in 1..k |-> <<r, i>>]
\* While no frame was broken, the buffer holds what came of the request that is on.
Tidy ==
  ~ m.broken =>
    /\ fsm = "SINIT" => m.left = 0 /\ buf = <<>>
    /\ m.left > 0 => /\ buf = First(m.req, FrameLen - m.left) /\ ~ flags.t15 /\ ~ flags.t35
                     /\ fsm \in {"SIDLE", "SRECEPTION"} /\ act = "AIDLE" /\ (fsm = "SRECEPTION" => tmr = "run")
                     /\ buf = <<>> \/ Kept \/ (m.lost /\ fsm = "SIDLE")
    /\ rcie /\ m.left = 0 => buf = <<>> \/ (buf = Whole(m.req) /\ Kept)
    /\ fsm = "SRECEPTION" => ~ flags.err
    /\ fsm = "SCONTROL" => ~ flags.err /\ ~ flags.rcvd /\ m.left = 0
    /\ act = "APROCESS" => ~ flags.err

\* What is inductive.
Inv == TypeOK /\ Timing /\ Places /\ Hearing /\ Answering /\ Tidy
-----------------------------------------------------------------------------
\* The first characters of a request.
LEMMA FirstIsSeq ==
  ASSUME NEW r \in Requests, NEW k \in Nat
  PROVE First(r, k) \in Seq(Requests \X Nat) /\ Len(First(r, k)) = k
        /\ \A i \in 1..k : First(r, k)[i] = <<r, i>>
<1>1. \A i \in 1..k : <<r, i>> \in Requests \X Nat
  BY SMT
<1>2. First(r, k) \in [1..k -> Requests \X Nat]
  BY <1>1 DEF First
<1>3. First(r, k) \in Seq(Requests \X Nat)
  BY <1>2, SMT
<1>4. Len(First(r, k)) = k
  BY <1>2, <1>3, SMT
<1>. QED BY <1>3, <1>4 DEF First

\* Before the first character there is nothing.
LEMMA NothingFirst == ASSUME NEW r PROVE First(r, 0) = <<>>
  BY SMT DEF First

\* One character more of a request.
LEMMA NextCharacter ==
  ASSUME NEW r \in Requests, NEW k \in Nat
  PROVE Append(First(r, k), <<r, k + 1>>) = First(r, k + 1)
<1>. DEFINE s == Append(First(r, k), <<r, k + 1>>)
            u == First(r, k + 1)
            c == <<r, k + 1>>
<1>1. First(r, k) \in Seq(Requests \X Nat) /\ Len(First(r, k)) = k /\ \A i \in 1..k : First(r, k)[i] = <<r, i>>
  BY FirstIsSeq
<1>2. u \in Seq(Requests \X Nat) /\ Len(u) = k + 1 /\ \A i \in 1..(k + 1) : u[i] = <<r, i>>
  <2>1. k + 1 \in Nat
    OBVIOUS
  <2>. QED BY <2>1, FirstIsSeq
<1>3. c \in Requests \X Nat
  BY SMT
<1>. HIDE DEF u, c
<1>. SUFFICES Append(First(r, k), c) = u
  BY DEF c, u
<1>4. Append(First(r, k), c) \in Seq(Requests \X Nat) /\ Len(Append(First(r, k), c)) = k + 1
  BY <1>1, <1>3, SMT
<1>5. \A i \in 1..(k + 1) : Append(First(r, k), c)[i] = IF i = k + 1 THEN c ELSE First(r, k)[i]
  BY <1>1, <1>3, SMT
<1>6. \A i \in 1..(k + 1) : Append(First(r, k), c)[i] = u[i]
  <2>1. TAKE i \in 1..(k + 1)
  <2>2. CASE i = k + 1
    BY <2>2, <1>2, <1>5 DEF c
  <2>3. CASE i # k + 1
    <3>1. i \in 1..k
      BY <2>3, SMT
    <3>. QED BY <3>1, <2>3, <1>1, <1>2, <1>5
  <2>. QED BY <2>2, <2>3
<1>. QED BY <1>2, <1>4, <1>6, SeqEqual

\* A whole request is its first FrameLen characters.
LEMMA WholeIsAll == ASSUME Sizes, NEW r \in Requests
  PROVE /\ Whole(r) = First(r, FrameLen) /\ Whole(r) \in Seq(Requests \X Nat)
        /\ Len(Whole(r)) = FrameLen /\ \A i \in 1..FrameLen : Whole(r)[i] = <<r, i>>
  BY FirstIsSeq DEF Sizes, First, Whole

\* The answer to a request that has one.
LEMMA ReplyIsSeq == ASSUME Sizes, NEW r \in Requests, AnswerOf[r] # none
  PROVE /\ AnswerOf[r] \in {"id", "link", "echo"}
        /\ Reply(r) \in Seq({"id", "link", "echo"} \X Nat)
        /\ Len(Reply(r)) = ReplyLen /\ \A i \in 1..ReplyLen : Reply(r)[i] = <<AnswerOf[r], i>>
<1>1. AnswerOf[r] \in {"id", "link", "echo"}
  BY SMT DEF AnswerOf, Requests
<1>2. \A i \in 1..ReplyLen : <<AnswerOf[r], i>> \in {"id", "link", "echo"} \X Nat
  BY <1>1, SMT DEF Sizes
<1>3. Reply(r) \in [1..ReplyLen -> {"id", "link", "echo"} \X Nat]
  BY <1>2 DEF Reply
<1>4. Reply(r) \in Seq({"id", "link", "echo"} \X Nat)
  BY <1>3, SMT DEF Sizes
<1>5. Len(Reply(r)) = ReplyLen
  BY <1>3, <1>4, SMT DEF Sizes
<1>. QED BY <1>1, <1>4, <1>5 DEF Reply

\* The invariant holds when the unit is switched on (main.c, main).
LEMMA InvInit == ASSUME Sizes, Init PROVE Inv
<1>1. flags \in Flags /\ ~ flags.t35 /\ ~ flags.rcvd /\ ~ flags.sent /\ flags = Down
  BY DEF Init, Down, Flags
<1>2. m \in Masters /\ m.left = 0
  BY SMT DEF Init, Masters
<1>3. tx \in [ie : BOOLEAN, n : Nat] /\ tx.n = 0 /\ ~ tx.ie
  BY SMT DEF Init
<1>4. buf \in Seq(Requests \X Nat) /\ line \in Seq({"id", "link", "echo"} \X Nat) /\ Len(line) = 0
  BY SMT DEF Init
<1>5. TypeOK
  BY <1>1, <1>2, <1>3, <1>4 DEF Init, TypeOK
<1>6. Timing /\ Places
  BY <1>1, <1>2, <1>3, SMT DEF Init, Timing, Places
<1>7. Hearing
  BY <1>1, <1>2, <1>4, SMT DEF Init, Hearing, Following
<1>8. Answering
  BY <1>3, <1>4, SMT DEF Init, Answering
<1>9. Tidy
  BY <1>2, SMT DEF Init, Tidy
<1>. QED BY <1>5, <1>6, <1>7, <1>8, <1>9 DEF Inv

\* A question of the master comes when nothing is taken in, checked or answered.
LEMMA AskKeeps == ASSUME Sizes, Inv, Ask PROVE Inv'
<1>1. PICK r \in Requests :
        m' = [m EXCEPT !.req = r, !.left = FrameLen, !.frames = @ + 1, !.lost = FALSE,
                       !.broken = @ \/ fsm = "SINIT"]
  BY DEF Ask
<1>. DEFINE k == m.frames + 1
            b == m.broken \/ fsm = "SINIT"
<1>2. m \in Masters /\ FrameLen \in Nat /\ b \in BOOLEAN /\ k \in Nat
  <2>1. m \in Masters
    BY DEF Inv, TypeOK
  <2>2. k \in Nat
    BY <2>1, SMT DEF Masters
  <2>3. b \in BOOLEAN
    BY <2>1 DEF Masters
  <2>. QED BY <2>1, <2>2, <2>3 DEF Sizes
<1>3. m' \in Masters /\ m'.req = r /\ m'.left = FrameLen /\ m'.broken = b
  <2>1. m' = [m EXCEPT !.req = r, !.left = FrameLen, !.frames = k, !.lost = FALSE, !.broken = b]
    BY <1>1
  <2>. HIDE DEF k, b
  <2>. QED BY <2>1, <1>2, Zenon DEF Masters
<1>. HIDE DEF k
<1>4. /\ m.left = 0 /\ act = "AIDLE" /\ rcie /\ ~ flags.t15 /\ ~ flags.t35 /\ ~ flags.sent /\ ~ flags.rcvd
      /\ tmr = "off" \/ fsm = "SINIT"
      /\ line' = <<>> /\ UNCHANGED <<fsm, act, pc, flags, buf, tmr, rcie, tx>>
  BY DEF Ask, Settled
<1>5. fsm \in {"SINIT", "SIDLE"}
  BY <1>4, SMT DEF Inv, TypeOK, Timing, Places
<1>6. <<>> \in Seq({"id", "link", "echo"} \X Nat) /\ Len(<<>>) = 0
  BY SMT
<1>7. TypeOK'
  BY <1>3, <1>4, <1>6 DEF Inv, TypeOK
<1>8. Timing' /\ Places'
  BY <1>3, <1>4, SMT DEF Inv, Timing, Places
<1>9. Hearing'
  BY <1>2, <1>3, <1>4, <1>5, SMT DEF Inv, Hearing, Following
<1>10. Answering'
  BY <1>2, <1>4, <1>6, SMT DEF Inv, Answering
<1>11. Tidy'
  <2>1. SUFFICES ASSUME ~ b PROVE Tidy'
    BY <1>3 DEF Tidy
  <2>2. fsm = "SIDLE" /\ ~ m.broken
    BY <2>1, <1>5
  <2>3. buf = <<>>
    BY <2>2, <1>4, SMT DEF Inv, Tidy, Kept
  <2>4. First(r, FrameLen - FrameLen) = <<>>
    BY <1>2, NothingFirst, SMT
  <2>5. FrameLen > 0
    BY SMT DEF Sizes
  <2>. QED BY <1>3, <1>4, <2>2, <2>3, <2>4, <2>5, SMT DEF Tidy
<1>. QED BY <1>7, <1>8, <1>9, <1>10, <1>11 DEF Inv
\* A character comes (main.c, isr).
LEMMA ReceiveKeeps == ASSUME Sizes, Inv, Receive PROVE Inv'
<1>. DEFINE n == m.left - 1
            c == <<m.req, FrameLen + 1 - m.left>>
<1>1. /\ m.left > 0 /\ rcie /\ Settled /\ Hit /\ buf' = Append(buf, c)
      /\ flags' = [flags EXCEPT !.rcvd = TRUE] /\ m' = [m EXCEPT !.left = n, !.lost = HitNow]
      /\ UNCHANGED <<fsm, act, pc, tmr, rcie, tx, line>>
  BY DEF Receive
<1>2. /\ m \in Masters /\ flags \in Flags /\ m.left \in Nat /\ n \in Nat /\ n + 1 = m.left /\ FrameLen \in Nat
      /\ m.req \in Requests /\ m.left <= FrameLen /\ line = <<>>
      /\ buf \in Seq(Requests \X Nat) /\ HitNow \in BOOLEAN
  <2>1. m \in Masters /\ flags \in Flags /\ m.lost \in BOOLEAN
    BY DEF Inv, TypeOK, Masters
  <2>2. m.left \in Nat
    BY <2>1 DEF Masters
  <2>3. HitNow \in BOOLEAN
    BY <2>1 DEF HitNow
  <2>. QED BY <1>1, <2>1, <2>2, <2>3, SMT DEF Inv, Hearing, Sizes
<1>3. m' \in Masters /\ m'.req = m.req /\ m'.left = n /\ m'.broken = m.broken /\ m'.lost = HitNow
  <2>. HIDE DEF n
  <2>. QED BY <1>1, <1>2, Zenon DEF Masters
<1>4. /\ flags' \in Flags /\ flags'.rcvd /\ flags'.t15 = flags.t15 /\ flags'.t35 = flags.t35
      /\ flags'.sent = flags.sent /\ flags'.err = flags.err
  BY <1>1, <1>2, Zenon DEF Flags
<1>5. ~ flags.sent /\ ~ flags.rcvd /\ ~ flags.t35 /\ (fsm = "SRECEPTION" => ~ flags.t15)
  BY <1>1 DEF Settled
<1>6. c \in Requests \X Nat /\ c[1] = m.req /\ c[2] = FrameLen - n
  BY <1>2, SMT
<1>7. /\ buf' \in Seq(Requests \X Nat) /\ Len(buf') = Len(buf) + 1 /\ Len(buf') > 0
      /\ buf'[Len(buf')] = c
  <2>. HIDE DEF c
  <2>. QED BY <1>1, <1>2, <1>6, SMT
<1>. HIDE DEF c, n
<1>8. TypeOK'
  BY <1>1, <1>3, <1>4 DEF Inv, TypeOK
<1>9. Timing'
  BY <1>1, <1>4, <1>5, SMT DEF Inv, Timing, Answering
<1>10. Places'
  BY <1>1, <1>3, <1>4, <1>5, SMT DEF Inv, Places
<1>11. Hearing'
  <2>1. \/ flags.err \/ ~ ((fsm = "SCONTROL" /\ act = "AIDLE") \/ act = "APROCESS")
    BY <1>1, SMT DEF Inv, Hearing
  <2>2. c[2] <= FrameLen - n /\ n <= FrameLen
    BY <1>2, <1>6, SMT
  <2>. QED BY <1>1, <1>2, <1>3, <1>4, <1>6, <1>7, <2>1, <2>2, SMT DEF Hearing
<1>12. Answering'
  BY <1>1, <1>2, <1>3, SMT DEF Inv, Answering
<1>13. Tidy'
  <2>1. SUFFICES ASSUME ~ m.broken PROVE Tidy'
    BY <1>3 DEF Tidy
  <2>2. /\ buf = First(m.req, FrameLen - m.left) /\ ~ flags.t15 /\ ~ flags.t35
        /\ fsm \in {"SIDLE", "SRECEPTION"} /\ act = "AIDLE" /\ (fsm = "SRECEPTION" => tmr = "run")
        /\ buf = <<>> \/ Kept \/ (m.lost /\ fsm = "SIDLE")
        /\ fsm = "SRECEPTION" => ~ flags.err
    BY <1>1, <2>1 DEF Inv, Tidy
  <2>3. buf' = First(m.req, FrameLen - n)
    <3>1. FrameLen - m.left \in Nat /\ (FrameLen - m.left) + 1 = FrameLen - n
          /\ FrameLen + 1 - m.left = (FrameLen - m.left) + 1
      BY <1>2, SMT
    <3>2. Append(First(m.req, FrameLen - m.left), <<m.req, (FrameLen - m.left) + 1>>)
            = First(m.req, (FrameLen - m.left) + 1)
      BY <3>1, <1>2, NextCharacter
    <3>. QED BY <1>1, <2>2, <3>1, <3>2 DEF c
  <2>4. n = 0 => buf' = Whole(m.req)
    <3>1. FrameLen - 0 = FrameLen
      BY <1>2, SMT
    <3>. QED BY <2>3, <3>1, <1>2, WholeIsAll
  <2>5. pc # "clear" \/ (fsm = "SIDLE" /\ HitNow /\ n > 0)
    <3>1. SUFFICES ASSUME pc = "clear" PROVE fsm = "SIDLE" /\ HitNow /\ n > 0
      OBVIOUS
    <3>2. fsm = "SIDLE"
      BY <3>1, <2>2, SMT DEF Inv, Places
    <3>3. ~ m.lost /\ HitNow
      BY <3>1, <1>1 DEF Hit, HitNow
    <3>4. buf = <<>>
      BY <2>2, <3>2, <3>3, <1>5, SMT DEF Kept
    <3>5. FrameLen - m.left \in Nat
      BY <1>2, SMT
    <3>6. FrameLen - m.left = 0
      <4>1. Len(First(m.req, FrameLen - m.left)) = FrameLen - m.left
        BY <3>5, <1>2, FirstIsSeq
      <4>2. Len(<<>>) = 0
        BY SMT
      <4>. QED BY <4>1, <4>2, <3>4, <2>2
    <3>. QED BY <3>2, <3>3, <3>6, <1>2, SMT DEF Sizes
  <2>. QED BY <1>1, <1>3, <1>4, <2>2, <2>3, <2>4, <2>5, SMT DEF Tidy, Kept
<1>. QED BY <1>8, <1>9, <1>10, <1>11, <1>12, <1>13 DEF Inv

\* A broken character comes (main.c, isr).
LEMMA ReceiveBadKeeps == ASSUME Sizes, Inv, ReceiveBad PROVE Inv'
<1>. DEFINE n == m.left - 1
            k == m.faults + 1
<1>1. /\ m.left > 0 /\ rcie /\ Settled /\ m' = [m EXCEPT !.left = n, !.faults = k, !.broken = TRUE]
      /\ UNCHANGED <<fsm, act, pc, buf, tmr, rcie, tx, line>>
  BY DEF ReceiveBad
<1>2. /\ m \in Masters /\ flags \in Flags /\ m.left \in Nat /\ n \in Nat /\ n + 1 = m.left /\ k \in Nat
      /\ m.req \in Requests /\ m.left <= FrameLen /\ line = <<>> /\ FrameLen \in Nat
      /\ buf \in Seq(Requests \X Nat)
  <2>1. m \in Masters /\ flags \in Flags
    BY DEF Inv, TypeOK
  <2>2. m.left \in Nat /\ k \in Nat
    BY <2>1, SMT DEF Masters
  <2>. QED BY <1>1, <2>1, <2>2, SMT DEF Inv, Hearing, Sizes
<1>3. m' \in Masters /\ m'.req = m.req /\ m'.left = n /\ m'.broken
  <2>. HIDE DEF n, k
  <2>. QED BY <1>1, <1>2, Zenon DEF Masters
<1>. HIDE DEF n, k
<1>4. /\ flags' \in Flags /\ flags'.rcvd = flags.rcvd /\ flags'.t15 = flags.t15 /\ flags'.t35 = flags.t35
      /\ flags'.sent = flags.sent /\ (flags.err => flags'.err)
  <2>1. PICK e \in BOOLEAN : flags' = [flags EXCEPT !.err = @ \/ e]
    BY DEF ReceiveBad
  <2>. DEFINE x == flags.err \/ e
  <2>2. x \in BOOLEAN /\ (flags.err => x)
    BY <1>2 DEF Flags
  <2>3. flags' = [flags EXCEPT !.err = x]
    BY <2>1
  <2>. HIDE DEF x
  <2>. QED BY <1>2, <2>2, <2>3, Zenon DEF Flags
<1>5. act # "AINIT"
  BY <1>1, <1>2, SMT DEF Inv, Places
<1>6. TypeOK'
  BY <1>1, <1>3, <1>4 DEF Inv, TypeOK
<1>7. Timing'
  BY <1>1, <1>4, SMT DEF Inv, Timing
<1>8. Places'
  BY <1>1, <1>3, <1>4, <1>5, SMT DEF Inv, Places
<1>9. Hearing'
  <2>1. Following' => Following /\ buf[Len(buf)][2] <= FrameLen - n
    <3>1. SUFFICES ASSUME Following PROVE buf[Len(buf)][2] <= FrameLen - n
      BY <1>1, <1>4, SMT DEF Following
    <3>2. Len(buf) > 0 /\ buf[Len(buf)][2] <= FrameLen - m.left
      BY <3>1 DEF Inv, Hearing
    <3>3. buf[Len(buf)][2] \in Nat
      BY <3>2, <1>2, SMT
    <3>. QED BY <3>2, <3>3, <1>2, SMT
  <2>2. \/ flags.err \/ ~ ((fsm = "SCONTROL" /\ act = "AIDLE") \/ act = "APROCESS")
    BY <1>1, SMT DEF Inv, Hearing
  <2>. QED BY <1>1, <1>2, <1>3, <1>4, <2>1, <2>2, SMT DEF Inv, Hearing
<1>10. Answering'
  BY <1>1, <1>2, <1>3, SMT DEF Inv, Answering
<1>11. Tidy'
  BY <1>3 DEF Tidy
<1>. QED BY <1>6, <1>7, <1>8, <1>9, <1>10, <1>11 DEF Inv

\* The timer of the line (modbus.c, modbus_tmr_elapsed).
LEMMA ElapseKeeps == ASSUME Sizes, Inv, Elapse PROVE Inv'
<1>1. /\ tmr # "off" /\ Settled /\ ~ tx.ie /\ pc \notin {"write", "put"}
      /\ UNCHANGED <<fsm, act, pc, buf, rcie, tx, line>>
      /\ m \in Masters /\ flags \in Flags
  BY DEF Elapse, Inv, TypeOK
<1>2. \/ tmr = "run" /\ tmr' = "1.5" /\ flags' = [flags EXCEPT !.t15 = TRUE]
      \/ tmr = "1.5" /\ tmr' = "off" /\ flags' = [flags EXCEPT !.t35 = TRUE]
  BY DEF Elapse
<1>3. /\ m' \in Masters /\ m'.req = m.req /\ m'.left = m.left /\ m'.lost = m.lost
      /\ ~ m'.broken => ~ m.broken /\ m.left = 0
  <2>1. CASE m.left = 0 /\ UNCHANGED m
    BY <2>1, <1>1
  <2>2. CASE m.left > 0 /\ m' = [m EXCEPT !.faults = @ + 1, !.broken = TRUE]
    <3>. DEFINE k == m.faults + 1
    <3>1. k \in Nat
      BY <1>1, SMT DEF Masters
    <3>2. m' = [m EXCEPT !.faults = k, !.broken = TRUE]
      BY <2>2
    <3>. HIDE DEF k
    <3>. QED BY <3>1, <3>2, <1>1, Zenon DEF Masters
  <2>. QED BY <2>1, <2>2 DEF Elapse
<1>4. /\ flags' \in Flags /\ flags'.rcvd = flags.rcvd /\ flags'.sent = flags.sent /\ flags'.err = flags.err
      /\ flags'.t35 = (flags.t35 \/ tmr = "1.5") /\ flags'.t15 = (flags.t15 \/ tmr = "run")
  <2>1. CASE tmr = "run" /\ tmr' = "1.5" /\ flags' = [flags EXCEPT !.t15 = TRUE]
    <3>1. flags' \in Flags /\ flags'.rcvd = flags.rcvd /\ flags'.sent = flags.sent /\ flags'.err = flags.err
          /\ flags'.t35 = flags.t35 /\ flags'.t15
      BY <2>1, <1>1, Zenon DEF Flags
    <3>2. flags.t35 \in BOOLEAN /\ flags'.t15 \in BOOLEAN
      BY <1>1, <3>1 DEF Flags
    <3>3. tmr # "1.5"
      BY <2>1
    <3>. QED BY <2>1, <3>1, <3>2, <3>3
  <2>2. CASE tmr = "1.5" /\ tmr' = "off" /\ flags' = [flags EXCEPT !.t35 = TRUE]
    <3>1. flags' \in Flags /\ flags'.rcvd = flags.rcvd /\ flags'.sent = flags.sent /\ flags'.err = flags.err
          /\ flags'.t15 = flags.t15 /\ flags'.t35
      BY <2>2, <1>1, Zenon DEF Flags
    <3>2. flags.t15 \in BOOLEAN /\ flags'.t35 \in BOOLEAN
      BY <1>1, <3>1 DEF Flags
    <3>3. tmr # "run"
      BY <2>2
    <3>. QED BY <2>2, <3>1, <3>2, <3>3
  <2>. QED BY <1>2, <2>1, <2>2
<1>5. ~ flags.sent /\ ~ flags.rcvd /\ ~ flags.t35 /\ (fsm = "SRECEPTION" => ~ flags.t15)
  BY <1>1 DEF Settled
<1>6. TypeOK'
  BY <1>1, <1>2, <1>3, <1>4, SMT DEF Inv, TypeOK
<1>7. Timing'
  <2>1. Timing
    BY DEF Inv
  <2>2. CASE tmr = "run" /\ tmr' = "1.5"
    <3>1. flags'.t15 /\ (flags'.t35 => flags.t35)
      BY <2>2, <1>4
    <3>. QED BY <2>1, <2>2, <3>1, <1>1, <1>4, <1>5 DEF Timing
  <2>3. CASE tmr = "1.5" /\ tmr' = "off"
    <3>1. flags'.t35
      BY <2>3, <1>4
    <3>. QED BY <2>1, <2>3, <3>1, <1>1, <1>4, <1>5 DEF Timing
  <2>. QED BY <1>2, <2>2, <2>3
<1>8. Places'
  BY <1>1, <1>2, <1>3, <1>4, <1>5, SMT DEF Inv, Places, Timing
<1>9. Hearing'
  BY <1>1, <1>3, <1>4, SMT DEF Inv, Hearing, Following
<1>10. Answering'
  BY <1>1, <1>3, SMT DEF Inv, Answering
<1>11. Tidy'
  <2>1. SUFFICES ASSUME ~ m'.broken PROVE Tidy'
    BY DEF Tidy
  <2>. QED BY <2>1, <1>1, <1>2, <1>3, <1>4, SMT DEF Inv, Tidy, Kept
<1>. QED BY <1>6, <1>7, <1>8, <1>9, <1>10, <1>11 DEF Inv

\* The next character of an answer continues what the line has.
LEMMA NextOfAnswer ==
  ASSUME Sizes, Inv, ~ rcie, Len(line) < ReplyLen, NEW y, y = Append(line, buf[Len(line) + 1])
  PROVE /\ y \in Seq({"id", "link", "echo"} \X Nat) /\ Len(y) = Len(line) + 1
        /\ \A i \in 1..Len(y) : y[i] = <<AnswerOf[m.req], i>>
  <1>. DEFINE p == Len(line) + 1
              c == buf[p]
  <1>1. p \in 1..ReplyLen /\ Len(line) \in Nat /\ line \in Seq({"id", "link", "echo"} \X Nat)
    BY SMT DEF Sizes, Inv, TypeOK
  <1>2. c = <<AnswerOf[m.req], p>> /\ c \in {"id", "link", "echo"} \X Nat
  <2>1. c = <<AnswerOf[m.req], p>> /\ AnswerOf[m.req] \in {"id", "link", "echo"}
      BY <1>1, ReplyIsSeq DEF Inv, Answering
  <2>. QED BY <2>1, <1>1, SMT
  <1>3. y = Append(line, c)
    OBVIOUS
  <1>. HIDE DEF c
  <1>4. y \in Seq({"id", "link", "echo"} \X Nat) /\ Len(y) = Len(line) + 1
    BY <1>1, <1>2, <1>3, SMT
  <1>5. \A i \in 1..Len(line) + 1 : y[i] = IF i = Len(line) + 1 THEN c ELSE line[i]
    BY <1>1, <1>2, <1>3, SMT
  <1>6. \A i \in 1..Len(line) : line[i] = <<AnswerOf[m.req], i>>
    BY DEF Inv, Answering
  <1>7. \A i \in 1..Len(line) + 1 : y[i] = <<AnswerOf[m.req], i>>
  <2>1. TAKE i \in 1..Len(line) + 1
  <2>2. i = Len(line) + 1 \/ i \in 1..Len(line)
      BY <1>1, SMT
  <2>. QED BY <2>2, <1>2, <1>5, <1>6
  <1>. QED BY <1>4, <1>7

\* The transmit interrupt sends the next character (main.c, isr).
LEMMA SentKeeps == ASSUME Sizes, Inv, Sent PROVE Inv' /\ ~ rcie
<1>1. /\ tx.ie /\ Settled /\ UNCHANGED <<fsm, act, pc, buf, tmr, rcie>>
      /\ tx' = [ie |-> tx.n >= 2, n |-> tx.n - 1]
      /\ line' = Append(line, buf[Len(line) + 1])
      /\ flags' = [flags EXCEPT !.sent = TRUE] /\ m' = [m EXCEPT !.lost = HitNow]
      /\ m \in Masters /\ flags \in Flags /\ tx \in [ie : BOOLEAN, n : Nat]
      /\ line \in Seq({"id", "link", "echo"} \X Nat)
  BY DEF Sent, Inv, TypeOK
<1>2. ~ rcie /\ tx.n \in Nat /\ tx.n >= 1 /\ pc # "write"
  BY <1>1, SMT DEF Inv, Answering
<1>3. /\ m.req \in Requests /\ AnswerOf[m.req] # none /\ m.left = 0 /\ buf = Reply(m.req)
      /\ fsm \in {"SIDLE", "SEMISSION"} /\ act = "AIDLE"
      /\ tx.n + Len(line) + (IF pc = "put" THEN 1 ELSE 0) = ReplyLen
  BY <1>2 DEF Inv, Answering
<1>4. /\ m' \in Masters /\ m'.req = m.req /\ m'.left = 0
  <2>1. HitNow \in BOOLEAN
    BY <1>1 DEF HitNow, Masters
  <2>. QED BY <1>1, <1>3, <2>1, Zenon DEF Masters
<1>5. /\ flags' \in Flags /\ flags'.sent /\ flags'.t15 = flags.t15 /\ flags'.t35 = flags.t35
      /\ flags'.rcvd = flags.rcvd /\ flags'.err = flags.err /\ ~ flags.t35 /\ ~ flags.rcvd
  <2>1. ~ flags.t35 /\ ~ flags.rcvd
    BY <1>1 DEF Settled
  <2>. QED BY <2>1, <1>1, Zenon DEF Flags
<1>6. /\ tx' \in [ie : BOOLEAN, n : Nat] /\ tx'.n = tx.n - 1 /\ (tx'.ie <=> tx'.n >= 1)
  <2>. DEFINE n == tx.n - 1
              b == tx.n >= 2
  <2>1. n \in Nat /\ b \in BOOLEAN /\ (b <=> n >= 1)
    BY <1>2, SMT
  <2>2. tx' = [ie |-> b, n |-> n] /\ n = tx.n - 1
    BY <1>1
  <2>. HIDE DEF b, n
  <2>3. tx' \in [ie : BOOLEAN, n : Nat] /\ tx'.n = n /\ tx'.ie = b
    BY <2>1, <2>2, Zenon
  <2>. QED BY <2>1, <2>2, <2>3
<1>7. /\ line' \in Seq({"id", "link", "echo"} \X Nat) /\ Len(line') = Len(line) + 1
      /\ \A i \in 1..Len(line') : line'[i] = <<AnswerOf[m.req], i>>
  <2>1. Len(line) \in Nat /\ Len(line) < ReplyLen
    BY <1>1, <1>2, <1>3, SMT
  <2>. QED BY <2>1, <1>1, <1>2, NextOfAnswer
<1>8. TypeOK'
  BY <1>1, <1>4, <1>5, <1>6, <1>7 DEF Inv, TypeOK
<1>9. Timing' /\ Places'
  BY <1>1, <1>2, <1>3, <1>4, <1>5, SMT DEF Inv, Timing, Places
<1>10. Hearing'
  BY <1>1, <1>2, <1>3, <1>4, <1>5, SMT DEF Inv, Hearing, Following
<1>11. Answering'
  <2>1. Len(line) \in Nat
    BY <1>1, SMT
  <2>2. tx'.n + Len(line') + (IF pc' = "put" THEN 1 ELSE 0) = ReplyLen
    BY <2>1, <1>1, <1>2, <1>3, <1>6, <1>7, SMT
  <2>. QED BY <2>2, <1>1, <1>2, <1>3, <1>4, <1>6, <1>7 DEF Answering
<1>12. Tidy'
  BY <1>1, <1>2, <1>3, <1>4, SMT DEF Tidy
<1>. QED BY <1>2, <1>8, <1>9, <1>10, <1>11, <1>12 DEF Inv
\* What the invariant says of the second machine when the first is about to move.
LEMMA AtFsm == ASSUME Inv, pc = "fsm" PROVE act = "AIDLE" \/ (act = "AINIT" /\ fsm = "SINIT" /\ flags = Down)
  BY SMT DEF Inv, TypeOK, Places

\* All flags are down after they are cleared.
LEMMA DownIsDown == Down \in Flags /\ ~ Down.t15 /\ ~ Down.t35 /\ ~ Down.sent /\ ~ Down.rcvd /\ ~ Down.err
  BY Zenon DEF Down, Flags

\* A step that changes neither the line nor the buffer, from one place to another
\* between the answers, leaves the answer as it was.
LEMMA AnswerLeftAlone ==
  ASSUME Inv, UNCHANGED <<rcie, tx, line, buf, m>>, pc \notin {"write", "put"}, pc' \notin {"write", "put"},
         ~ rcie => act' = "AIDLE" /\ fsm' \in {"SIDLE", "SEMISSION"}
  PROVE Answering'
  BY SMT DEF Inv, Answering

\* modbus_process, the first silence.
LEMMA SInitKeeps == ASSUME Sizes, Inv, SInit PROVE Inv'
<1>1. /\ pc = "fsm" /\ fsm = "SINIT" /\ UNCHANGED <<act, buf, rcie, tx, line, m>>
      /\ flags \in Flags /\ act \in {"AINIT", "AIDLE"} /\ (act = "AINIT" => flags = Down)
  BY AtFsm, SMT DEF SInit, Inv, TypeOK
<1>2. rcie
  BY <1>1, SMT DEF Inv, Answering
<1>3. CASE Take("t35", {}) /\ fsm' = "SIDLE" /\ UNCHANGED tmr
  <2>1. flags.t35 /\ flags' = [flags EXCEPT !.t35 = FALSE] /\ pc' = "act"
    BY <1>3 DEF Take
  <2>2. /\ flags' \in Flags /\ ~ flags'.t35 /\ flags'.t15 = flags.t15 /\ flags'.sent = flags.sent
        /\ flags'.rcvd = flags.rcvd /\ flags'.err = flags.err
    BY <2>1, <1>1, Zenon DEF Flags
  <2>3. act = "AIDLE" /\ tmr = "off"
    BY <2>1, <1>1, DownIsDown DEF Inv, Timing
  <2>4. TypeOK'
    BY <1>1, <1>3, <2>1, <2>2 DEF Inv, TypeOK
  <2>5. Timing' /\ Places'
    BY <1>1, <1>2, <1>3, <2>1, <2>2, <2>3, SMT DEF Inv, Timing, Places
  <2>6. Hearing'
    BY <1>1, <1>3, <2>1, <2>2, <2>3, SMT DEF Inv, Hearing, Following
  <2>7. Tidy'
    BY <1>1, <1>3, <2>1, <2>2, <2>3, SMT DEF Inv, Tidy, Kept
  <2>8. Answering'
    BY <1>1, <1>2, <2>1, AnswerLeftAlone
  <2>. QED BY <2>4, <2>5, <2>6, <2>7, <2>8 DEF Inv
<1>4. CASE Take("rcvd", {"t35"}) /\ RunOnce /\ UNCHANGED fsm
  <2>1. flags.rcvd /\ flags' = [flags EXCEPT !.rcvd = FALSE] /\ pc' = "act" /\ tmr' = "run"
    BY <1>4 DEF Take, RunOnce
  <2>2. /\ flags' \in Flags /\ ~ flags'.rcvd /\ flags'.t15 = flags.t15 /\ flags'.sent = flags.sent
        /\ flags'.t35 = flags.t35 /\ flags'.err = flags.err
    BY <2>1, <1>1, Zenon DEF Flags
  <2>3. act = "AIDLE" /\ ~ flags.t35
    BY <2>1, <1>1, DownIsDown DEF Inv, Timing
  <2>4. TypeOK'
    BY <1>1, <1>4, <2>1, <2>2 DEF Inv, TypeOK
  <2>5. Timing' /\ Places'
    BY <1>1, <1>2, <1>4, <2>1, <2>2, <2>3, SMT DEF Inv, Timing, Places
  <2>6. Hearing'
    BY <1>1, <1>4, <2>1, <2>2, <2>3, SMT DEF Inv, Hearing, Following
  <2>7. Tidy'
    BY <1>1, <1>4, <2>1, <2>2, <2>3, SMT DEF Inv, Tidy, Kept
  <2>8. Answering'
    BY <1>1, <1>2, <2>1, AnswerLeftAlone
  <2>. QED BY <2>4, <2>5, <2>6, <2>7, <2>8 DEF Inv
<1>5. CASE Nothing({"t35", "rcvd"}) /\ pc' = "clear" /\ UNCHANGED <<fsm, tmr>>
  <2>1. flags' = flags
    BY <1>5 DEF Nothing
  <2>4. TypeOK'
    BY <1>1, <1>5, <2>1 DEF Inv, TypeOK
  <2>5. Timing' /\ Places'
    BY <1>1, <1>2, <1>5, <2>1, SMT DEF Inv, Timing, Places
  <2>6. Hearing'
    BY <1>1, <1>5, <2>1, SMT DEF Inv, Hearing, Following
  <2>7. Tidy'
    BY <1>1, <1>5, <2>1, SMT DEF Inv, Tidy, Kept
  <2>8. Answering'
    BY <1>1, <1>2, <1>5, AnswerLeftAlone
  <2>. QED BY <2>4, <2>5, <2>6, <2>7, <2>8 DEF Inv
<1>. QED BY <1>3, <1>4, <1>5 DEF SInit

\* modbus_process, between frames.
LEMMA SIdleKeeps == ASSUME Sizes, Inv, SIdle PROVE Inv'
<1>1. /\ pc = "fsm" /\ fsm = "SIDLE" /\ UNCHANGED <<act, buf, rcie, tx, line, m>>
      /\ flags \in Flags /\ act = "AIDLE" /\ tmr = "off"
  BY AtFsm, SMT DEF SIdle, Inv, TypeOK, Timing
<1>3. CASE /\ flags.rcvd /\ flags' = [flags EXCEPT !.rcvd = FALSE, !.err = FALSE]
           /\ fsm' = "SRECEPTION" /\ pc' = "act" /\ RunOnce
  <2>1. tmr' = "run"
    BY <1>3 DEF RunOnce
  <2>2. /\ flags' \in Flags /\ ~ flags'.rcvd /\ flags'.t15 = flags.t15 /\ flags'.sent = flags.sent
        /\ flags'.t35 = flags.t35 /\ ~ flags'.err
    BY <1>3, <1>1, Zenon DEF Flags
  <2>3. rcie /\ ~ flags.t35 /\ ~ flags.sent
    BY <1>3 DEF Inv, Timing, Hearing, Following
  <2>4. TypeOK'
    BY <1>1, <1>3, <2>1, <2>2 DEF Inv, TypeOK
  <2>5. Timing' /\ Places'
    BY <1>1, <1>3, <2>1, <2>2, <2>3, SMT DEF Inv, Timing, Places
  <2>6. Hearing'
    BY <1>1, <1>3, <2>1, <2>2, <2>3, SMT DEF Inv, Hearing, Following
  <2>7. Tidy'
    BY <1>1, <1>3, <2>1, <2>2, <2>3, SMT DEF Inv, Tidy, Kept
  <2>8. Answering'
    BY <1>1, <1>3, <2>3, AnswerLeftAlone
  <2>. QED BY <2>4, <2>5, <2>6, <2>7, <2>8 DEF Inv
<1>4. CASE Take("sent", {"rcvd"}) /\ fsm' = "SEMISSION" /\ RunOnce
  <2>1. flags.sent /\ flags' = [flags EXCEPT !.sent = FALSE] /\ pc' = "act" /\ tmr' = "run"
    BY <1>4 DEF Take, RunOnce
  <2>2. /\ flags' \in Flags /\ ~ flags'.sent /\ flags'.t15 = flags.t15 /\ flags'.rcvd = flags.rcvd
        /\ flags'.t35 = flags.t35 /\ flags'.err = flags.err
    BY <2>1, <1>1, Zenon DEF Flags
  <2>3. ~ rcie /\ ~ flags.t35 /\ ~ flags.rcvd
    BY <2>1 DEF Inv, Timing, Places
  <2>4. TypeOK'
    BY <1>1, <1>4, <2>1, <2>2 DEF Inv, TypeOK
  <2>5. Timing' /\ Places'
    BY <1>1, <1>4, <2>1, <2>2, <2>3, SMT DEF Inv, Timing, Places
  <2>6. Hearing'
    BY <1>1, <1>4, <2>1, <2>2, <2>3, SMT DEF Inv, Hearing, Following
  <2>7. Tidy'
    BY <1>1, <1>4, <2>1, <2>2, <2>3, SMT DEF Inv, Tidy, Answering
  <2>8. Answering'
    BY <1>1, <1>4, <2>1, <2>3, AnswerLeftAlone
  <2>. QED BY <2>4, <2>5, <2>6, <2>7, <2>8 DEF Inv
<1>5. CASE Nothing({"rcvd", "sent"}) /\ pc' = "clear" /\ UNCHANGED <<fsm, tmr>>
  <2>1. flags' = flags /\ ~ flags.rcvd
    BY <1>5 DEF Nothing
  <2>4. TypeOK'
    BY <1>1, <1>5, <2>1 DEF Inv, TypeOK
  <2>5. Timing' /\ Places'
    BY <1>1, <1>5, <2>1, SMT DEF Inv, Timing, Places
  <2>6. Hearing'
    BY <1>1, <1>5, <2>1, SMT DEF Inv, Hearing, Following
  <2>7. Tidy'
    BY <1>1, <1>5, <2>1, SMT DEF Inv, Tidy, Kept
  <2>8. Answering'
    BY <1>1, <1>5, AnswerLeftAlone
  <2>. QED BY <2>4, <2>5, <2>6, <2>7, <2>8 DEF Inv
<1>. QED BY <1>3, <1>4, <1>5 DEF SIdle

\* modbus_process, all flags are cleared.
LEMMA ClearKeeps == ASSUME Sizes, Inv, Clear PROVE Inv'
<1>1. /\ pc = "clear" /\ pc' = "act" /\ flags' = Down
      /\ UNCHANGED <<fsm, act, buf, tmr, rcie, tx, line, m>> /\ fsm \in {"SINIT", "SIDLE"}
      /\ act # "APROCESS" /\ act # "ACONTROL"
  BY SMT DEF Clear, Inv, Places
<1>2. /\ flags' \in Flags /\ ~ flags'.t15 /\ ~ flags'.t35 /\ ~ flags'.sent /\ ~ flags'.rcvd /\ ~ flags'.err
  BY <1>1, DownIsDown
<1>3. TypeOK'
  BY <1>1, <1>2 DEF Inv, TypeOK
<1>4. Timing'
  BY <1>1, <1>2, SMT DEF Inv, Timing
<1>5. Places'
  BY <1>1, <1>2, SMT DEF Inv, Places
<1>6. Hearing'
  BY <1>1, <1>2, SMT DEF Inv, Hearing, Following
<1>7. Answering'
  BY <1>1, AnswerLeftAlone, SMT DEF Inv, Answering
<1>8. Tidy'
  BY <1>1, <1>2, SMT DEF Inv, Tidy, Kept
<1>. QED BY <1>3, <1>4, <1>5, <1>6, <1>7, <1>8 DEF Inv

\* modbus_process, a frame comes.
LEMMA SReceptionKeeps == ASSUME Sizes, Inv, SReception PROVE Inv'
<1>1. /\ pc = "fsm" /\ fsm = "SRECEPTION" /\ UNCHANGED <<buf, rcie, tx, line, m>>
      /\ flags \in Flags /\ act = "AIDLE" /\ rcie /\ tmr \in {"run", "1.5"}
  BY AtFsm, SMT DEF SReception, Inv, TypeOK, Timing, Hearing, Following
<1>2. ~ flags.sent
  BY <1>1 DEF Inv, Places
<1>3. CASE Take("rcvd", {}) /\ RunOnce /\ UNCHANGED <<fsm, act>>
  <2>1. flags.rcvd /\ flags' = [flags EXCEPT !.rcvd = FALSE] /\ pc' = "act" /\ tmr' = "run"
    BY <1>3 DEF Take, RunOnce
  <2>2. /\ flags' \in Flags /\ ~ flags'.rcvd /\ flags'.t15 = flags.t15 /\ flags'.sent = flags.sent
        /\ flags'.t35 = flags.t35 /\ flags'.err = flags.err
    BY <2>1, <1>1, Zenon DEF Flags
  <2>3. ~ flags.t35
    BY <2>1 DEF Inv, Timing
  <2>4. TypeOK'
    BY <1>1, <1>3, <2>1, <2>2 DEF Inv, TypeOK
  <2>5. Timing' /\ Places'
    BY <1>1, <1>2, <1>3, <2>1, <2>2, <2>3, SMT DEF Inv, Timing, Places
  <2>6. Hearing'
    BY <1>1, <1>3, <2>1, <2>2, <2>3, SMT DEF Inv, Hearing, Following
  <2>7. Tidy'
    BY <1>1, <1>3, <2>1, <2>2, <2>3, SMT DEF Inv, Tidy, Kept
  <2>8. Answering'
    BY <1>1, <1>3, <2>1, AnswerLeftAlone
  <2>. QED BY <2>4, <2>5, <2>6, <2>7, <2>8 DEF Inv
<1>4. CASE Take("t15", {"rcvd"}) /\ fsm' = "SCONTROL" /\ act' = "ACONTROL" /\ UNCHANGED tmr
  <2>1. flags.t15 /\ flags' = [flags EXCEPT !.t15 = FALSE] /\ pc' = "act" /\ ~ flags.rcvd
    BY <1>4 DEF Take
  <2>2. /\ flags' \in Flags /\ ~ flags'.t15 /\ flags'.rcvd = flags.rcvd /\ flags'.sent = flags.sent
        /\ flags'.t35 = flags.t35 /\ flags'.err = flags.err
    BY <2>1, <1>1, Zenon DEF Flags
  <2>4. TypeOK'
    BY <1>1, <1>4, <2>1, <2>2 DEF Inv, TypeOK
  <2>5. Timing' /\ Places'
    BY <1>1, <1>2, <1>4, <2>1, <2>2, SMT DEF Inv, Timing, Places
  <2>6. Hearing'
    BY <1>1, <1>4, <2>1, <2>2, SMT DEF Inv, Hearing, Following
  <2>7. Tidy'
    <3>1. m.left \in Nat
      BY DEF Inv, TypeOK, Masters
    <3>. QED BY <3>1, <1>1, <1>4, <2>1, <2>2, SMT DEF Inv, Tidy, Kept
  <2>8. Answering'
    BY <1>1, <1>4, <2>1, AnswerLeftAlone
  <2>. QED BY <2>4, <2>5, <2>6, <2>7, <2>8 DEF Inv
<1>. QED BY <1>3, <1>4 DEF SReception

\* modbus_process, after a frame.
LEMMA SControlKeeps == ASSUME Sizes, Inv, SControl PROVE Inv'
<1>1. /\ pc = "fsm" /\ fsm = "SCONTROL" /\ UNCHANGED <<buf, tmr, rcie, tx, line, m>>
      /\ flags \in Flags /\ act = "AIDLE" /\ rcie
  BY AtFsm, SMT DEF SControl, Inv, TypeOK, Hearing, Following
<1>2. ~ flags.sent
  BY <1>1 DEF Inv, Places
<1>3. CASE /\ flags.rcvd /\ flags' = [flags EXCEPT !.rcvd = FALSE, !.err = TRUE]
           /\ pc' = "act" /\ UNCHANGED <<fsm, act>>
  <2>2. /\ flags' \in Flags /\ ~ flags'.rcvd /\ flags'.t15 = flags.t15 /\ flags'.sent = flags.sent
        /\ flags'.t35 = flags.t35 /\ flags'.err
    BY <1>3, <1>1, Zenon DEF Flags
  <2>4. TypeOK'
    BY <1>1, <1>3, <2>2 DEF Inv, TypeOK
  <2>5. Timing' /\ Places'
    BY <1>1, <1>2, <1>3, <2>2, SMT DEF Inv, Timing, Places
  <2>6. Hearing'
    BY <1>1, <1>3, <2>2, SMT DEF Inv, Hearing, Following
  <2>7. Tidy'
    BY <1>1, <1>3, <2>2, SMT DEF Inv, Tidy
  <2>8. Answering'
    BY <1>1, <1>3, AnswerLeftAlone
  <2>. QED BY <2>4, <2>5, <2>6, <2>7, <2>8 DEF Inv
<1>4. CASE Take("t35", {"rcvd"}) /\ fsm' = "SIDLE" /\ act' = "APROCESS"
  <2>1. flags.t35 /\ flags' = [flags EXCEPT !.t35 = FALSE] /\ pc' = "act" /\ ~ flags.rcvd /\ tmr = "off"
    BY <1>4 DEF Take, Inv, Timing
  <2>2. /\ flags' \in Flags /\ ~ flags'.t35 /\ flags'.rcvd = flags.rcvd /\ flags'.sent = flags.sent
        /\ flags'.t15 = flags.t15 /\ flags'.err = flags.err
    BY <2>1, <1>1, Zenon DEF Flags
  <2>4. TypeOK'
    BY <1>1, <1>4, <2>1, <2>2 DEF Inv, TypeOK
  <2>5. Timing' /\ Places'
    BY <1>1, <1>2, <1>4, <2>1, <2>2, SMT DEF Inv, Timing, Places
  <2>6. Hearing'
    BY <1>1, <1>4, <2>1, <2>2, SMT DEF Inv, Hearing, Following
  <2>7. Tidy'
    BY <1>1, <1>4, <2>1, <2>2, SMT DEF Inv, Tidy, Kept
  <2>8. Answering'
    BY <1>1, <1>4, <2>1, AnswerLeftAlone
  <2>. QED BY <2>4, <2>5, <2>6, <2>7, <2>8 DEF Inv
<1>. QED BY <1>3, <1>4 DEF SControl

\* modbus_process, an answer goes out.
LEMMA SEmissionKeeps == ASSUME Sizes, Inv, SEmission PROVE Inv'
<1>1. /\ pc = "fsm" /\ fsm = "SEMISSION" /\ UNCHANGED <<act, tx, line, m>>
      /\ flags \in Flags /\ act = "AIDLE" /\ ~ rcie
  BY AtFsm DEF SEmission, Inv, Places, TypeOK
<1>2. ~ flags.rcvd /\ m.left = 0
  BY <1>1 DEF Inv, Hearing, Following, Answering
<1>3. CASE Take("sent", {}) /\ RunOnce /\ UNCHANGED <<fsm, buf, rcie>>
  <2>1. flags.sent /\ flags' = [flags EXCEPT !.sent = FALSE] /\ pc' = "act" /\ tmr' = "run"
    BY <1>3 DEF Take, RunOnce
  <2>2. /\ flags' \in Flags /\ ~ flags'.sent /\ flags'.t15 = flags.t15 /\ flags'.rcvd = flags.rcvd
        /\ flags'.t35 = flags.t35 /\ flags'.err = flags.err
    BY <2>1, <1>1, Zenon DEF Flags
  <2>3. ~ flags.t35
    BY <2>1 DEF Inv, Timing
  <2>4. TypeOK'
    BY <1>1, <1>3, <2>1, <2>2 DEF Inv, TypeOK
  <2>5. Timing' /\ Places'
    BY <1>1, <1>2, <1>3, <2>1, <2>2, <2>3, SMT DEF Inv, Timing, Places
  <2>6. Hearing'
    BY <1>1, <1>3, <2>1, <2>2, <2>3, SMT DEF Inv, Hearing, Following
  <2>7. Tidy'
    BY <1>1, <1>2, <1>3, <2>1, <2>2, <2>3, SMT DEF Inv, Tidy
  <2>8. Answering'
    BY <1>1, <1>3, <2>1, AnswerLeftAlone
  <2>. QED BY <2>4, <2>5, <2>6, <2>7, <2>8 DEF Inv
<1>4. CASE Take("t35", {"sent"}) /\ fsm' = "SIDLE" /\ buf' = <<>> /\ rcie' = TRUE /\ UNCHANGED tmr
  <2>1. flags.t35 /\ flags' = [flags EXCEPT !.t35 = FALSE] /\ pc' = "act" /\ ~ flags.sent /\ tmr = "off" /\ ~ tx.ie
    BY <1>4 DEF Take, Inv, Timing
  <2>2. /\ flags' \in Flags /\ ~ flags'.t35 /\ flags'.rcvd = flags.rcvd /\ flags'.sent = flags.sent
        /\ flags'.t15 = flags.t15 /\ flags'.err = flags.err
    BY <2>1, <1>1, Zenon DEF Flags
  <2>3. tx.n = 0 /\ Len(line) = ReplyLen
    <3>1. tx.n \in Nat /\ Len(line) \in Nat
      BY SMT DEF Inv, TypeOK
    <3>. QED BY <3>1, <1>1, <2>1, SMT DEF Inv, Answering
  <2>4. TypeOK'
    BY <1>1, <1>4, <2>1, <2>2 DEF Inv, TypeOK
  <2>5. Timing' /\ Places'
    BY <1>1, <1>2, <1>4, <2>1, <2>2, SMT DEF Inv, Timing, Places
  <2>6. Hearing'
    <3>1. <<>> \in Seq(Requests \X Nat)
      BY SMT
    <3>. QED BY <3>1, <1>1, <1>2, <1>4, <2>1, <2>2, SMT DEF Inv, Hearing, Following
  <2>7. Tidy'
    BY <1>1, <1>2, <1>4, <2>1, <2>2, SMT DEF Inv, Tidy, Kept
  <2>8. Answering'
    BY <1>1, <1>4, <2>1, <2>3, SMT DEF Inv, Answering
  <2>. QED BY <2>4, <2>5, <2>6, <2>7, <2>8 DEF Inv
<1>. QED BY <1>3, <1>4 DEF SEmission
\* modbus_process, the second machine starts.
LEMMA AInitKeeps == ASSUME Sizes, Inv, AInit PROVE Inv'
<1>1. /\ pc = "act" /\ buf' = <<>> /\ tmr' = "run" /\ act' = "AIDLE" /\ pc' = "fsm"
      /\ UNCHANGED <<fsm, flags, rcie, tx, line, m>>
      /\ fsm = "SINIT" /\ m.left = 0 /\ flags = Down /\ rcie
  BY DEF AInit, RunOnce, Inv, Places
<1>2. ~ flags.t15 /\ ~ flags.t35 /\ ~ flags.sent /\ ~ flags.rcvd
  BY <1>1, DownIsDown
<1>3. TypeOK'
  BY <1>1 DEF Inv, TypeOK
<1>4. Timing' /\ Places'
  BY <1>1, <1>2, SMT DEF Timing, Places
<1>5. Hearing'
  <2>1. <<>> \in Seq(Requests \X Nat)
    BY SMT
  <2>. QED BY <2>1, <1>1, <1>2, SMT DEF Hearing, Following
<1>6. Answering'
  BY <1>1, SMT DEF Inv, Answering
<1>7. Tidy'
  BY <1>1, SMT DEF Tidy
<1>. QED BY <1>3, <1>4, <1>5, <1>6, <1>7 DEF Inv

\* modbus_process, nothing to do.
LEMMA AIdleKeeps == ASSUME Sizes, Inv, AIdle PROVE Inv'
<1>1. /\ pc = "act" /\ act = "AIDLE" /\ pc' = "fsm"
      /\ UNCHANGED <<fsm, act, flags, buf, tmr, rcie, tx, line, m>>
  BY DEF AIdle
<1>2. TypeOK'
  BY <1>1 DEF Inv, TypeOK
<1>3. Timing' /\ Places'
  BY <1>1, SMT DEF Inv, Timing, Places
<1>4. Hearing'
  BY <1>1, SMT DEF Inv, Hearing, Following
<1>5. Answering'
  BY <1>1, AnswerLeftAlone, SMT DEF Inv, Answering
<1>6. Tidy'
  BY <1>1, SMT DEF Inv, Tidy, Kept
<1>. QED BY <1>2, <1>3, <1>4, <1>5, <1>6 DEF Inv

\* A buffer that passes the check is the request of the master, and all of it has come.
LEMMA CheckedIsWhole ==
  ASSUME Sizes, Inv, Following, NEW r \in Requests, buf = Whole(r)
  PROVE r = m.req /\ m.left = 0
<1>1. FrameLen \in Nat /\ FrameLen \in 1..FrameLen /\ m.left \in Nat
  BY SMT DEF Sizes, Inv, TypeOK, Masters
<1>2. Len(buf) = FrameLen /\ buf[FrameLen] = <<r, FrameLen>>
  BY <1>1, WholeIsAll
<1>3. buf[FrameLen][1] = m.req /\ buf[FrameLen][2] <= FrameLen - m.left
  BY <1>2 DEF Inv, Hearing
<1>4. r = m.req /\ FrameLen <= FrameLen - m.left
  BY <1>2, <1>3
<1>. QED BY <1>1, <1>4, SMT

\* modbus_process, the CRC.
LEMMA AControlKeeps == ASSUME Sizes, Inv, AControl PROVE Inv'
<1>. DEFINE e == \A r \in Requests : buf # Whole(r)
            x == flags.err \/ e
<1>1. /\ pc = "act" /\ act = "ACONTROL" /\ act' = "AIDLE" /\ pc' = "fsm"
      /\ UNCHANGED <<fsm, buf, tmr, rcie, tx, line, m>> /\ flags' = [flags EXCEPT !.err = x]
      /\ flags \in Flags /\ fsm = "SCONTROL"
  BY DEF AControl, Inv, Places, TypeOK
<1>2. Following
  BY <1>1 DEF Following
<1>3. x \in BOOLEAN
  BY <1>1 DEF Flags
<1>4. ~ x => buf = Whole(m.req) /\ m.left = 0
  BY <1>2, CheckedIsWhole
<1>5. ~ m.broken => ~ x
  <2>1. SUFFICES ASSUME ~ m.broken PROVE ~ x
    OBVIOUS
  <2>2. ~ flags.err /\ m.left = 0
    BY <2>1, <1>1 DEF Inv, Tidy
  <2>3. rcie /\ m.req \in Requests /\ Len(buf) > 0
    BY <1>2 DEF Inv, Hearing
  <2>4. buf # <<>>
    BY <2>3, SMT
  <2>5. buf = Whole(m.req)
    BY <2>1, <2>2, <2>3, <2>4 DEF Inv, Tidy
  <2>. QED BY <2>2, <2>3, <2>5
<1>. HIDE DEF x
<1>6. /\ flags' \in Flags /\ flags'.err = x /\ flags'.t15 = flags.t15 /\ flags'.t35 = flags.t35
      /\ flags'.sent = flags.sent /\ flags'.rcvd = flags.rcvd
  BY <1>1, <1>3, Zenon DEF Flags
<1>7. TypeOK'
  BY <1>1, <1>6 DEF Inv, TypeOK
<1>8. Timing' /\ Places'
  BY <1>1, <1>6, SMT DEF Inv, Timing, Places
<1>9. Hearing'
  BY <1>1, <1>2, <1>4, <1>6, SMT DEF Inv, Hearing, Following
<1>10. Answering'
  BY <1>1, <1>2, AnswerLeftAlone DEF Inv, Hearing
<1>11. Tidy'
  BY <1>1, <1>5, <1>6, SMT DEF Inv, Tidy, Kept
<1>. QED BY <1>7, <1>8, <1>9, <1>10, <1>11 DEF Inv

\* modbus_process, the request is answered.
LEMMA AProcessKeeps == ASSUME Sizes, Inv, AProcess PROVE Inv'
<1>1. /\ pc = "act" /\ act = "APROCESS" /\ act' = "AIDLE" /\ UNCHANGED <<fsm, flags, tmr, line, m>>
      /\ fsm = "SIDLE" /\ ~ flags.t35 /\ tmr = "off"
  BY DEF AProcess, Inv, Places, Timing
<1>2. /\ rcie /\ m.req \in Requests /\ line = <<>> /\ ~ flags.sent /\ tx.n = 0 /\ ~ tx.ie
      /\ buf \in Seq(Requests \X Nat)
  <2>1. rcie /\ m.req \in Requests /\ line = <<>> /\ buf \in Seq(Requests \X Nat)
    BY <1>1 DEF Inv, Hearing, Following
  <2>. QED BY <2>1, SMT DEF Inv, Places, Answering
<1>3. ~ flags.err => buf = Whole(m.req) /\ m.left = 0 /\ ~ flags.rcvd
  BY <1>1 DEF Inv, Hearing
<1>4. Timing' /\ Places'
  <2>1. ~ flags.t35 /\ pc' # "clear" /\ act' = "AIDLE" /\ (fsm' # "SEMISSION" /\ ~ flags'.sent)
    BY <1>1, <1>2 DEF AProcess
  <2>. QED BY <1>1, <1>2, <2>1, SMT DEF Inv, Timing, Places
<1>5. CASE flags.err
  <2>1. pc' = "fsm" /\ UNCHANGED <<buf, rcie, tx>>
    BY <1>5 DEF AProcess
  <2>2. TypeOK'
    BY <1>1, <2>1 DEF Inv, TypeOK
  <2>3. Hearing'
    BY <1>1, <2>1, SMT DEF Inv, Hearing, Following
  <2>4. Answering'
    BY <1>1, <1>2, <2>1, AnswerLeftAlone
  <2>5. Tidy'
    BY <1>1, <1>5, <2>1, SMT DEF Inv, Tidy
  <2>. QED BY <1>4, <2>2, <2>3, <2>4, <2>5 DEF Inv
<1>6. CASE ~ flags.err
  <2>1. buf[1][1] = m.req
    <3>1. 1 \in 1..FrameLen
      BY SMT DEF Sizes
    <3>. QED BY <3>1, <1>2, <1>3, <1>6, WholeIsAll
  <2>2. CASE AnswerOf[m.req] = none
    <3>1. buf' = <<>> /\ pc' = "fsm" /\ UNCHANGED <<rcie, tx>>
      BY <1>6, <2>1, <2>2 DEF AProcess
    <3>2. TypeOK'
      BY <1>1, <3>1 DEF Inv, TypeOK
    <3>3. Hearing'
      <4>1. <<>> \in Seq(Requests \X Nat)
        BY SMT
      <4>. QED BY <4>1, <1>1, <1>2, <1>3, <1>6, <3>1, SMT DEF Inv, Hearing, Following
    <3>4. Answering'
      BY <1>1, <1>2, <3>1, SMT DEF Inv, Answering
    <3>5. Tidy'
      BY <1>1, <1>3, <1>6, <3>1, SMT DEF Inv, Tidy
    <3>. QED BY <1>4, <3>2, <3>3, <3>4, <3>5 DEF Inv
  <2>3. CASE AnswerOf[m.req] # none
    <3>1. /\ buf' = Reply(m.req) /\ rcie' = FALSE /\ pc' = "write" /\ tx' = [tx EXCEPT !.n = ReplyLen]
      BY <1>6, <2>1, <2>3 DEF AProcess, Reply
    <3>2. tx' \in [ie : BOOLEAN, n : Nat] /\ tx'.n = ReplyLen /\ ~ tx'.ie /\ ReplyLen \in Nat /\ ReplyLen >= 1
      <4>1. tx \in [ie : BOOLEAN, n : Nat] /\ ReplyLen \in Nat /\ ReplyLen >= 1
        BY SMT DEF Inv, TypeOK, Sizes
      <4>. QED BY <4>1, <3>1, <1>2, SMT
    <3>3. TypeOK'
      BY <1>1, <3>1, <3>2 DEF Inv, TypeOK
    <3>4. Hearing'
      BY <1>1, <1>2, <1>3, <1>6, <3>1, SMT DEF Inv, Hearing, Following
    <3>5. Answering'
      <4>1. Len(line) = 0 /\ line' = <<>>
        BY <1>1, <1>2, SMT
      <4>2. tx'.n + Len(line') + (IF pc' = "put" THEN 1 ELSE 0) = ReplyLen
        BY <4>1, <3>1, <3>2, <1>1, SMT
      <4>. QED BY <4>1, <4>2, <1>1, <1>2, <1>3, <1>6, <2>3, <3>1, <3>2, SMT DEF Answering
    <3>6. Tidy'
      BY <1>1, <1>3, <1>6, <3>1, SMT DEF Inv, Tidy
    <3>. QED BY <1>4, <3>3, <3>4, <3>5, <3>6 DEF Inv
  <2>. QED BY <2>2, <2>3
<1>. QED BY <1>5, <1>6

\* uart_write: the interrupt is on.
LEMMA WriteKeeps == ASSUME Sizes, Inv, Write PROVE Inv'
<1>1. /\ pc = "write" /\ pc' = "put" /\ tx' = [ie |-> tx.n >= 2, n |-> tx.n - 1]
      /\ UNCHANGED <<fsm, act, flags, buf, tmr, rcie, line, m>>
      /\ tx \in [ie : BOOLEAN, n : Nat]
  BY DEF Write, Inv, TypeOK
<1>2. ~ rcie /\ tx.n \in Nat /\ tx.n >= 1 /\ ~ flags.t35
  <2>1. tx.n \in Nat
    BY <1>1
  <2>. QED BY <2>1, <1>1 DEF Inv, Answering, Timing, TypeOK
<1>3. /\ tx' \in [ie : BOOLEAN, n : Nat] /\ tx'.n = tx.n - 1 /\ (tx'.ie <=> tx'.n >= 1)
  <2>. DEFINE n == tx.n - 1
              b == tx.n >= 2
  <2>1. n \in Nat /\ b \in BOOLEAN /\ (b <=> n >= 1)
    BY <1>2, SMT
  <2>2. tx' = [ie |-> b, n |-> n] /\ n = tx.n - 1
    BY <1>1
  <2>. HIDE DEF b, n
  <2>3. tx' \in [ie : BOOLEAN, n : Nat] /\ tx'.n = n /\ tx'.ie = b
    BY <2>1, <2>2, Zenon
  <2>. QED BY <2>1, <2>2, <2>3
<1>4. TypeOK'
  BY <1>1, <1>3 DEF Inv, TypeOK
<1>5. Timing' /\ Places'
  BY <1>1, <1>2, SMT DEF Inv, Timing, Places
<1>6. Hearing'
  BY <1>1, SMT DEF Inv, Hearing, Following
<1>7. Answering'
  <2>1. Len(line) \in Nat
    BY SMT DEF Inv, TypeOK
  <2>2. tx.n + Len(line) + 0 = ReplyLen
    BY <1>1, <1>2 DEF Inv, Answering
  <2>3. tx'.n + Len(line') + (IF pc' = "put" THEN 1 ELSE 0) = ReplyLen
    BY <2>1, <2>2, <1>1, <1>2, <1>3, SMT
  <2>. QED BY <2>3, <1>1, <1>2, <1>3, SMT DEF Inv, Answering
<1>8. Tidy'
  BY <1>1, SMT DEF Inv, Tidy, Kept
<1>. QED BY <1>4, <1>5, <1>6, <1>7, <1>8 DEF Inv

\* uart_write: its own character is out.
LEMMA PutKeeps == ASSUME Sizes, Inv, Put PROVE Inv' /\ ~ rcie
<1>1. /\ pc = "put" /\ pc' = "fsm" /\ line' = Append(line, buf[Len(line) + 1])
      /\ UNCHANGED <<fsm, act, flags, buf, tmr, rcie, tx, m>>
  BY DEF Put
<1>2. ~ rcie /\ tx.n \in Nat /\ tx.n + Len(line) + 1 = ReplyLen /\ Len(line) \in Nat
  <2>1. tx.n \in Nat /\ Len(line) \in Nat
    BY SMT DEF Inv, TypeOK
  <2>2. ~ rcie
    BY <1>1 DEF Inv, Answering, TypeOK
  <2>3. tx.n + Len(line) + (IF pc = "put" THEN 1 ELSE 0) = ReplyLen
    BY <2>2 DEF Inv, Answering
  <2>. QED BY <2>1, <2>2, <2>3, <1>1
<1>3. /\ line' \in Seq({"id", "link", "echo"} \X Nat) /\ Len(line') = Len(line) + 1
      /\ \A i \in 1..Len(line') : line'[i] = <<AnswerOf[m.req], i>>
  <2>1. Len(line) < ReplyLen
    BY <1>2, SMT
  <2>. QED BY <2>1, <1>1, <1>2, NextOfAnswer
<1>4. TypeOK'
  BY <1>1, <1>3 DEF Inv, TypeOK
<1>5. Timing' /\ Places'
  BY <1>1, <1>2, SMT DEF Inv, Timing, Places
<1>6. Hearing'
  BY <1>1, <1>2, SMT DEF Inv, Hearing, Following, Answering
<1>7. Answering'
  <2>1. tx'.n + Len(line') + (IF pc' = "put" THEN 1 ELSE 0) = ReplyLen
    <3>1. tx'.n = tx.n /\ (IF pc' = "put" THEN 1 ELSE 0) = 0
      BY <1>1
    <3>2. tx.n + (Len(line) + 1) + 0 = ReplyLen
      BY <1>2, SMT
    <3>. QED BY <3>1, <3>2, <1>3
  <2>2. m.req \in Requests /\ AnswerOf[m.req] # none
    BY <1>2 DEF Inv, Answering
  <2>. QED BY <2>1, <2>2, <1>1, <1>2, <1>3, SMT DEF Inv, Answering
<1>8. Tidy'
  BY <1>1, <1>2, SMT DEF Inv, Tidy, Kept
<1>. QED BY <1>2, <1>4, <1>5, <1>6, <1>7, <1>8 DEF Inv

\* Every step keeps the invariant.
LEMMA InvNext == ASSUME Sizes, Inv, [Next]_vars PROVE Inv'
<1>1. CASE UNCHANGED vars
  BY <1>1, SMT DEF vars, Inv, TypeOK, Timing, Places, Hearing, Following, Answering, Tidy, Kept
<1>2. CASE Next
  BY <1>2, AskKeeps, ReceiveKeeps, ReceiveBadKeeps, ElapseKeeps, SentKeeps, SInitKeeps, SIdleKeeps,
     ClearKeeps, SReceptionKeeps, SControlKeeps, SEmissionKeeps, AInitKeeps, AIdleKeeps,
     AControlKeeps, AProcessKeeps, WriteKeeps, PutKeeps DEF Next, Main, Interrupt
<1>. QED BY <1>1, <1>2
\* What the master has heard: the answer when all of it has come, and else nothing.
LEMMA HeardWhenWhole ==
  ASSUME Sizes, NEW r, NEW l \in Seq({"id", "link", "echo"} \X Nat),
         l # <<>> => r \in Requests /\ AnswerOf[r] # none,
         \A i \in 1..Len(l) : l[i] = <<AnswerOf[r], i>>
  PROVE (IF \E a \in {"id", "link", "echo"} : l = [i \in 1..ReplyLen |-> <<a, i>>] THEN l[1][1] ELSE none)
          = IF Len(l) = ReplyLen THEN AnswerOf[r] ELSE none
<1>1. CASE Len(l) = ReplyLen
  <2>1. 1 \in 1..Len(l) /\ l # <<>>
    BY <1>1, SMT DEF Sizes
  <2>2. /\ AnswerOf[r] \in {"id", "link", "echo"} /\ Len(Reply(r)) = ReplyLen
        /\ Reply(r) \in Seq({"id", "link", "echo"} \X Nat)
        /\ \A i \in 1..ReplyLen : Reply(r)[i] = <<AnswerOf[r], i>>
    BY <2>1, ReplyIsSeq
  <2>3. \A i \in 1..Len(l) : l[i] = Reply(r)[i]
    BY <1>1, <2>2
  <2>4. l = Reply(r)
    BY <1>1, <2>2, <2>3, SeqEqual
  <2>5. l[1][1] = AnswerOf[r]
    BY <2>1
  <2>. QED BY <1>1, <2>2, <2>4, <2>5 DEF Reply
<1>2. CASE Len(l) # ReplyLen
  <2>1. ASSUME NEW a \in {"id", "link", "echo"}, l = [i \in 1..ReplyLen |-> <<a, i>>] PROVE FALSE
    <3>1. ReplyLen \in Nat /\ Len(l) \in Nat
      BY SMT DEF Sizes
    <3>2. DOMAIN l = 1..ReplyLen
      BY <2>1
    <3>3. DOMAIN l = 1..Len(l)
      BY LenProperties
    <3>. HIDE <2>1
    <3>. QED BY <3>1, <3>2, <3>3, <1>2, SMT
  <2>. QED BY <2>1, <1>2
<1>. QED BY <1>1, <1>2

\* The unit speaks as ModbusSlave has it: only when asked, once, and with the answer.
LEMMA SlaveStep == ASSUME Sizes, Inv, [Next]_vars PROVE [Slave!Next]_<<m.req, rep>>
<1>1. Inv'
  BY InvNext
<1>2. rep = IF Len(line) = ReplyLen THEN AnswerOf[m.req] ELSE none
  <2>1. /\ line \in Seq({"id", "link", "echo"} \X Nat) /\ (line # <<>> => m.req \in Requests /\ AnswerOf[m.req] # none)
        /\ \A i \in 1..Len(line) : line[i] = <<AnswerOf[m.req], i>>
    BY DEF Inv, TypeOK, Answering
  <2>. QED BY <2>1, HeardWhenWhole DEF rep
<1>3. rep' = IF Len(line') = ReplyLen THEN AnswerOf[m'.req] ELSE none
  <2>1. /\ line' \in Seq({"id", "link", "echo"} \X Nat) /\ (line' # <<>> => m'.req \in Requests /\ AnswerOf[m'.req] # none)
        /\ \A i \in 1..Len(line') : line'[i] = <<AnswerOf[m'.req], i>>
    BY <1>1 DEF Inv, TypeOK, Answering
  <2>. QED BY <2>1, HeardWhenWhole DEF rep
<1>4. CASE Ask
  <2>1. PICK r \in Requests :
          m' = [m EXCEPT !.req = r, !.left = FrameLen, !.frames = @ + 1, !.lost = FALSE,
                         !.broken = @ \/ fsm = "SINIT"]
    BY <1>4 DEF Ask
  <2>2. m'.req = r
    BY <2>1, Zenon DEF Inv, TypeOK, Masters
  <2>3. Len(line') # ReplyLen
    <3>1. Len(<<>>) = 0
      BY SMT
    <3>. QED BY <3>1, <1>4, SMT DEF Ask, Sizes
  <2>. QED BY <2>2, <2>3, <1>3 DEF Slave!Next, Slave!Ask
<1>5. CASE Sent \/ Put
  <2>1. ~ rcie
    BY <1>5, SentKeeps, PutKeeps
  <2>2. m.req \in Requests /\ AnswerOf[m.req] # none /\ tx.n + Len(line) + (IF pc = "put" THEN 1 ELSE 0) = ReplyLen
    BY <2>1 DEF Inv, Answering
  <2>3. m'.req = m.req
    BY <1>5, Zenon DEF Sent, Put, Inv, TypeOK, Masters
  <2>4. Len(line) # ReplyLen
    <3>1. tx.n \in Nat /\ Len(line) \in Nat
      BY SMT DEF Inv, TypeOK
    <3>2. tx.n >= 1 \/ pc = "put"
      BY <1>5 DEF Sent, Put, Inv, Answering
    <3>. QED BY <3>1, <3>2, <2>2, SMT DEF Sizes
  <2>5. m.req # none
    BY <2>2 DEF Sizes
  <2>. QED BY <1>2, <1>3, <2>2, <2>3, <2>4, <2>5 DEF Slave!Next, Slave!Answer
<1>6. CASE Receive \/ ReceiveBad \/ Elapse
  <2>1. m'.req = m.req
    BY <1>6, Zenon DEF Receive, ReceiveBad, Elapse, Inv, TypeOK, Masters
  <2>2. line' = line
    BY <1>6 DEF Receive, ReceiveBad, Elapse
  <2>. QED BY <1>2, <1>3, <2>1, <2>2
<1>7. CASE \/ SInit \/ SIdle \/ Clear \/ SReception \/ SControl \/ SEmission \/ AInit \/ AIdle \/ AControl
           \/ AProcess \/ Write \/ UNCHANGED vars
  <2>1. line' = line /\ m' = m
    BY <1>7 DEF SInit, SIdle, Clear, SReception, SControl, SEmission, AInit, AIdle, AControl, AProcess,
       Write, vars
  <2>. QED BY <1>2, <1>3, <2>1
<1>. QED BY <1>4, <1>5, <1>6, <1>7 DEF Next, Main, Interrupt

\* While no frame was broken, the buffer holds one frame at most (frame.c).
LEMMA RoomIsLeft == ASSUME Sizes, Inv PROVE RoomUnlessBroken
<1>1. SUFFICES ASSUME ~ m.broken, rcie PROVE Len(buf) <= FrameLen
  BY DEF RoomUnlessBroken
<1>2. FrameLen \in Nat /\ m.left \in Nat
  BY DEF Sizes, Inv, TypeOK, Masters
<1>3. CASE m.left > 0
  <2>1. m.req \in Requests /\ m.left <= FrameLen /\ buf = First(m.req, FrameLen - m.left)
    BY <1>1, <1>3 DEF Inv, Hearing, Tidy
  <2>2. FrameLen - m.left \in Nat
    BY <2>1, <1>2, SMT
  <2>3. Len(buf) = FrameLen - m.left
    BY <2>1, <2>2, FirstIsSeq
  <2>. QED BY <2>3, <1>2, SMT
<1>4. CASE m.left = 0
  <2>1. CASE buf = <<>>
    <3>1. Len(<<>>) = 0
      BY SMT
    <3>. QED BY <3>1, <2>1, <1>2, SMT
  <2>2. CASE buf = Whole(m.req) /\ buf # <<>>
    <3>1. m.req \in Requests
      <4>1. Kept
        BY <1>1, <1>4, <2>2 DEF Inv, Tidy
      <4>. QED BY <4>1 DEF Kept, Following, Inv, Hearing
    <3>. QED BY <3>1, <2>2, <1>2, WholeIsAll, SMT
  <2>. QED BY <1>1, <1>4, <2>1, <2>2 DEF Inv, Tidy
<1>. QED BY <1>2, <1>3, <1>4, SMT
\* Wherever the interrupts fall and whatever is lost or torn, the adapter answers a
\* request once, with its own answer, and nothing else, and without a broken frame its
\* buffer holds one frame (modbus.c, modbus_process; frame.c, frame_push).
THEOREM AdapterIsSlave == Sizes => (Init /\ [][Next]_vars => IsSlave /\ []RoomUnlessBroken)
<1>. SUFFICES ASSUME Sizes PROVE Init /\ [][Next]_vars => IsSlave /\ []RoomUnlessBroken
  OBVIOUS
<1>1. Init => Inv
  BY InvInit
<1>2. Inv /\ [Next]_vars => Inv'
  BY InvNext
<1>3. Init => Slave!Init
  <2>1. SUFFICES ASSUME Init PROVE m.req = none /\ rep = none
    BY DEF Slave!Init
  <2>2. line = <<>> /\ Len(line) = 0 /\ line \in Seq({"id", "link", "echo"} \X Nat)
    BY <2>1, SMT DEF Init
  <2>3. \A i \in 1..Len(line) : line[i] = <<AnswerOf[m.req], i>>
    BY <2>2, SMT
  <2>4. rep = IF Len(line) = ReplyLen THEN AnswerOf[m.req] ELSE none
    BY <2>2, <2>3, HeardWhenWhole DEF rep
  <2>. QED BY <2>1, <2>2, <2>4 DEF Init, Sizes
<1>4. Inv /\ [Next]_vars => [Slave!Next]_<<m.req, rep>>
  BY SlaveStep
<1>5. Inv => RoomUnlessBroken
  BY RoomIsLeft
<1>. QED BY <1>1, <1>2, <1>3, <1>4, <1>5, PTL DEF IsSlave
=============================================================================
