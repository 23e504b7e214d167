----------------------------- MODULE OuiProofs -----------------------------
(***************************************************************************)
(* Proofs about the scan of ouisearch, for a queue of any length and any   *)
(* number of addresses.                                                    *)
(*                                                                         *)
(* NothingSkipped speaks of the contents of a ring, which the back pointer *)
(* and the size describe twice: Ring says that they agree.                 *)
(***************************************************************************)
EXTENDS OuiSearch, TLAPS, SequenceTheorems

Ring(q) == q \in queue_t /\ q.back = (q.front + q.size) % QueueMax

\* Waiting for a place, the main thread has an address to push; in its turn the
\* socket thread has turns left.
Places ==
  /\ main \in {"wait", "woken"} => next <= Total
  /\ thread = "count" => endwait # 0

\* A reply that is ours is one of a host that is there and was probed.
RepliesAnswer ==
  \A r \in replies : r.ours => r.addr \in Alive \cap {probed[i] : i \in DOMAIN probed}

Inv == TypeOK /\ Ring(queue) /\ Places /\ NothingSkipped /\ RepliesAnswer /\ FoundAnswered

-----------------------------------------------------------------------------
\* The place k steps on in the ring, k being less than a turn, and the next one.
LEMMA ModLess ==
  ASSUME NEW N \in Nat \ {0}, NEW f \in 0 .. N - 1, NEW k \in 0 .. N - 1
  PROVE  (f + k) % N = IF f + k < N THEN f + k ELSE f + k - N
  OBVIOUS

LEMMA ModNext ==
  ASSUME NEW N \in Nat \ {0}, NEW f \in 0 .. N - 1, NEW k \in 0 .. N - 1
  PROVE  /\ (f + k) % N \in 0 .. N - 1
         /\ (((f + k) % N) + 1) % N = (f + k + 1) % N
         /\ (((f + 1) % N) + k) % N = (f + k + 1) % N
<1>1. (f + k) % N = IF f + k < N THEN f + k ELSE f + k - N
  OBVIOUS
<1>2. (f + 1) % N = IF f + 1 < N THEN f + 1 ELSE 0
  OBVIOUS
<1>3. (f + k + 1) % N = IF f + k + 1 < N THEN f + k + 1 ELSE f + k + 1 - N
  OBVIOUS
<1>4. (((f + k) % N) + 1) % N = (f + k + 1) % N
  <2>1. CASE f + k < N BY <1>1, <2>1
  <2>2. CASE ~(f + k < N)
    <3>1. (f + k - N + 1) % N = f + k - N + 1 BY <2>2
    <3> QED BY <1>1, <1>3, <2>2, <3>1
  <2> QED BY <2>1, <2>2
<1>5. (((f + 1) % N) + k) % N = (f + k + 1) % N
  <2>1. CASE f + 1 < N BY <1>2, <2>1
  <2>2. CASE ~(f + 1 < N) BY <1>2, <1>3, <2>2
  <2> QED BY <2>1, <2>2
<1> QED BY <1>1, <1>4, <1>5

\* A ring holds its numbers as a sequence of them.
LEMMA ContentsSeq ==
  ASSUME NEW q, Ring(q)
  PROVE  /\ Contents(q) \in Seq(Nat) /\ Len(Contents(q)) = q.size
         /\ \A i \in 1 .. q.size : Contents(q)[i] = q.data[(q.front + i - 1) % QueueMax]
<1>1. \A i \in 1 .. q.size : q.data[(q.front + i - 1) % QueueMax] \in Nat
  <2> SUFFICES ASSUME NEW i \in 1 .. q.size PROVE q.data[(q.front + i - 1) % QueueMax] \in Nat
    OBVIOUS
  <2>1. /\ i - 1 \in 0 .. QueueMax - 1 /\ q.front \in 0 .. QueueMax - 1
        /\ QueueMax \in Nat \ {0} /\ q.front + (i - 1) = q.front + i - 1
    BY QueueAssumption DEF Ring, queue_t, Slots
  <2>2. (q.front + (i - 1)) % QueueMax \in Slots BY <2>1, ModNext DEF Slots
  <2> QED BY <2>1, <2>2 DEF Ring, queue_t
<1>2. q.size \in Nat BY QueueAssumption DEF Ring, queue_t
<1> DEFINE e(i) == q.data[(q.front + i - 1) % QueueMax]
<1>3. Contents(q) = [i \in 1 .. q.size |-> e(i)] BY DEF Contents
<1>4. \A i \in 1 .. q.size : e(i) \in Nat BY <1>1
<1> HIDE DEF e
<1>5. [i \in 1 .. q.size |-> e(i)] \in Seq(Nat) BY <1>2, <1>4, IsASeq
<1>6. Len(Contents(q)) = q.size BY <1>2, <1>3, <1>5
<1> QED BY <1>3, <1>5, <1>6 DEF e

\* What is pushed is the last of the contents, and nothing else changes there.
LEMMA PushAppends ==
  ASSUME NEW q, Ring(q), ~Full(q), NEW x \in Nat
  PROVE  /\ Ring(queue_push(q, x))
         /\ Contents(queue_push(q, x)) = Append(Contents(q), x)
<1> DEFINE r == queue_push(q, x)
<1>1. /\ q.size \in 0 .. QueueMax - 1 /\ q.front \in 0 .. QueueMax - 1
      /\ q.back \in 0 .. QueueMax - 1 /\ QueueMax \in Nat \ {0} /\ q.data \in [Slots -> Nat]
  BY QueueAssumption DEF Ring, queue_t, Full, Slots
<1>2. /\ r.size = q.size + 1 /\ r.front = q.front /\ r.back = (q.back + 1) % QueueMax
      /\ r.data = [q.data EXCEPT ![q.back] = x]
  BY DEF queue_push, Ring, queue_t
<1>3. /\ (q.back + 1) % QueueMax = (q.front + q.size + 1) % QueueMax
      /\ (q.back + 1) % QueueMax \in Slots
  <2>1. (q.back + 1) % QueueMax \in 0 .. QueueMax - 1 BY <1>1
  <2>2. (((q.front + q.size) % QueueMax) + 1) % QueueMax = (q.front + q.size + 1) % QueueMax
    BY <1>1, ModNext
  <2> QED BY <2>1, <2>2 DEF Ring, Slots
<1>4. Ring(r)
  <2>1. r \in queue_t
    <3>1. q.size + 1 \in 0 .. QueueMax BY <1>1
    <3>2. [q.data EXCEPT ![q.back] = x] \in [Slots -> Nat] BY <1>1
    <3> QED BY <1>3, <3>1, <3>2 DEF queue_push, Ring, queue_t
  <2> QED BY <1>1, <1>2, <1>3, <2>1 DEF Ring
<1>5. \A i \in 1 .. q.size : (q.front + i - 1) % QueueMax # q.back
  <2> SUFFICES ASSUME NEW i \in 1 .. q.size PROVE (q.front + (i - 1)) % QueueMax # q.back
    OBVIOUS
  <2>1. i - 1 \in 0 .. QueueMax - 1 /\ i - 1 < q.size BY <1>1
  <2>2. (q.front + (i - 1)) % QueueMax
          = IF q.front + (i - 1) < QueueMax THEN q.front + (i - 1) ELSE q.front + (i - 1) - QueueMax
    BY <2>1, <1>1, ModLess
  <2>3. q.back = IF q.front + q.size < QueueMax THEN q.front + q.size ELSE q.front + q.size - QueueMax
    <3>1. (q.front + q.size) % QueueMax
            = IF q.front + q.size < QueueMax THEN q.front + q.size ELSE q.front + q.size - QueueMax
      BY <1>1, ModLess
    <3> QED BY <3>1 DEF Ring
  <2> QED BY <1>1, <2>1, <2>2, <2>3
<1>6. /\ Contents(q) \in Seq(Nat) /\ Len(Contents(q)) = q.size
      /\ \A i \in 1 .. q.size : Contents(q)[i] = q.data[(q.front + i - 1) % QueueMax]
  BY ContentsSeq
<1>7. /\ Contents(r) \in Seq(Nat) /\ Len(Contents(r)) = q.size + 1
      /\ \A i \in 1 .. q.size + 1 : Contents(r)[i] = r.data[(q.front + i - 1) % QueueMax]
  <2> HIDE DEF r
  <2>1. /\ Contents(r) \in Seq(Nat) /\ Len(Contents(r)) = r.size
        /\ \A i \in 1 .. r.size : Contents(r)[i] = r.data[(r.front + i - 1) % QueueMax]
    BY <1>4, ContentsSeq
  <2> QED BY <1>2, <2>1
<1>8. /\ Append(Contents(q), x) \in Seq(Nat) /\ Len(Append(Contents(q), x)) = q.size + 1
      /\ \A i \in 1 .. q.size : Append(Contents(q), x)[i] = Contents(q)[i]
      /\ Append(Contents(q), x)[q.size + 1] = x
  BY <1>6, AppendProperties
<1>9. \A i \in 1 .. q.size + 1 : Contents(r)[i] = Append(Contents(q), x)[i]
  <2> SUFFICES ASSUME NEW i \in 1 .. q.size + 1
               PROVE  Contents(r)[i] = Append(Contents(q), x)[i]
    OBVIOUS
  <2>1. CASE i = q.size + 1
    <3>1. q.front + i - 1 = q.front + q.size BY <2>1, <1>1
    <3>2. Contents(r)[i] = r.data[q.back] BY <1>7, <3>1 DEF Ring
    <3> QED BY <3>2, <2>1, <1>1, <1>2, <1>8 DEF Slots
  <2>2. CASE i # q.size + 1
    <3>1. i \in 1 .. q.size BY <2>2, <1>1
    <3>2. (q.front + i - 1) % QueueMax \in Slots
      <4>1. i - 1 \in 0 .. QueueMax - 1 BY <3>1, <1>1
      <4>2. (q.front + (i - 1)) % QueueMax \in 0 .. QueueMax - 1 BY <4>1, <1>1, ModNext
      <4>3. q.front + (i - 1) = q.front + i - 1 BY <1>1
      <4> QED BY <4>2, <4>3 DEF Slots
    <3>3. r.data[(q.front + i - 1) % QueueMax] = q.data[(q.front + i - 1) % QueueMax]
      BY <3>1, <3>2, <1>1, <1>2, <1>5
    <3> QED BY <3>1, <3>3, <1>6, <1>7, <1>8
  <2> QED BY <2>1, <2>2
<1> HIDE DEF r
<1>10. Contents(r) = Append(Contents(q), x) BY <1>7, <1>8, <1>9, SeqEqual
<1> QED BY <1>4, <1>10 DEF r

\* What is popped is the first of the contents.
LEMMA PopTakesFirst ==
  ASSUME NEW q, Ring(q), q.size > 0
  PROVE  /\ Ring(queue_pop(q))
         /\ Contents(queue_pop(q)) = Tail(Contents(q))
<1> DEFINE r == queue_pop(q)
<1>1. /\ q.size \in 1 .. QueueMax /\ q.front \in 0 .. QueueMax - 1
      /\ q.back \in 0 .. QueueMax - 1 /\ QueueMax \in Nat \ {0}
  BY QueueAssumption DEF Ring, queue_t, Slots
<1>2. /\ r.size = q.size - 1 /\ r.front = (q.front + 1) % QueueMax /\ r.back = q.back
      /\ r.data = q.data
  BY DEF queue_pop, Ring, queue_t
<1>3. \A i \in 0 .. q.size - 1 : (r.front + i) % QueueMax = (q.front + i + 1) % QueueMax
  <2> SUFFICES ASSUME NEW i \in 0 .. q.size - 1
               PROVE  (((q.front + 1) % QueueMax) + i) % QueueMax = (q.front + i + 1) % QueueMax
    BY <1>2
  <2>1. i \in 0 .. QueueMax - 1 BY <1>1
  <2> QED BY <1>1, <2>1, ModNext
<1>4. Ring(r)
  <2>1. (q.front + 1) % QueueMax \in Slots
    BY <1>1 DEF Slots
  <2>2. (r.front + (q.size - 1)) % QueueMax = (q.front + (q.size - 1) + 1) % QueueMax
    BY <1>3, <1>1
  <2>3. q.front + (q.size - 1) + 1 = q.front + q.size BY <1>1
  <2>4. r \in queue_t
    <3>1. q.size - 1 \in 0 .. QueueMax BY <1>1
    <3> QED BY <2>1, <3>1 DEF queue_pop, Ring, queue_t
  <2> QED BY <1>2, <2>2, <2>3, <2>4 DEF Ring
<1>5. /\ Contents(q) \in Seq(Nat) /\ Len(Contents(q)) = q.size /\ Contents(q) # <<>>
      /\ \A i \in 1 .. q.size : Contents(q)[i] = q.data[(q.front + i - 1) % QueueMax]
  <2>1. /\ Contents(q) \in Seq(Nat) /\ Len(Contents(q)) = q.size
        /\ \A i \in 1 .. q.size : Contents(q)[i] = q.data[(q.front + i - 1) % QueueMax]
    BY ContentsSeq
  <2> QED BY <1>1, <2>1, EmptySeq
<1>6. /\ Tail(Contents(q)) \in Seq(Nat) /\ Len(Tail(Contents(q))) = q.size - 1
      /\ \A i \in 1 .. q.size - 1 : Tail(Contents(q))[i] = Contents(q)[i + 1]
  BY <1>1, <1>5, HeadTailProperties
<1>7. /\ Contents(r) \in Seq(Nat) /\ Len(Contents(r)) = q.size - 1
      /\ \A i \in 1 .. q.size - 1 : Contents(r)[i] = q.data[(r.front + i - 1) % QueueMax]
  <2> HIDE DEF r
  <2>1. /\ Contents(r) \in Seq(Nat) /\ Len(Contents(r)) = r.size
        /\ \A i \in 1 .. r.size : Contents(r)[i] = r.data[(r.front + i - 1) % QueueMax]
    BY <1>4, ContentsSeq
  <2> QED BY <1>2, <2>1
<1>8. \A i \in 1 .. q.size - 1 : Contents(r)[i] = Tail(Contents(q))[i]
  <2> SUFFICES ASSUME NEW i \in 1 .. q.size - 1 PROVE Contents(r)[i] = Tail(Contents(q))[i]
    OBVIOUS
  <2>1. /\ i - 1 \in 0 .. q.size - 1 /\ r.front \in Int
        /\ r.front + i - 1 = r.front + (i - 1)
        /\ q.front + (i + 1) - 1 = q.front + (i - 1) + 1
        /\ i + 1 \in 1 .. q.size
    <3>1. (q.front + 1) % QueueMax \in Int BY <1>1
    <3> QED BY <1>1, <1>2, <3>1
  <2>2. (r.front + (i - 1)) % QueueMax = (q.front + (i - 1) + 1) % QueueMax
    BY <2>1, <1>3
  <2>3. Contents(q)[i + 1] = q.data[(q.front + (i + 1) - 1) % QueueMax]
    BY <2>1, <1>5
  <2> QED BY <1>6, <1>7, <2>1, <2>2, <2>3
<1> HIDE DEF r
<1>9. Contents(r) = Tail(Contents(q)) BY <1>6, <1>7, <1>8, SeqEqual
<1> QED BY <1>4, <1>9 DEF r

-----------------------------------------------------------------------------
\* Numbers in the order they are made: one more, and the first of them.
LEMMA NumbersAppend ==
  ASSUME NEW n \in Nat
  PROVE  Append([i \in 1 .. n |-> i], n + 1) = [i \in 1 .. n + 1 |-> i]
<1>1. [i \in 1 .. n |-> i] \in Seq(Nat) /\ Len([i \in 1 .. n |-> i]) = n
  OBVIOUS
<1>2. [i \in 1 .. n + 1 |-> i] \in Seq(Nat) /\ Len([i \in 1 .. n + 1 |-> i]) = n + 1
  OBVIOUS
<1>3. /\ Append([i \in 1 .. n |-> i], n + 1) \in Seq(Nat)
      /\ Len(Append([i \in 1 .. n |-> i], n + 1)) = n + 1
      /\ \A k \in 1 .. n : Append([i \in 1 .. n |-> i], n + 1)[k] = k
      /\ Append([i \in 1 .. n |-> i], n + 1)[n + 1] = n + 1
  BY <1>1, AppendProperties
<1> QED BY <1>2, <1>3, SeqEqual

LEMMA Regroup == \A s, u, w \in Seq(Nat) : (s \o u) \o w = s \o (u \o w)
<1> TAKE s, u, w \in Seq(Nat)
<1> QED BY ConcatAssociative

\* Init makes the queue empty and everything else as it should be.
LEMMA InitInv == Init => Inv
<1> SUFFICES ASSUME Init PROVE Inv OBVIOUS
<1> USE QueueAssumption, SearchAssumption
<1>1. Ring(queue) /\ queue.size = 0
  <2>1. queue_init \in queue_t BY DEF queue_init, queue_t, Slots
  <2>2. (0 + 0) % QueueMax = 0 OBVIOUS
  <2> QED BY <2>1, <2>2 DEF Init, Ring, queue_init
<1>2. Contents(queue) = <<>>
  BY <1>1, ContentsSeq, EmptySeq
<1>3. [i \in 1 .. next - 1 |-> i] = <<>> BY DEF Init
<1>4. NothingSkipped BY <1>2, <1>3, ConcatEmptySeq DEF NothingSkipped, Init
<1>5. TypeOK
  <2>1. probed \in Seq(1 .. Total) BY EmptySeq DEF Init
  <2>2. since = Interval + 1 /\ Interval + 1 \in 0 .. Interval + 1 BY DEF Init
  <2>3. queue \in queue_t BY <1>1 DEF Ring
  <2>4. next \in 1 .. Total + 1 /\ endwait \in 0 .. EndWait /\ dt \in 0 .. Interval + 1
    BY DEF Init
  <2> QED BY <2>1, <2>2, <2>3, <2>4 DEF TypeOK, Init
<1> QED BY <1>1, <1>4, <1>5 DEF Inv, Init, Places, RepliesAnswer, FoundAnswered

\* Advance pushes the next address, and what is probed and queued is still all
\* that was pushed.
LEMMA AdvancePushes ==
  ASSUME Inv, next <= Total, ~Full(queue), Advance, UNCHANGED probed
  PROVE  Ring(queue') /\ next' \in 1 .. Total + 1 /\ NothingSkipped'
<1> USE QueueAssumption, SearchAssumption
<1>1. /\ next \in Nat \ {0} /\ Ring(queue) /\ probed \in Seq(Nat)
      /\ probed \o Contents(queue) = [i \in 1 .. next - 1 |-> i]
  <2>1. probed \in Seq(1 .. Total) BY DEF Inv, TypeOK
  <2>2. probed \in Seq(Nat) BY <2>1, SeqMonotonic
  <2> QED BY <2>2 DEF Inv, TypeOK, NothingSkipped
<1>2. Ring(queue') /\ Contents(queue') = Append(Contents(queue), next)
  BY <1>1, PushAppends DEF Advance
<1>3. Contents(queue) \in Seq(Nat) BY <1>1, ContentsSeq
<1>4. probed \o Append(Contents(queue), next) = Append(probed \o Contents(queue), next)
  <2>1. Append(Contents(queue), next) = Contents(queue) \o <<next>> BY <1>1, <1>3, AppendIsConcat
  <2>2. <<next>> \in Seq(Nat) BY <1>1
  <2>3. probed \o Contents(queue) \in Seq(Nat) BY <1>1, <1>3, ConcatProperties
  <2>4. (probed \o Contents(queue)) \o <<next>> = probed \o (Contents(queue) \o <<next>>)
    <3>1. probed \in Seq(Nat) BY <1>1
    <3> QED BY <3>1, <1>3, <2>2, Regroup
  <2>5. Append(probed \o Contents(queue), next) = (probed \o Contents(queue)) \o <<next>>
    <3>1. next \in Nat BY <1>1
    <3> QED BY <3>1, <2>3, AppendIsConcat, Zenon
  <2> QED BY <2>1, <2>4, <2>5
<1>5. Append([i \in 1 .. next - 1 |-> i], next) = [i \in 1 .. next |-> i]
  <2>1. next - 1 \in Nat /\ (next - 1) + 1 = next BY <1>1
  <2> QED BY <2>1, NumbersAppend
<1>6. next' = next + 1 /\ next' - 1 = next BY <1>1 DEF Advance
<1>7. NothingSkipped' BY <1>1, <1>2, <1>4, <1>5, <1>6 DEF NothingSkipped
<1> QED BY <1>1, <1>2, <1>6, <1>7

\* Send moves the oldest address of the queue to those probed.
LEMMA SendProbes ==
  ASSUME Inv, queue.size > 0, queue' = queue_pop(queue), UNCHANGED next,
         probed' = Append(probed, Contents(queue)[1])
  PROVE  /\ Ring(queue') /\ NothingSkipped' /\ probed' \in Seq(1 .. Total)
         /\ \A i \in DOMAIN probed : i \in DOMAIN probed' /\ probed'[i] = probed[i]
<1> USE QueueAssumption, SearchAssumption
<1> DEFINE c == Contents(queue)
<1>1. /\ next \in 1 .. Total + 1 /\ Ring(queue) /\ probed \in Seq(1 .. Total) /\ probed \in Seq(Nat)
      /\ probed \o c = [i \in 1 .. next - 1 |-> i]
  <2>1. probed \in Seq(1 .. Total) BY DEF Inv, TypeOK
  <2>2. probed \in Seq(Nat) BY <2>1, SeqMonotonic
  <2> QED BY <2>1, <2>2 DEF Inv, TypeOK, NothingSkipped
<1>2. Ring(queue') /\ Contents(queue') = Tail(c) BY <1>1, PopTakesFirst
<1>3. c \in Seq(Nat) /\ Len(c) = queue.size /\ queue.size \in Nat
  BY <1>1, ContentsSeq DEF Ring, queue_t
<1>4. c # <<>> /\ Len(c) > 0 BY <1>3
<1> HIDE DEF c
<1>5. c[1] \in 1 .. Total
  <2>1. /\ Len(probed \o c) = Len(probed) + Len(c)
        /\ (probed \o c)[Len(probed) + 1] = c[1]
    <3>1. probed \in Seq(Nat) /\ Len(probed) \in Nat BY <1>1
    <3>2. Len(probed) + 1 \in 1 .. Len(probed) + Len(c) BY <3>1, <1>3, <1>4
    <3>3. /\ Len(probed \o c) = Len(probed) + Len(c)
          /\ \A i \in 1 .. Len(probed) + Len(c) :
                (probed \o c)[i] = IF i <= Len(probed) THEN probed[i] ELSE c[i - Len(probed)]
      BY <3>1, <1>3, ConcatProperties
    <3>4. ~(Len(probed) + 1 <= Len(probed)) /\ (Len(probed) + 1) - Len(probed) = 1 BY <3>1
    <3> QED BY <3>2, <3>3, <3>4
  <2>2. Len([i \in 1 .. next - 1 |-> i]) = next - 1 BY <1>1
  <2>3. Len(probed) \in Nat /\ Len(probed) + 1 \in 1 .. next - 1
    BY <1>1, <1>3, <1>4, <2>1, <2>2
  <2>4. c[1] = Len(probed) + 1 BY <1>1, <2>1, <2>3
  <2> QED BY <1>1, <2>3, <2>4
<1>6. c = <<c[1]>> \o Tail(c) /\ Tail(c) \in Seq(Nat) /\ <<c[1]>> \in Seq(Nat)
  <2>1. /\ Tail(c) \in Seq(Nat) /\ Len(Tail(c)) = Len(c) - 1
        /\ \A i \in 1 .. Len(c) - 1 : Tail(c)[i] = c[i + 1]
    BY <1>3, <1>4, HeadTailProperties
  <2>2. <<c[1]>> \in Seq(Nat) /\ Len(<<c[1]>>) = 1 /\ <<c[1]>>[1] = c[1] BY <1>5
  <2>3. /\ <<c[1]>> \o Tail(c) \in Seq(Nat) /\ Len(<<c[1]>> \o Tail(c)) = Len(c)
        /\ \A i \in 1 .. Len(c) : (<<c[1]>> \o Tail(c))[i] = c[i]
    BY <2>1, <2>2, <1>3, <1>4, ConcatProperties
  <2>4. c = <<c[1]>> \o Tail(c) BY <2>3, <1>3, SeqEqual
  <2> QED BY <2>1, <2>2, <2>4
<1>7. Append(probed, c[1]) \o Tail(c) = probed \o c
  <2>1. Append(probed, c[1]) = probed \o <<c[1]>> BY <1>1, <1>5, AppendIsConcat
  <2>2. (probed \o <<c[1]>>) \o Tail(c) = probed \o (<<c[1]>> \o Tail(c))
    <3>1. probed \in Seq(Nat) BY <1>1
    <3> QED BY <3>1, <1>6, Regroup
  <2> QED BY <1>6, <2>1, <2>2
<1>8. NothingSkipped' BY <1>1, <1>2, <1>7 DEF NothingSkipped, c
<1>9. /\ probed' \in Seq(1 .. Total)
      /\ \A i \in DOMAIN probed : i \in DOMAIN probed' /\ probed'[i] = probed[i]
  BY <1>1, <1>5, AppendProperties DEF c
<1> QED BY <1>2, <1>8, <1>9

\* A step that leaves the queue and what was probed alone.
LEMMA QueueStays ==
  ASSUME Inv, UNCHANGED <<queue, next, probed>>
  PROVE  /\ Ring(queue)' /\ NothingSkipped' /\ queue' \in queue_t
         /\ next' \in 1 .. Total + 1 /\ probed' \in Seq(1 .. Total)
  BY DEF Inv, NothingSkipped, TypeOK, Ring

\* Every step keeps the invariant.
LEMMA StepInv == Inv /\ [Next]_vars => Inv'
<1> SUFFICES ASSUME Inv, [Next]_vars PROVE Inv' OBVIOUS
<1> USE QueueAssumption, SearchAssumption
<1> USE DEF vars, mainvars, limiter, turn, net
<1>1. CASE Push \/ Woken
  <2>1. next \in Nat /\ next <= Total
    BY <1>1 DEF Push, Woken, Inv, Places, TypeOK
  <2>2. CASE Full(queue)
    <3>1. UNCHANGED <<queue, next, probed>> /\ main' = "wait"
      BY <1>1, <2>2 DEF Push, Woken, MainElse
    <3> QED BY <1>1, <2>1, <3>1, QueueStays
            DEF Push, Woken, MainElse, Inv, TypeOK, Places, RepliesAnswer, FoundAnswered
  <2>3. CASE ~Full(queue)
    <3>1. Advance /\ UNCHANGED probed
      BY <1>1, <2>3 DEF Push, Woken, MainElse
    <3>2. Ring(queue') /\ next' \in 1 .. Total + 1 /\ NothingSkipped'
      BY <2>1, <2>3, <3>1, AdvancePushes
    <3>3. queue' \in queue_t BY <3>2 DEF Ring
    <3> QED BY <1>1, <3>1, <3>2, <3>3
            DEF Push, Woken, Advance, MainElse, Inv, TypeOK, Places, RepliesAnswer, FoundAnswered
  <2> QED BY <2>2, <2>3
<1>2. CASE TimesOut \/ ScanDone \/ Join
  <2>1. UNCHANGED <<queue, next, probed>>
    BY <1>2 DEF TimesOut, ScanDone, Join, MainElse
  <2> QED BY <1>2, <2>1, QueueStays
          DEF TimesOut, ScanDone, Join, MainElse, Inv, TypeOK, Places, RepliesAnswer, FoundAnswered
<1>3. CASE Limit
  <2>1. UNCHANGED <<queue, next, probed>> BY <1>3 DEF Limit
  <2> QED BY <1>3, <2>1, QueueStays
          DEF Limit, Inv, TypeOK, Places, RepliesAnswer, FoundAnswered
<1>4. CASE CountDown
  <2>1. UNCHANGED <<queue, next, probed>> BY <1>4 DEF CountDown
  <2>2. endwait' \in 0 .. EndWait BY <1>4 DEF CountDown, Inv, TypeOK, Places
  <2> QED BY <1>4, <2>1, <2>2, QueueStays
          DEF CountDown, Inv, TypeOK, Places, RepliesAnswer, FoundAnswered
<1>5. ASSUME NEW out \in BOOLEAN, Poll(out) PROVE Inv'
  <2>1. UNCHANGED <<queue, next, probed>> BY <1>5 DEF Poll
  <2>2. /\ replies' \subseteq replies
        /\ \A h \in found' : h \in found \/ \E r \in replies : r.ours /\ r.addr = h
    BY <1>5 DEF Poll, Reported
  <2>3. found' \subseteq Alive \cap {probed[i] : i \in DOMAIN probed}
    BY <2>2 DEF Inv, RepliesAnswer, FoundAnswered
  <2> QED BY <1>5, <2>1, <2>2, <2>3, QueueStays
          DEF Poll, Inv, TypeOK, Places, RepliesAnswer, FoundAnswered
<1>6. CASE Send
  <2>1. /\ Ring(queue') /\ NothingSkipped' /\ probed' \in Seq(1 .. Total)
        /\ \A i \in DOMAIN probed : i \in DOMAIN probed' /\ probed'[i] = probed[i]
    BY <1>6, SendProbes DEF Send
  <2>2. {probed[i] : i \in DOMAIN probed} \subseteq {probed'[i] : i \in DOMAIN probed'}
    BY <2>1
  <2>3. RepliesAnswer' /\ FoundAnswered'
    BY <1>6, <2>2 DEF Send, Inv, RepliesAnswer, FoundAnswered
  <2>4. queue' \in queue_t BY <2>1 DEF Ring
  <2> QED BY <1>6, <2>1, <2>3, <2>4 DEF Send, Inv, TypeOK, Places
<1>7. CASE FindsEmpty
  <2>1. UNCHANGED <<queue, next, probed>> BY <1>7 DEF FindsEmpty
  <2> QED BY <1>7, <2>1, QueueStays
          DEF FindsEmpty, Inv, TypeOK, Places, RepliesAnswer, FoundAnswered
<1>12. CASE Signal
  <2>1. UNCHANGED <<queue, next, probed>> BY <1>12 DEF Signal
  <2>2. main' = "woken" \/ main' = main BY <1>12 DEF Signal
  <2>3. thread' = "clock" /\ UNCHANGED <<scan_done, terminate, pollout, endwait, sent, dt, since, replies, found>>
    BY <1>12 DEF Signal
  <2>4. TypeOK' BY <2>1, <2>2, <2>3 DEF Inv, TypeOK
  <2>5. Places'
    <3>1. main = "wait" => main' = "woken" BY <1>12 DEF Signal
    <3> QED BY <1>12, <2>1, <2>2, <2>3, <3>1 DEF Inv, Places, Signal, TypeOK
  <2> QED BY <2>1, <2>3, <2>4, <2>5, QueueStays DEF Inv, RepliesAnswer, FoundAnswered
<1>13. CASE Clock
  <2>1. UNCHANGED <<queue, next, probed>> BY <1>13 DEF Clock
  <2>2. dt' = since /\ since' \in {0, since} BY <1>13 DEF Clock
  <2>3. since' \in 0 .. Interval + 1 /\ dt' \in 0 .. Interval + 1
    BY <2>2 DEF Inv, TypeOK
  <2>4. thread' = "top" /\ UNCHANGED <<main, scan_done, terminate, pollout, endwait, sent, replies, found>>
    BY <1>13 DEF Clock
  <2>5. TypeOK' BY <2>1, <2>3, <2>4 DEF Inv, TypeOK
  <2>6. Places' BY <1>13, <2>1, <2>4 DEF Inv, Places, Clock
  <2> QED BY <2>1, <2>4, <2>5, <2>6, QueueStays DEF Inv, RepliesAnswer, FoundAnswered
<1>8. CASE Tick
  <2>1. UNCHANGED <<queue, next, probed>> BY <1>8 DEF Tick, Outside
  <2> QED BY <1>8, <2>1, QueueStays
          DEF Tick, Outside, Inv, TypeOK, Places, RepliesAnswer, FoundAnswered
<1>9. CASE Answer
  <2>1. UNCHANGED <<queue, next, probed>> BY <1>9 DEF Answer, Outside
  <2>2. PICK i \in DOMAIN probed : /\ probed[i] \in Alive \ found
                                  /\ replies' = replies \cup {[addr |-> probed[i], ours |-> TRUE]}
    BY <1>9 DEF Answer
  <2>3. [addr |-> probed[i], ours |-> TRUE] \in [addr : 1 .. Total, ours : BOOLEAN]
    BY <2>2
  <2>4. RepliesAnswer'
    BY <2>1, <2>2 DEF Inv, RepliesAnswer
  <2>5. UNCHANGED <<main, thread, scan_done, terminate, pollout, endwait, sent, dt, since, found>>
    BY <1>9 DEF Answer, Outside
  <2>6. replies' \subseteq [addr : 1 .. Total, ours : BOOLEAN]
    BY <2>2, <2>3 DEF Inv, TypeOK
  <2>7. TypeOK' BY <2>1, <2>5, <2>6 DEF Inv, TypeOK
  <2> QED BY <2>1, <2>4, <2>5, <2>7, QueueStays DEF Inv, Places, FoundAnswered
<1>10. CASE Stray
  <2>1. UNCHANGED <<queue, next, probed>> BY <1>10 DEF Stray, Outside
  <2>2. PICK a \in 1 .. Total : replies' = {[addr |-> a, ours |-> FALSE]}
    BY <1>10 DEF Stray
  <2>3. RepliesAnswer' BY <2>2 DEF RepliesAnswer
  <2> QED BY <1>10, <2>1, <2>2, <2>3, QueueStays
          DEF Stray, Outside, Inv, TypeOK, Places, FoundAnswered
<1>11. CASE Interrupt \/ UNCHANGED vars
  <2>1. UNCHANGED <<queue, next, probed, main, thread, scan_done, pollout, endwait, sent, dt, since, replies, found>>
    BY <1>11 DEF Interrupt, Outside
  <2>2. terminate' \in BOOLEAN BY <1>11 DEF Interrupt, Inv, TypeOK
  <2>3. TypeOK' BY <2>1, <2>2 DEF Inv, TypeOK
  <2> QED BY <2>1, <2>3, QueueStays DEF Inv, Places, RepliesAnswer, FoundAnswered
<1> QED BY <1>1, <1>2, <1>3, <1>4, <1>5, <1>6, <1>7, <1>8, <1>9, <1>10, <1>11, <1>12, <1>13
        DEF Next, Main, Thread

-----------------------------------------------------------------------------
\* All variables stay in range: the size in the ring, the turns left not below
\* nothing, the addresses probed in the range that was to be searched.
THEOREM TypeCorrect == Spec => []TypeOK
<1>1. Inv => TypeOK BY DEF Inv
<1> QED BY <1>1, InitInv, StepInv, PTL DEF Spec

\* Whatever the queue's length and whichever waits time out, the addresses probed
\* and those queued are those pushed: none lost, repeated or overtaken
\* (ouiqueue_push, ouiqueue_pop and the loops around _eui64_result).
THEOREM NothingSkippedAlways == Spec => []NothingSkipped
<1>1. Inv => NothingSkipped BY DEF Inv
<1> QED BY <1>1, InitInv, StepInv, PTL DEF Spec

\* What is reported was probed and is there: replies of others are dropped, and
\* an answer waits at the socket only for an address that was probed.
THEOREM FoundAnsweredAlways == Spec => []FoundAnswered
<1>1. Inv => FoundAnswered BY DEF Inv
<1> QED BY <1>1, InitInv, StepInv, PTL DEF Spec
=============================================================================
