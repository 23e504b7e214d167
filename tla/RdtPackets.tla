---------------------------- MODULE RdtPackets ----------------------------
(***************************************************************************)
(* The packets of the reliable transfer protocol of rdt.c, and the test    *)
(* by which the server decides whether a sequence number is in its window. *)
(*                                                                         *)
(* A packet carries a flag (SYN, FIN, or neither: DATA), a 16-bit sequence *)
(* number and, for DATA, one chunk of the client's input.  Chunks are      *)
(* named by their position in the input, 1, 2, ...; 0 means "no data".     *)
(* An acknowledgement carries the ACK number and the WND advertisement.    *)
(* sent_times, which the client counts in its packet structure, is not     *)
(* transmitted; in the model it tells the copies of a datagram apart.      *)
(***************************************************************************)
EXTENDS Integers

CONSTANTS
  SeqSpace,       \* number of sequence numbers: 2^16 in the code
  InitSeq,      \* the sequence number the client draws for its SYN
  WindowSize,   \* WINDOW_SIZE of the server (5 in the code)
  Chunks,       \* number of chunks in the client's input
  MaxResend,    \* RDT_PACKET_RESEND_TIMES (15 in the code)
  Late          \* kinds of packets whose copies may outlive the resend timer

Kinds == {"SYN", "DATA", "FIN"}

ASSUME SeqAssumption ==
  /\ WindowSize \in Nat \ {0} /\ WindowSize < 128
  /\ SeqSpace \in Nat /\ SeqSpace > 2 * WindowSize
  /\ InitSeq \in 0 .. SeqSpace - 1

ASSUME TransferAssumption ==
  /\ Chunks \in Nat
  /\ MaxResend \in Nat
  /\ Late \subseteq Kinds

Byte    == 0 .. 255
SeqNums == 0 .. SeqSpace - 1
Packet  == [kind : Kinds, seq : SeqNums, idx : 0 .. Chunks, sent_times : 0 .. MaxResend]
Ack     == [ack : SeqNums, wnd : Byte, sent_times : 0 .. MaxResend]

\* uint16_t increment
Succ(s) == (s + 1) % SeqSpace

\* The whole input as the receiver should see it.
Input == [i \in 1 .. Chunks |-> i]

-----------------------------------------------------------------------------
(***************************************************************************)
(* rdt_server_step's window test, with its two special cases at the ends   *)
(* of the number range.  The overflow case is tried first, as in the code. *)
(***************************************************************************)
Underflow(next) == next < WindowSize
Overflow(next)  == next > SeqSpace - 1 - WindowSize

InRange(seq, next) ==
  LET max == SeqSpace - 1 IN
  IF ~Underflow(next) /\ ~Overflow(next)
    THEN seq >= next - WindowSize /\ seq < next + WindowSize
  ELSE IF Overflow(next)
    THEN ~( /\ seq >= WindowSize - (max - next) - 1
            /\ seq <= next - WindowSize )
    ELSE ~( /\ seq >= next + WindowSize
            /\ seq <= max - WindowSize + next )
=============================================================================
