-------------------------- MODULE TextCompression --------------------------
(* The compression of text by repeated blocks (proj1.c,                        *)
(* proj1circularbuffer.c): of two neighbouring blocks that are the same the       *)
(* first is written with their number before it, of two that differ one             *)
(* character, and the blocks move by one.                                            *)
EXTENDS Integers, Sequences, SequencesExt

CONSTANTS Texts, Blocks,    \* what is compressed, by blocks of how many characters
          RepeatMax         \* REPEAT_MAX: 9

VARIABLES text, lBlock,
          c,                \* compress
          d                 \* decompress of what it wrote

vars == <<text, lBlock, c, d>>

Digits == <<"1", "2", "3", "4", "5", "6", "7", "8", "9">>
isdigit(ch) == ch \in ToSet(Digits)
isspace(ch) == ch = "eol"
isprint(ch) == ~isspace(ch)

-----------------------------------------------------------------------------
(* A circular buffer: the places of the first and of the last character, or none.   *)

NULL == -1
cb_init(n) == [buf |-> [q \in 0 .. n - 1 |-> "?"], start |-> NULL, end |-> NULL]
size_max(b) == lBlock
cb_count(b) ==
    IF b.start = NULL THEN 0
    ELSE IF b.start <= b.end THEN 1 + b.end - b.start
    ELSE 1 + size_max(b) - (b.start - b.end)
cb_clear(b) == [b EXCEPT !.start = NULL, !.end = NULL]
cb_peek(b, n) == b.buf[(b.start + n) % size_max(b)]
cb_text(b) == [n \in 1 .. cb_count(b) |-> cb_peek(b, n - 1)]
cb_compare(b1, b2) == cb_count(b1) > 0 /\ cb_text(b1) = cb_text(b2)
cb_push_back(b, ch) ==
    IF cb_count(b) >= size_max(b) THEN b
    ELSE LET end == IF b.start = NULL \/ b.end >= size_max(b) - 1 THEN 0 ELSE b.end + 1
         IN [b EXCEPT !.end = end, !.start = IF @ = NULL THEN 0 ELSE @, !.buf[end] = ch]
cb_pop_front(b) ==
    IF b.start = b.end THEN cb_clear(b)
    ELSE [b EXCEPT !.start = IF @ >= size_max(b) - 1 THEN 0 ELSE @ + 1]

(* Reads until the buffer is full or the text ends; a digit is refused.                *)
cb_read(b, pos) ==
    LET one(r, n) ==
            IF ~r.ok \/ r.eof THEN r
            ELSE IF r.pos > Len(text) THEN [r EXCEPT !.eof = TRUE]
            ELSE IF isdigit(text[r.pos]) THEN [r EXCEPT !.ok = FALSE, !.pos = @ + 1]
            ELSE [r EXCEPT !.b = cb_push_back(@, text[r.pos]), !.pos = @ + 1]
    IN FoldLeft(one, [b |-> b, pos |-> pos, ok |-> TRUE, eof |-> FALSE],
                [n \in 1 .. size_max(b) - cb_count(b) |-> n])

-----------------------------------------------------------------------------
Init ==
    /\ text \in Texts
    /\ lBlock \in Blocks
    /\ c = [at |-> "fill", buf |-> cb_init(lBlock), buf2 |-> cb_init(lBlock), pos |-> 1,
            eof |-> FALSE, repeat |-> 1, out |-> <<>>]
    /\ d = [at |-> "read", pos |-> 1, out |-> <<>>]

Flush(x) == [x EXCEPT !.at = "ok", !.out = @ \o cb_text(x.buf) \o cb_text(x.buf2)]

(* The two buffers are filled; at the end of the text what they hold is written.         *)
Fill ==
    /\ c.at = "fill"
    /\ LET r1 == cb_read(c.buf, c.pos)
           r2 == cb_read(c.buf2, r1.pos)
       IN c' = IF ~r1.ok THEN [c EXCEPT !.at = "refused"]
               ELSE IF r1.eof THEN Flush([c EXCEPT !.buf = r1.b])
               ELSE IF ~r2.ok THEN [c EXCEPT !.at = "refused"]
               ELSE IF r2.eof THEN Flush([c EXCEPT !.buf = r1.b, !.buf2 = r2.b])
               ELSE [c EXCEPT !.at = "count", !.buf = r1.b, !.buf2 = r2.b, !.pos = r2.pos, !.repeat = 1]
    /\ UNCHANGED <<text, lBlock, d>>

Repeats == ~c.eof /\ c.repeat < RepeatMax /\ cb_compare(c.buf, c.buf2)

CountRepeat ==
    /\ c.at = "count"
    /\ Repeats
    /\ LET r == cb_read(cb_clear(c.buf2), c.pos)
       IN c' = IF ~r.ok THEN [c EXCEPT !.at = "refused"]
               ELSE [c EXCEPT !.buf2 = r.b, !.pos = r.pos, !.eof = r.eof, !.repeat = @ + 1]
    /\ UNCHANGED <<text, lBlock, d>>

(* Mutant of WriteRepeat: what was read past the last repetition is not kept.                *)
WriteRepeatClear ==
    /\ c.at = "count"
    /\ ~Repeats
    /\ c.repeat > 1
    /\ LET w == [c EXCEPT !.out = Append(@, Digits[c.repeat]) \o cb_text(c.buf), !.buf = cb_clear(@)]
       IN c' = IF c.eof THEN Flush(w)
               ELSE [w EXCEPT !.at = "fill", !.buf2 = cb_clear(@)]
    /\ UNCHANGED <<text, lBlock, d>>

WriteRepeat ==
    /\ c.at = "count"
    /\ ~Repeats
    /\ c.repeat > 1
    /\ LET w == [c EXCEPT !.out = Append(@, Digits[c.repeat]) \o cb_text(c.buf), !.buf = cb_clear(@)]
       IN c' = IF c.eof THEN Flush(w)
               ELSE [w EXCEPT !.at = "fill", !.buf = c.buf2, !.buf2 = cb_clear(w.buf)]
    /\ UNCHANGED <<text, lBlock, d>>
WriteOne ==
    /\ c.at = "count"
    /\ ~Repeats
    /\ c.repeat = 1
    /\ c' = [c EXCEPT !.at = "fill",
                      !.out = Append(@, cb_peek(c.buf, 0)),
                      !.buf = cb_push_back(cb_pop_front(@), cb_peek(c.buf2, 0)),
                      !.buf2 = cb_pop_front(@)]
    /\ UNCHANGED <<text, lBlock, d>>

-----------------------------------------------------------------------------
(* A digit from two on says how many times the block after it is written.  A block has       *)
(* no line ends in it, though compress may have put them there.                                 *)
Decompress ==
    /\ c.at = "ok"
    /\ d.at = "read"
    /\ IF d.pos > Len(c.out) THEN d' = [d EXCEPT !.at = "ok"]
       ELSE IF isdigit(c.out[d.pos])
       THEN LET repeat == CHOOSE n \in DOMAIN Digits : Digits[n] = c.out[d.pos]
                block == SubSeq(c.out, d.pos + 1, d.pos + lBlock)
            IN d' = IF /\ repeat \in 2..RepeatMax
                       /\ d.pos + lBlock <= Len(c.out)
                       /\ \A n \in DOMAIN block : isprint(block[n]) /\ ~isdigit(block[n])
                    THEN [d EXCEPT !.pos = @ + 1 + lBlock,
                                   !.out = @ \o FlattenSeq([n \in 1..repeat |-> block])]
                    ELSE [d EXCEPT !.at = "refused"]
       ELSE d' = [d EXCEPT !.pos = @ + 1, !.out = Append(@, c.out[d.pos])]
    /\ UNCHANGED <<text, lBlock, c>>

Next == Fill \/ CountRepeat \/ WriteRepeat \/ WriteOne \/ Decompress
Spec == Init /\ [][Next]_vars

-----------------------------------------------------------------------------
(* A text without digits is compressed to no more than it was, and comes back from it; one      *)
(* with line ends comes back or is refused, one with digits is not compressed (compress,             *)
(* decompress).                                                                                        *)
TextComesBack ==
    /\ c.at = "ok" => Len(c.out) <= Len(text) /\ \A n \in DOMAIN text : ~isdigit(text[n])
    /\ d.at = "ok" => d.out = text
    /\ d.at = "refused" => \E n \in DOMAIN text : isspace(text[n])
    /\ c.at = "refused" => \E n \in DOMAIN text : isdigit(text[n])
=============================================================================
