---------------------------- MODULE ImageFilter ----------------------------
(* The image filter in its three forms: the program (cpu/cpu.c), the circuit  *)
(* (fpga/src_filter/filter.cpp, fpga/src_genpix/genpix.cpp) and the program     *)
(* for the microcontroller alone (mcu/main_sw.c).  A frame has Rows x Cols pixels *)
(* of Levels values; the text of the pipeline is the same in the three but for    *)
(* the median, and it is stated once, for the circuit.                             *)
EXTENDS Integers, FiniteSets, FiniteSetsExt, SequencesExt

CONSTANTS Rows, Cols,
          Levels,       \* PIXELS, a power of two
          PosMod,       \* t_pix_pos: 512
          IntMod,       \* unsigned int of the programs
          FrameShift    \* frame_cnt >> 3

MaxPixel == Levels - 1
Blank == [k \in 0..8 |-> 0]
NoHist == [v \in 0..MaxPixel |-> 0]

-----------------------------------------------------------------------------
(* The picture: a square of side par.size that moves by one pixel a frame and    *)
(* turns at the edges, with a bright pixel every par.noise pixels.                 *)

FirstImage(par) ==
    [par |-> par, r |-> 0, c |-> 0, base |-> par.base, inc |-> <<1, 1>>, noise |-> 0, frame |-> 0]

Turn(base, inc, far) == IF base = far THEN -1 ELSE IF base = 0 THEN 1 ELSE inc
update_base_pos(g) ==
    LET inc == <<Turn(g.base[1], g.inc[1], Rows - g.par.size), Turn(g.base[2], g.inc[2], Cols - g.par.size)>>
    IN [g EXCEPT !.inc = inc, !.base = <<g.base[1] + inc[1], g.base[2] + inc[2]>>]

Shade(g, mod) ==
    LET dr == (g.r - g.base[1]) % mod
        dc == (g.c - g.base[2]) % mod
        far == IF dr > dc THEN dr ELSE dc
        diff == MaxPixel - ((far \div 2 ^ g.par.zoom) % Levels)
        lit == diff + ((g.frame \div 2 ^ FrameShift) % Levels)
    IN IF g.noise = g.par.noise - 1 THEN MaxPixel
       ELSE IF dc < g.par.size /\ dr < g.par.size THEN Min({lit, MaxPixel})
       ELSE 0

Advance(g, frames) ==
    LET noise == IF g.noise = g.par.noise - 1 THEN 0 ELSE g.noise + 1
        g1 == [g EXCEPT !.noise = noise]
    IN IF g.c < Cols - 1 THEN [g1 EXCEPT !.c = @ + 1]
       ELSE IF g.r < Rows - 1 THEN [g1 EXCEPT !.c = 0, !.r = @ + 1]
       ELSE [update_base_pos(g1) EXCEPT !.c = 0, !.r = 0, !.frame = (@ + 1) % frames]

(* The circuit counts in few bits: positions in t_pix_pos, frames in six.          *)
genpix(g) == [pixel |-> Shade(g, PosMod), gen |-> Advance(g, Levels * 2 ^ FrameShift)]
gen_pixel(g) == [pixel |-> Shade(g, IntMod), gen |-> Advance(g, IntMod)]

(* The microcontroller is slow: it draws one frame and skips the next frame_inc.    *)
SkipFrames(g, frame_inc) ==
    LET moved == FoldLeftDomain(LAMBDA x, n : update_base_pos(x), g, [n \in 1..frame_inc |-> n])
    IN [moved EXCEPT !.noise = (@ + Rows * Cols * frame_inc) % g.par.noise, !.frame = @ + frame_inc]

-----------------------------------------------------------------------------
(* Two rows are kept; a pixel comes out one row and one column after it came in.    *)

FirstPipe ==
    [r |-> 0, c |-> 0, r_filter |-> 0, c_filter |-> 0, output_vld |-> FALSE, sel |-> 1,
     buf |-> [b \in 0..1 |-> [x \in 0 .. Cols - 1 |-> 0]], window |-> Blank]

(* The new column of the window: the pixels two rows above, one above, and din.      *)
buffer(p, din) ==
    LET sel == IF p.c = 0 THEN 1 - p.sel ELSE p.sel
    IN [pipe |-> [p EXCEPT !.sel = sel, !.buf[sel][p.c] = din],
        col |-> [q \in 0..2 |-> CASE q = 0 -> p.buf[sel][p.c]
                                  [] q = 1 -> p.buf[1 - sel][p.c]
                                  [] q = 2 -> din]]

shift_window(w, col) == [k \in 0..8 |-> IF k < 6 THEN w[k + 3] ELSE col[k - 6]]

(* A place beyond the edge of the frame has the value of the nearest within.          *)
clip_window(r, c, w) ==
    LET across == [x \in 0..2 |-> IF (x = 0 /\ c = 0) \/ (x = 2 /\ c = Cols - 1) THEN 1 ELSE x]
        down == [y \in 0..2 |-> IF (y = 0 /\ r = 0) \/ (y = 2 /\ r = Rows - 1) THEN 1 ELSE y]
    IN [k \in 0..8 |-> w[3 * across[k \div 3] + down[k % 3]]]

(* Mutant of system_input: the row of the output counts before there is an output.     *)
SystemInputEager(p, din) ==
    LET b == buffer(p, din)
        w == shift_window(p.window, b.col)
        vld == p.output_vld \/ (p.r = 1 /\ p.c = 1)
    IN [vld |-> vld,
        window |-> clip_window(p.r_filter, p.c_filter, w),
        last |-> p.r_filter = Rows - 1 /\ p.c_filter = Cols - 1,
        pipe |-> [b.pipe EXCEPT
            !.window = w, !.output_vld = vld,
            !.r_filter = IF p.c_filter = Cols - 1 THEN (@ + 1) % Rows ELSE @,
            !.c_filter = p.c,
            !.c = (@ + 1) % Cols,
            !.r = IF p.c = Cols - 1 THEN (@ + 1) % Rows ELSE @]]

(* The filtered pixel is a row and a column behind the one that came.                    *)
system_input(p, din) ==
    LET b == buffer(p, din)
        w == shift_window(p.window, b.col)
        vld == p.output_vld \/ (p.r = 1 /\ p.c = 1)
    IN [vld |-> vld,
        window |-> clip_window(p.r_filter, p.c_filter, w),
        last |-> p.r_filter = Rows - 1 /\ p.c_filter = Cols - 1,
        pipe |-> [b.pipe EXCEPT
            !.window = w, !.output_vld = vld,
            !.r_filter = IF p.c_filter = Cols - 1 /\ vld THEN (@ + 1) % Rows ELSE @,
            !.c_filter = p.c,
            !.c = (@ + 1) % Cols,
            !.r = IF p.c = Cols - 1 THEN (@ + 1) % Rows ELSE @]]
-----------------------------------------------------------------------------
(* The circuit sorts ten values by comparing neighbours, five rounds of two; the        *)
(* programs take the greatest away four times.                                             *)

median_network(w) ==
    LET place == <<1, 3, 5, 7, 9, 2, 4, 6, 8>>
        Order(m, k) == IF m[k] < m[k + 1] THEN m ELSE [m EXCEPT ![k] = m[k + 1], ![k + 1] = m[k]]
        sorted[n \in 0..45] == IF n = 0 THEN <<w[0], w[1], w[2], w[3], w[4], w[5], w[6], w[7], w[8], 0>>
                               ELSE Order(sorted[n - 1], place[((n - 1) % 9) + 1])
    IN sorted[45][6]

median_select(w) ==
    LET First(R, j) == CHOOSE x \in j..8 : /\ \A y \in j..8 : R[y] <= R[x]
                                           /\ \A y \in j .. x - 1 : R[y] < R[x]
        taken[j \in 0..4] == IF j = 0 THEN w
                             ELSE LET R == taken[j - 1] IN [R EXCEPT ![First(R, j - 1)] = R[j - 1]]
    IN taken[4][First(taken[4], 4)]

thresholding(pixel, threshold) == IF pixel >= threshold THEN MaxPixel ELSE 0

(* Otsu's threshold: the split of the histogram with the greatest variance between its   *)
(* two parts, the first one of equal ones.  The variance is a fraction here.                *)
otsu(hist) ==
    LET Weight(t) == MapThenSumSet(LAMBDA v : hist[v], 0..t)
        Moment(t) == MapThenSumSet(LAMBDA v : v * hist[v], 0..t)
        total == Weight(MaxPixel)
        sum == Moment(MaxPixel)
        Splits == {t \in 0..MaxPixel : Weight(t) > 0 /\ Weight(t) < total}
        Num(t) == (Moment(t) * (total - Weight(t)) - (sum - Moment(t)) * Weight(t)) ^ 2
        Den(t) == Weight(t) * (total - Weight(t))
        Best == {t \in Splits : Num(t) > 0 /\ \A s \in Splits : Num(s) * Den(t) <= Num(t) * Den(s)}
    IN IF Best = {} THEN 0 ELSE Min(Best) + 1
=============================================================================
