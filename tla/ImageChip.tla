----------------------------- MODULE ImageChip -----------------------------
(* The image filter split between a circuit and a microcontroller.  The       *)
(* circuit filters a pixel a call and, every Period frames, hands the           *)
(* microcontroller a histogram through memory they share; it gets a threshold    *)
(* back and applies it from the second frame after.  The program of cpu.c, which  *)
(* the circuit is to equal, is given the same pixels, as in tb_filter.cpp.         *)
EXTENDS ImageFilter, Sequences

CONSTANTS Period,       \* frame % 10
          Skip,         \* frames from one that main_sw.c draws to the next: 100
          MaxFrames,    \* frames drawn
          MaxSw,        \* frames main_sw.c draws
          MaxIdle,      \* calls with no pixel: the generator is paused
          MaxLapses,    \* exchanges that begin while the microcontroller is busy
          Settled,      \* exchanges kept up with that are counted
          Pictures      \* the squares drawn: side, first place, noise, zoom

VARIABLES gen,          \* the generators of the circuit and of the program
          chip, mcu,
          mem,          \* mcu_data
          cpu,          \* cpu.c
          seen,         \* the last two frames of pixels
          idle,
          lag,          \* history: how the microcontroller has kept up
          sw            \* main_sw.c, run when the others have finished

vars == <<gen, chip, mcu, mem, cpu, seen, idle, lag, sw>>

FirstCpu == [pipe |-> FirstPipe, hist |-> NoHist, threshold |-> Levels \div 2,
             new_threshold |-> Levels \div 2, frame |-> 1, pix |-> 0, out |-> 0,
             printed |-> <<>>]

Init ==
    /\ \E par \in Pictures : gen = [hw |-> FirstImage(par), sw |-> FirstImage(par), n |-> 0]
    /\ chip = [pipe |-> FirstPipe, hist |-> NoHist, threshold |-> Levels \div 2,
               new_threshold |-> [v |-> Levels \div 2, of |-> 1], age |-> 0,
               frame |-> 1, pix |-> 0, out |-> 0, state |-> <<"IDLE", 0>>]
    /\ mcu = [pc |-> "poll", hist |-> NoHist, read |-> 0, of |-> 0, printed |-> <<>>]
    /\ mem = [frame |-> 0, hist |-> NoHist, hist_done |-> FALSE, of |-> 0,
              threshold |-> [v |-> 0, of |-> 0], threshold_done |-> FALSE]
    /\ cpu = FirstCpu
    /\ seen = <<>>
    /\ idle = 0
    /\ lag = [late |-> FALSE, lapses |-> 0, awaited |-> TRUE, kept |-> Settled]
    /\ sw = [FirstCpu EXCEPT !.frame = Skip]

-----------------------------------------------------------------------------
(* The circuit.  The state of the exchange moves by one a call, and the end of a frame  *)
(* puts it anew, wherever it was and whatever the microcontroller is doing.  A threshold    *)
(* carries the frame its histogram is of: no word of that histogram is of an earlier one.     *)

Exchange(state, m) ==
    LET To(s) == <<s, 0>>
    IN CASE state[1] = "WR_HIST" -> IF state[2] < MaxPixel THEN <<"WR_HIST", state[2] + 1>>
                                    ELSE To("WR_HIST_DONE")
         [] state[1] = "WR_HIST_DONE" -> To("RD_THRESHOLD_1")
         [] state[1] = "RD_THRESHOLD_1" -> IF m.threshold_done THEN To("RD_THRESHOLD_2") ELSE state
         [] state[1] = "RD_THRESHOLD_2" -> To("RD_THRESHOLD_3")
         [] state[1] \in {"RD_THRESHOLD_3", "WR_FRAME"} -> To("IDLE")
         [] state[1] = "WR_FRAME_HIST" -> To("WR_HIST")
         [] state[1] = "IDLE" -> state

ExchangeMem(c) ==
    CASE c.state[1] = "WR_HIST" -> [mem EXCEPT !.hist[c.state[2]] = c.hist[c.state[2]],
                                               !.of = IF c.state[2] = MaxPixel THEN c.frame ELSE @]
      [] c.state[1] = "WR_HIST_DONE" -> [mem EXCEPT !.hist_done = TRUE]
      [] c.state[1] = "RD_THRESHOLD_3" -> [mem EXCEPT !.threshold_done = FALSE]
      [] c.state[1] \in {"WR_FRAME", "WR_FRAME_HIST"} -> [mem EXCEPT !.frame = c.frame]
      [] OTHER -> mem

ExchangeChip(c) ==
    [c EXCEPT !.state = Exchange(@, mem),
              !.hist = IF c.state[1] = "WR_HIST" THEN [@ EXCEPT ![c.state[2]] = 0] ELSE @,
              !.new_threshold = IF c.state[1] = "RD_THRESHOLD_2"
                                THEN [mem.threshold EXCEPT !.v = @ % Levels] ELSE @]

(* The window of the circuit: filter.cpp has the text of cpu.c, with widths enough.       *)
FilterInput(p, din) == system_input(p, din)

FilterPixel(c, din) ==
    LET in == FilterInput(c.pipe, din)
        pix == median_network(in.window)
        fresh == c.frame % Period = 1
    IN IF ~in.vld THEN [c EXCEPT !.pipe = in.pipe]
       ELSE LET c1 == [c EXCEPT !.pipe = in.pipe, !.pix = pix,
                                !.hist = IF c.frame % Period = 0 THEN [@ EXCEPT ![pix] = @ + 1] ELSE @,
                                !.out = thresholding(pix, c.threshold)]
            IN IF ~in.last THEN c1
               ELSE [c1 EXCEPT !.frame = @ + 1,
                               !.threshold = IF fresh THEN c.new_threshold.v ELSE @,
                               !.age = IF fresh THEN c.frame - c.new_threshold.of ELSE @,
                               !.state = IF c.frame % Period = 0 THEN <<"WR_FRAME_HIST", 0>>
                                         ELSE <<"WR_FRAME", 0>>]

-----------------------------------------------------------------------------
(* The program of cpu.c, which counts frames by one and prints those divisible by prints.   *)

pixel_processing(p, din, frames, prints) ==
    LET in == system_input(p.pipe, din)
        pix == median_select(in.window)
        counted == IF p.frame % Period = 0 THEN [p.hist EXCEPT ![pix] = @ + 1] ELSE p.hist
        p1 == [p EXCEPT !.pipe = in.pipe, !.pix = pix, !.hist = counted,
                        !.out = thresholding(pix, p.threshold)]
    IN IF ~in.vld THEN [p EXCEPT !.pipe = in.pipe]
       ELSE IF ~in.last THEN p1
       ELSE IF p.frame % Period = 0
       THEN [p1 EXCEPT !.new_threshold = otsu(counted), !.hist = NoHist, !.frame = @ + frames,
                       !.printed = IF p.frame % prints = 0
                                   THEN Append(@, <<p.frame, otsu(counted), counted>>) ELSE @]
       ELSE IF p.frame % Period = 1
       THEN [p1 EXCEPT !.threshold = p.new_threshold, !.frame = @ + frames]
       ELSE [p1 EXCEPT !.frame = @ + frames]

(* main_sw.c has the text of cpu.c, but for the frames and what it prints.                  *)
SwProcess(p, din) == pixel_processing(p, din, Skip, Skip)

-----------------------------------------------------------------------------
(* How the microcontroller keeps up, which nothing in the program reads: late, once an       *)
(* exchange has not been over by the end of its frame; awaited, when the microcontroller was    *)
(* waiting as the last exchange began; kept, such exchanges in a row, counted up to Settled at    *)
(* the ends of their frames; lapses, the others, in which the circuit writes its histogram all      *)
(* the same.  That there are MaxLapses of them in a run is a bound.                                    *)
Waiting == mcu.pc = "poll" /\ ~mem.hist_done
Begins == chip.state[1] = "WR_FRAME_HIST"
WithinBound == Begins /\ ~Waiting => lag.lapses < MaxLapses

Lag(c) ==
    LET ends == c.frame > chip.frame /\ chip.frame % Period = 1 /\ chip.frame > Period
        lapse == Begins /\ ~Waiting
    IN [late |-> lag.late \/ (ends /\ ExchangeChip(chip).state[1] # "IDLE"),
        lapses |-> lag.lapses + (IF lapse THEN 1 ELSE 0),
        awaited |-> IF Begins THEN Waiting ELSE lag.awaited,
        kept |-> IF lapse THEN 0
                 ELSE IF ends /\ lag.awaited THEN Min({lag.kept + 1, Settled})
                 ELSE lag.kept]

Finished == gen.n = MaxFrames * Rows * Cols
Drawing == gen.n \in 0 .. MaxFrames * Rows * Cols - 1

(* One call of filter with a pixel, and the same pixel for the program.                           *)
Pixel ==
    /\ Drawing
    /\ WithinBound
    /\ LET hw == genpix(gen.hw)
           s == gen_pixel(gen.sw)
       IN /\ gen' = [hw |-> hw.gen, sw |-> s.gen, n |-> gen.n + 1]
          /\ chip' = FilterPixel(ExchangeChip(chip), hw.pixel)
          /\ lag' = Lag(chip')
          /\ cpu' = pixel_processing(cpu, s.pixel, 1, Period)
          /\ seen' = (IF gen.n < 2 * Rows * Cols THEN seen ELSE Tail(seen)) \o <<s.pixel>>
    /\ mem' = ExchangeMem(chip)
    /\ UNCHANGED <<mcu, idle, sw>>

(* A call with no pixel: the exchange goes on.                                                    *)
NoPixel ==
    /\ Drawing
    /\ WithinBound
    /\ idle < MaxIdle
    /\ chip.state[1] # "IDLE"
    /\ idle' = idle + 1
    /\ chip' = ExchangeChip(chip)
    /\ mem' = ExchangeMem(chip)
    /\ lag' = Lag(chip)
    /\ UNCHANGED <<gen, mcu, cpu, seen, sw>>

-----------------------------------------------------------------------------
(* The microcontroller: each access to the memory is a transfer of its own.                        *)

McuPoll ==
    /\ mcu.pc = "poll"
    /\ mem.hist_done
    /\ mcu' = [mcu EXCEPT !.pc = "read", !.read = 0]
    /\ UNCHANGED <<gen, chip, mem, cpu, seen, idle, lag, sw>>

McuRead ==
    /\ mcu.pc = "read"
    /\ mcu' = [mcu EXCEPT !.hist[mcu.read] = mem.hist[mcu.read], !.read = (@ + 1) % Levels,
                          !.of = IF mcu.read = 0 THEN mem.of ELSE @,
                          !.pc = IF mcu.read = MaxPixel THEN "taken" ELSE @]
    /\ UNCHANGED <<gen, chip, mem, cpu, seen, idle, lag, sw>>

McuWrites(pc, next, m) ==
    /\ mcu.pc = pc
    /\ mem' = m
    /\ mcu' = [mcu EXCEPT !.pc = next]
    /\ UNCHANGED <<gen, chip, cpu, seen, idle, lag, sw>>

McuTaken == McuWrites("taken", "threshold", [mem EXCEPT !.hist_done = FALSE])
McuThreshold ==
    McuWrites("threshold", "done", [mem EXCEPT !.threshold = [v |-> otsu(mcu.hist), of |-> mcu.of]])
McuDone == McuWrites("done", "report", [mem EXCEPT !.threshold_done = TRUE])

McuReport ==
    /\ mcu.pc = "report"
    /\ mcu' = [mcu EXCEPT !.pc = "poll",
                          !.printed = IF mem.frame % Skip = 1
                                      THEN Append(@, [line |-> <<mem.frame - 1, otsu(mcu.hist), mcu.hist>>,
                                                      awaited |-> lag.awaited]) ELSE @]
    /\ UNCHANGED <<gen, chip, mem, cpu, seen, idle, lag, sw>>

-----------------------------------------------------------------------------
(* The program for the microcontroller alone, from the start of the picture.                           *)
SwStart ==
    /\ Finished
    /\ Waiting
    /\ gen' = [gen EXCEPT !.n = -1, !.sw = SkipFrames(FirstImage(gen.sw.par), Skip - 1)]
    /\ UNCHANGED <<chip, mcu, mem, cpu, seen, idle, lag, sw>>

SwPixel ==
    /\ gen.n < 0
    /\ -gen.n <= MaxSw * Rows * Cols
    /\ LET s == gen_pixel(gen.sw)
           ends == (-gen.n) % (Rows * Cols) = 0
       IN /\ sw' = SwProcess(sw, s.pixel)
          /\ gen' = [gen EXCEPT !.n = @ - 1, !.sw = IF ends THEN SkipFrames(s.gen, Skip - 1) ELSE s.gen]
    /\ UNCHANGED <<chip, mcu, mem, cpu, seen, idle, lag>>

Next == Pixel \/ NoPixel \/ McuPoll \/ McuRead \/ McuTaken \/ McuThreshold \/ McuDone \/ McuReport
        \/ SwStart \/ SwPixel
Spec == Init /\ [][Next]_vars

-----------------------------------------------------------------------------
(* The pixel filtered last is the median of the nine about it in its frame, the edge          *)
(* repeated beyond the edge, and the circuit, which draws in few bits and sorts in a network,    *)
(* has the one the program has (system_input, clip_window, median, genpix).                       *)
MedianOfNine ==
    LET out == gen.n - Cols - 2
        start == out - (out % (Rows * Cols))
        Within(x, n) == Max({0, Min({x, n - 1})})
        At(r, c) == seen[start + Within(r, Rows) * Cols + Within(c, Cols) + 1 - (gen.n - Len(seen))]
        r0 == (out % (Rows * Cols)) \div Cols
        c0 == out % Cols
        Near == {<<dr, dc>> : dr \in -1..1, dc \in -1..1}
        Below(v) == Cardinality({d \in Near : At(r0 + d[1], c0 + d[2]) < v})
        UpTo(v) == Cardinality({d \in Near : At(r0 + d[1], c0 + d[2]) <= v})
    IN out >= 0 => /\ chip.pix = cpu.pix
                   /\ Below(cpu.pix) <= 4
                   /\ UpTo(cpu.pix) >= 5

(* While every exchange is over in its frame, the circuit shows what the program shows           *)
(* (tb_filter.cpp, the comparison of pix_out_hw with pix_out_sw).                                    *)
ShowsAsCpu == ~lag.late => chip.out = cpu.out

(* The microcontroller may fall behind by any time, read a histogram while the next is written    *)
(* over it, and its answer may be left over for a later exchange, or lost as the circuit clears      *)
(* the flag.  Once it has waited for Settled exchanges in a row, though, the threshold applied is        *)
(* again of one of the last three (RD_THRESHOLD of filter.cpp and the flags of main_swhw.c's main).         *)
ThresholdNotStale == lag.kept = Settled => chip.age <= 2 * Period

(* What the microcontroller prints of a frame in an exchange it has waited for, and what it           *)
(* prints alone, is what the program prints of it: the frame is that of the histogram, and the            *)
(* histogram whole (print_results; gen_pixel's frame_inc of main_sw.c).                                      *)
PrintsAsCpu ==
    \A x \in {r.line : r \in {r \in ToSet(mcu.printed) : r.awaited}} \union ToSet(sw.printed) :
        x \in ToSet(cpu.printed)
=============================================================================
