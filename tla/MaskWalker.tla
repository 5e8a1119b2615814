----------------------------- MODULE MaskWalker -----------------------------
(***************************************************************************)
(* The mask scanner of the fast pretokenizers (fast/mask.rs): a pull       *)
(* iterator over the pretokens of a text.  Batches of w bytes are turned   *)
(* into boundary masks; trusted bits become token ends at once, and the    *)
(* bytes a batch cannot decide are walked with the scheme's scalar         *)
(* `advance`.  The caller pulls one span (next_span), pulls a chunk of     *)
(* spans (fill_spans_two_phase), or builds a new scanner at the offset     *)
(* where it stopped (with_pos), in any order.                              *)
(*                                                                         *)
(* A machine without the SIMD tiers walks every token scalar.              *)
(***************************************************************************)
EXTENDS PretokenMasksO200k, PretokenRegex

CONSTANTS
    Inputs,       \* the contexts to walk: the text t, the batch width w, the scheme (k, p),
                  \* simd_scanner_available(), and whether the caller restarts
    CHUNK,        \* PRETOKEN_CHUNK: spans of one fill (256)
    RELMAX        \* u16::MAX: the largest offset the boundary buffer holds

ASSUME WalkerAssumption == CHUNK \in Nat \ {0} /\ RELMAX \in Nat /\ LOOK \in Nat /\ WALKBACK \in Nat

VARIABLES
    x,       \* the input, the scheme and the machine
    m,       \* MaskState
    asked,   \* how many spans the last call was asked for
    out,     \* what it returned: the ends of its spans, in order
    from,    \* where the first of them starts
    peak     \* the boundary buffer's highest cursor in the last fill

vars == <<x, m, asked, out, from, peak>>

UsizeMax == 9999

\* simd_scanner_available: what the CPU detection found, fixed for the process.
SimdScannerAvailable == x.simd

NewMaskState(pos) ==
    [pos |-> pos, scan |-> pos, base |-> pos, rem |-> {}, usable |-> {}, bad |-> {},
     until |-> IF SimdScannerAvailable THEN pos ELSE UsizeMax, preBase |-> UsizeMax,
     preMasks |-> [usable |-> {}, bad |-> {}]]

(***************************************************************************)
(* load_segment: the trusted bits from `bit` up to the next bad one, and   *)
(* the trusted boundary at which the scalar walk may stop.                 *)
(***************************************************************************)
LoadSegment(s, bit) ==
    LET segBad == s.bad \cap From(x, bit)
        live   == s.usable \cap From(x, bit)
        nb     == Lowest(segBad)
        rest   == s.usable \cap From(x, nb)
        seg    == IF segBad = {} THEN [s EXCEPT !.rem = live, !.bad = {}]
                  ELSE [s EXCEPT !.rem = {i \in live : i < nb},
                                 !.until = s.base + (IF rest = {} THEN x.w ELSE Lowest(rest))]
    IN  IF s.pos = s.base + bit THEN [seg EXCEPT !.rem = @ \ {bit}] ELSE seg

\* Skip the batches behind pos without leaving the grid.
GridScan(scan, pos) == IF pos >= scan + x.w THEN scan + x.w * ((pos - scan) \div x.w) ELSE scan

Refill(s) ==
    LET scan  == GridScan(s.scan, s.pos)
        next  == scan + x.w
        ahead == next + x.w <= Len0(x)
        load(masks) ==
          LoadSegment([s EXCEPT !.base = scan, !.scan = next, !.usable = masks.usable, !.bad = masks.bad,
                                !.preBase = IF ahead THEN next ELSE UsizeMax,
                                !.preMasks = IF ahead THEN BatchMasks(x, next) ELSE @],
                      IF s.pos > scan THEN s.pos - scan ELSE 0)
    IN  IF next > Len0(x) THEN [s EXCEPT !.bad = {}, !.scan = scan, !.until = UsizeMax]
        ELSE load(IF s.preBase = scan THEN s.preMasks ELSE BatchMasks(x, scan))

\* next_span: the state after the call; the token is from the old pos to
\* the new one, and there is none when they are equal.
RECURSIVE NextSpan(_)
NextSpan(s) ==
    IF s.rem # {} THEN [s EXCEPT !.pos = s.base + Lowest(s.rem), !.rem = @ \ {Lowest(s.rem)}]
    ELSE IF s.pos < s.until
    THEN IF s.pos >= Len0(x) THEN s ELSE [s EXCEPT !.pos = Advance(x, s.pos)]
    ELSE IF s.bad # {} /\ s.pos < s.base + x.w THEN NextSpan(LoadSegment(s, s.pos - s.base))
    ELSE NextSpan(Refill(s))

(***************************************************************************)
(* fill_spans_two_phase: phase A harvests boundaries, relative to the      *)
(* fill's base, into a buffer of u16; phase B turns the first `needed` of  *)
(* them into spans.                                                        *)
(*                                                                         *)
(* A harvest h: the fill base fb, the next batch scan, the buffer buf, the *)
(* offset resume at or below which boundary bits are settled, the number   *)
(* of boundaries needed, and an end past the window (over, 0 for none).    *)
(***************************************************************************)
Rel(h, p)     == (p - h.fb) % (RELMAX + 1)
RelLimit      == RELMAX - (2 * x.w - 1)
LastEnd(h)    == IF h.buf = <<>> THEN h.fb ELSE h.fb + h.buf[Len(h.buf)]
PeakOf(h, n)  == IF n > h.peak THEN n ELSE h.peak

RECURSIVE Ascending(_)
Ascending(S) == IF S = {} THEN <<>> ELSE <<Lowest(S)>> \o Ascending(S \ {Lowest(S)})

\* flatten_bits: append the offsets of the set bits of a batch.
FlattenBits(h, base, S) ==
    LET bits == Ascending(S)
    IN  [h EXCEPT !.buf = @ \o [i \in 1 .. Len(bits) |-> Rel(h, base + bits[i])],
                  !.peak = PeakOf(h, Len(h.buf))]

\* The scalar walk through a bad zone, from p to the boundary `until`.
RECURSIVE ScalarZone(_, _, _)
ScalarZone(h, p, until) ==
    LET upTo(e) == IF e - h.fb > RELMAX THEN [h EXCEPT !.over = e, !.stop = TRUE]
                   ELSE ScalarZone([h EXCEPT !.buf = Append(@, e - h.fb)], e, until)
    IN  IF p >= until THEN h ELSE upTo(Advance(x, p))

\* A batch with bad bits: trusted bits, a scalar zone, and so on.
RECURSIVE DirtyBatch(_, _, _, _, _)
DirtyBatch(h, base, masks, ulive, blive) ==
    LET segBad == masks.bad \cap blive
        fb     == Lowest(segBad)
        rest   == masks.usable \cap From(x, fb)
        walk(pre) == ScalarZone(pre, LastEnd(pre), base + (IF rest = {} THEN x.w ELSE Lowest(rest)))
        after(zone, p) ==
          IF zone.stop THEN zone
          ELSE IF p >= base + x.w
          THEN [zone EXCEPT !.scan = base + x.w * ((p - base) \div x.w), !.resume = p]
          ELSE DirtyBatch(zone, base, masks, From(x, p - base + 1), From(x, p - base))
        walked(zone) == after(zone, LastEnd(zone))
    IN  IF segBad = {} THEN [FlattenBits(h, base, masks.usable \cap ulive) EXCEPT !.scan = base + x.w]
        ELSE walked(walk(FlattenBits(h, base, {i \in masks.usable \cap ulive : i < fb})))

\* The scalar tail to the end of the input.
RECURSIVE ScalarTail(_, _)
ScalarTail(h, p) ==
    LET upTo(e) == ScalarTail([h EXCEPT !.buf = Append(@, Rel(h, e))], e)
    IN  IF p >= Len0(x) \/ Len(h.buf) >= h.needed THEN h ELSE upTo(Advance(x, p))

\* Mutant: the harvest runs on to the end of the window.
RECURSIVE HarvestMutant(_)
HarvestMutant(h) ==
    LET k     == h.resume - h.scan
        ulive == IF h.resume >= h.scan THEN From(x, k + 1) ELSE Bits(x)
        blive == IF h.resume >= h.scan THEN From(x, k) ELSE Bits(x)
    IN  IF h.stop \/ h.scan - h.fb > RelLimit THEN h
        ELSE IF h.scan + x.w > Len0(x) THEN ScalarTail(h, LastEnd(h))
        ELSE HarvestMutant(DirtyBatch(h, h.scan, BatchMasks(x, h.scan), ulive, blive))

RECURSIVE Harvest(_)
Harvest(h) ==
    LET k     == h.resume - h.scan
        ulive == IF h.resume >= h.scan THEN From(x, k + 1) ELSE Bits(x)
        blive == IF h.resume >= h.scan THEN From(x, k) ELSE Bits(x)
    IN  IF h.stop \/ Len(h.buf) >= h.needed \/ h.scan - h.fb > RelLimit THEN h
        ELSE IF h.scan + x.w > Len0(x) THEN ScalarTail(h, LastEnd(h))
        ELSE Harvest(DirtyBatch(h, h.scan, BatchMasks(x, h.scan), ulive, blive))

\* The refill loop: f.pending, f.scan, the span ends so far and the peak.
RECURSIVE FillLoop(_)
FillLoop(f) ==
    LET emit(h) == IF Len(h.buf) < h.needed THEN Len(h.buf) ELSE h.needed
        ends(h) == IF h.buf = <<>>
                   THEN <<IF h.over # 0 THEN h.over ELSE Advance(x, h.fb)>>
                   ELSE [i \in 1 .. emit(h) |-> h.fb + h.buf[i]]
        filled(h, new) ==
          FillLoop([pending |-> new[Len(new)], scan |-> h.scan, ends |-> f.ends \o new,
                    peak |-> PeakOf(h, Len(h.buf))])
        harvested(h) == filled(h, ends(h))
    IN  IF Len(f.ends) >= CHUNK \/ f.pending >= Len0(x) THEN f
        ELSE harvested(Harvest([fb |-> f.pending, scan |-> GridScan(f.scan, f.pending), buf |-> <<>>,
                                resume |-> f.pending, needed |-> CHUNK - Len(f.ends), over |-> 0,
                                stop |-> FALSE, peak |-> f.peak]))

\* Back onto the grid batch that contains pos.
Rewind(scan, pos) == IF scan > pos THEN scan - x.w * ((scan - pos + x.w - 1) \div x.w) ELSE scan

FillSpans(s) == FillLoop([pending |-> s.pos, scan |-> Rewind(s.scan, s.pos), ends |-> <<>>, peak |-> 0])

(***************************************************************************)
(* The scanner and its caller.                                             *)
(***************************************************************************)
Init ==
    /\ x \in Inputs
    /\ m = NewMaskState(0)
    /\ asked = 0 /\ out = <<>> /\ from = 0 /\ peak = 0

\* Iterator::next.
Next1 ==
    /\ \E s \in {NextSpan(m)} : m' = s /\ out' = IF s.pos = m.pos THEN <<>> ELSE <<s.pos>>
    /\ asked' = 1 /\ from' = m.pos /\ peak' = 0
    /\ UNCHANGED x

\* fill_spans_keyed_with_buf, without SIMD: spans one at a time.
RECURSIVE PullSpans(_, _)
PullSpans(s, ends) ==
    LET after(t) == IF Len(ends) >= CHUNK \/ t.pos = s.pos THEN [m |-> s, ends |-> ends]
                    ELSE PullSpans(t, Append(ends, t.pos))
    IN  after(NextSpan(s))

FillScalar ==
    /\ ~SimdScannerAvailable
    /\ \E f \in {PullSpans(m, <<>>)} : m' = f.m /\ out' = f.ends
    /\ asked' = CHUNK /\ from' = m.pos /\ peak' = 0
    /\ UNCHANGED x

\* fill_spans_two_phase leaves a fresh state at the last span's end.
Fill ==
    /\ SimdScannerAvailable
    /\ \E f \in {FillSpans(m)} :
         LET scan == Rewind(f.scan, f.pending)
         IN  /\ m' = [m EXCEPT !.pos = f.pending, !.scan = scan, !.base = scan, !.rem = {},
                               !.usable = {}, !.bad = {}, !.until = f.pending, !.preBase = UsizeMax]
             /\ asked' = CHUNK /\ from' = m.pos
             /\ out' = f.ends
             /\ peak' = f.peak
    /\ UNCHANGED x

\* with_pos: a caller that restarts builds a new scanner at the offset the
\* old one reported.
Resume ==
    /\ x.restarts
    /\ m' = NewMaskState(m.pos)
    /\ asked' = 0 /\ out' = <<>> /\ from' = m.pos /\ peak' = 0
    /\ UNCHANGED x

Next == Next1 \/ Fill \/ FillScalar \/ Resume

Spec == Init /\ [][Next]_vars

(***************************************************************************)
(* Properties.                                                             *)
(***************************************************************************)
\* Every span any pull returns, trusted from a mask or walked, starts where
\* the one before it ended and ends where the scheme's scalar advance ends
\* it, whatever mix of next_span, fills and restarts came before.
SpansFollowScalar ==
    \A i \in 1 .. Len(out) : out[i] = Advance(x, IF i = 1 THEN from ELSE out[i - 1])

\* The boundary buffer's cursor stays inside the room BOUND_BUF's comment
\* computes: PRETOKEN_CHUNK - 1 at batch entry, one batch of bits, and one
\* scalar overrun.
BufferNeverOverrun == peak <= CHUNK + x.w

\* Wherever a walk stands, the scalar advance ends the next pretoken where
\* the regular expression the scheme's source quotes would.
ScalarIsRegex == m.pos < Len0(x) => Advance(x, m.pos) = PatternEnd(x, m.pos)
=============================================================================
