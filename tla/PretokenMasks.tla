---------------------------- MODULE PretokenMasks ----------------------------
(***************************************************************************)
(* The batch classifiers of the mask scanner (fast/mask.rs, r50k.rs,       *)
(* cl100k_family.rs, o200k_family.rs): from the bytes of one batch, the    *)
(* offsets at which a pretoken is known to start (usable) and those only   *)
(* the scalar walk can decide (bad).                                       *)
(*                                                                         *)
(* A mask is a set of bit numbers below the batch width x.w; the code's    *)
(* u64 has 64 of them.  The SIMD tiers (NEON, AVX2, AVX-512) compute the   *)
(* same sets and differ only in the instructions.                          *)
(***************************************************************************)
EXTENDS PretokenScalar

CONSTANT LOOK    \* the bytes past the batch a classifier may read (6)

Bits(x)      == 0 .. x.w - 1
Top(x)       == x.w - 1
Shl(x, S, n) == {i \in Bits(x) : i - n \in S}
Shr(x, S, n) == {i \in Bits(x) : i + n \in S}
From(x, n)   == {i \in Bits(x) : i >= n}
Bit(c)       == IF c THEN {0} ELSE {}
Lowest(S)    == CHOOSE i \in S : \A j \in S : i <= j
Highest(S)   == CHOOSE i \in S : \A j \in S : j <= i

\* smear_up: seed, spread upward through contiguous bits of within.
SmearUp(x, seed, within) ==
    seed \cup {i \in within : \E s \in seed : s < i /\ s + 1 .. i \subseteq within}

\* digit_run_splits3: the first of each run of digits, and every third.
DigitRunSplits3(x, d) ==
    {i \in d : \E s \in d : s <= i /\ s - 1 \notin d /\ s .. i \subseteq d /\ (i - s) % 3 = 0}

(***************************************************************************)
(* The ASCII classes of the batch at `scan` (ascii_masks and the two x86   *)
(* forms), with the capitals and slashes the o200k family adds.            *)
(***************************************************************************)
AsciiMasks(x, scan) ==
    LET In(S) == {i \in Bits(x) : Byte(x, scan + i) \in S}
    IN  [l |-> In(Letters), d |-> In({"1"}), s |-> In({Space}), wt |-> In({Tab}),
         n |-> In({Newline}), hi |-> In({Cont} \cup Leads2 \cup Leads3),
         ap |-> In({Apostrophe}), up |-> In(Upper), sl |-> In({Slash})]

HiByte(x, p) == p >= 0 /\ Byte(x, p) \notin Ascii

\* nn_at_full: the character at p is not whitespace.
NotWsAt(x, p) == CharClass(Byte(x, p)) # "Whitespace"

\* char_through: the character that holds byte p - 1.
CharThrough(x, p) ==
    LET j == Lead(x, p - 1) IN [b |-> Byte(x, j), lead |-> j, end |-> CharEnd(x, j)]

(***************************************************************************)
(* classify_uni_chars, and the bytes of a character that straddles into    *)
(* the batch: every byte of a character carries the character's class.     *)
(* `cls` is the class of the character at each high byte of the batch, by  *)
(* the scheme's classifier, `numbers` whether numbers may be trusted.      *)
(***************************************************************************)
HiBits(x, scan)     == {i \in Bits(x) : HiByte(x, scan + i)}
HiLead(x, scan, i)  == Byte(x, Lead(x, scan + i))
UniOf(cls, c)       == {i \in DOMAIN cls : cls[i] = c}

ClassifyUni(x, scan, cls, numbers) ==
    LET leads(n) == {i \in Bits(x) : LeadLen(Byte(x, scan + i)) = n}
        in    == IF scan > 0 THEN CharThrough(x, scan).end - scan ELSE 0
        wsb   == UniOf(cls, "Whitespace")
        \* whitespace that straddles either edge
        cut   == {i \in wsb : i < in \/ CharEnd(x, Lead(x, scan + i)) > scan + x.w}
    IN  [l |-> UniOf(cls, "Letter"), n |-> UniOf(cls, "Number"),
         o |-> UniOf(cls, "Other"), ws |-> wsb,
         w2 |-> (leads(2) \cap wsb) \ cut, w3 |-> (leads(3) \cap wsb) \ cut,
         lead2 |-> leads(2), lead3 |-> leads(3),
         cont |-> {i \in Bits(x) : Byte(x, scan + i) = Cont},
         resid |-> cut \cup (IF numbers THEN {} ELSE UniOf(cls, "Number"))]

\* `bad` around the bytes a batch cannot decide.
Smear1(x, S) == S \cup Shl(x, S, 1) \cup Shr(x, S, 1)

(***************************************************************************)
(* A newline run override shared by the cl100k and o200k algebra: every    *)
(* whitespace run with a newline is one token through its last newline,    *)
(* then the tail, whose last character splits off.                         *)
(***************************************************************************)
NewlineRuns(x, n, nonws, wsEff, wsLeads, bad, bWs) ==
    LET seeds == (n \cap wsEff) \ bad
        RunOf(f) == {i \in Bits(x) : \A j \in Bits(x) : (j >= i /\ j <= f) \/ (j >= f /\ j <= i) => j \notin nonws}
        Fix(f) ==
          LET run  == RunOf(f)
              q    == Highest(n \cap run)
              tail == {i \in run : i > q}
          IN  {Lowest(run)} \cup
              (IF tail = {} THEN {} ELSE {q + 1, Highest(wsLeads \cap tail)})
        runs == {RunOf(f) : f \in seeds}
    IN  (bWs \ UNION runs) \cup UNION {Fix(f) : f \in seeds}

(***************************************************************************)
(* r50k.                                                                   *)
(***************************************************************************)
R50kCarry(x, scan, c) == Bit(scan > 0 /\ CharClass(CharThrough(x, scan).b) = c)

\* The apostrophe rule of a standalone contraction: the suffix's own start
\* is no boundary, the byte after it is one; a suffix that could reach past
\* the batch is bad.
ContractionFix(x, scan, cand, boundary, bad, folded) ==
    LET edge == {i \in cand : i >= x.w - 3}
        hiNext == IF folded THEN {i \in cand \ edge : HiByte(x, scan + i + 1)} ELSE {}
        K(i) == (IF folded THEN ContractionEnd(x, scan + i, {"s", "S"}, {"l"})
                 ELSE ContractionEnd(x, scan + i, {"s"}, {"l"})) - (scan + i)
        hits == {i \in cand \ (edge \cup hiNext) : K(i) > 0}
    IN  [boundary |-> (boundary \ {i + 1 : i \in hits}) \cup {i + K(i) : i \in hits},
         bad |-> bad \cup (IF edge = {} THEN {} ELSE From(x, Lowest(edge)))
                     \cup {i \in Bits(x) : \E h \in hiNext : i \in h .. h + 2}]

R50kAlgebra(x, scan, am, uni) ==
    LET wsa == am.s \cup am.wt \cup am.n
        lb  == am.l \cup uni.l
        db  == am.d \cup uni.n
        wsb == wsa \cup uni.ws
        ob  == (Bits(x) \ (am.l \cup am.d \cup wsa \cup am.hi)) \cup uni.o
        Prev(S, c) == Shl(x, S, 1) \cup R50kCarry(x, scan, c)
        contSame == (lb \cap Prev(lb, "Letter")) \cup (db \cap Prev(db, "Number"))
                    \cup (ob \cap Prev(ob, "Other"))
        afterSp == Shl(x, am.s, 1) \cup Bit(scan > 0 /\ Byte(x, scan - 1) = Space)
        nb      == Bits(x) \ (wsb \cup contSame \cup afterSp \cup uni.cont)
        nn      == Bits(x) \ wsb
        edge    == ({Top(x)} \cap wsa) \cup ({Top(x) - 1} \cap uni.w2) \cup ({Top(x) - 2} \cap uni.w3)
        inner   == (wsa \cap Shr(x, nn, 1)) \cup (uni.w2 \cap Shr(x, nn, 2)) \cup (uni.w3 \cap Shr(x, nn, 3))
        splitOk == (inner \ edge) \cup (IF NotWsAt(x, scan + x.w) THEN edge ELSE {})
        wsLeads == wsa \cup uni.w2 \cup uni.w3
        fix(bound, bad) == ContractionFix(x, scan, (am.ap \cap bound) \ bad, bound, bad, FALSE)
    IN  fix(nb \cup (wsLeads \cap ((Bits(x) \ Prev(wsb, "Whitespace")) \cup splitOk)),
            Smear1(x, uni.resid))

Trusted(fix) == [usable |-> fix.boundary \ fix.bad, bad |-> fix.bad]
R50kMasks(x, scan) ==
    LET cls == [i \in HiBits(x, scan) |-> CharClass(HiLead(x, scan, i))]
    IN  Trusted(R50kAlgebra(x, scan, AsciiMasks(x, scan), ClassifyUni(x, scan, cls, TRUE)))

(***************************************************************************)
(* The two-characters-back test of both families: at a lead, is the char   *)
(* before the previous one punctuation or a space?                         *)
(***************************************************************************)
TwoBack(x, uni, contm, cTest, carry) ==
    LET len1 == Bits(x) \ (contm \cup uni.lead2 \cup uni.lead3)
    IN  Shl(x, cTest \cap len1, 1) \cup Shl(x, cTest \cap uni.lead2, 2)
        \cup Shl(x, cTest \cap uni.lead3, 3) \cup carry

\* What the whitespace part of both families shares: the byte past the
\* batch decides a run that touches its end.
WsEdgeBad(x, wsEff, nn64) ==
    IF Top(x) \in wsEff /\ ~nn64
    THEN LET nonws == Bits(x) \ wsEff
         IN  IF nonws = {} THEN Bits(x) ELSE From(x, Highest(nonws) + 1)
    ELSE {}

WsBoundaries(x, am, uni, absT, wsEff, pws, nn64, bad) ==
    LET nonws    == Bits(x) \ wsEff
        leads1   == (am.s \cup am.wt \cup am.n) \cap wsEff
        wsLeads  == (leads1 \cup uni.w2 \cup uni.w3) \ absT
        edgeLast == (leads1 \cap {Top(x)}) \cup (uni.w2 \cap {Top(x) - 1}) \cup (uni.w3 \cap {Top(x) - 2})
        splitOk  == (leads1 \cap Shr(x, nonws, 1)) \cup (uni.w2 \cap Shr(x, nonws, 2))
                    \cup (uni.w3 \cap Shr(x, nonws, 3)) \cup (IF nn64 THEN edgeLast ELSE {})
        pWs      == Shl(x, wsEff, 1) \cup pws
    IN  NewlineRuns(x, am.n, nonws, wsEff, wsLeads, bad,
                    wsLeads \cap ((Bits(x) \ pWs) \cup splitOk))

\* Mutant: a digit run that began before the batch starts its groups afresh.
DigitBadMutant(x, d, bad, pd) ==
    IF Digits3(x) THEN SmearUp(x, d \cap Shl(x, bad, 1), d) ELSE {}

DigitStarts(x, d) == IF Digits3(x) THEN DigitRunSplits3(x, d) ELSE d
\* A digit run whose grouping did not start in this batch.
DigitBad(x, d, bad, pd) ==
    IF Digits3(x) THEN SmearUp(x, d \cap (Shl(x, bad, 1) \cup pd), d) ELSE {}

(***************************************************************************)
(* The cl100k family.                                                      *)
(***************************************************************************)
Cl100kCarries(x, scan) ==
    LET off(c1) == c1.end - scan
        os(c1)  == c1.lead > 0 /\ (Byte(x, c1.lead - 1) = Space
                                   \/ FamilyClass(x, CharThrough(x, c1.lead).b) = "Other")
        of(c1, k1, pb) ==
          [pl |-> Bit(k1 = "Letter"), ps |-> Bit(pb = Space),
           pwt |-> Bit(k1 = "Whitespace" /\ pb # Space /\ pb # Newline),
           po |-> Bit(k1 = "Other"), pws |-> Bit(k1 = "Whitespace"),
           pd |-> Bit(k1 = "Number"),
           back |-> IF os(c1) /\ off(c1) \in Bits(x) THEN {off(c1)} ELSE {}]
    IN  IF scan = 0
        THEN [pl |-> {}, ps |-> {}, pwt |-> {}, po |-> {}, pws |-> {}, pd |-> {}, back |-> {}]
        ELSE of(CharThrough(x, scan), FamilyClass(x, CharThrough(x, scan).b), Byte(x, scan - 1))

\* The last decisions of both families before the apostrophe rule: what the
\* whitespace at the batch's end leaves undecided, the digit groups and the
\* whitespace runs, on top of the boundaries of letters and punctuation.
Settle(x, am, cr, uni, absT, wsEff, nn64, base, bad) ==
    LET edge == WsEdgeBad(x, wsEff, nn64)
        unsure == bad \cup edge \cup DigitBad(x, am.d, bad \cup edge, cr.pd)
    IN  IF edge = Bits(x) THEN [bound |-> {}, bad |-> edge]
        ELSE [bad |-> unsure,
              bound |-> base \cup DigitStarts(x, am.d)
                        \cup WsBoundaries(x, am, uni, absT, wsEff, cr.pws, nn64, unsure)]

\* Does the byte past the batch begin a character that is not whitespace?
NextNotWs(x, scan, bad) ==
    NotWsAt(x, scan + x.w) /\ (HiByte(x, scan + x.w) => Top(x) \notin bad)

Cl100kAlgebra(x, scan, am, cr, uni, ob, bad0) ==
    LET lb   == am.l \cup uni.l
        wtb  == am.wt \cup uni.ws
        pO   == Shl(x, ob, 1) \cup cr.po
        pS   == Shl(x, am.s, 1) \cup cr.ps
        b2   == TwoBack(x, uni, uni.cont, Shl(x, ob \cup am.s, 1) \cup cr.po \cup cr.ps, cr.back)
        bLetters == lb \ (uni.cont \cup Shl(x, lb, 1) \cup cr.pl \cup pS
                          \cup Shl(x, wtb, 1) \cup cr.pwt \cup (pO \ b2))
        bPunct == ob \ (uni.cont \cup pO \cup pS)
        fix(s) == Trusted(ContractionFix(x, scan, (am.ap \cap s.bound) \ s.bad, s.bound, s.bad, TRUE))
        settle(absN, wsEff, nn64) ==
          fix(Settle(x, am, cr, uni, absN, wsEff, nn64, bLetters \cup bPunct,
                     bad0 \cup (IF Top(x) \in absN /\ ~nn64 THEN {Top(x)} ELSE {})))
        absorbed(absN) == settle(absN, (am.s \cup wtb \cup am.n) \ absN, NextNotWs(x, scan, bad0))
    IN  absorbed(SmearUp(x, am.n \cap pO, am.n))

Cl100kMasks(x, scan) ==
    LET cls == [i \in HiBits(x, scan) |-> FamilyClass(x, HiLead(x, scan, i))]
        of(am, cr, uni) ==
          Cl100kAlgebra(x, scan, am, cr, uni,
              (Bits(x) \ (am.l \cup am.d \cup am.s \cup am.wt \cup am.n \cup am.hi)) \cup uni.o,
              Smear1(x, uni.resid))
    IN  of(AsciiMasks(x, scan), Cl100kCarries(x, scan), ClassifyUni(x, scan, cls, FALSE))
=============================================================================
