-------------------------- MODULE PretokenMasksO200k --------------------------
(***************************************************************************)
(* The batch classifier of the o200k family (o200k_family.rs): o200k,      *)
(* nemotron and kimi.  On top of the cl100k rules: casing boundaries       *)
(* inside letter runs, contraction suffixes, and punctuation tails that    *)
(* absorb newlines and slashes, which a batch can only tell from fresh     *)
(* punctuation by walking back over the bytes before it.                   *)
(***************************************************************************)
EXTENDS PretokenMasks

CONSTANT WALKBACK    \* how far prev_tail_absorbed walks back (8)

\* family_class_of, with the two roles the masks give Han: a run class of
\* its own for letters, and the contextual class of marks for symbols.
OClass(x, b) ==
    IF IsHan(x, b) /\ O200kClass(b) = "Caseless" THEN "Han"
    ELSE IF IsHan(x, b) /\ O200kClass(b) = "Other" THEN "Mark"
    ELSE O200kClass(b)

\* The byte before a tail run decides a run that begins with a newline.
PredPunct(x, r) ==
    IF r = 0 THEN "no"
    ELSE CASE OClass(x, CharThrough(x, r).b) = "Other" -> "yes"
           [] OClass(x, CharThrough(x, r).b) = "Mark"  -> "unresolved"
           [] OTHER                                    -> "no"

(***************************************************************************)
(* prev_tail_absorbed: is the tail byte at scan - 1 part of a punctuation  *)
(* token's tail?  The tail is greedy: it starts at the first newline after *)
(* a slash of the run, or at the run's own first byte when that is a       *)
(* newline after punctuation, and takes the rest of the run.               *)
(***************************************************************************)
PrevTailAbsorbed(x, scan) ==
    LET starts == {r \in 0 .. scan - 1 : \A i \in r .. scan - 1 : Byte(x, i) \in TailBytes(x)}
        r      == CHOOSE s \in starts : \A q \in starts : s <= q
        pred   == PredPunct(x, r)
        later  == \E i, j \in r .. scan - 1 : i < j /\ Byte(x, i) = Slash /\ Byte(x, j) = Newline
    IN  IF scan - 1 - r > WALKBACK THEN "unresolved"
        ELSE IF Byte(x, r) = Newline /\ pred # "no" THEN pred
        ELSE IF later THEN "yes" ELSE "no"

\* The character that ends at j: punctuation or a space, or not decidable; a
\* mark counts as punctuation, but what it stands in decides.
TwoBackOs(x, j) ==
    IF j = 0 THEN "no"
    ELSE IF Byte(x, j - 1) = Slash /\ Slash \in TailBytes(x)
    THEN CASE PrevTailAbsorbed(x, j) = "yes" -> "no"
           [] PrevTailAbsorbed(x, j) = "no"  -> "yes"
           [] OTHER                          -> "unresolved"
    ELSE LET c == OClass(x, CharThrough(x, j).b)
         IN  IF c = "Mark" THEN (IF IsHan(x, CharThrough(x, j).b) THEN "unresolved" ELSE "unsettled")
             ELSE IF Byte(x, j - 1) = Space \/ c = "Other" THEN "yes" ELSE "no"

NoCarries == [pl |-> {}, pu |-> {}, pcl |-> {}, ps |-> {}, pwt |-> {}, po |-> {}, pws |-> {},
              pd |-> {}, phan |-> {}, back |-> {}, pAbs |-> FALSE, force |-> FALSE]

\* tail_carries: the byte before the batch is [\r\n/].
TailCarries(x, scan) ==
    LET abs == PrevTailAbsorbed(x, scan)
        b2  == Byte(x, scan - 2)
    IN  IF abs = "yes" THEN [NoCarries EXCEPT !.pAbs = TRUE]
        ELSE IF abs = "unresolved" \/ (scan >= 2 /\ b2 \notin Ascii)
        THEN [NoCarries EXCEPT !.force = TRUE]
        ELSE [NoCarries EXCEPT
                !.po = Bit(Byte(x, scan - 1) = Slash), !.pws = Bit(Byte(x, scan - 1) # Slash),
                !.back = Bit(scan >= 2 /\ (CharClass(b2) = "Other" \/ b2 = Space))]

\* ascii_carries, and the walk-back over multi-byte characters.
O200kCarries(x, scan) ==
    LET of(c1, k, os, off) ==
          [NoCarries EXCEPT
             !.pl = Bit(k \in {"Upper", "Lower", "Caseless"}), !.pu = Bit(k = "Upper"),
             !.pcl = Bit(k = "Caseless"), !.phan = Bit(k = "Han"),
             !.ps = Bit(c1.b = Space), !.po = Bit(k \in {"Other", "Mark"}),
             !.pwt = Bit(k = "Whitespace" /\ c1.b \notin {Space, Newline}),
             !.pws = Bit(k = "Whitespace"), !.pd = Bit(k = "Number"),
             !.back = IF os \in {"yes", "unsettled"} THEN {off} \cap Bits(x) ELSE {},
             !.force = os \in {"unresolved", "unsettled"}]
        at(c1) == of(c1, OClass(x, c1.b), TwoBackOs(x, c1.lead), c1.end - scan)
    IN  IF scan = 0 THEN NoCarries
        ELSE IF Byte(x, scan - 1) \in TailBytes(x) THEN TailCarries(x, scan)
        ELSE at(CharThrough(x, scan))

\* A contextual character just before the batch defers its front, even when
\* none of its bytes lie inside.
FrontResid(x, scan) == Bit(scan > 0 /\ IsHan(x, CharThrough(x, scan).b) /\ OClass(x, CharThrough(x, scan).b) = "Number")
FrontMark(x, scan)  == Bit(scan > 0 /\ OClass(x, CharThrough(x, scan).b) = "Mark")

(***************************************************************************)
(* The suffix rule: an apostrophe right after a letter merges the suffix   *)
(* into the letters' token and forces a boundary after it.  Candidates are *)
(* taken in order; one whose left context a batch cannot see is bad.       *)
(***************************************************************************)
PrevSuffixPossible(x, p) ==
    \/ Byte(x, p - 2) = Apostrophe /\ Byte(x, p - 1) \in {"s", "S"}
    \/ /\ p >= 3 /\ Byte(x, p - 3) = Apostrophe
       /\ \/ Byte(x, p - 2) = "l" /\ Byte(x, p - 1) = "l"
          \/ Byte(x, p - 2) = "LS"

SuffixStep(x, scan, st, i) ==
    LET p == scan + i
        e == ContractionEnd(x, p, {"s", "S"}, {"l"})
        Defer == [st EXCEPT !.bad = @ \cup ((i .. i + 2) \cap Bits(x))]
    IN  IF st.stop \/ i \notin st.cand THEN st
        ELSE IF i <= 2 THEN Defer
        ELSE IF i >= x.w - 3 THEN [st EXCEPT !.bad = @ \cup From(x, i), !.stop = TRUE]
        ELSE IF i = st.forced THEN st
        ELSE IF PrevSuffixPossible(x, p) \/ HiByte(x, p + 1) THEN Defer
        ELSE IF e = 0 THEN st
        ELSE [st EXCEPT !.boundary = (@ \ (i .. e - scan - 1)) \cup {e - scan}, !.forced = e - scan]

SuffixFix(x, scan, cand, boundary, bad) ==
    LET f[n \in 0 .. x.w] ==
          IF n = 0 THEN [cand |-> cand, boundary |-> boundary, bad |-> bad, forced |-> -1, stop |-> FALSE]
          ELSE SuffixStep(x, scan, f[n - 1], n - 1)
    IN  f[x.w]

(***************************************************************************)
(* o200k_extended_masks and o200k_algebra.                                 *)
(***************************************************************************)
\* The classes of the batch, of every byte of a character.
O200kUni(x, scan) ==
    LET cls == [i \in HiBits(x, scan) |-> OClass(x, HiLead(x, scan, i))]
    IN  [all |-> ClassifyUni(x, scan, cls, FALSE), caseless |-> UniOf(cls, "Caseless"),
         upper |-> UniOf(cls, "Upper"), lower |-> UniOf(cls, "Lower"),
         marks |-> UniOf(cls, "Mark"), han |-> UniOf(cls, "Han"),
         hanLeads |-> {i \in Bits(x) : OClass(x, Byte(x, scan + i)) = "Han"}]

Prev(x, S, carry) == Shl(x, S, 1) \cup carry

\* What the batch cannot decide on its own.
O200kBad(x, scan, am, cr, c, ub, tcls) ==
    LET mk == c.marks \cup FrontMark(x, scan)
    IN  Smear1(x, c.all.resid \cup FrontResid(x, scan))
        \cup Shr(x, mk, 1) \cup UNION {Shl(x, mk, n) : n \in 0 .. 4}
        \cup ((ub \ c.all.cont) \cap Prev(x, c.caseless, cr.pcl))
        \cup (IF cr.force THEN Shl(x, SmearUp(x, tcls \cap {0}, tcls), 1) \cup {0, 1} ELSE {})

\* With the tail bytes that punctuation absorbed (absT) and the rest of the
\* punctuation (ob).
O200kAlgebra(x, scan, am, cr, c, ub, absT, ob, bad0) ==
    LET uni == c.all
        lb  == am.l \cup ub \cup c.caseless \cup c.lower
        wtb == am.wt \cup uni.ws
        pO  == Prev(x, ob, cr.po)
        pS  == Prev(x, am.s, cr.ps)
        b2  == TwoBack(x, uni, uni.cont, Prev(x, ob \cup am.s, cr.po \cup cr.ps), cr.back)
        pL  == Prev(x, lb, cr.pl)
        bUpper   == (ub \ uni.cont) \cap (pL \ (Prev(x, ub, cr.pu) \cup Prev(x, c.caseless, cr.pcl)))
        bLetters == (lb \ (uni.cont \cup pL \cup pS \cup Prev(x, wtb, cr.pwt) \cup (pO \ b2))) \cup bUpper
        bPunct   == ob \ (uni.cont \cup pO \cup pS)
        bHan     == c.hanLeads \ Prev(x, c.han, cr.phan)
        fix(s) == IF Contractions(x)
                  THEN SuffixFix(x, scan, (am.ap \cap s.bound \cap pL) \ s.bad, s.bound, s.bad)
                  ELSE [boundary |-> s.bound, bad |-> s.bad]
        settle(wsEff, nn64) ==
          Trusted(fix(Settle(x, am, cr, uni, absT, wsEff, nn64, bLetters \cup bPunct \cup bHan, bad0)))
    IN  settle((am.s \cup wtb \cup am.n) \ absT, NextNotWs(x, scan, bad0))

O200kMasks(x, scan) ==
    LET absorbed(am, cr, tcls, ob0) ==
          SmearUp(x, (am.n \cap Prev(x, ob0, cr.po)) \cup (Bit(cr.pAbs) \cap tcls), tcls)
        classed(am, cr, c, ub, tcls, ob0) ==
          LET tailed(absT) == O200kAlgebra(x, scan, am, cr, c, ub, absT, ob0 \ absT,
                                           O200kBad(x, scan, am, cr, c, ub, tcls))
          IN  tailed(absorbed(am, cr, tcls, ob0))
        of(am, cr, c) ==
          classed(am, cr, c, am.up \cup c.upper,
                  IF Slash \in TailBytes(x) THEN am.n \cup am.sl ELSE am.n,
                  (Bits(x) \ (am.l \cup am.d \cup am.s \cup am.wt \cup am.n \cup am.hi))
                    \cup c.all.o \cup c.marks)
    IN  of(AsciiMasks(x, scan), O200kCarries(x, scan), O200kUni(x, scan))

(***************************************************************************)
(* batch_masks of each family: a batch whose lookahead would leave the     *)
(* buffer is wholly scalar.                                                *)
(***************************************************************************)
AllBad(x) == [usable |-> {}, bad |-> Bits(x)]
TooShort(x, scan) == scan + x.w + LOOK > Len0(x)

R50kBatch(x, scan)   == IF TooShort(x, scan) THEN AllBad(x) ELSE R50kMasks(x, scan)
Cl100kBatch(x, scan) == IF TooShort(x, scan) THEN AllBad(x) ELSE Cl100kMasks(x, scan)
O200kBatch(x, scan)  == IF TooShort(x, scan) THEN AllBad(x) ELSE O200kMasks(x, scan)

BatchMasks(x, scan) ==
    CASE Params(x).family = "r50k"   -> R50kBatch(x, scan)
      [] Params(x).family = "cl100k" -> Cl100kBatch(x, scan)
      [] Params(x).family = "o200k"  -> O200kBatch(x, scan)
=============================================================================
