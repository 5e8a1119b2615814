---------------------------- MODULE PretokenRegex ----------------------------
(***************************************************************************)
(* What a pretokenizer is meant to compute: the leftmost-first match of    *)
(* the regular expression its source file quotes.  A pattern is a sequence *)
(* of alternatives, an alternative a sequence of items, and an item takes  *)
(* between lo and hi characters of a set, as many as it can, giving them   *)
(* back one at a time unless it is possessive.                             *)
(***************************************************************************)
EXTENDS PretokenScalar

Many == 99

Item(S, lo, hi) == [set |-> S, lo |-> lo, hi |-> hi, poss |-> FALSE, look |-> "none"]
Poss(S, lo, hi) == [Item(S, lo, hi) EXCEPT !.poss = TRUE]
Look(kind)      == [Item({}, 0, 0) EXCEPT !.look = kind]
Opt(S)  == Item(S, 0, 1)
Star(S) == Item(S, 0, Many)
Plus(S) == Item(S, 1, Many)
One(S)  == Item(S, 1, 1)

Chars == Ascii \cup Leads2 \cup Leads3
Class(c) == {b \in Chars : CharClass(b) = c}
\* \p{L}, \p{N}, \s, \p{M}, [\r\n] and the sets the patterns build from them.
PL == Class("Letter")
PN == Class("Number")
WS == Class("Whitespace")
PM == {"M2"}
NL == {Newline}
SP == {Space}
Prefix   == Chars \ (NL \cup PL \cup PN)
NotSLN   == Chars \ (WS \cup PL \cup PN)

\* The offsets reached from p by 0, 1, ... characters of S, at most hi.
Reach(x, p, S, hi) ==
    LET f[q \in p .. Len0(x), n \in 0 .. hi] ==
          IF n < hi /\ q < Len0(x) /\ Byte(x, q) \in S
          THEN <<q>> \o f[CharEnd(x, q), n + 1] ELSE <<q>>
    IN  f[p, 0]

LookHolds(x, p, kind) ==
    CASE kind = "none" -> TRUE
      [] kind = "end"  -> p = Len0(x)
      [] kind = "notS" -> p = Len0(x) \/ Byte(x, p) \in WS

\* The end of the match of an alternative at p, or -1.
AltEnd(x, alt, p) ==
    LET m[i \in 1 .. Len(alt) + 1, q \in p .. Len0(x)] ==
          IF i > Len(alt) THEN q
          ELSE LET it   == alt[i]
                   rs   == Reach(x, q, it.set, it.hi)
                   lo   == IF it.poss THEN Len(rs) ELSE it.lo + 1
                   good == {n \in lo .. Len(rs) : /\ n >= it.lo + 1
                                                  /\ LookHolds(x, rs[n], it.look)
                                                  /\ m[i + 1, rs[n]] # -1}
               IN  IF good = {} THEN -1
                   ELSE m[i + 1, rs[CHOOSE n \in good : \A k \in good : k <= n]]
    IN  m[1, p]

\* The first alternative that matches wins.
RegexEnd(x, pattern, p) ==
    LET hit == {i \in 1 .. Len(pattern) : AltEnd(x, pattern[i], p) > p}
    IN  IF hit = {} THEN -1
        ELSE AltEnd(x, pattern[CHOOSE i \in hit : \A k \in hit : i <= k], p)

Suffixes(s, l) == <<<<One({Apostrophe}), One(s)>>, <<One({Apostrophe}), One(l), One(l)>>>>
FoldedS == {"s", "S", "LS"}

WsRules == <<<<Star(WS), Plus(NL)>>, <<Plus(WS), Look("notS")>>, <<Plus(WS)>>>>

R50kPattern ==
    Suffixes({"s"}, {"l"})
    \o <<<<Opt(SP), Plus(PL)>>, <<Opt(SP), Plus(PN)>>, <<Opt(SP), Plus(NotSLN)>>,
         <<Plus(WS), Look("notS")>>, <<Plus(WS)>>>>

Cl100kPattern ==
    Suffixes(FoldedS, {"l"})
    \o <<<<Poss(Prefix, 0, 1), Poss(PL, 1, Many)>>, <<Poss(PN, 1, 3)>>,
         <<Opt(SP), Poss(NotSLN, 1, Many), Poss(NL, 0, Many)>>,
         <<Poss(WS, 1, Many), Look("end")>>,
         <<Star(WS), One(NL)>>, <<Plus(WS), Look("notS")>>, <<Plus(WS)>>>>

\* olmo3 and qwen2 differ in the digit group; qwen3.5 adds marks to letters.
QwenPattern(digits, letters, others) ==
    Suffixes(FoldedS, {"l"})
    \o <<<<Opt(Prefix), Plus(letters)>>, <<Item(PN, 1, digits)>>,
         <<Opt(SP), Plus(others), Star(NL)>>>>
    \o WsRules

Cased(c) == {b \in Chars : O200kClass(b) \in c}
O200kPattern(digits, tail, han) ==
    LET upper == Cased({"Upper", "Caseless", "Mark"}) \ han
        lower == Cased({"Lower", "Caseless", "Mark"}) \ han
    IN  (IF han = {} THEN <<>> ELSE <<<<Plus(han)>>>>)
        \o <<<<Opt(Prefix), Star(upper), Plus(lower)>>, <<Opt(Prefix), Plus(upper), Star(lower)>>>>
        \o <<<<Item(PN, 1, digits)>>, <<Opt(SP), Plus(NotSLN), Star(tail)>>>>
        \o WsRules

\* The optional suffix of the two letter alternatives, taken greedily after
\* whichever letters the alternative settled on.
O200kEnd(x, p) ==
    LET kimi == x.k = "kimi"
        suffix == x.k \in {"o200k", "kimi"}
        pat  == O200kPattern(IF x.k = "nemotron" THEN 1 ELSE 3,
                             IF kimi THEN NL ELSE NL \cup {Slash},
                             IF kimi THEN {"H3", "HN", "HS"} ELSE {})
        first == CHOOSE i \in 1 .. Len(pat) :
                    /\ AltEnd(x, pat[i], p) > p
                    /\ \A k \in 1 .. i - 1 : AltEnd(x, pat[k], p) <= p
        e     == AltEnd(x, pat[first], p)
        letters == first \in (IF kimi THEN {2, 3} ELSE {1, 2})
        sufs  == {AltEnd(x, Suffixes(FoldedS, {"l"})[i], e) : i \in {1, 2}} \ {-1}
    IN  IF suffix /\ letters /\ sufs # {} THEN CHOOSE q \in sufs : TRUE ELSE e

\* DeepSeek splits on numbers, then on the CJK ranges, then by the main
\* pattern inside each piece; what the pattern skips is a piece of its own.
CjkSet == {b \in Chars : IsDeepseekCjk(b)}
DsL    == (PL \cup PM)
DsPS   == {b \in Chars : DsCharClass(b) = "PunctSym"}
DsPattern ==
    <<<<One(AsciiPunct), Plus(Letters)>>,
      <<Opt(Chars \ (NL \cup PL \cup DsPS)), Plus(DsL)>>,
      <<Opt(SP), Plus(DsPS), Star(NL)>>>> \o WsRules

DsPieceEnd(x, p) ==
    IF Byte(x, p) \in PN THEN AltEnd(x, <<Item(PN, 1, 3)>>, p)
    ELSE IF Byte(x, p) \in CjkSet THEN AltEnd(x, <<Plus(CjkSet)>>, p)
    ELSE AltEnd(x, <<Plus(Chars \ (PN \cup CjkSet))>>, p)

DsEnd(x, p) ==
    LET hi  == DsPieceEnd(x, p)
        y   == [x EXCEPT !.t = SubSeq(x.t, 1, hi)]
        e   == RegexEnd(y, DsPattern, p)
        hit == {q \in p + 1 .. hi - 1 : Byte(y, q) # Cont /\ RegexEnd(y, DsPattern, q) # -1}
    IN  IF Byte(x, p) \in PN THEN hi
        ELSE IF e # -1 THEN e
        ELSE IF hit = {} THEN hi ELSE CHOOSE q \in hit : \A r \in hit : q <= r

\* The end the documented pattern gives the pretoken that starts at p.
PatternEnd(x, p) ==
    CASE x.k = "r50k"    -> RegexEnd(x, R50kPattern, p)
      [] x.k = "cl100k"  -> RegexEnd(x, Cl100kPattern, p)
      [] x.k = "olmo3"   -> RegexEnd(x, QwenPattern(3, PL, NotSLN), p)
      [] x.k = "qwen2"   -> RegexEnd(x, QwenPattern(1, PL, NotSLN), p)
      [] x.k = "qwen3_5" -> RegexEnd(x, QwenPattern(1, PL \cup PM, NotSLN \ PM), p)
      [] x.k = "deepseek" -> DsEnd(x, p)
      [] OTHER           -> O200kEnd(x, p)
=============================================================================
