--------------------------- MODULE PretokenScalar ---------------------------
(***************************************************************************)
(* The scalar pretokenizers: `advance`, which returns the end of the       *)
(* pretoken that starts at an offset, for every scheme of the engine       *)
(* (crates/toktier-gigatoken-core/src/pretokenize/fast).                   *)
(*                                                                         *)
(* A text is a sequence of bytes, and offsets count from 0 as in the code. *)
(* A byte is one of the names below: what the scanners tell apart about a  *)
(* byte, and no more.  A character of more than one byte is a lead byte    *)
(* followed by continuation bytes "c"; the lead stands for the code point. *)
(* Texts are valid UTF-8.  "s" stands for any of s/d/m/t, "l" doubled for  *)
(* ll, ve and re, "S" and "A" for capitals; "LS" is U+017F.                *)
(*                                                                         *)
(* `x` is the context of a walk: the text x.t, the batch width x.w (64 in  *)
(* the code) and the scheme x.k.                                           *)
(***************************************************************************)
EXTENDS Integers, Sequences, FiniteSets

Lower   == {"a", "s", "l"}
Upper   == {"A", "S"}
Letters == Lower \cup Upper
Newline == "nl"
Space   == "sp"
Tab     == "tab"
AsciiWs == {Space, Tab, Newline}
Apostrophe == "ap"
Slash   == "sl"
AsciiPunct == {Apostrophe, Slash, "pt"}
Ascii   == Letters \cup AsciiWs \cup AsciiPunct \cup {"1", "ctl"}

\* Lead bytes: 2-byte and 3-byte characters by what the tables say of them.
Leads2 == {"L2", "U2", "X2", "M2", "N2", "W2", "LS"}
Leads3 == {"O3", "W3", "H3", "HN", "HS"}
Cont   == "c"
Characters == Ascii \cup Leads2 \cup Leads3

\* decode_cp's length: how many bytes the character at a lead takes, never
\* past the end of the buffer.
LeadLen(b) == IF b \in Leads2 THEN 2 ELSE IF b \in Leads3 THEN 3 ELSE 1

Len0(x)     == Len(x.t)
Byte(x, p)  == x.t[p + 1]
ByteIs(x, p, S) == p < Len0(x) /\ Byte(x, p) \in S
CharEnd(x, p) == IF p + LeadLen(Byte(x, p)) > Len0(x) THEN Len0(x) ELSE p + LeadLen(Byte(x, p))

(***************************************************************************)
(* The schemes: whether a number takes up to three characters, whether     *)
(* whitespace at the end of the input stays whole, whether marks join      *)
(* letters, whether letters take a contraction suffix, whether a           *)
(* punctuation tail takes slashes, and whether Han is a class of its own.  *)
(***************************************************************************)
Scheme(family, digits3) ==
    [family |-> family, digits3 |-> digits3, eosWhole |-> FALSE, marksJoin |-> FALSE,
     suffix |-> FALSE, slash |-> FALSE, han |-> FALSE]

R50kScheme     == Scheme("r50k", FALSE)
Cl100kScheme   == [Scheme("cl100k", TRUE) EXCEPT !.eosWhole = TRUE]
Olmo3Scheme    == Scheme("cl100k", TRUE)
Qwen2Scheme    == Scheme("cl100k", FALSE)
Qwen35Scheme   == [Scheme("cl100k", FALSE) EXCEPT !.marksJoin = TRUE]
O200kScheme    == [Scheme("o200k", TRUE) EXCEPT !.suffix = TRUE, !.slash = TRUE]
NemotronScheme == [Scheme("o200k", FALSE) EXCEPT !.slash = TRUE]
KimiScheme     == [Scheme("o200k", TRUE) EXCEPT !.suffix = TRUE, !.han = TRUE]
DeepSeekV3     == Scheme("deepseek", TRUE)

Schemes == [r50k |-> R50kScheme, cl100k |-> Cl100kScheme, olmo3 |-> Olmo3Scheme,
            qwen2 |-> Qwen2Scheme, qwen3_5 |-> Qwen35Scheme, o200k |-> O200kScheme,
            nemotron |-> NemotronScheme, kimi |-> KimiScheme, deepseek |-> DeepSeekV3]
\* A context carries its scheme's name and parameters.
Params(x) == x.p

(***************************************************************************)
(* The class tables (unicode.rs).                                          *)
(***************************************************************************)
CharClass(b) ==
    CASE b \in Letters \cup {"L2", "U2", "X2", "LS", "H3"} -> "Letter"
      [] b \in {"1", "N2", "HN"}                           -> "Number"
      [] b \in AsciiWs \cup {"W2", "W3"}                   -> "Whitespace"
      [] OTHER                                             -> "Other"

\* class_of_marks_join: \p{M} counts as a letter (qwen3.5).
MarksJoin(b) == IF b = "M2" THEN "Letter" ELSE CharClass(b)

DsCharClass(b) ==
    CASE b = "M2" -> "Mark"
      [] b \in AsciiPunct \cup {"O3", "HS"} -> "PunctSym"
      [] OTHER -> CharClass(b)

\* The CJK and kana ranges of the DeepSeek scheme; its members that are not
\* letters are the voicing marks, of class PunctSym.
IsDeepseekCjk(b) == b \in {"H3", "HS"}

O200kClass(b) ==
    CASE b \in Upper \cup {"U2"}        -> "Upper"
      [] b \in Lower \cup {"L2", "LS"}  -> "Lower"
      [] b \in {"X2", "H3"}             -> "Caseless"
      [] b = "M2"                       -> "Mark"
      [] OTHER                          -> CharClass(b)

\* kimi_class_of: the same class and whether the character is Han.
IsHan(x, b) == Params(x).han /\ b \in {"H3", "HN", "HS"}

(***************************************************************************)
(* Runs.  RunEnd is the end of the maximal run of characters in S from p:  *)
(* the loops of scan_letters_from, scan_digits_from, scan_other_from,      *)
(* scan_newlines and scan_tail.                                            *)
(***************************************************************************)
RunEnd(x, p, S) ==
    LET f[q \in p .. Len0(x)] ==
          IF q < Len0(x) /\ Byte(x, q) \in S THEN f[CharEnd(x, q)] ELSE q
    IN  f[p]

OfClass(c) == {b \in Characters : CharClass(b) = c}

ScanNewlines(x, p) == RunEnd(x, p, {Newline})

\* scan_numbers_max3, after `consumed` number characters.
ScanNumbersMax3(x, p, consumed) ==
    LET f[q \in p .. Len0(x), n \in 0 .. 3] ==
          IF n < 3 /\ q < Len0(x) /\ CharClass(Byte(x, q)) = "Number"
          THEN f[CharEnd(x, q), n + 1] ELSE q
    IN  f[p, consumed]

\* The start of the character that byte p belongs to, and of the last
\* character before e.
Lead(x, p) == IF Byte(x, p) # Cont THEN p ELSE IF Byte(x, p - 1) # Cont THEN p - 1 ELSE p - 2
CharBefore(x, e) == Lead(x, e - 1)

(***************************************************************************)
(* Contractions: an apostrophe at p followed by a suffix.  ContractionEnd  *)
(* is 0 where none matches.                                                *)
(***************************************************************************)
ContractionEnd(x, p, s, l) ==
    IF ByteIs(x, p + 1, s) THEN p + 2
    ELSE IF ByteIs(x, p + 1, l) /\ ByteIs(x, p + 2, l) THEN p + 3
    ELSE 0

\* The case-insensitive form, with U+017F, which folds to s.
FoldedContractionEnd(x, p) ==
    IF ByteIs(x, p + 1, {"LS"}) THEN p + 3
    ELSE ContractionEnd(x, p, {"s", "S"}, {"l"})

(***************************************************************************)
(* r50k (GPT-2).                                                           *)
(***************************************************************************)
R50kWs(x, scan, start) ==
    LET upTo(p) == IF p < Len0(x) /\ CharBefore(x, p) > start THEN CharBefore(x, p) ELSE p
    IN  upTo(RunEnd(x, scan, OfClass("Whitespace")))

R50kAdvance(x, p) ==
    LET b0 == Byte(x, p)
        q  == IF b0 = Space /\ p + 1 < Len0(x) THEN p + 1 ELSE p
        c  == CharClass(Byte(x, q))
        e  == CharEnd(x, q)
    IN  IF b0 = Apostrophe /\ ContractionEnd(x, p, {"s"}, {"l"}) # 0
        THEN ContractionEnd(x, p, {"s"}, {"l"})
        ELSE IF c = "Whitespace" THEN R50kWs(x, e, p)
        ELSE RunEnd(x, e, OfClass(c))

(***************************************************************************)
(* The cl100k family: cl100k, olmo3, qwen2 and qwen3.5.                    *)
(***************************************************************************)
Digits3(x)  == Params(x).digits3
EosWhole(x) == Params(x).eosWhole
FamilyClass(x, b) == IF Params(x).marksJoin THEN MarksJoin(b) ELSE CharClass(b)

\* ws_token_end: `\s++$` first in cl100k, then through the last newline,
\* then all but the last character, then the single character.
WsTokenEnd(x, start) ==
    LET upTo(p) ==
          LET nls == {q \in start .. p - 1 : Byte(x, q) = Newline}
          IN  IF EosWhole(x) /\ p = Len0(x) THEN p
              ELSE IF nls # {} THEN 1 + (CHOOSE q \in nls : \A r \in nls : r <= q)
              ELSE IF p = Len0(x) THEN p
              ELSE IF CharBefore(x, p) > start THEN CharBefore(x, p) ELSE p
    IN  upTo(RunEnd(x, start, OfClass("Whitespace")))

OfFamily(x, c)      == {b \in Characters : FamilyClass(x, b) = c}
Cl100kLetters(x, p) == RunEnd(x, p, OfFamily(x, "Letter"))
Cl100kOthers(x, p)  == ScanNewlines(x, RunEnd(x, p, OfFamily(x, "Other")))
\* Mutant: the first digit is not counted.
NumberEndMutant(x, p) == IF Digits3(x) THEN ScanNumbersMax3(x, p, 0) ELSE p
NumberEnd(x, p)     == IF Digits3(x) THEN ScanNumbersMax3(x, p, 1) ELSE p

FamilyAdvance(x, p) ==
    LET b0 == Byte(x, p)
        c0 == FamilyClass(x, b0)
        e0 == CharEnd(x, p)
        c1 == IF e0 < Len0(x) THEN FamilyClass(x, Byte(x, e0)) ELSE "End"
    IN  IF c0 = "Letter" THEN Cl100kLetters(x, e0)
        ELSE IF c0 = "Number" THEN NumberEnd(x, e0)
        ELSE IF b0 = Apostrophe /\ FoldedContractionEnd(x, p) # 0 THEN FoldedContractionEnd(x, p)
        ELSE IF b0 # Newline /\ c1 = "Letter" THEN Cl100kLetters(x, e0)
        ELSE IF b0 = Space /\ c1 \in {"End", "Number"} THEN e0
        ELSE IF b0 = Space /\ c1 = "Other" THEN Cl100kOthers(x, e0)
        ELSE IF c0 = "Whitespace" THEN WsTokenEnd(x, p)
        ELSE Cl100kOthers(x, e0)

\* Each of the four files has its own copy of advance_pos and of the
\* functions it calls; the copies differ in the scheme's parameters.
Cl100kAdvance(x, p) == FamilyAdvance(x, p)
Olmo3Advance(x, p)  == FamilyAdvance(x, p)
Qwen2Advance(x, p)  == FamilyAdvance(x, p)
Qwen35Advance(x, p) == FamilyAdvance(x, p)

(***************************************************************************)
(* The o200k family: o200k, nemotron and kimi.                             *)
(***************************************************************************)
Contractions(x) == Params(x).suffix
TailBytes(x)    == IF Params(x).slash THEN {Newline, Slash} ELSE {Newline}

\* letter_run_first: a letter or a mark, Han excluded.
RunMember(x, b) == O200kClass(b) \in {"Upper", "Lower", "Caseless", "Mark"} /\ ~IsHan(x, b)

\* scan_case_run from p: phase "U" until the first lower-case letter, then
\* "L", where a capital ends the token; a run that ends in phase U backs up
\* to its last caseless character or mark (cl, 0 for none).
ScanCaseRun(x, p0, ph0, cl0) ==
    LET f[p \in p0 .. Len0(x), ph \in {"U", "L"}, cl \in 0 .. Len0(x)] ==
          LET b == Byte(x, p)
              c == O200kClass(b)
              e == CharEnd(x, p)
          IN  IF p = Len0(x) \/ ~RunMember(x, b)
              THEN IF ph = "U" /\ cl # 0 THEN cl ELSE p
              ELSE IF c = "Upper" /\ ph = "L" THEN p
              ELSE IF c = "Upper" THEN f[e, "U", cl]
              ELSE IF c = "Lower" THEN f[e, "L", 0]
              ELSE f[e, ph, IF ph = "U" THEN e ELSE cl]
    IN  f[p0, ph0, cl0]

TrySuffix(x, e) ==
    IF Contractions(x) /\ ByteIs(x, e, {Apostrophe}) /\ FoldedContractionEnd(x, e) # 0
    THEN FoldedContractionEnd(x, e) ELSE e

\* A letter token whose run starts with the member at q.
LetterToken(x, q) ==
    LET c == O200kClass(Byte(x, q))
        e == CharEnd(x, q)
    IN  TrySuffix(x, CASE c = "Upper" -> ScanCaseRun(x, e, "U", 0)
                       [] c = "Lower" -> ScanCaseRun(x, e, "L", 0)
                       [] OTHER       -> ScanCaseRun(x, e, "U", e))

PunctOrMark == {b \in Characters : O200kClass(b) \in {"Other", "Mark"}}
PunctToken(x, p) == RunEnd(x, RunEnd(x, p, PunctOrMark), TailBytes(x))

ScanHanRun(x, p) == RunEnd(x, p, {b \in Characters : IsHan(x, b)})

O200kAdvance(x, p) ==
    LET b0 == Byte(x, p)
        c0 == O200kClass(b0)
        e0 == CharEnd(x, p)
        b1 == IF e0 < Len0(x) THEN Byte(x, e0) ELSE "End"
    IN  IF IsHan(x, b0) THEN ScanHanRun(x, e0)
        ELSE IF RunMember(x, b0) THEN LetterToken(x, p)
        ELSE IF c0 = "Number" THEN NumberEnd(x, e0)
        ELSE IF b0 # Newline /\ b1 # "End" /\ RunMember(x, b1) THEN LetterToken(x, e0)
        ELSE IF b0 = Space /\ b1 = "End" THEN e0
        ELSE IF b0 = Space /\ O200kClass(b1) \in {"Number", "Caseless"} THEN e0
        ELSE IF b0 = Space /\ O200kClass(b1) = "Other" THEN PunctToken(x, e0)
        ELSE IF c0 = "Whitespace" THEN WsTokenEnd(x, p)
        ELSE PunctToken(x, e0)

(***************************************************************************)
(* DeepSeek: number runs and CJK runs are pieces of their own, and the     *)
(* main regex never matches across their edges.                            *)
(***************************************************************************)
InRegion(b, cjk) == IsDeepseekCjk(b) = cjk
DsLm(x, p, cjk)  == /\ p < Len0(x)
                    /\ InRegion(Byte(x, p), cjk)
                    /\ DsCharClass(Byte(x, p)) \in {"Letter", "Mark"}
DsRun(x, p, cjk, S) ==
    RunEnd(x, p, {b \in Characters : InRegion(b, cjk) /\ DsCharClass(b) \in S})
DsPunct(x, p, cjk) ==
    LET q == DsRun(x, p, cjk, {"PunctSym"}) IN IF cjk THEN q ELSE ScanNewlines(x, q)

\* scan_gap_from: the characters the main regex cannot match, up to one
\* that prefixes a letter run.
DsGap(x, p, cjk) ==
    LET f[q \in p .. Len0(x)] ==
          IF /\ q < Len0(x) /\ InRegion(Byte(x, q), cjk)
             /\ DsCharClass(Byte(x, q)) = "Other"
             /\ ~DsLm(x, CharEnd(x, q), cjk)
          THEN f[CharEnd(x, q)] ELSE q
    IN  f[p]

DsWs(x, start) ==
    LET atBoundary(p) == p = Len0(x) \/ CharClass(Byte(x, p)) = "Number" \/ IsDeepseekCjk(Byte(x, p))
        upTo(p) ==
          LET nls == {q \in start .. p - 1 : Byte(x, q) = Newline}
          IN  IF nls # {} THEN 1 + (CHOOSE q \in nls : \A r \in nls : r <= q)
              ELSE IF ~atBoundary(p) /\ CharBefore(x, p) > start THEN CharBefore(x, p) ELSE p
    IN  upTo(RunEnd(x, start, OfClass("Whitespace")))

DsMain(x, p) ==
    LET b0 == Byte(x, p)
        c0 == DsCharClass(b0)
        e0 == CharEnd(x, p)
        b1 == IF e0 < Len0(x) THEN Byte(x, e0) ELSE "End"
    IN  IF c0 \in {"Letter", "Mark"} THEN DsRun(x, e0, FALSE, {"Letter", "Mark"})
        ELSE IF c0 \in {"Whitespace", "Other"} /\ b0 # Newline /\ DsLm(x, e0, FALSE)
        THEN DsRun(x, e0, FALSE, {"Letter", "Mark"})
        ELSE IF b0 = Space
        THEN IF b1 = "End" \/ IsDeepseekCjk(b1) \/ DsCharClass(b1) \in {"Number", "Other"} THEN e0
             ELSE IF DsCharClass(b1) = "PunctSym" THEN DsPunct(x, e0, FALSE)
             ELSE DsWs(x, p)
        ELSE IF c0 = "Whitespace" THEN DsWs(x, p)
        ELSE IF b0 \in AsciiPunct /\ b1 \in Letters THEN RunEnd(x, e0, Letters)
        ELSE IF c0 = "PunctSym" THEN DsPunct(x, e0, FALSE)
        ELSE DsGap(x, e0, FALSE)

DsCjk(x, p) ==
    LET c0 == DsCharClass(Byte(x, p))
        e0 == CharEnd(x, p)
    IN  CASE c0 \in {"Letter", "Mark"} -> DsRun(x, e0, TRUE, {"Letter", "Mark"})
          [] c0 = "PunctSym"           -> DsPunct(x, e0, TRUE)
          [] OTHER -> IF DsLm(x, e0, TRUE) THEN DsRun(x, e0, TRUE, {"Letter", "Mark"})
                      ELSE DsGap(x, e0, TRUE)

DsAdvance(x, p) ==
    LET b0 == Byte(x, p)
    IN  IF IsDeepseekCjk(b0) THEN DsCjk(x, p)
        ELSE IF CharClass(b0) = "Number" THEN ScanNumbersMax3(x, CharEnd(x, p), 1)
        ELSE DsMain(x, p)

Advance(x, p) ==
    CASE x.k = "r50k"     -> R50kAdvance(x, p)
      [] x.k = "cl100k"   -> Cl100kAdvance(x, p)
      [] x.k = "olmo3"    -> Olmo3Advance(x, p)
      [] x.k = "qwen2"    -> Qwen2Advance(x, p)
      [] x.k = "qwen3_5"  -> Qwen35Advance(x, p)
      [] x.k = "deepseek" -> DsAdvance(x, p)
      [] OTHER            -> O200kAdvance(x, p)
=============================================================================
