----------------------------- MODULE CoreStream -----------------------------
(***************************************************************************)
(* What one tokenizer artifact makes of a text: the Hugging Face reference *)
(* (crates/toktier-routing-core/src/reference.rs), the corrected Gigatoken *)
(* engine as the corrected CPU route calls it (fast_cpu.rs), the guarded   *)
(* gate between the two, the bridges from token lengths to character       *)
(* spans, and the synchronizing-transition predicate (lib.rs).             *)
(*                                                                         *)
(* A text is a sequence of characters; the pretokenizers see its bytes.    *)
(* "eac" is a letter with an accent, which NFC composes from "a" and the   *)
(* mark "mk"; "ov" is a mark that sorts before "mk"; "jl" and "jv" compose *)
(* to "hgl", as Hangul jamo do; "kel" is a letter that NFC replaces.       *)
(*                                                                         *)
(* A face is the artifact document: its pretokenizer `scheme`, its         *)
(* `normalizer` ("none", "empty" for the empty Sequence, "nfc", "other"),  *)
(* its added-token literals `raw` (matched on the input) and `norm`        *)
(* (normalized: true), and whether they set rstrip.                        *)
(***************************************************************************)
EXTENDS PretokenScalar, TLC
LOCAL INSTANCE SequencesExt
LOCAL INSTANCE FiniteSetsExt

CONSTANTS
    TokenBytes,     \* bytes of a token that is not a literal
    LongPretoken    \* bytes from which a pretoken is cut differently
ASSUME TokenAssumption == TokenBytes \in Nat \ {0} /\ LongPretoken \in Nat

Marks == {"mk", "ov"}
LeadOf(c) ==
    CASE c = "eac" -> "L2"
      [] c \in Marks -> "M2"
      [] c \in {"jl", "jv", "hgl"} -> "X2"
      [] c = "kel" -> "U2"
      [] OTHER -> c
CharLen(c)  == LeadLen(LeadOf(c))
IsAscii(cs) == \A i \in DOMAIN cs : CharLen(cs[i]) = 1
TextLen(cs) == FoldLeft(LAMBDA n, c : n + CharLen(c), 0, cs)
Slice(cs, low, high) == SubSeq(cs, low + 1, high)

(***************************************************************************)
(* The frozen class table, and the predicate that certifies a cut.         *)
(***************************************************************************)
Class(c) ==
    CASE LeadOf(c) = "M2" -> "M"
      [] CharClass(LeadOf(c)) = "Letter" -> "L"
      [] CharClass(LeadOf(c)) = "Number" -> "N"
      [] CharClass(LeadOf(c)) = "Whitespace" -> "S"
      [] OTHER -> "O"

SyncPairs == {<<"L", "N">>, <<"L", "O">>, <<"L", "S">>, <<"N", "L">>,
              <<"N", "O">>, <<"N", "S">>, <<"O", "N">>, <<"O", "S">>}

Accepts(previous, current) ==
    LET pair == <<Class(previous), Class(current)>>
    IN  /\ pair \in SyncPairs
        /\ ~(pair = <<"O", "S">> /\ current = Newline)
        /\ ~(pair = <<"L", "O">> /\ current = Apostrophe)

(***************************************************************************)
(* NFC over items: characters with the input position they come from.      *)
(***************************************************************************)
Items(cs)  == [i \in DOMAIN cs |-> [c |-> cs[i], at |-> i - 1]]
Chars(items) == [i \in DOMAIN items |-> items[i].c]

Ccc(c) == CASE c = "mk" -> 230 [] c = "ov" -> 1 [] OTHER -> 0
Decomposed(c) ==
    CASE c = "eac" -> <<"a", "mk">>
      [] c = "hgl" -> <<"jl", "jv">>
      [] c = "kel" -> <<"A">>
      [] OTHER -> <<c>>
Composite == [p \in {<<"a", "mk">>, <<"jl", "jv">>} |-> IF p[1] = "a" THEN "eac" ELSE "hgl"]

Decompose(items) ==
    FlattenSeq([i \in DOMAIN items |->
        LET d == Decomposed(items[i].c) IN [j \in DOMAIN d |-> [items[i] EXCEPT !.c = d[j]]]])

\* Each run of marks in the order of its combining classes.
Reorder(items) ==
    LET f[p \in 1 .. Len(items) + 1] ==
          IF p > Len(items) THEN <<>>
          ELSE IF Ccc(items[p].c) = 0 THEN <<items[p]>> \o f[p + 1]
          ELSE LET e == Max({q \in p .. Len(items) : \A r \in p .. q : Ccc(items[r].c) > 0})
               IN  SortSeq(SubSeq(items, p, e), LAMBDA x, y : Ccc(x.c) < Ccc(y.c)) \o f[e + 1]
    IN  f[1]

Compose(items) ==
    LET step(out, x) ==
          LET starters == {i \in DOMAIN out : Ccc(out[i].c) = 0}
              s        == IF starters = {} THEN 0 ELSE Max(starters)
          IN  IF /\ s # 0
                 /\ <<out[s].c, x.c>> \in DOMAIN Composite
                 /\ \A i \in s + 1 .. Len(out) : Ccc(out[i].c) < Ccc(x.c)
              THEN [out EXCEPT ![s].c = Composite[<<out[s].c, x.c>>]]
              ELSE Append(out, x)
    IN  FoldLeft(step, <<>>, items)

Nfc(items) == Compose(Reorder(Decompose(items)))

\* ReferenceEngine::normalize, and the normalizer applied to a section.
Effective(face)       == face.normalizer = "nfc"
NormalizeItems(face, items) == IF Effective(face) THEN Nfc(items) ELSE items
Normalize(face, cs)   == Chars(NormalizeItems(face, Items(cs)))

(***************************************************************************)
(* Literals.  Segments splits a section at the leftmost-longest literal    *)
(* matches; an rstrip literal takes the whitespace after it.               *)
(***************************************************************************)
NoLiteral == <<>>
\* An added token of empty content matches nowhere.
MatchesAt(cs, p, lits) ==
    {l \in lits \ {NoLiteral} : p + Len(l) - 1 <= Len(cs) /\ SubSeq(cs, p, p + Len(l) - 1) = l}

Segments(items, lits, rstrip) ==
    LET cs   == Chars(items)
        n    == Len(cs)
        hits == {p \in 1 .. n : MatchesAt(cs, p, lits) # {}}
        matchEnd(p) == p - 1 + Max({Len(l) : l \in MatchesAt(cs, p, lits)})
        stripped(e) == IF ~rstrip THEN e
                       ELSE Max({q \in e .. n : \A r \in e + 1 .. q : Class(cs[r]) = "S"})
        piece(lit, low, high) == [lit |-> lit, items |-> SubSeq(items, low, high)]
        f[p \in 1 .. n + 1] ==
          LET later == {q \in hits : q >= p}
              q     == Min(later)
              e     == matchEnd(q)
          IN  IF later = {} THEN IF p > n THEN <<>> ELSE <<piece(NoLiteral, p, n)>>
              ELSE (IF q > p THEN <<piece(NoLiteral, p, q - 1)>> ELSE <<>>)
                   \o <<piece(SubSeq(cs, q, e), q, stripped(e))>> \o f[stripped(e) + 1]
    IN  f[1]

(***************************************************************************)
(* Tokens.  A token is its id, its character span and its byte length.     *)
(* What byte-pair encoding makes of a pretoken depends on its bytes alone: *)
(* here, tokens of TokenBytes bytes from its start, one byte more in a     *)
(* long pretoken, whose last byte so decides about its first token.        *)
(***************************************************************************)
TaggedBytes(items) ==
    FlattenSeq([i \in DOMAIN items |-> [j \in 1 .. CharLen(items[i].c) |->
        [c |-> items[i].c, k |-> j, at |-> items[i].at]]])

NoBytes == <<>>
Token(bs) == [id |-> [lit |-> NoLiteral, bytes |-> [i \in DOMAIN bs |-> <<bs[i].c, bs[i].k>>]],
              len |-> Len(bs), s |-> bs[1].at, e |-> bs[Len(bs)].at + 1]
LiteralToken(lit, items) == [id |-> [lit |-> lit, bytes |-> NoBytes], len |-> TextLen(lit),
                             s |-> items[1].at, e |-> items[Len(items)].at + 1]

\* The tokens of one pretoken.
Pieces(bs) ==
    LET size == IF Len(bs) > LongPretoken THEN TokenBytes + 1 ELSE TokenBytes
    IN  [i \in 1 .. (Len(bs) + size - 1) \div size |->
           Token(SubSeq(bs, (i - 1) * size + 1, Min({i * size, Len(bs)})))]

RECURSIVE PretokenTokens(_, _, _)
PretokenTokens(x, bs, p) ==
    LET upTo(end) == Pieces(SubSeq(bs, p + 1, end)) \o PretokenTokens(x, bs, end)
    IN  IF p = Len(bs) THEN <<>> ELSE upTo(Advance(x, p))

SectionTokens(items, scheme) ==
    LET tokens(bs) ==
          PretokenTokens([t |-> [i \in DOMAIN bs |-> IF bs[i].k = 1 THEN LeadOf(bs[i].c) ELSE Cont],
                          w |-> 64, k |-> scheme, p |-> Schemes[scheme]], bs, 0)
    IN  tokens(TaggedBytes(items))

Flat(segments, Enc(_)) ==
    FlattenSeq([i \in DOMAIN segments |->
        IF segments[i].lit # NoLiteral THEN <<LiteralToken(segments[i].lit, segments[i].items)>>
        ELSE Enc(segments[i].items)])

\* encode_core: literals of the input, then the normalizer on what is left,
\* then the literals of the normalized text, then the pretokens.
EncodeCore(face, cs) ==
    LET tokens(items) == SectionTokens(items, face.scheme)
        section(items) ==
          Flat(Segments(NormalizeItems(face, items), face.norm, face.rstrip), tokens)
    IN  Flat(Segments(Items(cs), face.raw, face.rstrip), section)

\* encode_with_added_tokens_flat: every literal on the input, each section
\* normalized, its pretokens.  It returns ids alone.
Gigatoken(face, cs) ==
    LET tokens(items) == SectionTokens(NormalizeItems(face, items), face.scheme)
    IN  Flat(Segments(Items(cs), face.raw \cup face.norm, face.rstrip), tokens)

Ids(tokens)     == [i \in DOMAIN tokens |-> tokens[i].id]
Lengths(tokens) == [i \in DOMAIN tokens |-> tokens[i].len]
Spans(tokens)   == [i \in DOMAIN tokens |-> <<tokens[i].s, tokens[i].e>>]

(***************************************************************************)
(* The bridges from token byte lengths to character spans.  A result is a  *)
(* set: empty where the row is refused because it does not close over the  *)
(* text.                                                                   *)
(***************************************************************************)
Total(lens, n) == FoldLeft(+, 0, SubSeq(lens, 1, n))
VerifyIdsClose(lens, cs) == Total(lens, Len(lens)) = TextLen(cs)

\* spans_from_ids: through the map from every byte to its character.
SpansFromIds(lens, cs) ==
    LET charOfByte == FlattenSeq([i \in DOMAIN cs |-> [j \in 1 .. CharLen(cs[i]) |-> i - 1]])
    IN  IF ~VerifyIdsClose(lens, cs) THEN {}
        ELSE {[i \in DOMAIN lens |->
                <<charOfByte[Total(lens, i - 1) + 1], charOfByte[Total(lens, i)] + 1>>]}

\* char_containing: a cursor over the characters that only moves forward,
\* at character `index`, which ends at byte `end`.
CharContaining(cs, cursor, byte) ==
    LET f[i \in cursor.index .. Len(cs), end \in 0 .. TextLen(cs)] ==
          IF end > byte THEN [index |-> i, end |-> end]
          ELSE f[i + 1, end + CharLen(cs[i + 2])]
    IN  f[cursor.index, cursor.end]

\* The spans of tokens in order from byte `from`, with a cursor at the
\* character that contains it: the loop of unicode_spans_soa and of
\* rebuild_span_window.
StreamSpans(lens, cs, from, at) ==
    LET step(st, len) ==
          LET first == CharContaining(cs, st.cursor, st.byte)
              last  == CharContaining(cs, first, st.byte + len - 1)
          IN  [byte |-> st.byte + len, cursor |-> last,
               out |-> Append(st.out, <<first.index, last.index + 1>>)]
    IN  FoldLeft(step, [byte |-> from, cursor |-> at, out |-> <<>>], lens).out

ByteSpans(lens, from) ==
    [i \in DOMAIN lens |-> <<from + Total(lens, i - 1), from + Total(lens, i)>>]

SpansSoaFromIds(lens, cs) ==
    IF ~VerifyIdsClose(lens, cs) THEN {}
    ELSE IF IsAscii(cs) THEN {ByteSpans(lens, 0)}
    ELSE {StreamSpans(lens, cs, 0, [index |-> 0, end |-> CharLen(cs[1])])}

(***************************************************************************)
(* The gate of the corrected CPU route.                                    *)
(***************************************************************************)
HasNormalizer(face)   == face.normalizer # "none"
RouteEveryInput(face) == Effective(face) /\ (face.norm # {} \/ NoLiteral \in face.raw)
MayMatch(face, cs)    ==
    \E p \in DOMAIN cs :
        MatchesAt(cs, p, face.raw \cup (IF Effective(face) THEN {} ELSE face.norm)) # {}
HasAdded(tokens) == \E i \in DOMAIN tokens : tokens[i].id.lit # NoLiteral

\* require_byte_identity: the normalizer leaves the text as it is.
ByteIdentity(face, cs) == HasNormalizer(face) /\ ~IsAscii(cs) => Normalize(face, cs) = cs

\* fast_ids_with and its span-building counterparts: empty where a guard
\* refuses the row.  The spans come from the byte lengths alone.
FastEncoding(face, cs) ==
    LET spanned(giga) ==
          {[i \in DOMAIN giga |-> [giga[i] EXCEPT !.s = spans[i][1], !.e = spans[i][2]]] :
             spans \in SpansSoaFromIds(Lengths(giga), cs)}
    IN  IF ByteIdentity(face, cs) THEN spanned(Gigatoken(face, cs)) ELSE {}

\* guarded_full_with: the tokens and which implementation produced them.
GuardedFull(face, cs) ==
    LET from(tokens, source) == [tokens |-> tokens, source |-> source]
        route(plain, fast) ==
          IF RouteEveryInput(face) \/ (MayMatch(face, cs) /\ HasAdded(plain))
          THEN from(plain, "ReferenceAddedToken")
          ELSE IF fast # {} THEN from(CHOOSE t \in fast : TRUE, "Gigatoken")
          ELSE from(plain, "ReferenceEngineGuard")
    IN  route(EncodeCore(face, cs), FastEncoding(face, cs))
=============================================================================
