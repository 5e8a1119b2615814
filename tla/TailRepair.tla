----------------------------- MODULE TailRepair -----------------------------
(***************************************************************************)
(* The tail of a session and its append repair: the span storage of        *)
(* crates/toktier-store-core/src/tail.rs, the boundary search of           *)
(* crates/toktier-routing-core/src/lib.rs and the window repair of         *)
(* fast_cpu.rs.                                                            *)
(*                                                                         *)
(* A tail is its text, its ids, and either its spans (kind "materialized") *)
(* or checkpoints to rebuild them from (kind "lazy").                      *)
(***************************************************************************)
EXTENDS CoreStream
LOCAL INSTANCE SequencesExt
LOCAL INSTANCE FiniteSetsExt

CONSTANTS
    Stride,        \* tokens between two span checkpoints (4096)
    WindowChars,   \* the first repair window (512)
    Margin,        \* characters at a window's start that are not matched
    EffectiveLMax, \* a match must cover more characters than this
    MaxRetries,    \* window doublings (5)
    MinMatch       \* tokens of the shortest match (2)
ASSUME RepairAssumption ==
    /\ {Stride, WindowChars} \subseteq Nat \ {0}
    /\ {Margin, EffectiveLMax, MaxRetries, MinMatch} \subseteq Nat

(***************************************************************************)
(* Tail state.                                                             *)
(***************************************************************************)
\* The frozen table of raw byte lengths.
ByteLength(id) == IF id.lit # NoLiteral THEN TextLen(id.lit) ELSE Len(id.bytes)
RowLengths(ids) == [i \in DOMAIN ids |-> ByteLength(ids[i])]

EmptyTail == [kind |-> "materialized", text |-> <<>>, ids |-> <<>>, spans |-> <<>>,
              checkpoints |-> <<>>]
Fill(cs, tokens) == [EmptyTail EXCEPT !.text = cs, !.ids = Ids(tokens), !.spans = Spans(tokens)]

\* build_span_checkpoints: of every Stride-th token, its first byte and the
\* character that byte is in.
Checkpoint(cs, byte) ==
    IF IsAscii(cs) THEN [byte |-> byte, cursor |-> [index |-> byte, end |-> byte + 1]]
    ELSE [byte |-> byte, cursor |-> CharContaining(cs, [index |-> 0, end |-> CharLen(cs[1])], byte)]
BuildCheckpoints(cs, lens) ==
    [k \in 1 .. (Len(lens) + Stride - 1) \div Stride |-> Checkpoint(cs, Total(lens, (k - 1) * Stride))]

\* fill_lazy: refused (empty) unless the row closes over the text.
FillLazy(cs, ids) ==
    IF ~VerifyIdsClose(RowLengths(ids), cs) THEN {}
    ELSE {[EmptyTail EXCEPT !.kind = "lazy", !.text = cs, !.ids = ids,
                            !.checkpoints = BuildCheckpoints(cs, RowLengths(ids))]}

\* Mutant: the walk to the window's first token starts at the window.
RebuildSpanWindowMutant(tail, lo, hi) ==
    LET lens == RowLengths(tail.ids)
        cp   == tail.checkpoints[lo \div Stride + 1]
        row  == SubSeq(lens, lo + 1, hi)
    IN  IF lo = hi THEN <<>>
        ELSE IF IsAscii(tail.text) THEN ByteSpans(row, cp.byte)
        ELSE StreamSpans(row, tail.text, cp.byte, cp.cursor)
\* rebuild_span_window: from the nearest checkpoint at or before lo.
RebuildSpanWindow(tail, lo, hi) ==
    LET lens == RowLengths(tail.ids)
        at   == lo \div Stride
        cp   == tail.checkpoints[at + 1]
        byte == cp.byte + Total(SubSeq(lens, at * Stride + 1, lo), lo - at * Stride)
        row  == SubSeq(lens, lo + 1, hi)
    IN  IF lo = hi THEN <<>>
        ELSE IF IsAscii(tail.text) THEN ByteSpans(row, byte)
        ELSE StreamSpans(row, tail.text, byte, cp.cursor)

\* span_window and the whole row.
SpanWindow(tail, lo, hi) ==
    IF tail.kind = "materialized" THEN SubSeq(tail.spans, lo + 1, hi)
    ELSE RebuildSpanWindow(tail, lo, hi)
ForcedSpans(tail) == SpanWindow(tail, 0, Len(tail.ids))

(***************************************************************************)
(* The last certified boundary of a tail in (floor, ceil]: the token at    *)
(* which it starts and its character; no boundary is a cut of 0 tokens.    *)
(***************************************************************************)
NoCut == [tokens |-> 0, char |-> 0]
Monotone(spans) == \A i \in 1 .. Len(spans) - 1 : spans[i][1] <= spans[i + 1][1]

\* A token with span `here`, after one with span `before`, starts a group of
\* tokens with one start, at an acceptable boundary.
CutBetween(cs, before, here, floor, ceil) ==
    LET b == here[1]
    IN  /\ before[1] # b
        /\ floor < b /\ b <= ceil
        /\ 0 < b /\ b < Len(cs)
        /\ before[2] <= b
        /\ Accepts(cs[b], cs[b + 1])

LastBoundary(tail, floor, ceil) ==
    LET spans == ForcedSpans(tail)
        cuts  == {i \in 1 .. Len(spans) - 1 :
                    CutBetween(tail.text, spans[i], spans[i + 1], floor, ceil)}
    IN  IF Len(spans) < 2 \/ ~Monotone(spans) \/ cuts = {} THEN NoCut
        ELSE [tokens |-> Max(cuts), char |-> spans[Max(cuts) + 1][1]]

\* last_boundary_windowed: backward over stride-aligned windows, each
\* rebuilt on its own; the scan stops at one that is out of order.
LastBoundaryWindowed(tail, floor, ceil) ==
    LET n       == Len(tail.ids)
        windows == [k \in 0 .. n \div Stride |->
                      SpanWindow(tail, Min({k * Stride, n}), Min({(k + 1) * Stride, n}))]
        spanOf(i) == windows[i \div Stride][(i % Stride) + 1]
        \* the scan from token i down
        f[i \in 0 .. n - 1] ==
          IF i = 0 \/ ~Monotone(windows[i \div Stride]) \/ spanOf(i)[1] <= floor THEN NoCut
          ELSE IF CutBetween(tail.text, spanOf(i - 1), spanOf(i), floor, ceil) THEN [tokens |-> i, char |-> spanOf(i)[1]]
          ELSE f[i - 1]
    IN  IF n < 2 THEN NoCut ELSE f[n - 1]

\* Mutant: every token boundary will do.
LastCertifiedBoundaryMutant(tail, floor, ceil) ==
    LET spans == ForcedSpans(tail)
        cuts  == {i \in 1 .. Len(spans) - 1 : floor < spans[i + 1][1] /\ spans[i + 1][1] <= ceil}
    IN  IF cuts = {} THEN NoCut ELSE [tokens |-> Max(cuts), char |-> spans[Max(cuts) + 1][1]]
LastCertifiedBoundary(tail, floor, ceil) ==
    IF tail.kind = "lazy" THEN LastBoundaryWindowed(tail, floor, ceil)
    ELSE LastBoundary(tail, floor, ceil)

(***************************************************************************)
(* Repair: tokens of the old tail and of the window that agree.            *)
(***************************************************************************)
BuildRecords(ids, spans, base, from, to) ==
    LET all == [i \in DOMAIN ids |-> [at |-> i, s |-> base + spans[i][1], e |-> base + spans[i][2],
                                      id |-> ids[i]]]
        in(r) == r.s # r.e /\ r.s >= from /\ r.e <= to
        kept == SelectSeq(all, in)
    IN  [j \in DOMAIN kept |->
            [at |-> kept[j].at,
             key |-> [s |-> kept[j].s, e |-> kept[j].e, id |-> kept[j].id,
                      ordinal |-> Cardinality({i \in 1 .. j - 1 : /\ kept[i].s = kept[j].s
                                                                  /\ kept[i].e = kept[j].e})]]]

\* The longest run that starts at left[l] and right[r].
RunLength(left, right, l, r) ==
    Max({n \in 1 .. Min({Len(left) - l + 1, Len(right) - r + 1}) :
           \A i \in 0 .. n - 1 : /\ left[l + i].at = left[l].at + i
                                 /\ right[r + i].at = right[r].at + i
                                 /\ left[l + i].key = right[r + i].key})

\* find_match: the longest run, then the one that covers most, then the
\* first; empty where no two records agree.
FindMatch(left, right) ==
    LET starts == {<<l, r>> \in (DOMAIN left) \X (DOMAIN right) : left[l].key = right[r].key}
        run    == [p \in starts |->
                     LET n == RunLength(left, right, p[1], p[2])
                     IN  [left |-> left[p[1]].at, right |-> right[p[2]].at, length |-> n,
                          covered |-> left[p[1] + n - 1].key.e - left[p[1]].key.s]]
        better(p, q) == \/ run[p].length > run[q].length
                        \/ run[p].length = run[q].length /\ run[p].covered > run[q].covered
                        \/ /\ run[p].length = run[q].length
                           /\ run[p].covered = run[q].covered
                           /\ p[1] < q[1]
    IN  {run[p] : p \in {p \in starts : \A q \in starts \ {p} : better(p, q)}}

HasSyncWitness(match, spans, full) ==
    \E i \in match.left .. match.left + match.length - 2 :
        LET b == spans[i + 1][1]
        IN  0 < b /\ b < Len(full) /\ Accepts(full[b], full[b + 1])

\* Mutant: a match is accepted without a witness.
AcceptedMutant(face, match, spans, full) ==
    match.length >= MinMatch /\ match.covered > EffectiveLMax
Accepted(face, match, spans, full) ==
    LET first == spans[match.left][1]
        last  == spans[match.left + match.length - 1][2]
        covered == IF HasNormalizer(face) THEN Len(Normalize(face, Slice(full, first, last)))
                   ELSE match.covered
    IN  /\ match.length >= MinMatch
        /\ covered > EffectiveLMax
        /\ HasSyncWitness(match, spans, full)

\* One round of repair_append's loop: whether a guard refused the window's
\* row, and the new tail, when there is an acceptable match.
RepairRound(face, tail, delta, window) ==
    LET full  == tail.text \o delta
        old   == Len(tail.text)
        start == old - window
        prior == ForcedSpans(tail)
        match(fresh) ==
          {m \in FindMatch(BuildRecords(tail.ids, prior, 0, start + Margin, old),
                           BuildRecords(Ids(fresh), Spans(fresh), start, start + Margin, old)) :
             Accepted(face, m, prior, full)}
        spliced(fresh, m) ==
          LET keep == m.left + m.length - 1
              rest == SubSeq(fresh, m.right + m.length, Len(fresh))
          IN  [EmptyTail EXCEPT
                 !.text  = full,
                 !.ids   = SubSeq(tail.ids, 1, keep) \o Ids(rest),
                 !.spans = SubSeq(prior, 1, keep)
                           \o [i \in DOMAIN rest |-> <<rest[i].s + start, rest[i].e + start>>]]
        repaired(encoded) ==
          [refused |-> encoded = {},
           tails   |-> UNION {{spliced(fresh, m) : m \in match(fresh)} : fresh \in encoded}]
    IN  repaired(FastEncoding(face, Slice(full, start, Len(full))))
=============================================================================
