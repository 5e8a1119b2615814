------------------------------ MODULE FastCpu -------------------------------
(***************************************************************************)
(* The corrected CPU engine in use (crates/toktier-routing-core/src/       *)
(* fast_cpu.rs and chunked.rs, crates/toktier/src/chunked.rs): callers     *)
(* that share one engine encode documents whole, in a batch or in chunks,  *)
(* warm the chunk workers, and seed and append to the tail of a session.   *)
(*                                                                         *)
(* The engine owns one primary encoder behind a mutex, a vector of batch   *)
(* workers behind a read-write lock, each behind a mutex of its own, and a *)
(* free list of chunk workers.  A row is a piece of a call that the thread *)
(* pool runs: a chunk of a document, or the texts of one batch worker.     *)
(* One work item is one call per caller on one artifact.                   *)
(***************************************************************************)
EXTENDS ChunkPlan, TailRepair
LOCAL INSTANCE SequencesExt
LOCAL INSTANCE FiniteSetsExt

CONSTANTS
    Callers,
    Work,           \* the work items: an artifact, and what each caller does
    ChunkTable,     \* default_chunks' staircase: <<characters below, chunks>>
    CharsPerWorker, \* characters one chunk worker is worth (64 Ki)
    BytesPerWorker, \* bytes one batch worker is worth (64 Ki)
    Threads         \* the thread pool's size

VARIABLES
    work,      \* the work item
    pc,        \* where each caller is
    primary,   \* who holds the primary encoder
    workers,   \* who holds each batch worker
    growing,   \* who holds the worker vector's write lock
    free,      \* how many chunk workers are on the free list
    forked,    \* how many were forked
    rows,      \* each caller's rows
    tail,      \* each caller's session tail
    window,    \* each caller's repair window
    result,    \* what each caller got
    counters   \* the chunked surface's counters

vars == <<work, pc, primary, workers, growing, free, forked, rows, tail, window, result, counters>>
locks == <<primary, workers, growing>>
pool  == <<free, forked>>

Nobody == "nobody"
Face    == work.face
Call(c) == work.calls[c]
Text(c) == Call(c).text
Delta(c) == Head(Call(c).deltas)
\* The first text of a session that was seeded with nothing.
Cold(c) ==
    /\ Call(c).op = "session" /\ pc[c] \in {"append", "gate"} /\ result[c].reason # "none"
    /\ tail[c].text = <<>> /\ Call(c).deltas # <<>>
NoResult == [ids |-> <<>>, sources |-> <<>>, reason |-> "none"]

Init ==
    /\ work \in Work
    /\ pc = [c \in Callers |-> IF work.calls[c].op = "idle" THEN "done" ELSE "begin"]
    /\ primary = Nobody /\ workers = <<>> /\ growing = Nobody
    /\ free = 0 /\ forked = 0
    /\ rows = [c \in Callers |-> <<>>]
    /\ tail = [c \in Callers |-> EmptyTail]
    /\ window = [c \in Callers |-> WindowChars]
    /\ result = [c \in Callers |-> NoResult]
    /\ counters = [calls |-> 0, applied |-> 0, serial |-> 0, below |-> 0, chunks |-> 0]

At(c, op, place) == Call(c).op = op /\ pc[c] = place
Goto(c, place)   == pc' = [pc EXCEPT ![c] = place]
Return(c, r)     == result' = [result EXCEPT ![c] = r] /\ Goto(c, "done")

(***************************************************************************)
(* A text under the gate: guarded_full_with, for the caller itself (slot   *)
(* 0), under the primary's lock, or for one of its rows, on that row's     *)
(* worker.  What follows the gate is the action of the call.               *)
(***************************************************************************)
LockPrimary(c) ==
    /\ At(c, "full", "begin") \/ At(c, "chunk", "serial") \/ At(c, "session", "begin") \/ Cold(c)
    /\ primary = Nobody
    /\ primary' = c
    /\ Goto(c, "gate")
    /\ UNCHANGED <<work, workers, growing, pool, rows, tail, window, result, counters>>

Slots(c) ==
    IF pc[c] = "gate" THEN {0} ELSE {i \in DOMAIN rows[c] : pc[c] = "rows" /\ rows[c][i].at = "held"}
Input(c, i) ==
    IF i # 0 THEN rows[c][i].texts[Len(rows[c][i].out) + 1]
    ELSE IF Cold(c) THEN Delta(c) ELSE Text(c)

\* Counters::record, for a result cut into `chunks` rows.
Record(reason, chunks) ==
    counters' = [counters EXCEPT !.calls = @ + 1, !.chunks = @ + chunks,
                                 !.applied = @ + (IF reason = "none" THEN 1 ELSE 0),
                                 !.below = @ + (IF reason = "below" THEN 1 ELSE 0),
                                 !.serial = @ + (IF reason \in {"none", "below"} THEN 0 ELSE 1)]

SerialDone(c, r) ==
    /\ Call(c).op \in {"full", "chunk"}
    /\ primary' = Nobody
    /\ Return(c, [ids |-> Ids(r.tokens), sources |-> <<r.source>>, reason |-> result[c].reason])
    /\ IF Call(c).op = "chunk" THEN Record(result[c].reason, 1) ELSE UNCHANGED counters
    /\ UNCHANGED <<work, workers, growing, pool, rows, tail, window>>

(***************************************************************************)
(* A document in chunks: chunked_encode_ids, behind the facade's options   *)
(* and admission.                                                          *)
(***************************************************************************)
\* default_chunks: the staircase, capped by what the text is worth.
DefaultChunks(chars) ==
    LET row == CHOOSE i \in DOMAIN ChunkTable :
                 /\ chars < ChunkTable[i][1] \/ i = Len(ChunkTable)
                 /\ \A j \in 1 .. i - 1 : chars >= ChunkTable[j][1]
        useful == (chars + CharsPerWorker - 1) \div CharsPerWorker
    IN  Max({1, Min({ChunkTable[row][2], useful})})

NoK == -1
Resolved(c) ==
    IF Call(c).k = NoK THEN [Call(c) EXCEPT !.k = DefaultChunks(Len(Text(c)))] ELSE Call(c)

\* decide: the certified roster, the structural rule of the chunk encoder,
\* the evidence row unless the policy lifts it.
Admission(face) ==
    /\ face.roster
    /\ Admitted(face)
    /\ face.evidence = "certified" \/ face.lifted

\* Why a document is encoded serially; "none" when it is cut.
SerialReason(c, plan) ==
    IF ~Admission(Face) THEN "R_CHUNK_FAMILY_UNSUPPORTED"
    ELSE IF Resolved(c).k <= 1 \/ Len(Text(c)) < MinText THEN "below"
    ELSE IF plan.cuts = <<>> THEN "R_CHUNK_NO_CUT"
    ELSE "none"

RefuseOptions(c) ==
    /\ At(c, "chunk", "begin")
    /\ Call(c).k = 0 \/ Call(c).budget = 0
    /\ Return(c, [NoResult EXCEPT !.reason = "invalid_argument"])
    /\ UNCHANGED <<work, locks, pool, rows, tail, window, counters>>

PlanChunks(c) ==
    /\ At(c, "chunk", "begin")
    /\ Call(c).k # 0 /\ Call(c).budget # 0
    /\ \E plan \in {PlanCounted(Face, Text(c), Resolved(c))} :
         LET reason == SerialReason(c, plan)
             spans  == PlanSpans(Text(c), plan)
         IN  /\ result' = [result EXCEPT ![c].reason = reason]
             /\ IF reason # "none" THEN Goto(c, "serial") /\ UNCHANGED rows
                ELSE /\ Goto(c, "rows")
                     /\ rows' = [rows EXCEPT ![c] = [i \in DOMAIN spans |->
                          [at |-> "todo", texts |-> <<Slice(Text(c), spans[i][1], spans[i][2])>>, out |-> <<>>]]]
    /\ UNCHANGED <<work, locks, pool, tail, window, counters>>

RowOf(c, i, place) == pc[c] = "rows" /\ i \in DOMAIN rows[c] /\ rows[c][i].at = place
Encoded(row, r) == [row EXCEPT !.out = Append(@, r)]
IsLast(row)     == Len(row.out) + 1 = Len(row.texts)

\* checkout: from the free list, or a fork of the primary under its lock.
\* At most Threads rows run at once.
InFlight ==
    Cardinality(UNION {{<<c, i>> : i \in {i \in DOMAIN rows[c] : rows[c][i].at = "held"}} : c \in Callers})

Checkout(c, i) ==
    /\ Call(c).op = "chunk" /\ RowOf(c, i, "todo")
    /\ InFlight < Threads
    /\ \/ free > 0 /\ free' = free - 1 /\ UNCHANGED forked
       \/ free = 0 /\ primary = Nobody /\ forked' = forked + 1 /\ UNCHANGED free
    /\ rows' = [rows EXCEPT ![c][i].at = "held"]
    /\ UNCHANGED <<work, pc, locks, tail, window, result, counters>>

\* The guarded encode of the chunk, and checkin.
EncodeChunk(c, i, r) ==
    /\ Call(c).op = "chunk"
    /\ rows' = [rows EXCEPT ![c][i] = [Encoded(@, r) EXCEPT !.at = "done"]]
    /\ free' = free + 1
    /\ UNCHANGED <<work, pc, locks, forked, tail, window, result, counters>>

RowsDone(c) == pc[c] = "rows" /\ \A i \in DOMAIN rows[c] : rows[c][i].at = "done"
Rows(c)     == FlattenSeq([i \in DOMAIN rows[c] |-> rows[c][i].out])

ConcatRows(c) == FlattenSeq([i \in DOMAIN Rows(c) |-> Ids(Rows(c)[i].tokens)])

JoinChunks(c) ==
    /\ Call(c).op = "chunk" /\ RowsDone(c)
    /\ Return(c, [ids |-> ConcatRows(c), sources |-> [i \in DOMAIN Rows(c) |-> Rows(c)[i].source],
                  reason |-> "none"])
    /\ Record("none", Len(rows[c]))
    /\ UNCHANGED <<work, locks, pool, rows, tail, window>>

(***************************************************************************)
(* warm: reads the count, forks what is missing, adds the fresh workers.   *)
(***************************************************************************)
WarmRead(c) ==
    /\ At(c, "warm", "begin")
    /\ IF Call(c).workers > forked
       THEN Goto(c, "forking") /\ window' = [window EXCEPT ![c] = Call(c).workers - forked] /\ UNCHANGED result
       ELSE Return(c, NoResult) /\ UNCHANGED window
    /\ UNCHANGED <<work, locks, pool, rows, tail, counters>>

WarmFork(c) ==
    /\ At(c, "warm", "forking")
    /\ primary = Nobody
    /\ forked' = forked + window[c] /\ free' = free + window[c]
    /\ Return(c, NoResult)
    /\ UNCHANGED <<work, locks, rows, tail, window, counters>>

(***************************************************************************)
(* A batch: batch_workers, then one row per worker.                        *)
(***************************************************************************)
BatchBytes(c)  == FoldLeft(LAMBDA n, cs : n + TextLen(cs), 0, Call(c).texts)
Required(c)    ==
    Min({Max({Threads, 1}), Len(Call(c).texts),
         Max({1, (BatchBytes(c) + BytesPerWorker - 1) \div BytesPerWorker})})
CeilDiv(a, b)  == (a + b - 1) \div b
BatchRows(c)   ==
    LET texts == Call(c).texts
        size  == CeilDiv(Len(texts), Required(c))
    IN  [i \in 1 .. CeilDiv(Len(texts), size) |->
           [at |-> "todo", out |-> <<>>,
            texts |-> SubSeq(texts, (i - 1) * size + 1, Min({i * size, Len(texts)}))]]

StartBatch(c) ==
    /\ At(c, "batch", "begin")
    /\ growing = Nobody
    /\ IF Call(c).texts = <<>> THEN Return(c, NoResult) /\ UNCHANGED rows
       ELSE /\ IF Len(workers) >= Required(c) THEN Goto(c, "rows") ELSE Goto(c, "grow")
            /\ rows' = [rows EXCEPT ![c] = BatchRows(c)]
            /\ UNCHANGED result
    /\ UNCHANGED <<work, locks, pool, tail, window, counters>>

LockWorkers(c) ==
    /\ At(c, "batch", "grow")
    /\ growing = Nobody
    /\ growing' = c
    /\ UNCHANGED <<work, pc, primary, workers, pool, rows, tail, window, result, counters>>

\* Under the write lock the count is read again; a fork needs the primary.
GrowWorkers(c) ==
    /\ At(c, "batch", "grow")
    /\ growing = c
    /\ Len(workers) < Required(c) => primary = Nobody
    /\ workers' = workers \o [i \in 1 .. Max({0, Required(c) - Len(workers)}) |-> Nobody]
    /\ growing' = Nobody
    /\ Goto(c, "rows")
    /\ UNCHANGED <<work, primary, pool, rows, tail, window, result, counters>>

LockWorker(c, i) ==
    /\ Call(c).op = "batch" /\ RowOf(c, i, "todo")
    /\ InFlight < Threads
    /\ workers[i] = Nobody
    /\ workers' = [workers EXCEPT ![i] = c]
    /\ rows' = [rows EXCEPT ![c][i].at = "held"]
    /\ UNCHANGED <<work, pc, primary, growing, pool, tail, window, result, counters>>

\* The row's next text; the worker is given back after the last one.
EncodeBatchText(c, i, r) ==
    /\ Call(c).op = "batch"
    /\ rows' = [rows EXCEPT ![c][i] = [Encoded(@, r) EXCEPT !.at = IF IsLast(rows[c][i]) THEN "done" ELSE @]]
    /\ workers' = [workers EXCEPT ![i] = IF IsLast(rows[c][i]) THEN Nobody ELSE @]
    /\ UNCHANGED <<work, pc, primary, growing, pool, tail, window, result, counters>>

JoinBatch(c) ==
    /\ Call(c).op = "batch" /\ RowsDone(c)
    /\ Return(c, [ids |-> [i \in DOMAIN Rows(c) |-> Ids(Rows(c)[i].tokens)],
                  sources |-> [i \in DOMAIN Rows(c) |-> Rows(c)[i].source], reason |-> "none"])
    /\ UNCHANGED <<work, locks, pool, rows, tail, window, counters>>

(***************************************************************************)
(* A session: the seed, then one append after another.                     *)
(***************************************************************************)
\* encode_seed_with_source: an engine row is adopted lazily, a reference
\* row brings its spans.
Seeded(r, cs) ==
    IF r.source = "Gigatoken" THEN CHOOSE t \in FillLazy(cs, Ids(r.tokens)) : TRUE
    ELSE Fill(cs, r.tokens)

Seed(c, r) ==
    /\ Call(c).op = "session" /\ ~Cold(c)
    /\ tail' = [tail EXCEPT ![c] = Seeded(r, Text(c))]
    /\ primary' = Nobody
    /\ Goto(c, "append")
    /\ result' = [result EXCEPT ![c].reason = "seeded"]
    /\ UNCHANGED <<work, workers, growing, pool, rows, window, counters>>

Appended(c, t, path) ==
    /\ tail' = [tail EXCEPT ![c] = t]
    /\ window' = [window EXCEPT ![c] = WindowChars]
    /\ result' = [result EXCEPT ![c].reason = path]
    /\ work' = [work EXCEPT !.calls[c].deltas = Tail(@)]
    /\ UNCHANGED <<workers, growing, pool, rows, counters>>

Appending(c) == At(c, "session", "append") /\ Call(c).deltas # <<>>
FullText(c)  == tail[c].text \o Delta(c)

AppendNothing(c) ==
    /\ Appending(c) /\ tail[c].text # <<>> /\ Delta(c) = <<>>
    /\ Appended(c, tail[c], "gigatoken_repair_noop")
    /\ UNCHANGED <<pc, primary>>

AppendCold(c, r) ==
    /\ Cold(c)
    /\ Appended(c, Fill(Delta(c), r.tokens), "cold_full")
    /\ primary' = Nobody
    /\ Goto(c, "append")

Repairing(c) == Appending(c) /\ tail[c].text # <<>> /\ Delta(c) # <<>>
Rounds(c)    == window[c] >= WindowChars * 2 ^ MaxRetries

Splice(c, round) ==
    /\ \E t \in round.tails : Appended(c, t, "gigatoken_repair")
    /\ UNCHANGED <<pc, primary>>

GrowWindow(c, round) ==
    /\ ~round.refused /\ round.tails = {} /\ ~Rounds(c)
    /\ window' = [window EXCEPT ![c] = 2 * @]
    /\ UNCHANGED <<work, pc, locks, pool, rows, tail, result, counters>>

\* The whole text in the reference, outside the primary's lock.
ReferenceFull(c, reason) ==
    /\ Goto(c, "reference")
    /\ result' = [result EXCEPT ![c].reason = reason]
    /\ UNCHANGED <<work, locks, pool, rows, tail, window, counters>>

\* The window's encode takes the primary for a moment.
Repair(c) ==
    /\ Repairing(c) /\ window[c] < Len(tail[c].text)
    /\ primary = Nobody
    /\ \E round \in {RepairRound(Face, tail[c], Delta(c), window[c])} :
         \/ round.refused /\ ReferenceFull(c, "hf_full_engine_guard")
         \/ Splice(c, round)
         \/ GrowWindow(c, round)
         \/ /\ ~round.refused /\ round.tails = {} /\ Rounds(c)
            /\ ReferenceFull(c, "hf_full_no_safe_cut")

WindowCoversAll(c) ==
    /\ Repairing(c) /\ window[c] >= Len(tail[c].text)
    /\ ReferenceFull(c, "hf_full_window_covers_all")

AppendReference(c) ==
    /\ At(c, "session", "reference")
    /\ Appended(c, Fill(FullText(c), EncodeCore(Face, FullText(c))), result[c].reason)
    /\ Goto(c, "append")
    /\ UNCHANGED primary

EndSession(c) ==
    /\ At(c, "session", "append") /\ Call(c).deltas = <<>>
    /\ Return(c, [result[c] EXCEPT !.ids = tail[c].ids])
    /\ UNCHANGED <<work, locks, pool, rows, tail, window, counters>>

AllDone == (\A c \in Callers : pc[c] = "done") /\ UNCHANGED vars

Gated(c) ==
    \E i \in Slots(c) : \E r \in {GuardedFull(Face, Input(c, i))} :
        \/ i = 0 /\ (SerialDone(c, r) \/ Seed(c, r) \/ AppendCold(c, r))
        \/ i # 0 /\ (EncodeChunk(c, i, r) \/ EncodeBatchText(c, i, r))

Step(c) ==
    \/ LockPrimary(c) \/ Gated(c)
    \/ RefuseOptions(c) \/ PlanChunks(c) \/ JoinChunks(c)
    \/ WarmRead(c) \/ WarmFork(c)
    \/ StartBatch(c) \/ LockWorkers(c) \/ GrowWorkers(c) \/ JoinBatch(c)
    \/ AppendNothing(c) \/ Repair(c) \/ WindowCoversAll(c) \/ AppendReference(c) \/ EndSession(c)
    \/ \E i \in DOMAIN rows[c] : Checkout(c, i) \/ LockWorker(c, i)

Next == (\E c \in Callers : Step(c)) \/ AllDone
Spec == Init /\ [][Next]_vars

(***************************************************************************)
(* Properties.                                                             *)
(***************************************************************************)
\* A call's ids are those the reference gives for the whole text, whether
\* the document was encoded whole, cut into chunks that ran in any order on
\* shared workers, or was a row of a batch (chunked_encode_ids,
\* encode_batch_ids_with_source, encode_ids_with_source).
EncodeIsReference ==
    \A c \in Callers :
        LET texts == CASE Call(c).op \in {"full", "chunk"} -> <<Text(c)>>
                       [] Call(c).op = "batch" -> Call(c).texts
                       [] OTHER -> <<>>
            rowIds == IF Call(c).op = "batch" THEN result[c].ids ELSE <<result[c].ids>>
        IN  pc[c] = "done" /\ result[c].reason # "invalid_argument" =>
              \A i \in DOMAIN texts : rowIds[i] = Ids(EncodeCore(Face, texts[i]))

\* After every append the tail holds the ids and the spans that the
\* reference gives for the whole text, although a repair keeps the old
\* tokens up to a match and takes the window's tokens from there on
\* (repair_append).
AppendIsReference ==
    \A c \in Callers :
        pc[c] = "append" =>
            \A full \in {EncodeCore(Face, tail[c].text)} :
                tail[c].ids = Ids(full) /\ ForcedSpans(tail[c]) = Spans(full)

\* The ranges a boundary is asked for.
Ranges(t) == {<<floor, ceil>> \in (0 .. Len(t.text)) \X (0 .. Len(t.text)) : floor = 0 \/ ceil = Len(t.text)}

\* Whatever region of a lazy tail is rebuilt from its checkpoints, its
\* spans are those of the whole row, and so is the boundary the windowed
\* search finds (rebuild_span_window, last_boundary_windowed).
LazySpansExact ==
    \A c \in Callers :
        LET t == tail[c]
            n == Len(t.ids)
        IN  t.kind = "lazy" /\ pc[c] = "append" =>
              \A spans \in SpansFromIds(RowLengths(t.ids), t.text) :
                 /\ \A lo \in 0 .. n : \A hi \in lo .. n : SpanWindow(t, lo, hi) = SubSeq(spans, lo + 1, hi)
                 /\ \A r \in Ranges(t) :
                       LastBoundaryWindowed(t, r[1], r[2])
                         = LastBoundary([t EXCEPT !.kind = "materialized", !.spans = spans], r[1], r[2])

\* A boundary the engine certifies for a seal splits the tail into two
\* texts whose own encodings are the tail's tokens before and after it
\* (last_certified_boundary).
CutSynchronizes ==
    \A c \in Callers :
        LET t == tail[c]
        IN  pc[c] = "append" =>
              \A cut \in {LastCertifiedBoundary(t, r[1], r[2]) : r \in Ranges(t)} \ {NoCut} :
                 \A side \in {[ids |-> SubSeq(t.ids, 1, cut.tokens), text |-> Slice(t.text, 0, cut.char)],
                              [ids |-> SubSeq(t.ids, cut.tokens + 1, Len(t.ids)),
                               text |-> Slice(t.text, cut.char, Len(t.text))]} :
                    side.ids = Ids(EncodeCore(Face, side.text))
=============================================================================
