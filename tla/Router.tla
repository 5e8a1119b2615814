------------------------------- MODULE Router -------------------------------
(***************************************************************************)
(* NativeRouter of crates/toktier-routing-core/src/runtime.rs: threads share *)
(* one router, its lazily opened GPU engine and its execution ledger.  A row *)
(* of a request starts at the first backend of the chain whose threshold it  *)
(* reaches and falls through the chain; the reference engine ends it.        *)
(*                                                                         *)
(* What the engines answer is part of a request: a row says whether it holds *)
(* an added token, what the GPU and the fast engine make of it, and whether  *)
(* its ids close over the vocabulary; a request says whether the reference   *)
(* engine fails.  An engine that answers is exact; which engine answered,    *)
(* why, and what the ledger says of it is the state kept here.               *)
(*                                                                         *)
(* encode_ids is a batch of one row.  The counters of the ledger are added   *)
(* under its mutex and commute, so the events of one step are added at once; *)
(* executions set last_execution too and are one step each.                  *)
(***************************************************************************)
EXTENDS Integers, Sequences, FiniteSets

CONSTANTS
    Thread,
    Chain,               \* backends in order of preference
    Threshold,           \* minimum_input_bytes of each
    RepairFastCpu,       \* repair_fast_cpu
    PostprocessorAdds,   \* postprocessor_adds_tokens
    Request,             \* requests of an instance
    MaxRequests,         \* bound: requests of all threads
    None

Backend == {"gpu", "fast_cpu", "hf"}
Code == {"below_gpu_threshold", "added_token", "guard_routed", "exec_fault",
         "postprocess_routed"}

RowType == [bytes : Nat, added : {"no", "candidate", "yes"}, gpu : {"ok", "error"},
            fast : {"gigatoken", "added_token", "engine_guard", "error"}, closes : BOOLEAN]
FastSource == {"gigatoken", "added_token", "engine_guard"}
RequestType == [op : {"batch", "special", "special_batch", "seed", "append", "chunked"},
                rows : Seq(RowType), refFails : BOOLEAN,
                repair : {"repair", "hf_full", "noop", "error"},
                chunks : Seq(FastSource \cup {"error"})]

\* NativeRouter::new
ValidChain ==
    /\ Len(Chain) > 0 /\ Len(Chain) = Len(Threshold)
    /\ \A i \in 1..Len(Chain) : Chain[i] \in Backend
    /\ Chain[Len(Chain)] = "hf"
    /\ \A i, j \in 1..Len(Chain) : Chain[i] = Chain[j] => i = j
    /\ Threshold[Len(Threshold)] = 0

Path == {"gpu_full", "gigatoken_full", "repair", "hf_full", "hf_full_repair", "hf_append",
         "hf_added_token", "hf_engine_guard", "hf_span_guard", "hf_no_certified_span_bridge",
         "hf_postprocessed"}
\* What answered a row, the path it is recorded under and the code its caller
\* is given.
AnswerType == [backend : Backend, path : Path, reason : Code \cup {None}]

ASSUME RouterAssumption ==
    /\ Chain \in Seq(Backend) /\ Threshold \in Seq(Nat) /\ ValidChain
    /\ IsFiniteSet(Thread) /\ Thread \cap {"empty", "ready", "failed"} = {}
    /\ None \notin AnswerType
    /\ RepairFastCpu \in BOOLEAN /\ PostprocessorAdds \in BOOLEAN
    /\ Request \subseteq RequestType /\ MaxRequests \in Nat
    /\ \A r \in Request : r.op \notin {"batch", "special_batch"} => Len(r.rows) = 1

VARIABLES
    thread,    \* per thread: the request it runs and how far each row is
    cell,      \* GpuCell.engine: empty, being opened, or its latched outcome
    opener,    \* GpuCell.opener still holds the opener
    ledger,    \* RuntimeStats
    answered,  \* rows returned to callers, by backend: not in the program
    started    \* requests begun

vars == <<thread, cell, opener, ledger, answered, started>>

-----------------------------------------------------------------------------
(* Routing of one row. *)

Last(s) == s[Len(s)]

\* start_index
StartIndex(row) ==
    LET open == {i \in 1..Len(Chain) : row.bytes >= Threshold[i]}
    IN  IF open = {} THEN Len(Chain) ELSE CHOOSE i \in open : \A j \in open : i <= j

Idle == [pc |-> "idle", req |-> None, stage |-> 0, next |-> <<>>, out |-> <<>>,
         events |-> <<>>, recorded |-> 0, result |-> None]

Answer(backend, path, reason) == [backend |-> backend, path |-> path, reason |-> reason]

Rows(t) == 1..Len(thread[t].req.rows)
Row(t, i) == thread[t].req.rows[i]

\* The code a caller is given for a row: the last one its route recorded.
Reason(ev) == IF ev = <<>> THEN None ELSE Last(ev)

\* below_gpu_threshold_event
BelowThreshold(row) ==
    IF Chain[1] = "gpu" /\ StartIndex(row) > 1 THEN <<"below_gpu_threshold">> ELSE <<>>

\* exact_added_reference_ids: asked only of a row an accelerated backend takes.
AsksAdded(row) == Chain[StartIndex(row)] # "hf" /\ row.added # "no"
IsAdded(row) == Chain[StartIndex(row)] # "hf" /\ row.added = "yes"

\* fast_cpu_reference_path
FastReference(source) ==
    IF source = "added_token" THEN [path |-> "hf_added_token", code |-> "added_token"]
    ELSE [path |-> "hf_engine_guard", code |-> "guard_routed"]

Count(codes, c) == Len(SelectSeq(codes, LAMBDA x : x = c))

\* record_event, for a sequence of codes.
RecordEvents(codes) ==
    ledger' = [ledger EXCEPT !.fallback = [c \in Code |-> @[c] + Count(codes, c)]]

\* record_execution, record_execution_from
RecordExecution(backend, path) ==
    ledger' = [ledger EXCEPT !.exec[backend] = @ + 1,
                             !.last = [backend |-> backend, path |-> path]]

-----------------------------------------------------------------------------
Init ==
    /\ thread = [t \in Thread |-> Idle]
    /\ cell = "empty" /\ opener = TRUE
    /\ ledger = [fallback |-> [c \in Code |-> 0], exec |-> [b \in Backend |-> 0],
                 last |-> None]
    /\ answered = [b \in Backend |-> 0]
    /\ started = 0

At(t, pc) == thread[t].pc = pc
Becomes(t, rec) == thread' = [thread EXCEPT ![t] = rec]

\* A call returns: its rows to the caller, or an error, or it unwinds.
Returns(t, result) == Becomes(t, [thread[t] EXCEPT !.pc = "returned", !.result = result])

Submit(t) ==
    /\ thread[t].pc \in {"idle", "returned"} /\ started < MaxRequests
    /\ \E r \in Request :
        Becomes(t, [Idle EXCEPT
            !.req = r,
            !.pc = IF r.op \in {"batch", "seed"} THEN "added"
                   ELSE IF r.op \in {"append", "chunked"} THEN r.op
                   ELSE IF PostprocessorAdds THEN "special" ELSE "added",
            !.next = [i \in 1..Len(r.rows) |-> StartIndex(r.rows[i])],
            !.out = [i \in 1..Len(r.rows) |-> None],
            !.events = [i \in 1..Len(r.rows) |-> BelowThreshold(r.rows[i])]])
    /\ started' = started + 1
    /\ UNCHANGED <<cell, opener, ledger, answered>>

Flatten(seqs) ==
    LET cat[k \in 0..Len(seqs)] == IF k = 0 THEN <<>> ELSE cat[k - 1] \o seqs[k]
    IN  cat[Len(seqs)]

\* The codes of row i once the added-token frontend has looked at it.
Resolved(t, i) ==
    IF IsAdded(Row(t, i)) THEN Append(thread[t].events[i], "added_token")
    ELSE thread[t].events[i]

\* encode_batch_ids, before the stages: rows with an added token are answered
\* with the ids the reference engine has just produced.
ResolveAdded(t) ==
    LET mine == {i \in Rows(t) : IsAdded(Row(t, i))}
        events == [i \in Rows(t) |-> Resolved(t, i)]
    IN
    /\ At(t, "added")
    /\ ~(thread[t].req.refFails /\ \E i \in Rows(t) : AsksAdded(Row(t, i)))
    /\ RecordEvents(Flatten(events))
    /\ Becomes(t, [thread[t] EXCEPT
          !.pc = "stage", !.stage = 1, !.events = events,
          !.out = [i \in Rows(t) |->
                IF i \in mine THEN Answer("hf", "hf_added_token", "added_token")
                ELSE None]])
    /\ UNCHANGED <<cell, opener, answered, started>>

\* The reference engine fails on row f: the rows before it are in the ledger,
\* the rows behind it are not.
AddedFails(t) ==
    /\ At(t, "added") /\ thread[t].req.refFails
    /\ \E f \in {i \in Rows(t) : AsksAdded(Row(t, i))} :
        RecordEvents(Flatten([i \in 1..f |->
            IF i = f THEN thread[t].events[f] ELSE Resolved(t, i)]))
    /\ Returns(t, "error")
    /\ UNCHANGED <<cell, opener, answered, started>>

\* Fault: the next backend of a row is not looked at.
Unanswered(t) == {i \in Rows(t) : thread[t].out[i] = None}

\* The rows of a stage of the batch.
Group(t) == {i \in Rows(t) : thread[t].out[i] = None /\ thread[t].next[i] = thread[t].stage}
AtBackend(t, b) ==
    /\ At(t, "stage") /\ thread[t].stage <= Len(Chain) /\ Chain[thread[t].stage] = b

SkipStage(t) ==
    /\ At(t, "stage") /\ thread[t].stage <= Len(Chain) /\ Group(t) = {}
    /\ Becomes(t, [thread[t] EXCEPT !.stage = @ + 1])
    /\ UNCHANGED <<cell, opener, ledger, answered, started>>

NeedsGpu(t) == AtBackend(t, "gpu") /\ Group(t) # {}

\* GpuCell::engine takes the opener out of its cell before it calls it.
TakesOpener == opener' = FALSE

\* GpuCell::engine: the first caller initialises the cell, the others wait.
BeginOpen(t) ==
    /\ NeedsGpu(t) /\ cell = "empty" /\ opener
    /\ cell' = t
    /\ TakesOpener
    /\ UNCHANGED <<thread, ledger, answered, started>>

\* A previous open panicked: the opener is gone and the failure is latched.
OpenerConsumed(t) ==
    /\ NeedsGpu(t) /\ cell = "empty" /\ ~opener
    /\ cell' = "failed"
    /\ UNCHANGED <<thread, opener, ledger, answered, started>>

OpenReturns(t) ==
    /\ NeedsGpu(t) /\ cell = t
    /\ cell' \in {"ready", "failed"}
    /\ UNCHANGED <<thread, opener, ledger, answered, started>>

\* Fault: a cell whose opener panicked stays locked.
PanicLocksCell(t) ==
    /\ NeedsGpu(t) /\ cell = t
    /\ Returns(t, "panic")
    /\ UNCHANGED <<cell, opener, ledger, answered, started>>

\* The opener panics: OnceLock stays empty and the call unwinds.
OpenPanics(t) ==
    /\ NeedsGpu(t) /\ cell = t
    /\ cell' = "empty"
    /\ Returns(t, "panic")
    /\ UNCHANGED <<opener, ledger, answered, started>>

\* The rows of S fall to the next backend of the chain.
FallThrough(t, S) ==
    [thread[t] EXCEPT
        !.stage = @ + 1,
        !.next = [i \in Rows(t) |-> IF i \in S THEN @[i] + 1 ELSE @[i]],
        !.events = [i \in Rows(t) |-> IF i \in S THEN Append(@[i], "exec_fault") ELSE @[i]]]
Faults(S) == [j \in 1..Cardinality(S) |-> "exec_fault"]

\* A state route keeps GPU ids only if they close over the vocabulary.
Unclosed(t, i) == thread[t].req.op = "seed" /\ ~Row(t, i).closes

\* The GPU stage; a failed open fails every row of the group.
GpuStage(t) ==
    LET failed == IF cell = "failed" THEN Group(t) ELSE {i \in Group(t) : Row(t, i).gpu = "error"}
        kept == Group(t) \ failed
        th == FallThrough(t, failed)
    IN
    /\ NeedsGpu(t) /\ cell \in {"ready", "failed"}
    /\ \A i \in kept : ~Unclosed(t, i)
    /\ RecordEvents(Faults(failed))
    /\ Becomes(t, [th EXCEPT !.out =
            [i \in Rows(t) |-> IF i \in kept THEN Answer("gpu", "gpu_full", Reason(th.events[i]))
                               ELSE @[i]]])
    /\ UNCHANGED <<cell, opener, answered, started>>

\* The device returned another number of rows than it was given.
GpuMiscounts(t) ==
    /\ NeedsGpu(t) /\ cell = "ready"
    /\ thread[t].req.op \in {"batch", "special_batch"}
    /\ Returns(t, "error")
    /\ UNCHANGED <<cell, opener, ledger, answered, started>>

\* route_state_internal, span_bridge: the ids are thrown away and the reference
\* engine encodes the text.
SpanGuard(t) ==
    /\ NeedsGpu(t) /\ cell = "ready"
    /\ Row(t, 1).gpu = "ok" /\ Unclosed(t, 1)
    /\ RecordEvents(<<"guard_routed">>)
    /\ IF thread[t].req.refFails THEN Returns(t, "error")
       ELSE Becomes(t, [thread[t] EXCEPT
                !.stage = @ + 1, !.events[1] = Append(@, "guard_routed"),
                !.out[1] = Answer("hf", "hf_span_guard", "guard_routed")])
    /\ UNCHANGED <<cell, opener, answered, started>>

\* The fast engine takes the group as one call: an error fails every row.
FastGroupFails(t) == \E i \in Group(t) : Row(t, i).fast = "error"

FastAnswer(t, i) ==
    IF Row(t, i).fast = "gigatoken"
    THEN Answer("fast_cpu", "gigatoken_full", Reason(thread[t].events[i]))
    ELSE Answer("hf", FastReference(Row(t, i).fast).path, FastReference(Row(t, i).fast).code)

FastStage(t) ==
    LET rerouted == {i \in Group(t) : Row(t, i).fast # "gigatoken"}
        code(i) == FastReference(Row(t, i).fast).code
        added == {i \in rerouted : Row(t, i).fast = "added_token"}
    IN
    /\ AtBackend(t, "fast_cpu") /\ Group(t) # {}
    /\ IF FastGroupFails(t)
       THEN RecordEvents(Faults(Group(t))) /\ Becomes(t, FallThrough(t, Group(t)))
       ELSE /\ ledger' = [ledger EXCEPT
                    !.fallback["added_token"] = @ + Cardinality(added),
                    !.fallback["guard_routed"] = @ + Cardinality(rerouted \ added)]
            /\ Becomes(t, [thread[t] EXCEPT
                    !.stage = @ + 1,
                    !.events = [i \in Rows(t) |-> IF i \in rerouted THEN Append(@[i], code(i))
                                                  ELSE @[i]],
                    !.out = [i \in Rows(t) |-> IF i \in Group(t) THEN FastAnswer(t, i) ELSE @[i]]])
    /\ UNCHANGED <<cell, opener, answered, started>>

ReferencePath(t) ==
    IF thread[t].req.op = "seed" /\ ~RepairFastCpu THEN "hf_no_certified_span_bridge"
    ELSE "hf_full"

\* Fault: the execution is recorded before the engine has answered.
RecordsFirst(t) ==
    /\ AtBackend(t, "hf") /\ Group(t) # {}
    /\ RecordExecution("hf", "hf_full")
    /\ IF thread[t].req.refFails THEN Returns(t, "error")
       ELSE Becomes(t, [thread[t] EXCEPT !.stage = @ + 1])
    /\ UNCHANGED <<cell, opener, answered, started>>

\* Its error is the error of the whole request; no row is recorded.
ReferenceStage(t) ==
    /\ AtBackend(t, "hf") /\ Group(t) # {}
    /\ IF thread[t].req.refFails THEN Returns(t, "error")
       ELSE Becomes(t, [thread[t] EXCEPT
                !.stage = @ + 1,
                !.out = [i \in Rows(t) |->
                    IF i \in Group(t)
                    THEN Answer("hf", ReferencePath(t), Reason(thread[t].events[i])) ELSE @[i]]])
    /\ UNCHANGED <<cell, opener, ledger, answered, started>>

-----------------------------------------------------------------------------
(* The ledger of a finished request, and the requests with no stages. *)

StagesDone(t) == At(t, "stage") /\ thread[t].stage > Len(Chain)

\* Executions are recorded in the order of the caller's rows.
RecordRow(t) ==
    LET n == thread[t].recorded + 1 IN
    /\ StagesDone(t) \/ At(t, "record")
    /\ n <= Len(thread[t].out)
    /\ RecordExecution(thread[t].out[n].backend, thread[t].out[n].path)
    /\ Becomes(t, [thread[t] EXCEPT !.pc = "record", !.recorded = n])
    /\ UNCHANGED <<cell, opener, answered, started>>

RowsBy(t, b) == {i \in 1..Len(thread[t].out) : thread[t].out[i].backend = b}

Deliver(t) ==
    /\ StagesDone(t) \/ At(t, "record")
    /\ thread[t].recorded = Len(thread[t].out)
    /\ Returns(t, "ok")
    /\ answered' = [b \in Backend |-> answered[b] + Cardinality(RowsBy(t, b))]
    /\ UNCHANGED <<cell, opener, ledger, started>>

\* add_special_tokens: the accelerated backends are passed over, one event for
\* each; encode_ids records them before it asks the reference engine.
Bypassed(row) == [j \in 1..(Len(Chain) - StartIndex(row)) |-> "postprocess_routed"]

Special(t) ==
    LET th == thread[t]
        events == [i \in Rows(t) |-> Bypassed(Row(t, i))]
    IN
    /\ At(t, "special")
    /\ IF th.req.refFails
       THEN /\ RecordEvents(IF th.req.op = "special" THEN Flatten(events) ELSE <<>>)
            /\ Returns(t, "error")
       ELSE /\ RecordEvents(Flatten(events))
            /\ Becomes(t, [th EXCEPT
                  !.pc = "record", !.events = events,
                  !.out = [i \in Rows(t) |-> Answer("hf", "hf_postprocessed", "postprocess_routed")]])
    /\ UNCHANGED <<cell, opener, answered, started>>

\* SessionEncoder::append on a filled tail: repair, a full encode of the grown
\* text by the reference engine, or nothing.
AppendTail(t) ==
    LET req == thread[t].req
        ran == IF ~RepairFastCpu THEN <<Answer("hf", "hf_append", None)>>
               ELSE IF req.repair = "repair" THEN <<Answer("fast_cpu", "repair", None)>>
               ELSE IF req.repair = "hf_full" THEN <<Answer("hf", "hf_full_repair", None)>>
               ELSE <<>>
        fails == IF RepairFastCpu THEN req.repair = "error" ELSE req.refFails
    IN
    /\ At(t, "append")
    /\ IF fails THEN Returns(t, "error")
       ELSE Becomes(t, [thread[t] EXCEPT !.pc = "record", !.out = ran])
    /\ UNCHANGED <<cell, opener, ledger, answered, started>>

\* chunked_encode_ids: a text that does not start at the fast engine takes the
\* ordinary route; otherwise every chunk is a row of the ledger, and an error
\* of the engine is the error of the call.
Chunked(t) ==
    LET th == thread[t]
        chunks == th.req.chunks
        answer(c) == IF c = "gigatoken" THEN Answer("fast_cpu", "gigatoken_full", None)
                     ELSE Answer("hf", FastReference(c).path, FastReference(c).code)
        codes == [i \in 1..Len(chunks) |->
                    IF chunks[i] = "gigatoken" THEN <<>> ELSE <<FastReference(chunks[i]).code>>]
    IN
    /\ At(t, "chunked")
    /\ IF Chain[StartIndex(Row(t, 1))] # "fast_cpu"
       THEN Becomes(t, [th EXCEPT !.pc = "added"]) /\ UNCHANGED ledger
       ELSE IF \E i \in 1..Len(chunks) : chunks[i] = "error"
       THEN Returns(t, "error") /\ UNCHANGED ledger
       ELSE /\ RecordEvents(Flatten(codes))
            /\ Becomes(t, [th EXCEPT !.pc = "record", !.events = codes,
                                     !.out = [i \in 1..Len(chunks) |-> answer(chunks[i])]])
    /\ UNCHANGED <<cell, opener, answered, started>>

Step(t) ==
    \/ ResolveAdded(t) \/ AddedFails(t) \/ SkipStage(t)
    \/ BeginOpen(t) \/ OpenerConsumed(t) \/ OpenReturns(t) \/ OpenPanics(t)
    \/ GpuStage(t) \/ GpuMiscounts(t) \/ SpanGuard(t) \/ FastStage(t) \/ ReferenceStage(t)
    \/ RecordRow(t) \/ Deliver(t)
    \/ Special(t) \/ AppendTail(t) \/ Chunked(t)

Next == \E t \in Thread : Submit(t) \/ Step(t)

Spec == Init /\ [][Next]_vars

\* A thread that is in a call keeps running: nothing in the router blocks for
\* ever, and the opener of the device returns or unwinds.
FairSpec == Spec /\ \A t \in Thread : WF_vars(Step(t))

-----------------------------------------------------------------------------
(* Properties. *)

\* Backend i of the chain takes a row, given how the open of the device ended
\* and whether the call of the fast engine failed.
Takes(i, row, broken) ==
    CASE Chain[i] = "gpu" -> cell = "ready" /\ row.gpu = "ok"
      [] Chain[i] = "fast_cpu" -> row.fast # "error" /\ ~broken
      [] OTHER -> TRUE

\* The backend a row is recorded under when an engine has taken it.
RecordedAs(req, row, engine) ==
    CASE engine = "gpu" -> IF req.op = "seed" /\ ~row.closes THEN "hf" ELSE "gpu"
      [] engine = "fast_cpu" -> IF row.fast = "gigatoken" THEN "fast_cpu" ELSE "hf"
      [] OTHER -> "hf"

\* The route of one row by itself: the first backend from its start on that
\* takes it.
RowRoute(req, row, broken) ==
    LET at == CHOOSE i \in StartIndex(row)..Len(Chain) :
                /\ Takes(i, row, broken)
                /\ \A j \in StartIndex(row)..(i - 1) : ~Takes(j, row, broken)
    IN  IF IsAdded(row) THEN "hf" ELSE RecordedAs(req, row, Chain[at])

Routed(t) == /\ thread[t].pc = "returned" /\ thread[t].result = "ok"
             /\ thread[t].req.op \in {"batch", "seed"}

\* A batch answers each row as its own route would, with one exception the
\* grouping makes: the fast engine takes its rows in one call, so when it fails
\* on one of them every row is routed as if that engine had failed on it.
BatchAsRows ==
    \A t \in Thread : Routed(t) =>
        \E broken \in BOOLEAN :
            /\ broken => \E j \in Rows(t) : Row(t, j).fast = "error"
            /\ \A i \in Rows(t) :
                  thread[t].out[i].backend = RowRoute(thread[t].req, Row(t, i), broken)

\* The rows of a call that has not returned which the ledger already counts.
InFlight(t, b) ==
    {<<t, i>> : i \in {i \in 1..thread[t].recorded :
        thread[t].pc # "returned" /\ thread[t].out[i].backend = b}}

\* The ledger counts an execution for each row that is answered and for no
\* other: a request that fails after some of its rows were encoded, or that
\* unwinds, leaves none behind.
LedgerExact ==
    \A b \in Backend :
        ledger.exec[b] = answered[b] + Cardinality(UNION {InFlight(t, b) : t \in Thread})

\* Every request comes back: also the ones that wait for another thread's open
\* when that open fails or unwinds.
RequestReturns == \A t \in Thread : (thread[t].pc # "idle") ~> (thread[t].pc = "returned")
=============================================================================
