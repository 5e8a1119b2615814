# TokTier in TLA+

TokTier keeps tokenization *state*: instead of encoding a growing conversation
again and again, it stores each session as a sealed token prefix plus a mutable
tail, repairs only the tail when text is appended, shares sealed prefixes between
sessions, and serves this to many callers, durably if asked to. Its one promise is
that the token stream is always the stream a full encode of the whole text would
give. This directory holds TLA+ modules that model the parts of the program that
keep that promise, the TLC instances that check them, and TLAPS proofs for the
session store, the named sessions, the serving pool, the entry store, the router,
the merge loops, the artifact cache and the admission of routes.

All paths below are relative to the repository. The core is Rust under `crates/`;
`src/toktier/` is the Python package.

## 1. Inventory

| component | code | state | operations |
|---|---|---|---|
| session store core | `toktier-store-core/src/store.rs`, `engine.rs` | sessions by handle, each with sealed ids, tail, chain, seal log, scan memo, revision, record hash, shared snapshot; node cache; LRU clock | `put`, `append_patch`, `lookup`, `fork`, `evict`, `all_ids`, `shared_ids_snapshot`, import and export |
| tail and record formats | `tail.rs`, `format.rs`, `sidecar.rs`, `recovery_binding.rs` | a tail's text, ids and spans or span checkpoints; byte layouts | fill, rebuild a window, splice; encode, decode, verify |
| named sessions | `toktier/src/session.rs` | names, leases, transcripts, persistence fault, one mutex | `open`, `seed`, `append`, `encode_transcript`, `snapshot`, `overwrite`, `fork`, `delete`, `close`, drop |
| SQLite persistence | `toktier-store-sqlite/src/lib.rs` | one database file | `open`, `save_named_recoverable`, `load_named_recoverable` |
| serving pool | `toktier/src/serving.rs` | bounded queue, worker threads, per-session tickets and in-flight counts, completions | submit, batch, execute, cancel, deadline, shutdown |
| runtime and tokenizer facade | `toktier/src/runtime.rs` | the store of the process, the plan of a loaded tokenizer | `load`, `encode`, `lookup`, `open_session` |
| native entry store | `toktier-routing-core/src/entry_store.rs` | resident entries, LRU and index rows over a native store; a directory of `.rec` and `.binding` files, an index, metadata | `open`, `encode_session`, `encode_auto`, eviction over a byte budget, recovery |
| native router | `toktier-routing-core/src/runtime.rs` | the lazily opened device, the execution ledger, state counters | encode, batch, seed, append, chunked: start by threshold, fall through the chain |
| chunk-parallel encode | `toktier-routing-core/src/chunked.rs`, `toktier/src/chunked.rs` | free list of forked workers, counters | admission, cut plan, encode the chunks, concatenate |
| repair engine | `toktier-routing-core/src/fast_cpu.rs`, `lib.rs`, `reference.rs` | the primary encoder, batch workers, a session's tail | guarded encode, batch, seed, append through a window, boundary search |
| pretokenizers | `toktier-gigatoken-core/src/pretokenize/` | scanner position, buffered boundaries | scalar advance, batch masks, `next_span`, `fill_spans`, restart |
| BPE engine | `toktier-gigatoken-core/src/bpe/`, `load_tokenizer/` | merge tables, pretoken cache with arena, added tokens | loaders, setters, fork, encode; the merge loops |
| artifact store and bundles | `toktier/src/artifact.rs`, `bundle.rs`, `fsutil.rs` | a directory per family, locks, part files, mirror, archive | ensure, verify, load, mirror, export, import |
| routing plan and policy | `toktier/src/runtime.rs`, `gpu_data.rs`, `manifest.rs`, `behavior_version.rs` | none of its own | which routes a policy admits, which certification a plan carries |
| JIT build of GPU kernels | `toktier/src/jit.rs` | product cache by binding, locks | probe the toolchain, build once, publish, reread |
| local verification | `toktier/src/verify_local.rs` | records keyed by what was compared | verify, forget, read |
| Python facade and store, SGLang integration, GPU engine, bindings, build-time checks | `src/toktier/`, `toktier-cuda-driver`, `toktier-py`, `build_support/` | see section 6 | see section 6 |

How they interact. A caller thread submits to the **serving pool**; a worker takes
the operation off the queue, waits for its ticket and calls a **named session**.
The named session locks the state shared by the process, calls the **store core**
(which calls back into the encoder through the trait `SessionEncoder`), and, if
the runtime has a home directory, saves everything to **SQLite** before it
unlocks. `Tokenizer::lookup` reaches the same store from the side, and inserts
sessions into the same LRU table. The encoder is a **router** over up to three
engines, or the corrected CPU engine with **chunks** and **repair**; that engine
is a **pretokenizer** whose spans the **BPE engine** merges. The **entry store** is
the second way to hold sessions, used by the bindings: it owns a store core of its
own and a directory shared with other processes. Before any of this a tokenizer is
loaded: the **artifact store** supplies verified files, and the **plan** admits
routes, which may start a **JIT build** and may rest on a **local verification**.

What is hard here:

* *sealing*: a seal is irrevocable. Tokens before the seal point are never looked
  at again, so a boundary that a later append could move makes every later stream
  wrong. The same holds for nodes, which other sessions read;
* *failure inside an operation*: encoder errors after the table was changed,
  boundary probes that fail after the tail was extended, saves that fail after
  memory changed, crashes between creating the database and filling it, requests
  that fail after some of their rows were encoded;
* *ordering*: tickets are reserved before the job is queued; refused submissions
  must give their ticket and their slot back; cancellation, deadlines and shutdown
  race with execution; chunks and batch rows run in any order on shared workers;
* *capacity*: the LRU may evict a session somebody still has a name or a handle
  for, and the entry store evicts for two reasons at once, its budget and the
  capacity of the store below it;
* *files shared by processes*: record, binding and index are separate renames; a
  verification temporary has a fixed name; pruning and import run without the lock;
* *edges*: a pretoken, a literal, a composition or a character that straddles a
  batch of 64 bytes, a chunk, a repair window, a span checkpoint or a cache growth;
* *claims*: what a plan says of itself depends on files another process wrote under
  another policy, another driver or a compiler that has been replaced since.

PROJECT.json lists these as hazards, each at its line and with the properties
that cover it.

## 2. Modules

```
SessionStore ── MCSessionStore                     store_sealing, store_clients
     └─ SessionStoreProofs                                               (theorems)
NamedSessions ── MCNamedSessions                   sessions_durable
     └─ NamedSessionsProofs                                              (theorems)
ServingPool ── MCServingPool                       serving
     └─ ServingPoolProofs                                                (theorems)
EntryStore ── MCEntryStore                         entries_directory
     └─ EntryStoreProofs                                                 (theorems)
Router ── MCRouter                                 router_threads
     └─ RouterProofs                                                     (theorems)

PretokenScalar ─┬─ PretokenMasks ── PretokenMasksO200k ─┐
                ├─ PretokenRegex ───────────────────────┴─ MaskWalker ── MCMaskWalker
                │                                  pretokenizers
                └─ CoreStream ─┬─ ChunkPlan ──┐
                               └─ TailRepair ─┴─ FastCpu ── MCFastCpu
                                                   fast_cpu
PairMerge ╌╌ MergeLoops ── MCMergeLoops            merge_loops
     ╎            └─ MergeLoopsProofs                                    (theorems)
     ╌╌╌╌╌╌╌ ByteLevel ── MCByteLevel              tokenizers

ArtifactCache ── MCArtifactCache                   artifacts
     └─ ArtifactCacheProofs                                              (theorems)
RouteAdmission ── MCRouteAdmission                 routes
     └─ RouteAdmissionProofs                                             (theorems)
```

A solid edge is EXTENDS, a dashed one INSTANCE. The models are levels of one
stack. `NamedSessions` treats the store core as a table of texts and revisions with
LRU eviction; that its streams are exact is what `SessionStore` shows, from the
encoder's contract. `FastCpu` is that contract's implementation: `CutSynchronizes`
is the statement, for a small instance of the real boundary search, that the
assumption `CutAssumption` of SessionStore makes. `FastCpu` takes the pretokens from
`PretokenScalar`, which `MaskWalker` shows the fast scanners to agree with, and
leaves merging out, which `MergeLoops` and `ByteLevel` cover. `ServingPool` treats an
operation of a session as one step between taking and ending a turn, and
`EntryStore` a native session as its lineage of texts.

### SessionStore

The state of `store.rs`: `sessions` (handle to session record), `lru`, `nodes`,
`nextHandle`, and for the running operation `pc`, `cur` (the session it works on)
and `call` (its locals). `mirror` is what each client keeps: a handle, a revision
and the stream it has built from patches.

An operation holds `&mut self`, so operations do not interleave; what makes the
model interesting is that `put`, `append_patch` and `lookup` are loops whose
effect depends on what other sessions wrote to the node cache. They are step
sequences: engine call, one step per completed block (`AdoptNode`,
`DetachFromSibling`, writing a node, detaching), the probe for a boundary, the
seal, the commit (which hashes the fields of the record onto the hash of the record
before, `CommitHash`); for `lookup` one step per node, then materialisation.
Failures are actions of their own: `PutEngineFails`, `AppendEngineFails`, the
probe failing, a node corrupted in memory.

The encoder is the trait's contract: constants `Enc`, `Cuts` and `Guard` with
assumptions. `CutAssumption` is the certificate: at a certified boundary that is
at least the end guard away from the end of the text, re-encoding what follows
gives the stream, whatever is appended later. `MCSessionStore` instantiates it
with a small tokenizer that has an added-token literal `x_x`, extracted before
everything else, so that the certificate really fails inside the guard, and TLC
evaluates the assumptions on that instance.

Abstractions: a hash is its preimage (a chain hash is the text hashed so far, a
record hash the sequence of the links of its chain, a link the fields digested
with one revision), so collisions are excluded; a
character is a byte; `last_used` is the position in `lru`, because clock values
are only compared; counters are left out; a lookup that misses at its first block
changes nothing and is not an action; append uses an engine of the session's own
witness category (another one is refused before any change).

### NamedSessions

`session.rs` with the database. `state` is `SessionStoreState`, `client` one
`Session` object per thread, `file` the database, `proc` the process, and `acked`
a history variable: the text of the last operation on each name that returned Ok.

An action is one critical section of the mutex and includes the save at its end.
`encode_transcript` takes the lock three times and is three actions. The save is
one transaction, so it happens or not; `Crash` may come between any two
actions, in particular between `StartFresh` (the tables exist) and `FirstSave`.
A failed save keeps the change in memory and seals the store. Encoder errors are
actions too (`SeedFails`, `AppendFails`, `OverwriteFails`, ...). An append that fails
in its probe, after the text grew, is not one of them. The encoder here is the router,
whose probe can only fail where a span window of the session's own tail cannot be
rebuilt, and that the fill which committed the tail has ruled out (`tail.rs:566`;
`LazySpansExact`). The store core, which takes any encoder, has the step (`ProbeFails`).

Not modelled: column conversions, file modes, the exclusive lock of the file.

### ServingPool

`serving.rs`, one action per critical section or atomic instruction. A caller
thread goes through slot, ticket, enqueue, and on refusal gives slot and ticket
back; a worker through claim, batch, encode, deliver or turn, execute, free,
end. The condition variable is the set of workers waiting on it, with spurious
wake-ups, and `notify_one` wakes *any* of them, an idle worker or one that
waits for its batch to fill. `SessionTurn` keeps the sequencer's mutex locked
while the operation runs, so cancelling a ticket has to wait for it: that is the
guard of `CancelTicket`. Time is a choice: a deadline or a batch window may pass
at any step. A panic in a worker is not modelled.

### EntryStore

`entry_store.rs`: per process the resident `mem` (entries, LRU, index rows, native
sessions and their capacity) and the call in progress; shared, the directory `disk`
(records, bindings, index, metadata) and the temporary files. A call runs under the
mutex of its process, so it meets crashes and other processes, between one read,
one temporary and one rename; each of these is a step. A call changes memory and
queues the files it will write (`Serve`, `ScanHits`, ...), including the trailing
eviction over the budget, and the queue is then written file by file.
`MakeRoom` is the eviction of a native session at the store's capacity, which
happens before an engine call that may still fail. A crash may leave temporaries;
one left under the same process id fails the next write of its target once.

Abstractions: the ids of a session are named by the text they encode; a session is
the texts of its revisions, and a record hash is that lineage; digests are a
constant function that the instance makes collide. `Letter` is the alphabet of the
texts, `NameRank` the order of entry names, by which a scan breaks ties and a load
fills the LRU.

### Router

`NativeRouter`: threads that share the device cell, its opener and the ledger. A
request carries what each engine makes of its rows; the state is which engine
answers, why, and what the ledger says of it. The stages of a batch group rows by
backend; a fast engine that fails on one row fails its group; an open of the device
succeeds, fails (latched) or panics (the cell stays empty, the opener is gone).

`BatchAsRows` compares a batch with the routes of its rows: there is one answer to
"did the call of the fast engine fail" for the whole batch, and with it every row is
answered as its own route would. `LedgerExact` counts, for each backend, the rows
answered so far and those of calls that are recording theirs. A reference engine that
fails on one row of the added-token pass leaves the events of the rows before it in
the ledger (`AddedFails`), and a device that returns another number of rows than it was
given ends a batch with an error (`GpuMiscounts`). Of the ledger, the
counters of events and executions and the last execution are kept;
`state_encode_counts`, which only the state routes write, is not.

### Pretokenizers

`PretokenScalar` has `Advance` for nine schemes over an alphabet of bytes that the
scanners tell apart (contraction letters, marks, Han, newline, U+017F, ...).
`PretokenRegex` is a backtracking matcher for the regular expressions the sources
quote; `PretokenMasks` and `PretokenMasksO200k` are the classifiers of one batch,
as sets of bit numbers: boundaries that can be trusted (`usable`) and bytes the
batch cannot decide (`bad`). `MaskWalker` is the pull iterator that mixes both,
with its buffer of relative offsets; the caller pulls one span, a chunk of
spans, or starts again at an offset. SIMD tiers compute the same sets with other
instructions and are not distinguished; a walk without them is all scalar.

### BPE engine

`PairMerge` is the abstract specification: while two neighbours merge, merge the
pair of the lowest rank, the leftmost of several. `MergeLoops` has the loops of
`bpe/mod.rs` (scan of a rank array, packed vector lanes of two widths, heap with
stale entries) over the merge map or the flat rank table built from it, with its
displacement bound. The symbols stay in one array linked by `next` and `prev`, and the
survivors are compacted in that array, one copy a step. It implements PairMerge
(`ImplementsPairMerge`, INSTANCE with `symbols` mapped to the sequence the list spells,
`Current`). The sizes of words and arrays are constants. `ByteLevel` is the tokenizer
around them: three kinds of file, which the loaders accept or refuse (`Loads`: a byte
without an entry, an entry its merges do not reduce to two symbols, a special token on a
mergeable rank), setters in any order, forks, and the encode walk, whose chunks probe
the pretoken cache while the slow path inserts into it, grows it and spills long values
to the arena. `from_ranks` narrows the id of a byte
to a `u8`; `ByteRanks` states that rank files give bytes an id below 256, without
which it would merge the wrong symbols.

### Corrected CPU engine

`CoreStream` defines what an artifact makes of a text: literals, normalizer,
sections, pretokens, character spans, and the guard that sends a text to the
reference engine. `ChunkPlan` chooses the cuts of a long document with their
witnesses. `TailRepair` is a session's tail, with lazily rebuilt spans, the
boundary search and the window repair. `FastCpu` is the engine in use: callers with
locks on the primary, a growing vector of batch workers, a free list of chunk
workers, rows in any order, sessions that append. A token is its characters and
where it came from, so that two encodes agree only if their pretokens do; merging
inside a pretoken is left out.

### ArtifactCache

One family/revision shared by processes: the family lock, verification, pruning of
old part files, downloads with retries, quarantine, installation by rename, and the
archive with its staging directory. A file is good, bad, partly written or absent; all
wrong contents are one value. Processes crash between any two calls of the file system,
installed files rot, the network drops, truncates and lies.

What a call learns and what it does about it are separate steps. `Doubt` hashes a member
and finds it wrong; `Quarantine` renames away *whatever is at that path by then*; only
the family lock keeps a repaired member from being there. `mirror` and `export` hold no
lock: a member is hashed (`MirrorHash`, `BundleHash`), opened or appended later, streamed
into a hidden temporary (`drafts`), compared with what was hashed before, and renamed.
A crash, a full directory, a member that rots or is quarantined in between leaves a
draft behind or an error, and drafts that fail their comparison stay in the mirror, as
in the code, but are removed for archives. `import` unpacks into a directory of its own
name that no other process opens, which is one step.

### RouteAdmission

What a tokenizer may run on and what its plan may claim, for every policy, with
the two caches the decision reads. A process loads, compiles, verifies or forgets;
a JIT build takes the lock of its binding, runs a bounded compiler, publishes and
rereads; a verification record goes through a temporary with a fixed name that
another writer may remove or publish. The driver is upgraded, the compiler replaced and
the permissions of its path changed at any moment, also under a build; products rot.
Digests stand for what they are taken over, and reasons and texts are left out.

The build hashes the compiler and looks at the permissions once, at its probe
(`jit.rs:314`), and runs whatever is at that path later (`jit.rs:545`). Two history
fields of a product record what it did not look at: `tainted`, the path was
world-writable at the probe, and `swapped`, another compiler than the probed one ran.

## 3. Runs

All runs pass. Each property has a mutant in PROJECT.json, a plausible bug of the
code that breaks it.

| run | question | bounds |
|---|---|---|
| store_sealing | Does a session stay exact while it grows through blocks, seals, caps, failing probes and engine errors? Does sealing ever change a token already sealed? Is a node with sealed tokens valid for every text that continues its prefix? | texts of 10 characters, blocks of 5, puts of up to 6, appends of up to 4, one certified and one uncertified witness, one damaged node: two blocks, two seals and both caps happen, and nodes that seal tokens leave up to five characters to continue with |
| store_clients | Can a client with an accepted revision hold a wrong copy? Is the record hash, with the chain of those before it, current? Does every operation return? | two clients, two handles, a table of one session, two revisions, texts that part inside a block |
| sessions_durable | Does acknowledged work survive, do memory and database agree, is there one current writer per name? | two clients, two names, a table of two sessions, three handles, two process starts |
| serving | Are slots, bytes, tickets and order kept when submissions are refused, cancelled or late? Does an answer say what happened? Is every accepted request answered, and does shutdown end? | three operations of one session from one thread and two encodes, two workers, a queue of two requests, two in flight per session, one device |
| entries_directory | Are answers exact whatever the files say? Is anything leaked, the budget restored, what a store knows recoverable? | two processes, one session name and one automatic entry, four texts of which two collide, budget of two bytes, three calls, two faults (crash, lost file, failed write, engine error) |
| router_threads | Is each row of a batch answered as by itself? Does the ledger count what was answered and nothing else? Does every request return, also around a device open that fails or panics? | two threads, two of 21 requests of up to three rows, chain of three backends |
| pretokenizers | Do the fast scanners give the spans of the scalar walk, the scalar walk the matches of the regular expression? Does the boundary buffer ever overflow? | 4089 walks: every choice of three or four characters around a batch edge, for nine schemes, batches of 5 or 7 bytes, chunks of 3 spans, and pretokens longer than the buffer's range |
| merge_loops | Does every merge loop implement the abstract merge? | all inputs over two symbols up to length 7, four merge tables, of which one has an id that does not pack and one has ranks apart from ids, a rank table of 8 slots whose probes wrap around, words of 16 bits |
| tokenizers | Is a cached value ever stale? Are encodes exact across chunks, growth and arena? | three files that load and four that do not, two setter calls, two encodes on parent or fork, a cache that grows inside a chunk |
| fast_cpu | Is every encode, cut or not, the reference's? Is a repaired tail? Are lazy spans? Does a certified boundary split the text? | 5498 work items: documents of 5 or 6 characters cut in two or three, tails of up to 12 characters with windows of 5, span checkpoints every two tokens, pairs of calls that share the engine |
| artifacts | Does a verified answer stay true? Is a half-written file ever visible, a good one ever displaced? Does every call return? | two processes, two members, five starts, two calls, one crash, one damaged file, one retry |
| routes | Is every label backed by what it names, whatever was replaced meanwhile? Is a policy ever exceeded? Does every call return? | two processes, seven builds and machines, ten requests of which two happen, one or two faults |

The bounds were chosen from what has to happen at least once: the LRU full and
evicting a named session; a node adopted, refused and corrupted; a seal that
moves inside a hashed block; a queue that refuses; a ticket cancelled before and
after its turn; a crash before and after each save and each rename; a budget
smaller than one entry; a batch whose first byte is inside a character and whose
last is inside a contraction; a heap entry that went stale; a window that starts
inside a literal; two verifiers of one combination. Every action fires in some run.
The widths in the code (64 bytes of a batch, 64 Ki characters of a chunk worker,
1024 sessions) are constants; the small values keep their order and the off-by-one
cases at their edges, not their size.

Deadlock is checked in the two store runs and in pretokenizers, where some step is
always possible, and in fast_cpu, where a state without a step must be the end of all
calls. The others stop at their bounds, after shutdown or when
their process is down, so their configurations switch the check off.

**Symmetry** is used for clients, names and processes, in runs without liveness only.

**Fairness.** Each liveness property assumes weak fairness of steps *inside* a call
and nothing about calls being made.

* store_clients: an operation that has begun is executed (`Continue`).
* serving: each thread's submission steps, each worker's steps and the passing of a
  batch window: threads are scheduled, time passes, an engine call returns and does
  not panic. Shutdown, deadlines and cancellations need not happen; `ShutdownEnds` is
  conditional on shutdown.
* router_threads: a thread in a call keeps running; the opener of the device
  returns or unwinds.
* artifacts and routes: a process inside a call is scheduled. That a wait for a
  lock ends is the code's own timeout, and so is the end of a compiler: the
  compiler's own end is not fair, only the deadline is.
* merge_loops: the loop runs; PairMerge is fair in the same way, so that the
  refinement includes that the loop finishes.

### Where the code and its documentation disagree

Met while modelling. No run asserts the documented claim; the models behave like
the code, and where a property had to be restricted for it, that is said here.

* An append whose boundary probe fails (`store.rs:902`) keeps the longer stream
  under the old revision and record hash, against the `debug_assert` of
  `store.rs:1736`. The stream stays exact (store_sealing has failing probes and the
  proofs cover them), but `MirrorExact` and `RecordHashCurrent` are about probes that
  succeed, so store_clients sets `ProbeMayFail` to FALSE. With an encoder whose probe
  fails, the next save of any session would write a record its own hash contradicts,
  and `import_record_gates` refuses that at the next start.
* A ticket is reserved at `serving.rs:865` and its job queued later under another
  lock. Two threads that submit through clones of one `ServingSession` can queue
  tickets out of order; if every worker then waits for a ticket behind it in the
  queue, nothing moves and shutdown hangs, against `serving.rs:839` ("so later
  appends cannot deadlock behind it") and `docs/rust-lifecycle.md:242`. The serving
  run has one submitting thread per session for this reason.
* A request cancelled before it started is answered with the error for work that
  may have been committed (`serving.rs:428`), against `docs/rust-lifecycle.md:240`.
* LRU eviction at `store.rs:1092` takes named sessions too, and the name stays
  bound to the dead handle: a closed session may not be reopenable, against
  `session.rs:573` and `docs/rust-lifecycle.md:121`; the attempt to open it leaks the
  lease (`OpenDangling` in NamedSessions).
* `overwrite` evicts before it encodes (`session.rs:487`). If the encode fails, the
  next save of any session fails and seals the whole store, though SQLite never
  failed, against `session.rs:47`.
* A crash between the creation of the tables and the first save
  (`toktier-store-sqlite/src/lib.rs:422`) leaves a database every later start
  refuses, against `lib.rs:234` and `session.rs:195` (`StartRefused`).
* `docs/contracts/facade.md:179` says named entries are never displaced by automatic
  traffic. The byte budget and the capacity of the native store evict by recency
  alone; with a directory a displaced entry is recovered, without one it is gone.
* The binding digest of `jit.rs` holds neither the assurance nor the permission bit
  of the compiler's path, so `JitCompiler::compile` serves a product built under a
  waiver to a caller that waived nothing. A runtime admits such a product under
  Experimental only, which is what `PolicyHonoured` states.

## 4. Proofs

### The session store

`SessionStoreProofs` proves for *every* encoder that satisfies the contract,
every text length, guard, block size, cap and capacity:

| theorem | states |
|---|---|
| Invariance | `Spec => []IInv` |
| TypeCorrect | `Spec => []TypeOK` |
| StreamExact | `Spec => []IdsExact`: every session's stream is the reference encode of its text |
| NodesSafe | `Spec => []NodeCutsSurvive`: an intact node with sealed tokens is valid for every text that continues its prefix |
| InternalErrorsAbsent | `Spec => []NoInternalError`: the "internal inconsistency" errors cannot be returned |
| UncertifiedStaysUnsealed | `Spec => []UncertifiedNeverSeals` |

*Assumptions*: the named ASSUMEs of SessionStore, that is the encoder contract
and positive sizes.

*Argument.* `IdsExact` alone is not inductive: it says nothing about what the
next append will do to the sealed prefix, nor about nodes. `IInv` strengthens it
in two directions. First, the seal point of a session is a *cut*: re-encoding
after it gives the reference stream of the text **and of every continuation**
(`Cut`; the first lemmas show that cuts survive appends and compose). Between operations it is a cut of the whole text. Inside the block
loop the text has already grown but the boundary has not been probed again, so
there the seal point is a cut of the text *before* the operation
(`GrowingSession`), and every block not yet hashed ends after it; that is why a
node written in the loop is valid for every continuation of its prefix. Second,
a good node carries such a cut (`GoodNode`), and the walk of `lookup` keeps a
partial session that is good for the prefix walked so far (`WalkingSession`), so
materialising it gives a good session. The rest of `IInv` ties `buf`, `chain`,
`chainBase` and the seal log together (`Shape`, `Chained`), which is what
InternalErrorsAbsent needs, and says that `lru` lists the live handles once each.

And of what a caller relies on:

| theorem | states |
|---|---|
| GrowthInvariance | `Spec => []GInv` |
| PrefixStays | `Spec => SealedPrefixStable`: no step takes back what is sealed |
| ClientsInvariance | `~ProbeMayFail /\ Spec => []CInv` |
| HashesCurrent | `~ProbeMayFail /\ Spec => []RecordHashCurrent` |
| MirrorsExact | `~ProbeMayFail /\ Spec => []MirrorExact`: patches under the revision check give the store's stream |

*Argument.* Of the steps between the engine call and the commit, none changes the
stream: sealing moves tokens from the tail to the prefix, and the block loop moves
the chain (`SameCopy`). So an append changes its session's stream once, and only
behind the tokens the engine keeps (`BeginningAgrees`); what it has sealed when it
commits, or when its probe fails, it added behind the session's prefix (`GrowthInv`).
For the copies callers hold, `MirrorExact` is about one state and one caller.
`CopiesInv` is about all revisions: a copy names a handle given out before, a
revision no later than the session's, and if the revision is the session's own, its
stream. That is inductive because a commit raises the revision, so the copies
of the other callers of that handle become copies of an old revision, and because
a handle is not reused. A row from the cache is a copy too, so the shared row of the
current generation is the stream (`SnapshotInv`): each change of a stream starts a
generation. `PatchInv` follows the append in progress: the caller's copy is still
the stream the engine started from, which agrees with the new one up to
`replace_from`. The steps are sorted by their effect on the table, nothing
(`Quiet`), one session more (`Inserted`), one session rewritten (`Rewritten`), and
each invariant has one lemma per effect. A probe that fails in an append writes the
longer stream under the old revision, which breaks `CopiesInv` and the hash (see
"Where the code and its documentation disagree"), hence the hypothesis.

### Named sessions

`NamedSessionsProofs` proves for any set of clients, names and characters, any
capacity, and with or without a database, failing saves and failing encodes:

| theorem | states |
|---|---|
| SessionsInvariance | `Spec => []IInv` |
| AckedDurable | `Spec => []AckedSurvives`: what an operation reported as done is in the database |
| MemoryDurable | `Spec => []MemoryMatchesFile`: a healthy store is what a restart would load |
| OneWriter | `Spec => []SingleWriter` |
| WriterNeverBehind | `Spec => []WriterCurrent`: no append of a healthy store conflicts |

*Assumption*: `ConfigAssumption` of NamedSessions.

*Argument.* None of the four is inductive. `AckedSurvives` compares the database
with what was told, and the next save writes *all* names, not only the one that
was operated on; so `IInv` has that memory and database agree on names and
transcripts as long as the store is not sealed (`MemoryInv`), and that a
transcript is the text of its session (`GoodNames`). That two names never share a
session, which an append needs so that it changes one name only, rests on handles
being given out once: all handles in use are below `next` (`GoodTable`,
`GoodNames`), and a load that renumbers the rows keeps them apart (`RenumberedFacts`,
by counting). A database that was saved can be loaded (`WrittenGood`,
`LoadedGood`). A writer holds its lease, a Session object whose delete failed
exists in a sealed store only (`ClientsInv`), and so a name whose lease is free
has no Session object (`FreeName`): that is why `open` and `fork` make no second
writer. `WritersInv` says that a Session object has the handle and the revision of
its name, and keeps the prefix that `encode_transcript` compared.

The steps fall into four classes, each with its lemma: those that only lose
or reorder sessions (`QuietStep`), those that only move leases (`LeaseStep`),
those that end in a save (`PersistStep`, from `SavedStep` and `SealedStep`), and
starts and crashes (`IdleStep`).

### Serving pool

`ServingPoolProofs` proves for any threads, scripts, workers, requests, devices and
limits, and any finite set of sessions:

| theorem | states |
|---|---|
| PoolInvariance | `Spec => []IInv` |
| SlotsCounted | `Spec => []SlotsAccounted`: slots and queued bytes are those in use |
| OrderKept | `Spec => []SubmissionOrderKept`: a session applies operations in submission order, one at a time |
| ResultsTrue | `Spec => []ResultMatchesEffect`: an answer says what happened to the session |

*Assumptions*: the named ASSUMEs of ServingPool: natural limits and byte counts,
finitely many sessions, and a script in which every request is submitted once.

*Argument.* A request is in one place at a time: not yet submitted, in the queue once,
or with one worker (`Once`). So it is begun at most once, and what a worker holds at
each step (`Shape`) decides what is known of the request (`Effects`). A worker that
has its turn stands at the ticket of its operation (`Turns`); the sequencer only
advances past that ticket when the turn ends or past cancelled ones (it stops
because only finitely many tickets are cancelled), so whatever a session applied has
a ticket behind the sequencer or belongs to the worker that has the turn, and the
applied tickets ascend (`Lanes`). A thread draws its tickets in the order in which it
submits (`Order`), so ascending tickets are submission order. A slot is held from
the reservation to the release whichever way the operation leaves, so `pending` is
the cardinality of the set of its holders (`Slots`), and each step adds or removes at
most one holder. Bytes are a sum over the queue (`Charged`); that removing one job
takes its bytes off the sum is the one induction, over the length of the queue.

### Artifact cache

`ArtifactCacheProofs` proves for any processes, members, calls, crashes and faults:

| theorem | states |
|---|---|
| CacheInvariance | `Spec => []IInv` |
| AnsweredVerified | `Spec => []ReturnedVerified`: an answered "ok" stays true until the disk damages it |
| WholeFiles | `Spec => []VisibleWhole`: no reader sees part of a member, a mirrored member or an archive |
| VerifiedStays | `Spec => GoodNeverLost`: no step takes a verified member away, though a quarantine acts on a hash taken before |
| InstallsExcluded | `Spec => []OneInstaller`: quarantine and rename of a family never interleave |

*Assumptions*: the named ASSUMEs of ArtifactCache: at least one member, distinct names,
natural bounds.

*Argument.* `IInv` is local to each process: where its call can be (`Station`), what
it knows of the directory there (`Knows`), that what it is about to rename was hashed as
it was written or read back (`Hashed`), that it holds the family lock from its second
verification to its marker (`HoldsLock`), and that a member it is about to quarantine
does not verify (`Doomed`).

The lock carries `GoodNeverLost`, through `Doomed`. Nothing in the steps of the process
itself keeps `Doomed` true between the hash and the rename: a rename of another process could put verified bytes there, and the
quarantine would take them. Such a rename is a step of a process between its second
verification and its marker, so it holds the lock; and `HoldsLock` for both makes them the
same process. The other way to make a member good is the publication of an import,
which needs a directory without members. With the lock removed the property fails,
which is its mutant (`AnyoneEnters`).

`VisibleWhole` rests on `Hashed`: a draft about to be renamed is the file that was hashed,
for a mirrored member by the comparison after the copy, for an archive by the second
reading of every member, because the sources may change between the two passes over
them. A draft has one writer (names carry the process and a nonce, and a nonce is free
when it is taken), so what was compared is what is renamed; drafts of crashed processes
stay under hidden names and keep their nonces taken.

Each action keeps the invariant of its own process by its own step, and that of the
others because it keeps verified members, does not touch their temporaries and does not
take the lock from its holder. "Damaged" is the history variable `rot`: names damaged on
disk and not replaced by verified bytes since.

### Route admission

`RouteAdmissionProofs` proves for any processes, builds, machines, requests and faults:

| theorem | states |
|---|---|
| RouteInvariance | `Spec => []IInv` |
| LabelsJustified | `Spec => []LabelJustified`: the label of a plan is backed by what it names |
| PoliciesHonoured | `Spec => []PolicyHonoured`: no plan runs what its policy excludes |

*Assumptions*: the named ASSUMEs of RouteAdmission: the starting builds and machines
and the requests are well-formed, the bounds natural.

*Argument.* The proof follows a JIT product. A product that is neither tainted nor
swapped was made by the compiler of its binding, in the cache and after any number of
hits, and the label its manifest records says no more than the binding (`EntrySound`). A
plan's label says no more than the product (`ProductSound`, `RouteSound`), or than the
comparison whose record it read (`FileSound`: records and temporaries that say "passed"
are of comparisons that agreed, whoever wrote, removed or published them). What a policy
admits is decided before a build and again after it (`Admitted`), so a waiver another
caller put in the cache is not inherited.

Nothing is assumed of who may replace the compiler or when. What the code does not look
at is an exception in the property instead: `LabelJustified` does not say which
compiler made a swapped product that is labelled certified. A product of the window
between probe and run is a real weakness of that label, and the only one; a replacement
before the probe, after the run or under a later cache hit is covered.

### Entry store

`EntryStoreProofs` proves for any processes, names, texts and digest, any budget and
limits, with a directory or without:

| theorem | states |
|---|---|
| StoreStaysSound | `Spec => []Inv`, the inductive invariant |
| AnswersExact | `Spec => []ServedExact`: an answer from the store is the ids of the text asked for |
| NoSessionLeaks | `Spec => []EntriesAccounted`: entries, LRU and index name the same entries, and each native session belongs to exactly one |
| BudgetHolds | `Spec => []BudgetRestored`: a named call that answered leaves the resident texts within the budget |
| DirectoryFollows | `Spec => []SafeInv`, inductive together with `Inv` |
| RestartFindsAll | `Spec => []KnownIsRecoverable`: while nothing failed, what a store knows a restart accepts |

*Assumptions*: the named ASSUMEs of EntryStore: texts are not empty, natural bounds, the
limits of automatic entries and of sessions at least one and two, names totally
ordered, and `None` different from what can be in a file. Nothing is assumed of the digest.

*Argument.* `Inv` is about one process at a time, so the first four theorems hold
whatever other processes, crashes and lost files do: they only replace a file by
another of its kind (`DiskInv`). A record of the wrong text is therefore no obstacle to
`ServedExact`; what the proof needs is that every answer goes through a comparison
with the text, or through a session whose lineage ends in it. `StoreInv` says that
entries, LRU, index and native sessions agree, up to a set `K` of sessions that the call
has just made and no entry holds yet; between calls `K` is empty, which is
`EntriesAccounted`. The delicate case is an entry whose session the native store
evicted: its handle stays in the entry, so it is not enough that no two entries hold
one *live* session. `Owned` says that no two hold one handle, evicted ones
included, and a new handle is outside those held (`FreeHandles`).

What a call does to memory is bounded once, in `Outcome`: `StoreInv` with no session
left over, an answer that is the text or none, and files to write that are those of
one entry, the removals of the cap before them (`EntryFiles`), or none. Each branch of
`Serve`, `ScanHits` and the load is one lemma that ends in `Outcome`. The budget
(`Thrifty`) is the eviction at the end of a named call: its loop removes entries in LRU
order and stops when the sum fits or nothing is left, and the sum over the resident
entries is a sum over a finite set.

`KnownIsRecoverable` compares memory and directory between calls, and is false in the
middle of one. Its strengthening `Saved` compares memory with the directory *as the files
still to be written will leave it* (`Final`: the last file of the queue for a name, or
what is on disk). The work of a call establishes it for its own queue, and writing the
head of the queue does not change it (`FinalStep`). `Safe` adds what "nothing failed"
means for the other processes: one process is active at a time, a directory nobody
has opened has no record, and a temporary belongs to the rename in progress, so no
write fails on a leftover.

### Router

`RouterProofs` proves for any finite set of threads, any chain `NativeRouter::new`
accepts, any thresholds and any requests:

| theorem | states |
|---|---|
| RouterInvariance | `Spec => []IInv` |
| BatchRouted | `Spec => []BatchAsRows`: a batch answers its rows as their own routes would |
| BatchClosed | `Spec => []BatchCloses`: no row is without an answer after the last stage, so "native batch route did not close" (`runtime.rs:1262`) is never returned |
| LedgerCounts | `Spec => []LedgerExact`: the ledger counts the rows that were answered |

*Assumptions*: `RouterAssumption`: what `NativeRouter::new` checks of the chain, finitely
many threads, well-formed requests, and that threads, states of the cell, answers and
`None` are different things.

*Argument.* `BatchAsRows` speaks of the rows of a call that has returned; its
strengthening speaks of every row at every stage (`RowInv`). A row without an answer
stands at the current stage or at a later start, and every backend from its start on
has refused it (`Waits`, `Refused`); a row with one was taken by the backend it stood at
(`Taken`). A stage moves the rows of its group and no other (`RowPasses`, `RowFalls`,
`RowAnswered`). Two facts make the refusals last. The device is asked only when the
outcome of its open is latched (`Settled`), so what another thread does to the cell
cannot change the route of a row that went by it (`RouteKept`). And the failure of the
fast engine is decided once, at its stage: before that, no route depends on it
(`RowBreaks`). The ledger follows from the invariant by counting: a step either
records nothing, or moves one row, or all rows of one call, from one side of the
equation to the other.

### Merge loops

`MergeLoopsProofs` proves for any merge tables and inputs, any hash, any limits of the
loops and any word size in which ids pack:

| theorem | states |
|---|---|
| LoopsStayInvariant | `Spec => []IInv`, the inductive invariant |
| MergesInOrder | `Spec => Abstract!Init /\ [][Abstract!Step]_(Abstract!vars)`: every step of a loop is the next merge of PairMerge or changes no symbol, the safety half of `ImplementsPairMerge` |
| ResultIsMerged | what a call returns has no two neighbours that merge |

*Assumptions*: the named ASSUMEs of MergeLoops: positions and ranks below their
sentinels (`u32::MAX` in the code), ids that pack beside a position in one word (21 bits
beside 8 in 32), a flat table with twice as many slots as merges, finite tables.
Nothing is assumed of the hash but its range.

*Argument.* What the three kinds of loop share is one function of the list: the rank of
the pair that begins at a position (`PairOf`; no rank at a position merged away or at
the end). The rank array is that function (`ScanInv`), a lane packs it
(`LanesInv`), and the heap has it among its entries (`HeapInv`: stale entries are extra,
never missing). So the minimum of any of them, rank first and then position, is the
lowest pair of the list (`Lowest`), and because places in the list ascend with
positions, that is the best pair of the word the list spells (`BestFacts`). The merge
unlinks one position (`UnlinkedFacts`), which turns the word into the word of the
abstract step (`WordMerged`), and changes `PairOf` at the merged position and at the
one before it only (`PairsMerged`), which is why refreshing two ranks is enough. An entry
is popped as fresh exactly if it is the present pair of a live position: dead positions
are those whose `next` is the sentinel, and the last position has no pair.

Below that, the lookup is exact (`RankExact`) because the flat table is: every pair of
the map that left `todo` is in a slot at the end of a probe through full slots, the dense
cells agree, and fewer pairs than slots leave an empty slot, so that every probe ends
(`TableInv`, `ProbeEnds`). If `build` gives up, the map answers. Compaction overwrites the
symbols it walks: the comment at `bpe/mod.rs:440` says that writes never overtake reads,
and `UptoBound` is why (the n-th live position is at least n - 1), so that `Current`
does not change while the copies are made.

### What the proofs changed in the models

* `BatchAsRows` had its exception for a failing group written for chains that put the
  device first: a row the fast engine would have answered is answered by the reference
  engine. `NativeRouter::new` also accepts the fast engine before the device, and
  then such a row falls to the device. The property now says so for every order, and
  it says more: all rows agree on whether the fast engine failed.
* `LedgerExact` counted the rows of a call up to a fixed number; it now counts all.
* MergeLoops read the list by a recursive walk and compacted it in one step. Its
  abstraction now names the live positions by their links, and compaction copies one
  symbol a step as the code does, so that the refinement covers the copies in place.
  Word sizes, sentinels and the id limit became constants with assumptions.
* ArtifactCache's history variable first held every name that was *ever* damaged;
  then an answer given after a repair was excused by damage long gone. It now forgets a
  name when verified bytes replace it, which makes `ReturnedVerified` and
  `GoodNeverLost` stronger. Its quarantine, its mirrored copies and its archives were one
  step each and are now the calls of the file system, so that the proofs use the lock.
* RouteAdmission kept the compiler in place under a build that had probed it. It now
  changes at any moment, and `LabelJustified` names the one window.
* CASE expressions whose guards overlap, and functions updated through nested `@`,
  were rewritten as chains of IF and as explicit updates with the same meaning.
* EntryStore removed entries one at a time in a fold over the list of victims; it now
  removes the set of victims from each map and keeps the list for the order in which
  their files are removed. It names the alphabet of the texts (`Letter`) and
  states that `NameRank` is injective and that `None` is not the content of a file.
* ServingPool states that the set of sessions is finite and RouteAdmission what a build
  and a machine are. TLC needed neither.

### What is only model-checked

Everything about the pretokenizers, ByteLevel and FastCpu; and all liveness, which
includes the fairness half of `ImplementsPairMerge` (that a loop finishes): the prover
handles neither fairness nor ENABLED.

An induction over the naturals for one fixed predicate is possible, by taking the
least counterexample (`NatLeast`, from the well-foundedness of `<`); the proofs use
it for sums over a sequence and for the lowest lane of the selector. Induction over data in general is not: the library's
induction theorems take an operator as a parameter, which the provers cannot
instantiate. So what a recursive function computes for every input stays with TLC,
which is why the encoder is a contract in SessionStore, and why the scanners and the
cut plan, which are recursive functions, are checked over enumerated inputs. `TypeOK`,
`UncertifiedNeverSeals`, `OneInstaller` and `BatchCloses`
are proved and not run.

## 5. Plan

Done: the store, its sessions and their proofs; the serving pool; the entry store;
the router; the encoding stack from bytes to repaired tails; artifacts and route
admission.

Next:

1. **Theorems**: ByteLevel `CacheExact`, the open-addressed cache on its own, with the
   merge of a pretoken as a constant, which MergeLoopsProofs justifies.
2. **Abstract store** (name to text, one step per operation) implemented by
   NamedSessions, and the table of texts used by NamedSessions implemented by
   SessionStore.
3. **Store import and export**, so that the save and load of NamedSessions rest on a
   checked codec.
4. **Two devices** in the serving run: the retry on a peer is in the module
   (`RetryPeer`) but no instance takes it.
5. **SGLang pool**, as far as it can be read without the server it patches.

## 6. Not modelled

* *Python facade and store*: a twin of the entry store; the protocol is modelled from
  the Rust code. The Python planner over registries and the older Python repair
  engines are left out for the same reason.
* *SGLang integration*: patches into an external scheduler whose code is not here.
* *GPU engine and CUDA driver*: device memory and driver calls; Router has an engine
  that opens, fails, panics or answers.
* *Bindings and command line*: argument conversion and printing.
* *Byte layouts* of records, sidecars and recovery bindings: codecs. What the files
  claim of each other is in EntryStore.
* *SentencePiece and Unigram*, and merges inside a pretoken in the CPU engine's model.
* *Build-time checks and tools*: `source_identity.rs` parses and hashes sources in the
  build script, and the tools measure; neither is part of the running program.
* *Panics of an engine call* inside a serving worker: the request would never be
  answered and its turn would stay poisoned.

PROJECT.json gives the reason for each component.
