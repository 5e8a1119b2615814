---------------------------- MODULE SessionStore ----------------------------
(***************************************************************************)
(* The in-memory session store of crates/toktier-store-core/src/store.rs:   *)
(* append-only sessions whose token stream is kept as a sealed prefix plus  *)
(* a mutable tail, a content-addressed cache of sealed prefix nodes, and a  *)
(* bounded LRU table of sessions.                                           *)
(*                                                                         *)
(* The store contains no tokenizer.  It is written against the trait        *)
(* SessionEncoder (engine.rs), whose contract is the group of assumptions   *)
(* below: Enc is the reference encoding, Cuts are the boundaries the engine *)
(* certifies, and Guard is the seal end guard registered with the key.      *)
(*                                                                         *)
(* An operation holds the store exclusively (&mut self).  The operations    *)
(* that contain a loop, put, append and lookup, are a sequence of steps     *)
(* under the program counter pc; no other operation is enabled before the   *)
(* sequence is back at "idle", and the steps of a sequence are forced.      *)
(*                                                                         *)
(* Abstractions.  A hash is its preimage: a chain hash is the text hashed   *)
(* so far, a record hash the chain of the fields it digests.  A character   *)
(* is one byte.  last_used is the position in lru: the clock values are only *)
(* ever compared.  Counters of Stats are left out.                          *)
(***************************************************************************)
EXTENDS Integers, Sequences

CONSTANTS
    Key,            \* registered keys (fingerprints)
    Char,           \* characters
    Token,          \* token ids
    Junk,           \* the id a corrupted node shows
    Client,         \* callers that keep a copy of a session's stream
    Witness,        \* witness categories of the engines in use
    Enc(_, _),      \* Enc(k, t): reference encoding of text t under key k
    Cuts(_, _),     \* Cuts(k, t): certified boundaries of t, <<tokens, chars>>
    Guard(_),       \* Guard(k): seal_guard_chars of the key
    BlockChars,     \* StoreConfig.block_chars
    SoftCap,        \* StoreConfig.tail_soft_cap_bytes
    HardCap,        \* StoreConfig.tail_hard_cap_bytes
    NodeTailCap,    \* StoreConfig.node_tail_cap_bytes
    MaxSessions,    \* StoreConfig.max_sessions
    ProbeMayFail,   \* can last_certified_boundary return an error?
    MaxChars,       \* bound: longest text of a session or of a query
    Corpus,         \* bound: sessions and queries are prefixes of these texts
    MaxPut,         \* bound: longest text given to put
    MaxDelta,       \* bound: longest delta given to append
    MaxHandle,      \* bound: number of handles ever issued
    MaxGeneration,  \* bound: appends (and failed appends) of one session
    MaxCorrupt      \* bound: number of corrupted nodes

\* Texts up to the bound; a longer text is outside the instance.
Text == UNION {[1..n -> Char] : n \in 0..MaxChars}

\* What may still be appended to a text.
Continuations(t) == UNION {[1..n -> Char] : n \in 0..(MaxChars - Len(t))}

Drop(s, n) == SubSeq(s, n + 1, Len(s))
Take(s, n) == SubSeq(s, 1, n)

ASSUME BoundsAssumption ==
    /\ BlockChars \in Nat \ {0}
    /\ SoftCap \in Nat /\ HardCap \in Nat /\ NodeTailCap \in Nat
    /\ SoftCap <= HardCap
    /\ MaxSessions \in Nat \ {0}
    /\ ProbeMayFail \in BOOLEAN
    /\ MaxChars \in Nat /\ MaxPut \in 0..MaxChars /\ MaxDelta \in 0..MaxChars
    /\ MaxHandle \in Nat /\ MaxGeneration \in Nat /\ MaxCorrupt \in Nat
    /\ Corpus \subseteq Text /\ Junk \in Token
    /\ Key # {} /\ Client # {} /\ Witness # {}
    /\ Witness \subseteq {"sync", "none"}  \* BpeSyncTransition, NoneFullReencode

\* SessionEncoder::encode returns the reference encoding of every text.
ASSUME EncAssumption ==
    /\ \A k \in Key : Guard(k) \in Nat
    /\ \A k \in Key, t \in Text : Enc(k, t) \in Seq(Token)
    /\ \A k \in Key : Enc(k, <<>>) = <<>>

\* SessionEncoder::last_certified_boundary: a cut leaves tokens on either side.
ASSUME CutShapeAssumption ==
    \A k \in Key, t \in Text : \A c \in Cuts(k, t) :
        c[1] \in 1..(Len(Enc(k, t)) - 1) /\ c[2] \in 1..(Len(t) - 1)

(***************************************************************************)
(* The certificate: outside the end guard, re-encoding the text after the   *)
(* cut reproduces the stream, whatever is appended to the text later.       *)
(***************************************************************************)
ASSUME CutAssumption ==
    \A k \in Key, t \in Text : \A c \in Cuts(k, t) :
        c[2] + Guard(k) <= Len(t) =>
            \A d \in Continuations(t) :
                Enc(k, t \o d) = Take(Enc(k, t), c[1]) \o Enc(k, Drop(t, c[2]) \o d)

-----------------------------------------------------------------------------
\* The empty snapshot slot, and a client that holds no copy.
NoSnapshot == [gen |-> 0, ids |-> <<>>, set |-> FALSE]
NoMirror == [h |-> 0, rev |-> 0, ids |-> <<>>, set |-> FALSE]

\* The fields link_hash digests besides the previous record's hash.
Link(s) ==
    [key |-> s.key, witness |-> s.witness, rev |-> s.revision,
     ids |-> s.payload \o s.tailIds, tail |-> s.tail, stable |-> s.safe,
     replace |-> IF s.witness = "none" THEN 0 ELSE s.replaceFrom]

\* commit_hash: the chain of records, the newest first.
CommitHash(s) == <<Link(s)>> \o s.prev

(***************************************************************************)
(* Session::fresh.  text is not a field of the program: it is the text put  *)
(* and appended so far, which the store does not retain.                    *)
(***************************************************************************)
Fresh(k, w) ==
    [key |-> k, witness |-> w, revision |-> 0, text |-> <<>>,
     safe |-> 0, sealed |-> <<>>, payload |-> <<>>,
     tail |-> <<>>, tailIds |-> <<>>,
     gen |-> 0, snapshot |-> NoSnapshot,
     chain |-> <<>>, buf |-> <<>>, chainBase |-> 0, chainOk |-> TRUE,
     sealLog |-> {<<0, 0>>}, scanFloor |-> 0, replaceFrom |-> 0,
     prev |-> <<>>, hash |-> <<>>]

Blank == Fresh(CHOOSE k \in Key : TRUE, CHOOSE w \in Witness : TRUE)
NoCall == [client |-> CHOOSE c \in Client : TRUE, put |-> TRUE, h |-> 0,
           old |-> 0, oldSealed |-> 0, kept |-> 0, query |-> <<>>]

\* materialize_all_ids
AllIds(s) == s.sealed \o s.tailIds

\* total_chars and blocks_end of a session.
Total(s) == s.safe + Len(s.tail)
BlocksEnd(s) == Len(s.chain)

VARIABLES
    sessions,    \* live handles -> session
    lru,         \* live handles, least recently used first
    nodes,       \* <<key, prefix text>> -> sealed node
    nextHandle,
    corrupted,   \* number of nodes corrupted so far
    pc,          \* "idle", or the step of the running operation
    cur,         \* the session the running operation works on
    call,        \* locals of the running operation
    mirror       \* each client's copy of one session's stream

vars == <<sessions, lru, nodes, nextHandle, corrupted, pc, cur, call, mirror>>

Live == DOMAIN sessions
Elems(q) == {q[i] : i \in 1..Len(q)}

-----------------------------------------------------------------------------
(* The LRU table. *)

\* last_used := clock moves a live handle to the most recently used end.
Touch(q, h) ==
    LET i == CHOOSE j \in 1..Len(q) : q[j] = h
    IN  Take(q, i - 1) \o Drop(q, i) \o <<h>>

\* evict_for_capacity: drop the oldest entries until one slot is free.
FreeSlot(q) ==
    IF Len(q) >= MaxSessions THEN Drop(q, Len(q) - MaxSessions + 1) ELSE q

\* The sessions that survive when only the handles of q stay.
Survivors(q) == [h \in Live \cap Elems(q) |-> sessions[h]]

Extended(f, x, v) == [y \in DOMAIN f \cup {x} |-> IF y = x THEN v ELSE f[y]]

\* insert_session, after the capacity eviction left the handles of q.
InsertSession(q, s) ==
    /\ sessions' = Extended(Survivors(q), nextHandle, s)
    /\ lru' = Append(q, nextHandle)
    /\ nextHandle' = nextHandle + 1

Return ==
    /\ pc' = "idle"
    /\ cur' = Blank
    /\ call' = NoCall

-----------------------------------------------------------------------------
(* put and append: the engine call. *)

\* put(key, text, engine): capacity eviction, then the full encode.
Put(k, w, t) ==
    /\ pc = "idle"
    /\ nextHandle <= MaxHandle
    /\ lru' = FreeSlot(lru)
    /\ sessions' = Survivors(lru')
    /\ cur' = [Fresh(k, w) EXCEPT !.text = t, !.tail = t, !.tailIds = Enc(k, t)]
    /\ call' = NoCall
    /\ pc' = IF t = <<>> THEN "commit" ELSE "blocks"
    /\ UNCHANGED <<nodes, nextHandle, corrupted, mirror>>

\* The engine refuses the text: the eviction has happened, nothing is inserted.
PutEngineFails ==
    /\ pc = "idle"
    /\ lru' = FreeSlot(lru)
    /\ sessions' = Survivors(lru')
    /\ UNCHANGED <<nodes, nextHandle, corrupted, pc, cur, call, mirror>>

\* Fault: the expected revision is not compared.
MayAppendUnchecked(c, h) ==
    /\ pc = "idle"
    /\ h \in Live
    /\ mirror[c].set /\ mirror[c].h = h
    /\ sessions[h].revision < MaxGeneration
    /\ sessions[h].gen < MaxGeneration

\* The witness and revision gates of append_patch for client c.
MayAppend(c, h) ==
    /\ pc = "idle"
    /\ h \in Live
    /\ mirror[c].set /\ mirror[c].h = h
    /\ mirror[c].rev = sessions[h].revision
    /\ sessions[h].revision < MaxGeneration
    /\ sessions[h].gen < MaxGeneration

BeginAppend(c, h, kept) ==
    /\ call' = [NoCall EXCEPT !.client = c, !.put = FALSE, !.h = h,
                              !.old = Len(sessions[h].text),
                              !.oldSealed = Len(sessions[h].sealed),
                              !.kept = kept]
    /\ lru' = Touch(lru, h)
    /\ UNCHANGED <<sessions, nodes, nextHandle, corrupted, mirror>>

\* bump_ids_generation
BumpGeneration(s) == [s EXCEPT !.gen = @ + 1, !.snapshot = NoSnapshot]

\* Fault: the re-encode drops the sealed prefix it does not hold as text.
GrownByReset(s, d) ==
    [BumpGeneration(s) EXCEPT !.text = @ \o d, !.tail = @ \o d, !.sealed = <<>>,
                              !.tailIds = Enc(s.key, s.tail \o d)]

\* The tail after engine.append, or after the hard-cap full re-encode.
GrownBy(s, d) ==
    [BumpGeneration(s) EXCEPT !.text = @ \o d, !.tail = @ \o d,
                              !.tailIds = Enc(s.key, s.tail \o d)]

\* The kept_tokens claims verify_append_shape accepts.
KeptTokens(s, d) ==
    {n \in 0..Len(s.tailIds) :
        /\ n <= Len(Enc(s.key, s.tail \o d))
        /\ Take(Enc(s.key, s.tail \o d), n) = Take(s.tailIds, n)}

AppendNoop(c, h) ==
    /\ MayAppend(c, h)
    /\ BeginAppend(c, h, Len(sessions[h].tailIds))
    /\ cur' = sessions[h]
    /\ pc' = "commit"

\* Above the hard cap the tail is re-encoded whole, and nothing is kept.
AppendDegraded(c, h, d) ==
    /\ MayAppend(c, h)
    /\ Len(sessions[h].tail) > HardCap
    /\ BeginAppend(c, h, 0)
    /\ cur' = GrownBy(sessions[h], d)
    /\ pc' = "blocks"

AppendRepair(c, h, d) ==
    /\ MayAppend(c, h)
    /\ Len(sessions[h].tail) <= HardCap
    /\ \E kept \in KeptTokens(sessions[h], d) : BeginAppend(c, h, kept)
    /\ cur' = GrownBy(sessions[h], d)
    /\ pc' = "blocks"

\* The engine fails before it touched the tail.
AppendEngineFails(c, h) ==
    /\ MayAppend(c, h)
    /\ lru' = Touch(lru, h)
    /\ sessions' = [sessions EXCEPT ![h] = BumpGeneration(@)]
    /\ UNCHANGED <<nodes, nextHandle, corrupted, pc, cur, call, mirror>>

-----------------------------------------------------------------------------
(* post_text_ops, first half: seal_blocks, one completed block a step. *)

Lower(a, b) == IF a <= b THEN a ELSE b
Upper(a, b) == IF a >= b THEN a ELSE b

\* text_range(s, a, b): characters [a, b), assembled from buf and the tail.
TextRange(s, a, b) ==
    (IF a < s.safe
     THEN SubSeq(s.buf, a - BlocksEnd(s) + 1, Lower(b, s.safe) - BlocksEnd(s))
     ELSE <<>>)
    \o
    (IF b > s.safe
     THEN SubSeq(s.tail, Upper(a, s.safe) - s.safe + 1, b - s.safe)
     ELSE <<>>)

BlockEnd(s) == BlocksEnd(s) + BlockChars
HasBlock(s) == s.chainOk /\ BlockEnd(s) <= Total(s)
BlockPrefix(s) == s.chain \o TextRange(s, BlocksEnd(s), BlockEnd(s))
BlockKey(s) == <<s.key, BlockPrefix(s)>>

\* The cumulative token count at the seal point of a node.
CumEnd(n) == n.base + Len(n.ids)

Detach(s) == [s EXCEPT !.chainOk = FALSE, !.buf = <<>>]

\* Fault: buf keeps the hashed block.
AdvanceUndrained(s, base) ==
    [s EXCEPT !.chain = BlockPrefix(s), !.chainBase = base]

\* Fault: blocks_end stays, so the loop meets the same block again.
AdvanceStuck(s, base) == [s EXCEPT !.chainBase = base]

\* The block is hashed: the chain moves past it and buf drops it.
Advance(s, base) ==
    [s EXCEPT !.chain = BlockPrefix(s), !.chainBase = base,
              !.buf = Drop(s.buf, BlockChars)]

NewNode(s) ==
    [witness |-> s.witness, safe |-> s.safe, base |-> s.chainBase,
     ids |-> Drop(s.sealed, s.chainBase),
     tail |-> TextRange(s, s.safe, BlockEnd(s)), valid |-> TRUE]

InBlocks ==
    /\ pc = "blocks"
    /\ HasBlock(cur)
    /\ UNCHANGED <<sessions, lru, nextHandle, corrupted, pc, call, mirror>>

\* A sibling's node with a seal point of ours becomes the chain base.
AdoptNode ==
    /\ InBlocks
    /\ BlockKey(cur) \in DOMAIN nodes
    /\ LET n == nodes[BlockKey(cur)] IN
        /\ <<n.safe, CumEnd(n)>> \in cur.sealLog
        /\ cur' = Advance(cur, CumEnd(n))
    /\ UNCHANGED nodes

\* A sibling's node with a foreign seal point detaches this session.
DetachFromSibling ==
    /\ InBlocks
    /\ BlockKey(cur) \in DOMAIN nodes
    /\ LET n == nodes[BlockKey(cur)] IN <<n.safe, CumEnd(n)>> \notin cur.sealLog
    /\ cur' = Detach(cur)
    /\ UNCHANGED nodes

\* Too much unsealed text for a node: skipped, and the session detaches.
SkipNode ==
    /\ InBlocks
    /\ BlockKey(cur) \notin DOMAIN nodes
    /\ Len(NewNode(cur).tail) > NodeTailCap
    /\ cur' = Detach(cur)
    /\ UNCHANGED nodes

WriteNode ==
    /\ InBlocks
    /\ BlockKey(cur) \notin DOMAIN nodes
    /\ Len(NewNode(cur).tail) <= NodeTailCap
    /\ nodes' = Extended(nodes, BlockKey(cur), NewNode(cur))
    /\ cur' = Advance(cur, Len(cur.sealed))

-----------------------------------------------------------------------------
(* post_text_ops, second half: advance the certified seal point. *)

\* Fault: the end guard is forgotten.
SealCeilUnguarded(s) == Len(s.tail)

\* tail_chars.saturating_sub(seal_guard_chars)
SealCeil(s) == Upper(Len(s.tail) - Guard(s.key), 0)

MayProbe(s) ==
    /\ Len(s.tail) > BlockChars \/ Len(s.tail) > SoftCap
    /\ SealCeil(s) > s.scanFloor

\* last_certified_boundary(tail, floor, ceil) considers these cuts.
Candidates(s) ==
    IF s.witness = "none" THEN {}
    ELSE {c \in Cuts(s.key, s.tail) : c[2] > s.scanFloor /\ c[2] <= SealCeil(s)}

IsLastCut(s, c) ==
    c \in Candidates(s) /\ \A e \in Candidates(s) : e[2] <= c[2]

\* The scan memo after a cut: everything up to the ceiling was searched.
ScanFloorAfter(s, c) == SealCeil(s) - c[2]

\* seal_tail at the cut c, and the scan memo set after it.
SealTail(s, c) ==
    LET head == Take(s.tailIds, c[1])
        skip == Upper(BlocksEnd(s) - s.safe, 0)
    IN  [s EXCEPT !.sealed = @ \o head,
                  !.payload = @ \o head,
                  !.buf = IF s.chainOk
                          THEN @ \o Drop(Take(s.tail, c[2]), skip)
                          ELSE @,
                  !.safe = @ + c[2],
                  !.sealLog = @ \cup {<<s.safe + c[2], Len(s.sealed) + c[1]>>},
                  !.tail = Drop(@, c[2]),
                  !.tailIds = Drop(@, c[1]),
                  !.scanFloor = ScanFloorAfter(s, c)]

AtSeal ==
    /\ pc = "blocks"
    /\ ~HasBlock(cur)

Seal ==
    /\ AtSeal
    /\ MayProbe(cur)
    /\ \E c \in Candidates(cur) : IsLastCut(cur, c) /\ cur' = SealTail(cur, c)
    /\ pc' = "commit"
    /\ UNCHANGED <<sessions, lru, nodes, nextHandle, corrupted, call, mirror>>

NoCut ==
    /\ AtSeal
    /\ MayProbe(cur) => Candidates(cur) = {}
    /\ cur' = IF MayProbe(cur) THEN [cur EXCEPT !.scanFloor = SealCeil(cur)]
              ELSE cur
    /\ pc' = "commit"
    /\ UNCHANGED <<sessions, lru, nodes, nextHandle, corrupted, call, mirror>>

(***************************************************************************)
(* The boundary probe returns an error.  put drops its private session;     *)
(* append worked on the session in place, so what the steps before the      *)
(* probe did to it stays.                                                   *)
(***************************************************************************)
ProbeFails ==
    /\ AtSeal
    /\ ProbeMayFail
    /\ MayProbe(cur)
    /\ sessions' = IF call.put THEN sessions ELSE [sessions EXCEPT ![call.h] = cur]
    /\ Return
    /\ UNCHANGED <<lru, nodes, nextHandle, corrupted, mirror>>

-----------------------------------------------------------------------------
(* put and append: the commit. *)

\* Fault: the record hash is left from the previous revision.
CommittedStale(s) == s

Committed(s) == [s EXCEPT !.hash = CommitHash(s)]

CommitPut ==
    /\ pc = "commit" /\ call.put
    /\ InsertSession(lru, Committed(cur))
    /\ Return
    /\ UNCHANGED <<nodes, corrupted, mirror>>

\* The first token of the stream the append may have changed.
ReplaceFrom == call.oldSealed + call.kept

\* AppendPatchOutcome.replacement_ids
Replacement == Drop(AllIds(cur), ReplaceFrom)

NextRevision(s) ==
    [s EXCEPT !.revision = @ + 1, !.replaceFrom = ReplaceFrom, !.prev = s.hash]

\* The caller truncates its copy and appends the replacement.
Patched(m) ==
    [m EXCEPT !.rev = cur.revision + 1,
              !.ids = Take(@, Lower(ReplaceFrom, Len(@))) \o Replacement]

CommitAppend ==
    /\ pc = "commit" /\ ~call.put
    /\ sessions' =
        [sessions EXCEPT ![call.h] = Committed(NextRevision(cur))]
    /\ mirror' = [mirror EXCEPT ![call.client] = Patched(@)]
    /\ Return
    /\ UNCHANGED <<lru, nodes, nextHandle, corrupted>>

-----------------------------------------------------------------------------
(* lookup: walk the longest verified block prefix, then materialise it. *)

WalkKey(s, q) == <<s.key, Take(q, BlockEnd(s))>>

\* Fault: the checksum of the node is not verified.
NodeOkUnverified(s, n) ==
    /\ n.witness = s.witness
    /\ n.safe >= s.safe
    /\ n.safe <= BlockEnd(s)
    /\ n.base = Len(s.sealed)

\* The checks lookup makes of a node before it trusts it.
NodeOk(s, n) ==
    /\ n.valid
    /\ n.witness = s.witness
    /\ n.safe >= s.safe
    /\ n.safe <= BlockEnd(s)
    /\ n.base = Len(s.sealed)

\* The next block of the query has a node that verifies.
CanWalk(s, q) ==
    /\ BlockEnd(s) <= Len(q)
    /\ WalkKey(s, q) \in DOMAIN nodes
    /\ NodeOk(s, nodes[WalkKey(s, q)])

\* A lookup whose first block does not verify is a miss and changes nothing.
Lookup(k, w, q) ==
    /\ pc = "idle"
    /\ nextHandle <= MaxHandle
    /\ CanWalk(Fresh(k, w), q)
    /\ pc' = "walk"
    /\ cur' = Fresh(k, w)
    /\ call' = [NoCall EXCEPT !.query = q]
    /\ UNCHANGED <<sessions, lru, nodes, nextHandle, corrupted, mirror>>

\* The session lookup would materialise from the node it just verified.
Materialised(s, n, t) ==
    LET ids == s.sealed \o n.ids IN
    [s EXCEPT !.text = t, !.chain = t,
              !.safe = n.safe,
              !.sealed = ids, !.payload = ids, !.chainBase = Len(ids),
              !.tail = n.tail, !.tailIds = Enc(s.key, n.tail),
              !.sealLog = {<<0, 0>>} \cup
                          (IF n.safe > 0 THEN {<<n.safe, Len(ids)>>} ELSE {})]

Walk ==
    /\ pc = "walk"
    /\ CanWalk(cur, call.query)
    /\ LET k == WalkKey(cur, call.query) IN
        cur' = Materialised(cur, nodes[k], k[2])
    /\ UNCHANGED <<sessions, lru, nodes, nextHandle, corrupted, pc, call, mirror>>

LookupHit ==
    /\ pc = "walk"
    /\ ~CanWalk(cur, call.query)
    /\ InsertSession(FreeSlot(lru), Committed(cur))
    /\ Return
    /\ UNCHANGED <<nodes, corrupted, mirror>>

-----------------------------------------------------------------------------
(* The remaining operations. *)

\* The state a fork starts from: a fresh lineage, whose first record has no
\* predecessor.
Genesis(s) == [s EXCEPT !.revision = 0, !.replaceFrom = 0, !.prev = <<>>]

\* fork: a copy at revision 0; the capacity eviction may take the source.
Fork(h) ==
    /\ pc = "idle"
    /\ h \in Live
    /\ nextHandle <= MaxHandle
    /\ InsertSession(FreeSlot(Touch(lru, h)), Committed(Genesis(sessions[h])))
    /\ UNCHANGED <<nodes, corrupted, pc, cur, call, mirror>>

Evict(h) ==
    /\ pc = "idle"
    /\ h \in Live
    /\ lru' = Take(Touch(lru, h), Len(lru) - 1)
    /\ sessions' = [x \in Live \ {h} |-> sessions[x]]
    /\ UNCHANGED <<nodes, nextHandle, corrupted, pc, cur, call, mirror>>

Observe(c, h, ids) ==
    mirror' = [mirror EXCEPT ![c] =
                 [h |-> h, rev |-> sessions[h].revision, ids |-> ids, set |-> TRUE]]

\* all_ids
ReadAllIds(c, h) ==
    /\ pc = "idle"
    /\ h \in Live
    /\ lru' = Touch(lru, h)
    /\ Observe(c, h, AllIds(sessions[h]))
    /\ UNCHANGED <<sessions, nodes, nextHandle, corrupted, pc, cur, call>>

SnapshotIsCurrent(s) == s.snapshot.set /\ s.snapshot.gen = s.gen

\* The row shared_all_ids returns and leaves in the cache.
SharedRow(s) == IF SnapshotIsCurrent(s) THEN s.snapshot.ids ELSE AllIds(s)

\* shared_all_ids
ReadShared(c, h) ==
    /\ pc = "idle"
    /\ h \in Live
    /\ lru' = Touch(lru, h)
    /\ LET row == SharedRow(sessions[h]) IN
        /\ Observe(c, h, row)
        /\ sessions' = [sessions EXCEPT ![h].snapshot =
                          [gen |-> sessions[h].gen, ids |-> row, set |-> TRUE]]
    /\ UNCHANGED <<nodes, nextHandle, corrupted, pc, cur, call>>

\* Silent memory corruption, as corrupt_node_for_tests makes it: the first id,
\* or the seal point of a node without ids, no longer matches the checksum.
Damaged(n) ==
    IF n.ids # <<>>
    THEN [n EXCEPT !.ids = [i \in 1..Len(n.ids) |-> IF i = 1 THEN Junk ELSE n.ids[i]],
                   !.valid = FALSE]
    ELSE [n EXCEPT !.safe = IF n.safe % 2 = 0 THEN n.safe + 1 ELSE n.safe - 1,
                   !.valid = FALSE]

CorruptNode(k) ==
    /\ pc = "idle"
    /\ corrupted < MaxCorrupt
    /\ k \in DOMAIN nodes
    /\ nodes' = [nodes EXCEPT ![k] = Damaged(@)]
    /\ corrupted' = corrupted + 1
    /\ UNCHANGED <<sessions, lru, nextHandle, pc, cur, call, mirror>>

-----------------------------------------------------------------------------
Init ==
    /\ sessions = [h \in {} |-> Blank]
    /\ lru = <<>>
    /\ nodes = [k \in {} |-> NewNode(Blank)]
    /\ nextHandle = 1
    /\ corrupted = 0
    /\ pc = "idle"
    /\ cur = Blank
    /\ call = NoCall
    /\ mirror = [c \in Client |-> NoMirror]

\* The texts callers put, query and append.
Inputs == UNION {{Take(t, n) : n \in 0..Len(t)} : t \in Corpus}
Puts == {t \in Inputs : Len(t) <= MaxPut}
Deltas(s) ==
    {Drop(t, Len(s.text)) :
        t \in {u \in Inputs : /\ Len(u) - Len(s.text) \in 1..MaxDelta
                              /\ Take(u, Len(s.text)) = s.text}}

\* The steps of the operation in progress.
Continue ==
    \/ AdoptNode \/ DetachFromSibling \/ SkipNode \/ WriteNode
    \/ Seal \/ NoCut \/ ProbeFails
    \/ CommitPut \/ CommitAppend
    \/ Walk \/ LookupHit

Next ==
    \/ \E k \in Key, w \in Witness, t \in Puts : Put(k, w, t)
    \/ PutEngineFails
    \/ \E c \in Client, h \in Live :
        \/ AppendNoop(c, h)
        \/ \E d \in Deltas(sessions[h]) : AppendDegraded(c, h, d)
        \/ \E d \in Deltas(sessions[h]) : AppendRepair(c, h, d)
        \/ AppendEngineFails(c, h)
        \/ ReadAllIds(c, h)
        \/ ReadShared(c, h)
    \/ Continue
    \/ \E k \in Key, w \in Witness, q \in Inputs : Lookup(k, w, q)
    \/ \E h \in Live : Fork(h)
    \/ \E h \in Live : Evict(h)
    \/ \E k \in DOMAIN nodes : CorruptNode(k)

Spec == Init /\ [][Next]_vars

\* An operation that began runs on: it is a call on the caller's own thread.
Fairness == WF_vars(Continue)
FairSpec == Spec /\ Fairness

-----------------------------------------------------------------------------
(* Properties. *)

Snapshot == [gen : Nat, ids : Seq(Token), set : BOOLEAN]
Record == [key : Key, witness : Witness, rev : Nat, ids : Seq(Token),
           tail : Seq(Char), stable : Nat, replace : Nat]
Session ==
    [key : Key, witness : Witness, revision : Nat, text : Seq(Char),
     safe : Nat, sealed : Seq(Token), payload : Seq(Token),
     tail : Seq(Char), tailIds : Seq(Token),
     gen : Nat, snapshot : Snapshot,
     chain : Seq(Char), buf : Seq(Char), chainBase : Nat, chainOk : BOOLEAN,
     sealLog : SUBSET (Nat \X Nat), scanFloor : Nat, replaceFrom : Nat,
     prev : Seq(Record), hash : Seq(Record)]
Node == [witness : Witness, safe : Nat, base : Nat, ids : Seq(Token),
         tail : Seq(Char), valid : BOOLEAN]
Call == [client : Client, put : BOOLEAN, h : Nat, old : Nat, oldSealed : Nat,
         kept : Nat, query : Seq(Char)]
Mirror == [h : Nat, rev : Nat, ids : Seq(Token), set : BOOLEAN]

\* The type invariant: every variable and every record field has its type, and
\* the LRU order (last_used) lists exactly the live handles, within capacity.
TypeOK ==
    /\ Live \subseteq Nat
    /\ \A h \in Live : sessions[h] \in Session
    /\ \A k \in DOMAIN nodes : k \in Key \X Seq(Char) /\ nodes[k] \in Node
    /\ lru \in Seq(Nat) /\ Elems(lru) = Live /\ Len(lru) <= MaxSessions
    /\ nextHandle \in Nat /\ corrupted \in Nat
    /\ pc \in {"idle", "blocks", "commit", "walk"}
    /\ cur \in Session /\ call \in Call
    /\ mirror \in [Client -> Mirror]

\* The frozen correctness invariant of append: the stream of every live session
\* is bit-identical to a from-scratch encode of its text, however the text was
\* put, appended, sealed, forked or materialised from the node cache.
IdsExact ==
    \A h \in Live : AllIds(sessions[h]) = Enc(sessions[h].key, sessions[h].text)

\* A caller that only applies patches (truncate to replace_from, append the
\* replacement) under the revision check, or reads a complete or a cached row,
\* holds the store's stream whenever it holds the store's revision.
MirrorExact ==
    \A c \in Client :
        LET m == mirror[c] IN
        m.set /\ m.h \in Live /\ m.rev = sessions[m.h].revision
          => m.ids = AllIds(sessions[m.h])

\* The seal point of a cached node stays a correct cut for every text that
\* continues the node's own prefix, not only the text its writer had: a lookup
\* may continue the prefix differently.
NodeCutsSurvive ==
    \A k \in DOMAIN nodes :
        LET n == nodes[k] IN
        n.valid /\ CumEnd(n) > 0 =>
            \A d \in Continuations(k[2]) :
                Enc(k[1], k[2] \o d) =
                    Take(Enc(k[1], k[2]), CumEnd(n)) \o Enc(k[1], n.tail \o d)

\* export_session asserts that the stored record hash is the hash of the state
\* it exports; commit_hash asserts that the running payload digest agrees.
RecordHashCurrent ==
    \A h \in Live :
        LET s == sessions[h] IN
        pc = "idle" => s.hash = CommitHash([s EXCEPT !.payload = s.sealed])

\* The internal errors of seal_blocks and text_range cannot occur: when a block
\* completes, the seal point is not beyond it, the buffered text covers what
\* the tail no longer holds, and the chain base lies within the sealed stream.
NoInternalError ==
    pc = "blocks" /\ HasBlock(cur) =>
        /\ cur.safe <= BlockEnd(cur)
        /\ Len(cur.buf) = Upper(cur.safe - BlocksEnd(cur), 0)
        /\ cur.chainBase <= Len(cur.sealed)

\* Cross-field rule of the record format: a session under the category
\* NoneFullReencode has no stable prefix.
UncertifiedNeverSeals ==
    \A h \in Live : sessions[h].witness = "none" =>
        sessions[h].safe = 0 /\ sessions[h].sealed = <<>>

\* The stable prefix is append-only: no operation retracts a sealed token or a
\* sealed character.
SealedPrefixStable ==
    [][\A h \in Live : h \in DOMAIN sessions' =>
          /\ Len(sessions'[h].sealed) >= Len(sessions[h].sealed)
          /\ Take(sessions'[h].sealed, Len(sessions[h].sealed)) = sessions[h].sealed
          /\ sessions'[h].safe >= sessions[h].safe]_vars

\* Every operation returns: the block loop and the node walk end.
OperationReturns == pc # "idle" ~> pc = "idle"
=============================================================================
