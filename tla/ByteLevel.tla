------------------------------ MODULE ByteLevel ------------------------------
(* The byte-level tokenizer of bpe/tiktoken.rs: the loaders that build it     *)
(* (load_tokenizer/hf.rs, load_tokenizer/tiktoken.rs), the setters a loader   *)
(* calls, forks, and the encode walk over added tokens, segments and chunks   *)
(* of pretokens, each served by the pretoken cache of bpe/pretoken_cache.rs   *)
(* or merged and cached. A byte string is a sequence of small numbers.        *)
EXTENDS Integers, Sequences, FiniteSets, SequencesExt

CONSTANTS
    Files,           \* tokenizer files to load
    Texts,           \* texts to encode
    AddedSets,       \* what set_added_tokens may be given
    Specials,        \* what add_special_tokens may be given
    MaxSetterCalls,  \* bound on setter calls after the load
    MaxEncodes,      \* bound on encodes
    SHORT,           \* longest pretoken with a packed key (15)
    INLINE,          \* most tokens of an inline value (4)
    FIRST_LIMIT,     \* the first inline id lies below this (2^24)
    MIN_SLOTS,       \* smallest cache (2^16)
    PRETOKEN_CHUNK,  \* pretokens probed per fill (256)
    Bytes,           \* the bytes that occur in valid UTF-8
    BYTE_VALUES,     \* how many values a u8 has (256)
    SPACE,           \* the space byte
    Hash(_),         \* pretoken_key_hash
    Nfc(_),          \* NFC normalisation of a segment (external crate)
    Pretokenize(_)   \* the pretokens of a segment

VARIABLES
    tok,    \* handle -> tokenizer: "parent" and, once forked, "worker"
    setters, encodes,
    job     \* the encode under way, or the last one

vars == <<tok, setters, encodes, job>>

LOCAL Merge == INSTANCE PairMerge WITH Tables <- {}, Inputs <- {}, merges <- <<>>, symbols <- <<>>

Empty == [key |-> <<>>, val |-> <<>>]
Garbage == 9999

ASSUME Sizes == INLINE >= 1 /\ SHORT >= 1 /\ MIN_SLOTS \in {2, 4, 8, 16} /\ PRETOKEN_CHUNK >= 1

IsShort(bytes) == Len(bytes) \in 1..SHORT

--------------------------------------------------------------------------------
\* The short-pretoken cache: an open-addressed table of slot pairs.

\* Home of a key: the pair of slots its hash selects.
Home(key, cap) == 2 * ((Hash(key) % cap) \div 2)

PairAt(c, key, k) == (Home(key, c.cap) + 2 * k) % c.cap

\* How many pairs a walk for the key passes before one holds it or has room.
Walk(c, key) ==
    CHOOSE k \in 0..c.cap \div 2 - 1 :
        LET stops(j) == \E i \in {PairAt(c, key, j), PairAt(c, key, j) + 1} :
                            c.slots[i].key = key \/ c.slots[i] = Empty
        IN stops(k) /\ \A j \in 0..k - 1 : ~stops(j)

SlotOf(c, key) ==
    LET p == PairAt(c, key, Walk(c, key))
    IN IF c.slots[p].key = key THEN p
       ELSE IF c.slots[p + 1].key = key THEN p + 1
       ELSE IF c.slots[p] = Empty THEN p ELSE p + 1

Cached(c, key) == c.slots[SlotOf(c, key)].key = key

FirstEmpty(c, key) ==
    LET free(k) == {i \in {PairAt(c, key, k), PairAt(c, key, k) + 1} : c.slots[i] = Empty}
        k == CHOOSE k \in 0..c.cap \div 2 - 1 : free(k) # {} /\ \A j \in 0..k - 1 : free(j) = {}
    IN CHOOSE i \in free(k) : \A j \in free(k) : i <= j

NewCache(cap) == [cap |-> cap, slots |-> [i \in 0..cap - 1 |-> Empty], len |-> 0]

\* The smallest power of two from MIN_SLOTS that n + 1 keys fill at most 3/4.
WithAtLeast(n) ==
    NewCache(CHOOSE cap \in {MIN_SLOTS * 2^d : d \in 0..n + 1} :
                /\ (n + 1) * 4 <= cap * 3
                /\ \A d \in 0..n + 1 : (n + 1) * 4 <= MIN_SLOTS * 2^d * 3 => cap <= MIN_SLOTS * 2^d)

\* Doubling rehashes every entry into a fresh array, which frees the old one.
Grow(c) ==
    FoldLeft(LAMBDA g, i : IF c.slots[i] = Empty THEN g
                           ELSE [g EXCEPT !.slots[FirstEmpty(g, c.slots[i].key)] = c.slots[i]],
             [NewCache(2 * c.cap) EXCEPT !.len = c.len],
             [i \in 1..c.cap |-> i - 1])

Full(c) == (c.len + 1) * 4 > c.cap * 3

InsertAtSlot(c, slot, key, val) ==
    LET g == IF Full(c) THEN Grow(c) ELSE c
        at == IF Full(c) THEN FirstEmpty(g, key) ELSE slot
    IN [g EXCEPT !.slots[at] = [key |-> key, val |-> val], !.len = @ + 1]

Insert(c, key, val) ==
    LET g == IF Full(c) THEN Grow(c) ELSE c
    IN [g EXCEPT !.slots[FirstEmpty(g, key)] = [key |-> key, val |-> val], !.len = @ + 1]

Replace(c, key, val) ==
    IF Cached(c, key) THEN [c EXCEPT !.slots[SlotOf(c, key)].val = val] ELSE Insert(c, key, val)

--------------------------------------------------------------------------------
\* What a pretoken encodes as.

\* The id of a byte: its lowest single-byte entry.
Remap(t, b) ==
    CHOOSE i \in DOMAIN t.vocab : t.vocab[i] = <<b>> /\ \A j \in DOMAIN t.vocab : t.vocab[j] = <<b>> => i <= j

RECURSIVE MergeAll(_, _)
MergeAll(table, s) ==
    IF Merge!Candidates(table, s) = {} THEN s
    ELSE MergeAll(table, Merge!MergeAt(table, s, Merge!Best(table, s)))

\* seed_symbols: the vocabulary's own id under ignore_merges, else the merges.
SeedSymbols(t, bytes) ==
    IF t.ignore_merges /\ bytes \in DOMAIN t.vocab_inv THEN <<t.vocab_inv[bytes]>>
    ELSE MergeAll(t.merges, [i \in 1..Len(bytes) |-> Remap(t, bytes[i])])

\* pack_val: a value is inline, or a reference into the arena, which grows.
Inline(ids) == Len(ids) \in 1..INLINE /\ ids[1] < FIRST_LIMIT
PackVal(t, ids) == IF Inline(ids) THEN [spill |-> FALSE, ids |-> ids]
                   ELSE [spill |-> TRUE, at |-> Len(t.arena), len |-> Len(ids)]
Spill(t, ids) == IF Inline(ids) THEN t.arena ELSE t.arena \o ids
Unpack(t, val) == IF val.spill THEN SubSeq(t.arena, val.at + 1, val.at + val.len) ELSE val.ids

Put(t, bytes, ids) ==
    [t EXCEPT !.cache = Replace(t.cache, bytes, PackVal(t, ids)), !.arena = Spill(t, ids)]

--------------------------------------------------------------------------------
\* Building a tokenizer, and the setters loaders call.

\* Later entries win, as in the map the vocabulary is collected into.
VocabInverse(vocab) ==
    [bytes \in {vocab[i] : i \in DOMAIN vocab} |->
        CHOOSE i \in DOMAIN vocab : vocab[i] = bytes /\ \A j \in DOMAIN vocab : vocab[j] = bytes => j <= i]

VocabSeq(t) == [i \in 1..Cardinality(DOMAIN t.vocab) |-> t.vocab[i - 1]]

\* The vocabulary's short entries seed the cache with what a miss would give.
Seeded(t) ==
    FoldLeft(LAMBDA s, bytes :
                IF ~IsShort(bytes) \/ Cached(s.cache, bytes) THEN s
                ELSE [s EXCEPT !.cache = Insert(s.cache, bytes, PackVal(s, SeedSymbols(s, bytes))),
                               !.arena = Spill(s, SeedSymbols(s, bytes))],
             [t EXCEPT !.cache = WithAtLeast(Cardinality({i \in DOMAIN t.vocab : IsShort(t.vocab[i])})),
                       !.arena = <<>>, !.long = <<>>],
             VocabSeq(t))

\* Every short added content the vocabulary resolves is cached as that one id.
Overwritten(t) ==
    FoldLeft(LAMBDA s, a : IF IsShort(a.content) /\ a.content \in DOMAIN s.vocab_inv
                           THEN Put(s, a.content, <<s.vocab_inv[a.content]>>) ELSE s,
             t, t.added)

SetIgnoreMerges(t, flag) ==
    IF t.ignore_merges = flag THEN t
    ELSE Overwritten(FoldLeft(LAMBDA s, bytes : IF IsShort(bytes) THEN Put(s, bytes, SeedSymbols(s, bytes)) ELSE s,
                              [t EXCEPT !.ignore_merges = flag], VocabSeq(t)))

\* Nonempty contents, longest first; equal lengths keep their order.
ByLength(added) ==
    LET kept == SelectSeq(added, LAMBDA a : a.content # <<>>)
        longest == IF kept = <<>> THEN 0
                   ELSE CHOOSE n \in {Len(kept[i].content) : i \in DOMAIN kept} :
                           \A i \in DOMAIN kept : Len(kept[i].content) <= n
    IN FoldLeft(LAMBDA out, d : out \o SelectSeq(kept, LAMBDA a : Len(a.content) = longest - d),
                <<>>, [d \in 1..longest |-> d - 1])

\* Mutant: the contents of the outgoing set keep their single-id values.
SetAddedTokensMutant(t, added) == Overwritten([t EXCEPT !.added = ByLength(added)])

\* The outgoing contents get their seed value back before the new ones are set.
SetAddedTokens(t, added) ==
    LET restored == FoldLeft(LAMBDA s, a : IF IsShort(a.content) /\ a.content \in DOMAIN s.vocab_inv
                                           THEN Put(s, a.content, SeedSymbols(s, a.content)) ELSE s,
                             [t EXCEPT !.added = ByLength(added)], t.added)
    IN Overwritten(restored)

\* A vocabulary with the id's slot, if that slot is free, given to the content.
Extended(vocab, content, id) ==
    LET n == Cardinality(DOMAIN vocab)
        grown == [i \in 0..(IF id >= n THEN id ELSE n - 1) |-> IF i < n THEN vocab[i] ELSE <<>>]
    IN IF grown[id] = <<>> THEN [grown EXCEPT ![id] = content] ELSE grown

AddSpecialTokens(t, specials) ==
    LET add(s, e) ==
            LET vocab == Extended(s.vocab, e.content, e.id)
                free == e.id \notin DOMAIN s.vocab \/ s.vocab[e.id] = <<>>
            IN [s EXCEPT !.vocab = vocab,
                         !.vocab_inv = IF ~free THEN @
                                       ELSE [b \in DOMAIN @ \cup {e.content} |->
                                                IF b = e.content THEN e.id ELSE @[b]]]
        plain == [i \in DOMAIN specials |->
                    [content |-> specials[i].content, id |-> specials[i].id, lstrip |-> FALSE, rstrip |-> FALSE]]
    IN SetAddedTokens(FoldLeft(add, t, specials), t.added \o plain)

FromTables(merges, vocab) ==
    Seeded([vocab |-> vocab, vocab_inv |-> VocabInverse(vocab), merges |-> merges, ignore_merges |-> FALSE,
            added |-> <<>>, nfc |-> FALSE, prefix |-> FALSE, cache |-> <<>>, arena |-> <<>>, long |-> <<>>])

\* The merge list as a table. The merged id is the priority when the list
\* yields ids in order; otherwise the position in the list is.
MergeTable(list, vocab) ==
    LET inv == VocabInverse(vocab)
        known == SelectSeq(list, LAMBDA m : {m[1], m[2], m[1] \o m[2]} \subseteq DOMAIN inv)
        ids == [i \in DOMAIN known |-> inv[known[i][1] \o known[i][2]]]
        ordered == \A i \in 1..Len(ids) - 1 : ids[i] <= ids[i + 1]
        pair(i) == <<inv[known[i][1]], inv[known[i][2]]>>
        first(p) == CHOOSE i \in DOMAIN known : pair(i) = p /\ \A j \in DOMAIN known : pair(j) = p => i <= j
    IN [p \in {pair(i) : i \in DOMAIN known} |->
            [id |-> ids[first(p)], rank |-> IF ordered THEN ids[first(p)] ELSE first(p)]]

\* build_bpe over a tokenizer.json. Added tokens outside the vocabulary extend
\* it, but only the model's own entries name the two sides of a merge.
WithAdded(file) == FoldLeft(LAMBDA v, a : Extended(v, a.content, a.id), file.vocab, file.added)

BuildBpe(file) ==
    LET t == FromTables(MergeTable(file.merges, file.vocab), WithAdded(file))
        set == [t EXCEPT !.nfc = file.nfc, !.prefix = file.prefix]
    IN SetAddedTokens(SetIgnoreMerges(set, file.ignore_merges), file.added)

\* from_ranks: each entry's merge is what the merges before it leave of it,
\* which must be two symbols. The id of a byte is narrowed to a u8 here, and
\* is that of the byte's last entry.
RankMerges(vocab) ==
    LET inv == VocabInverse(vocab)
        add(built, i) ==
            LET known == \A k \in DOMAIN vocab[i] : <<vocab[i][k]>> \in DOMAIN inv
                parts == MergeAll(built.table, [k \in DOMAIN vocab[i] |-> inv[<<vocab[i][k]>>] % BYTE_VALUES])
            IN IF ~built.ok \/ Len(vocab[i]) < 2 THEN built
               ELSE IF ~known \/ Len(parts) # 2 THEN [built EXCEPT !.ok = FALSE]
               ELSE [built EXCEPT !.table = [p \in DOMAIN @ \cup {parts} |->
                                                IF p = parts THEN [id |-> i, rank |-> i] ELSE @[p]]]
    IN FoldLeft(add, [ok |-> TRUE, table |-> <<>>], [i \in 1..Cardinality(DOMAIN vocab) |-> i - 1])

FromRanks(vocab) == FromTables(RankMerges(vocab).table, vocab)

\* from_byte_vocab: every byte of the alphabet has an entry.
Remappable(vocab) == \A b \in Bytes : \E i \in DOMAIN vocab : vocab[i] = <<b>>

\* Whether the loader returns a tokenizer: the other files end in an error, or
\* in the panic of from_ranks.
Loads(file) ==
    IF file.kind = "hf" THEN Remappable(WithAdded(file))
    ELSE /\ RankMerges(file.vocab).ok /\ Remappable(file.vocab)
         /\ \A i \in DOMAIN file.specials : file.specials[i].id >= Cardinality(DOMAIN file.vocab)

Loaded(file) ==
    IF file.kind = "hf" THEN BuildBpe(file)
    ELSE AddSpecialTokens(FromRanks(file.vocab), file.specials)

\* Rank files give the bytes their first ids, which a u8 holds.
ASSUME ByteRanks ==
    \A file \in Files : file.kind = "tiktoken" =>
        \A i \in DOMAIN file.vocab : Len(file.vocab[i]) = 1 => i < BYTE_VALUES

--------------------------------------------------------------------------------
\* The walk over a text: added tokens and the segments between them.

\* The leftmost occurrence of an added token from a position on, the longest of
\* those; of equal contents the first of the set.
Occurrences(t, text, from) ==
    {<<s, i>> \in (from..Len(text)) \X DOMAIN t.added :
        /\ s + Len(t.added[i].content) - 1 <= Len(text)
        /\ SubSeq(text, s, s + Len(t.added[i].content) - 1) = t.added[i].content}

FindAdded(t, text, from) ==
    LET all == Occurrences(t, text, from)
    IN CHOOSE m \in all : \A o \in all : m[1] < o[1] \/ (m[1] = o[1] /\ m[2] <= o[2])

TrimEnd(s) == CHOOSE n \in 0..Len(s) : (\A i \in n + 1..Len(s) : s[i] = SPACE) /\ (n = 0 \/ s[n] # SPACE)
TrimStart(s) == CHOOSE n \in 0..Len(s) : (\A i \in 1..n : s[i] = SPACE) /\ (n = Len(s) \/ s[n + 1] # SPACE)

Segment(t, bytes) ==
    LET s == IF t.nfc THEN Nfc(bytes) ELSE bytes
    IN [added |-> -1, bytes |-> IF t.prefix /\ s # <<>> /\ s[1] # SPACE THEN <<SPACE>> \o s ELSE s]

RECURSIVE Pieces(_, _, _)
Pieces(t, text, pos) ==
    IF pos > Len(text) THEN <<>>
    ELSE IF Occurrences(t, text, pos) = {} THEN <<Segment(t, SubSeq(text, pos, Len(text)))>>
    ELSE LET m == FindAdded(t, text, pos)
             a == t.added[m[2]]
             before == SubSeq(text, pos, m[1] - 1)
             rest == m[1] + Len(a.content)
             after == SubSeq(text, rest, Len(text))
         IN <<Segment(t, IF a.lstrip THEN SubSeq(before, 1, TrimEnd(before)) ELSE before),
              [added |-> a.id, bytes |-> <<>>]>>
            \o Pieces(t, text, rest + (IF a.rstrip THEN TrimStart(after) ELSE 0))

--------------------------------------------------------------------------------

Idle == job.phase = "done"

Init ==
    /\ tok \in {[h \in {"parent"} |-> Loaded(file)] : file \in {f \in Files : Loads(f)}}
    /\ setters = 0 /\ encodes = 0
    /\ job = [phase |-> "done", handle |-> "parent", text |-> <<>>, pieces |-> <<>>,
              spans |-> <<>>, chunk |-> <<>>, view |-> 0, out |-> <<>>]

\* Loader-phase mutators run before any fork and before any encode.
Loading == DOMAIN tok = {"parent"} /\ encodes = 0 /\ Idle /\ setters < MaxSetterCalls

Set(t) == tok' = [tok EXCEPT !["parent"] = t] /\ setters' = setters + 1 /\ UNCHANGED <<encodes, job>>

CallSetIgnoreMerges == Loading /\ Set(SetIgnoreMerges(tok["parent"], ~tok["parent"].ignore_merges))

CallSetAddedTokens == Loading /\ \E a \in AddedSets : Set(SetAddedTokens(tok["parent"], a))

CallAddSpecialTokens == Loading /\ \E s \in Specials : Set(AddSpecialTokens(tok["parent"], s))

\* A fork shares the tables and seeds a cache of its own.
Fork ==
    /\ DOMAIN tok = {"parent"} /\ Idle
    /\ tok' = [h \in {"parent", "worker"} |->
                IF h = "parent" THEN tok["parent"] ELSE Overwritten(Seeded(tok["parent"]))]
    /\ UNCHANGED <<setters, encodes, job>>

Begin ==
    /\ Idle /\ encodes < MaxEncodes
    /\ \E h \in DOMAIN tok, text \in Texts :
        job' = [phase |-> "piece", handle |-> h, text |-> text, pieces |-> Pieces(tok[h], text, 1),
                spans |-> <<>>, chunk |-> <<>>, view |-> 0, out |-> <<>>]
    /\ encodes' = encodes + 1
    /\ UNCHANGED <<tok, setters>>

NextPiece ==
    /\ job.phase = "piece"
    /\ IF job.pieces = <<>> THEN job' = [job EXCEPT !.phase = "done"]
       ELSE IF job.pieces[1].added >= 0
       THEN job' = [job EXCEPT !.out = Append(@, job.pieces[1].added), !.pieces = Tail(@)]
       ELSE job' = [job EXCEPT !.phase = "fill", !.spans = Pretokenize(job.pieces[1].bytes),
                               !.pieces = Tail(@)]
    /\ UNCHANGED <<tok, setters, encodes>>

\* The pretokens one fill hands over: a chunk, or what is left.
Chunk(spans) == SubSeq(spans, 1, IF Len(spans) < PRETOKEN_CHUNK THEN Len(spans) ELSE PRETOKEN_CHUNK)

\* A chunk is filled and its probe view taken; an empty one ends the segment.
Fill ==
    /\ job.phase = "fill"
    /\ LET chunk == Chunk(job.spans)
       IN job' = IF chunk = <<>> THEN [job EXCEPT !.phase = "piece"]
                 ELSE [job EXCEPT !.phase = "probe", !.chunk = chunk,
                                  !.spans = SubSeq(@, Len(chunk) + 1, Len(@)),
                                  !.view = tok[job.handle].cache.cap]
    /\ UNCHANGED <<tok, setters, encodes>>

\* The inline value in the home pair of the key, read through the view: the
\* array it points to is the cache's as long as the cache has not grown.
ProbePair(t, view, key) ==
    IF view # t.cache.cap THEN [fast |-> TRUE, ids |-> <<Garbage>>]
    ELSE LET p == Home(key, view)
             hits == {i \in {p, p + 1} : t.cache.slots[i].key = key /\ ~t.cache.slots[i].val.spill}
         IN IF IsShort(key) /\ hits # {}
            THEN [fast |-> TRUE, ids |-> t.cache.slots[CHOOSE i \in hits : TRUE].val.ids]
            ELSE [fast |-> FALSE, ids |-> <<>>]

\* The tokenizer after a slow lookup of a pretoken: a miss merges and caches it.
Looked(t, bytes) ==
    LET ids == SeedSymbols(t, bytes)
    IN IF IsShort(bytes)
       THEN IF Cached(t.cache, bytes) THEN t
            ELSE [t EXCEPT !.cache = InsertAtSlot(t.cache, SlotOf(t.cache, bytes), bytes, PackVal(t, ids)),
                           !.arena = Spill(t, ids)]
       ELSE IF bytes \in DOMAIN t.long THEN t
            ELSE [t EXCEPT !.arena = @ \o ids,
                           !.long = [b \in DOMAIN @ \cup {bytes} |->
                                        IF b = bytes THEN <<Len(t.arena), Len(ids)>> ELSE @[b]]]

\* What the lookup appends: the cached value, or the merge that was just cached.
Found(t, bytes) ==
    IF IsShort(bytes)
    THEN IF Cached(t.cache, bytes) THEN Unpack(t, t.cache.slots[SlotOf(t.cache, bytes)].val)
         ELSE SeedSymbols(t, bytes)
    ELSE IF bytes \in DOMAIN t.long
         THEN SubSeq(t.arena, t.long[bytes][1] + 1, t.long[bytes][1] + t.long[bytes][2])
         ELSE SeedSymbols(t, bytes)

\* Mutant: the view taken before the chunk is kept across a slow lookup.
RefreshedMutant(view, t) == view

Refreshed(view, t) == t.cache.cap

Probe ==
    /\ job.phase = "probe" /\ job.chunk # <<>>
    /\ LET t == tok[job.handle]
           bytes == Head(job.chunk)
           hit == ProbePair(t, job.view, bytes)
           looked == IF hit.fast THEN t ELSE Looked(t, bytes)
       IN /\ tok' = [tok EXCEPT ![job.handle] = looked]
          /\ job' = [job EXCEPT !.chunk = Tail(@),
                                !.view = IF hit.fast THEN @ ELSE Refreshed(@, looked),
                                !.out = @ \o (IF hit.fast THEN hit.ids ELSE Found(t, bytes)),
                                !.phase = IF Len(job.chunk) > 1 THEN "probe"
                                          ELSE IF job.spans = <<>> THEN "piece" ELSE "fill"]
    /\ UNCHANGED <<setters, encodes>>

Next ==
    \/ CallSetIgnoreMerges \/ CallSetAddedTokens \/ CallAddSpecialTokens
    \/ Fork \/ Begin \/ NextPiece \/ Fill \/ Probe

Spec == Init /\ [][Next]_vars

--------------------------------------------------------------------------------

\* The encoding of a pretoken by its definition: an added content the
\* vocabulary resolves is that id, everything else is seeded or merged.
Reference(t, bytes) ==
    IF IsShort(bytes) /\ bytes \in DOMAIN t.vocab_inv /\ \E i \in DOMAIN t.added : t.added[i].content = bytes
    THEN <<t.vocab_inv[bytes]>> ELSE SeedSymbols(t, bytes)

Concat(seqs) == FoldLeft(LAMBDA a, b : a \o b, <<>>, seqs)

ReferenceIds(t, text) ==
    LET of(p) == IF p.added >= 0 THEN <<p.added>>
                 ELSE Concat([i \in DOMAIN Pretokenize(p.bytes) |-> Reference(t, Pretokenize(p.bytes)[i])])
    IN Concat([i \in DOMAIN Pieces(t, text, 1) |-> of(Pieces(t, text, 1)[i])])

Decode(t, ids) == Concat([i \in DOMAIN ids |-> t.vocab[ids[i]]])

\* Every value either cache of either handle holds is what encoding its
\* pretoken afresh would give, whatever setters ran and in whatever order, and
\* every key is where a lookup finds it: the parent and its forks agree on
\* every pretoken (the cache-seed sync invariant of apply_added_token_overwrites).
CacheExact ==
    \A h \in DOMAIN tok :
        LET t == tok[h] IN
        /\ \A i \in 0..t.cache.cap - 1 : t.cache.slots[i] # Empty =>
            /\ SlotOf(t.cache, t.cache.slots[i].key) = i
            /\ Unpack(t, t.cache.slots[i].val) = Reference(t, t.cache.slots[i].key)
        /\ t.cache.len = Cardinality({i \in 0..t.cache.cap - 1 : t.cache.slots[i] # Empty})
        /\ \A b \in DOMAIN t.long :
            SubSeq(t.arena, t.long[b][1] + 1, t.long[b][1] + t.long[b][2]) = Reference(t, b)

\* A finished encode has emitted the reference ids of its text, however chunks
\* fell, whatever was cached and whenever the cache grew during a chunk; the
\* ids of each segment decode to the segment.
EncodedExact ==
    job.phase = "done" =>
        /\ job.out = ReferenceIds(tok[job.handle], job.text)
        /\ \A i \in DOMAIN Pieces(tok[job.handle], job.text, 1) :
            LET p == Pieces(tok[job.handle], job.text, 1)[i] IN
            p.added < 0 => Decode(tok[job.handle],
                              Concat([k \in DOMAIN Pretokenize(p.bytes) |->
                                        Reference(tok[job.handle], Pretokenize(p.bytes)[k])])) = p.bytes
=============================================================================
