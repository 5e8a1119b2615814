------------------------------ MODULE MergeLoops -----------------------------
(* The merge loops of bpe/mod.rs. Each keeps the symbols in an array linked   *)
(* by next and prev and merges in place. The short and small loops scan an    *)
(* array of ranks for the minimum, the vector loops take the minimum of lanes *)
(* that pack rank and position into one word, and the long loop pops a heap   *)
(* whose entries go stale when a neighbour merges. Ranks come from the merge  *)
(* map or from the flat table built from it, pair by pair in the map's order. *)
EXTENDS Integers, Sequences, FiniteSets, Bags

CONSTANTS
    Symbol,           \* token ids
    Tables,           \* merge tables: [pairs -> [id, rank]]
    Inputs,           \* symbol sequences to merge
    NONE,             \* what stands for no position (u32::MAX)
    NoRank,           \* what stands for no merge (u32::MAX, the largest word)
    ID_LIMIT,         \* ids below this the flat table packs (2^21)
    SHORT_MERGE_MAX,  \* capacity of the stack arrays (16)
    SMALL_MERGE_MAX,  \* longest sequence merged by a scan (32)
    NARROW,           \* longest sequence scanned in the first lanes only (8)
    DENSE,            \* symbols below this index the dense grid (2^11)
    SLOTS,            \* slots of the flat table, at least twice the merges
    MAX_DISPLACEMENT, \* longest probe build tolerates (64)
    Hash(_)           \* home slot of a pair

VARIABLES
    merges,   \* the merge map
    todo,     \* its pairs still to be put into the flat table
    flat,     \* the flat table, or NoTable when build gave up
    loop,     \* the loop that runs: "none", "scan", "lanes" or "heap"
    token,    \* the symbols, by position from 0
    next, prev,
    ranks,    \* the rank of the pair beginning at each position
    heap,     \* a bag of <<rank, position>>
    read, written,  \* compaction: the next position to copy, and how many are
    out       \* what the caller reads when the call has ended

list == <<token, next, prev>>
vars == <<merges, todo, flat, loop, list, ranks, heap, read, written, out>>

WORD == NoRank + 1
PACK == 256
NoTable == <<>>
Empty == [pair |-> <<>>, id |-> NoRank]

\* A lane holds a position below PACK beside a rank, and what it holds of a
\* packed id stays below what it holds of NoRank.
ASSUME Bounds ==
    /\ {NONE, NoRank, ID_LIMIT, SHORT_MERGE_MAX, SMALL_MERGE_MAX, NARROW, DENSE,
        MAX_DISPLACEMENT, SLOTS} \subseteq Nat
    /\ NARROW <= SHORT_MERGE_MAX /\ SHORT_MERGE_MAX <= SMALL_MERGE_MAX
    /\ SHORT_MERGE_MAX <= PACK /\ (ID_LIMIT + 1) * PACK <= WORD
    /\ SLOTS > 0

\* At most half of the slots are filled.
ASSUME TableAssumption ==
    \A t \in Tables :
        /\ DOMAIN t \subseteq Symbol \X Symbol /\ IsFiniteSet(DOMAIN t)
        /\ t \in [DOMAIN t -> [id : Symbol, rank : 0..NoRank - 1]]
        /\ 2 * Cardinality(DOMAIN t) <= SLOTS

ASSUME SymbolAssumption ==
    /\ Symbol \subseteq Nat
    /\ Inputs \subseteq Seq(Symbol) /\ \A s \in Inputs : Len(s) <= NONE
    /\ \A p \in Symbol \X Symbol : Hash(p) \in 0..SLOTS - 1

\* The tables build accepts: ids are ranks, and all ids fit their lane.
Packable(t) ==
    \A p \in DOMAIN t : t[p].rank = t[p].id /\ {p[1], p[2], t[p].id} \subseteq 0..ID_LIMIT - 1

--------------------------------------------------------------------------------
\* The flat table. A pair whose symbols are both small has a cell of the dense
\* grid; every pair is in the slots, at the first free one from its home.

InGrid(a, b) == a < DENSE /\ b < DENSE

\* How far from its home the first free slot lies.
Displacement(slots, p) ==
    CHOOSE d \in 0..SLOTS - 1 :
        /\ slots[(Hash(p) + d) % SLOTS] = Empty
        /\ \A e \in 0..d - 1 : slots[(Hash(p) + e) % SLOTS] # Empty

EmptyTable == [grid |-> [p \in (0..DENSE - 1) \X (0..DENSE - 1) |-> NoRank],
               slots |-> [i \in 0..SLOTS - 1 |-> Empty]]

Inserted(t, p, id) ==
    [grid |-> IF InGrid(p[1], p[2]) THEN [t.grid EXCEPT ![p] = id] ELSE t.grid,
     slots |-> [t.slots EXCEPT ![(Hash(p) + Displacement(t.slots, p)) % SLOTS] =
                   [pair |-> p, id |-> id]]]

\* Some probe meets the pair or an empty slot, whichever comes first.
TableRank(t, a, b) ==
    IF InGrid(a, b) THEN t.grid[<<a, b>>]
    ELSE LET met(d) == t.slots[(Hash(<<a, b>>) + d) % SLOTS]
             d == CHOOSE d \in 0..SLOTS - 1 :
                    /\ met(d).pair = <<a, b>> \/ met(d) = Empty
                    /\ \A e \in 0..d - 1 : met(e).pair # <<a, b>> /\ met(e) # Empty
         IN met(d).id

MapRank(a, b) == IF <<a, b>> \in DOMAIN merges THEN merges[<<a, b>>].rank ELSE NoRank
MapId(a, b) == merges[<<a, b>>].id

Rank(a, b) == IF flat = NoTable THEN MapRank(a, b) ELSE TableRank(flat, a, b)

\* The merged symbol: the rank itself, or what a ranked table stores beside it.
Merged(a, b) == IF flat = NoTable THEN MapId(a, b) ELSE TableRank(flat, a, b)

--------------------------------------------------------------------------------
\* The linked list.

N == Len(token)
Active(i) == i < N
At(i) == token[i + 1]

\* The lane of a pair: the rank shifted past the position, in one word.
Pack(rank, i) == ((rank * PACK) % WORD) + i
NO_MERGE_FLOOR == (NoRank * PACK) % WORD

PairRank(i, tok, nx) == IF nx[i] < N THEN Rank(tok[i + 1], tok[nx[i] + 1]) ELSE NoRank

--------------------------------------------------------------------------------

Init ==
    /\ merges \in Tables
    /\ todo = IF Packable(merges) THEN DOMAIN merges ELSE {}
    /\ flat = IF Packable(merges) THEN EmptyTable ELSE NoTable
    /\ loop = "none" /\ token \in Inputs /\ next = <<>> /\ prev = <<>>
    /\ ranks = <<>> /\ heap = EmptyBag /\ read = 0 /\ written = 0 /\ out = <<>>

\* One pair of the map goes into the flat table, in whatever order the map
\* yields them; a probe that runs too far makes build give the table up.
Build ==
    /\ todo # {} /\ flat # NoTable
    /\ \E p \in todo :
        /\ todo' = todo \ {p}
        /\ flat' = IF Displacement(flat.slots, p) > MAX_DISPLACEMENT THEN NoTable
                   ELSE Inserted(flat, p, merges[p].id)
    /\ UNCHANGED <<merges, loop, list, ranks, heap, read, written, out>>

Built == todo = {} \/ flat = NoTable

\* A fresh list, whose last next is the loop's end mark.
Linked(end) ==
    /\ next' = [i \in 0..N - 1 |-> IF i = N - 1 THEN end ELSE i + 1]
    /\ prev' = [i \in 0..N - 1 |-> IF i = 0 THEN NONE ELSE i - 1]

SeedRank(i) == IF i < N - 1 THEN Rank(At(i), At(i + 1)) ELSE NoRank

Idle == loop = "none" /\ Built

\* A sequence of fewer than two symbols is its own merge.
Trivial ==
    /\ Idle /\ N < 2
    /\ loop' = "scan" /\ out' = token /\ Linked(N)
    /\ UNCHANGED <<merges, todo, flat, token, ranks, heap, read, written>>

\* The scans over a rank array: the short stack loops and the small loop.
StartScan ==
    /\ Idle /\ N \in 2..SMALL_MERGE_MAX
    /\ loop' = "scan" /\ Linked(N)
    /\ ranks' = [i \in 0..SMALL_MERGE_MAX - 1 |-> SeedRank(i)]
    /\ UNCHANGED <<merges, todo, flat, token, heap, read, written, out>>

\* The vector loops, which need the flat table's small ranks.
StartLanes ==
    /\ Idle /\ flat # NoTable /\ N \in 2..SHORT_MERGE_MAX - 1
    /\ loop' = "lanes" /\ Linked(N)
    /\ ranks' = [i \in 0..SHORT_MERGE_MAX - 1 |->
                    IF i < N - 1 THEN Pack(SeedRank(i), i) ELSE WORD - 1]
    /\ UNCHANGED <<merges, todo, flat, token, heap, read, written, out>>

\* The heap loop, for sequences no scan takes.
StartHeap ==
    /\ Idle /\ N > SMALL_MERGE_MAX
    /\ loop' = "heap" /\ Linked(NONE)
    /\ heap' = SetToBag({<<SeedRank(i), i>> : i \in {j \in 0..N - 2 : SeedRank(j) # NoRank}})
    /\ UNCHANGED <<merges, todo, flat, token, ranks, read, written, out>>

\* The list surgery of one merge at position i and the new symbol there.
Surgery(i, id) ==
    LET dead == next[i]
        right == next[dead]
    IN /\ token' = [token EXCEPT ![i + 1] = id]
       /\ next' = IF loop = "heap" THEN [next EXCEPT ![i] = right, ![dead] = NONE]
                  ELSE [next EXCEPT ![i] = right]
       /\ prev' = IF Active(right) THEN [prev EXCEPT ![right] = i] ELSE prev

\* One scan and merge: unlink the right symbol, refresh the two pairs that now
\* touch the merged one.
Scan ==
    /\ loop = "scan" /\ out = <<>>
    /\ \E i \in 0..N - 2 :
        /\ ranks[i] # NoRank
        /\ \A j \in 0..N - 2 : ranks[i] < ranks[j] \/ (ranks[i] = ranks[j] /\ i <= j)
        /\ Surgery(i, Merged(At(i), At(next[i])))
        /\ LET cleared == [ranks EXCEPT ![next[i]] = NoRank]
               merged == [cleared EXCEPT ![i] = PairRank(i, token', next')]
           IN ranks' = IF Active(prev[i])
                       THEN [merged EXCEPT ![prev[i]] = Rank(At(prev[i]), token'[i + 1])]
                       ELSE merged
    /\ UNCHANGED <<merges, todo, flat, loop, heap, read, written, out>>

\* Short sequences read the first lanes only.
LanesRead == IF N <= NARROW THEN 0..NARROW - 1 ELSE 0..SHORT_MERGE_MAX - 1

\* The same step over packed lanes: the minimum lane is both the rank and the
\* position.
Lanes ==
    /\ loop = "lanes" /\ out = <<>>
    /\ LET best == CHOOSE v \in {ranks[i] : i \in LanesRead} : \A i \in LanesRead : v <= ranks[i]
           i == best % PACK
       IN /\ best < NO_MERGE_FLOOR
          /\ Surgery(i, best \div PACK)
          /\ LET cleared == [ranks EXCEPT ![next[i]] = WORD - 1]
                 merged == [cleared EXCEPT ![i] = IF Active(next'[i])
                               THEN Pack(PairRank(i, token', next'), i) ELSE WORD - 1]
             IN ranks' = IF Active(prev[i])
                         THEN [merged EXCEPT ![prev[i]] =
                                 Pack(Rank(At(prev[i]), token'[i + 1]), prev[i])]
                         ELSE merged
    /\ UNCHANGED <<merges, todo, flat, loop, heap, read, written, out>>

\* Mutant: only the pair with the new right neighbour is pushed.
PushedMutant(i, tok, nx) == {e \in {<<PairRank(i, tok, nx), i>>} : e[1] # NoRank}

\* The heap entries a merge at i adds: its pairs with both new neighbours.
Pushed(i, tok, nx) ==
    {e \in {<<IF Active(prev[i]) THEN Rank(tok[prev[i] + 1], tok[i + 1]) ELSE NoRank, prev[i]>>,
            <<PairRank(i, tok, nx), i>>} : e[1] # NoRank}

\* A popped entry whose pair no longer has its rank, or whose position was
\* merged away, is dropped.
Fresh(e) == next[e[2]] # NONE /\ Rank(At(e[2]), At(next[e[2]])) = e[1]

Pop ==
    /\ loop = "heap" /\ heap # EmptyBag
    /\ \E e \in BagToSet(heap) :
        /\ \A f \in BagToSet(heap) : e[1] < f[1] \/ (e[1] = f[1] /\ e[2] <= f[2])
        /\ IF Fresh(e)
           THEN /\ Surgery(e[2], Merged(At(e[2]), At(next[e[2]])))
                /\ heap' = (heap (-) SetToBag({e})) (+) SetToBag(Pushed(e[2], token', next'))
           ELSE heap' = heap (-) SetToBag({e}) /\ UNCHANGED list
    /\ UNCHANGED <<merges, todo, flat, loop, ranks, read, written, out>>

Exhausted ==
    \/ loop = "scan" /\ \A i \in 0..N - 2 : ranks[i] = NoRank
    \/ loop = "lanes" /\ \A i \in LanesRead : ranks[i] >= NO_MERGE_FLOOR
    \/ loop = "heap" /\ heap = EmptyBag

\* The survivors are copied to the front of the same array, one at a time.
Compact ==
    /\ Exhausted /\ out = <<>> /\ Active(read)
    /\ token' = [token EXCEPT ![written + 1] = At(read)]
    /\ written' = written + 1 /\ read' = next[read]
    /\ UNCHANGED <<merges, todo, flat, loop, next, prev, ranks, heap, out>>

Truncate ==
    /\ Exhausted /\ out = <<>> /\ ~Active(read)
    /\ out' = SubSeq(token, 1, written)
    /\ UNCHANGED <<merges, todo, flat, loop, list, ranks, heap, read, written>>

Next ==
    \/ Build
    \/ Trivial \/ StartScan \/ StartLanes \/ StartHeap
    \/ Scan \/ Lanes \/ Pop \/ Compact \/ Truncate

\* A call runs to its end: nothing blocks a merge loop.
Spec == Init /\ [][Next]_vars /\ WF_vars(Next)

--------------------------------------------------------------------------------

\* The positions of the list, and the n-th of them.
Live == {i \in 0..N - 1 : i = 0 \/ next[prev[i]] = i}
Nth(n) == CHOOSE i \in Live : Cardinality({j \in Live : j <= i}) = n

\* The symbols of the list; those compaction has copied are in front.
Current ==
    IF out # <<>> THEN out
    ELSE IF loop = "none" THEN token
    ELSE [n \in 1..Cardinality(Live) |-> IF n <= written THEN token[n] ELSE At(Nth(n))]

Abstract == INSTANCE PairMerge WITH symbols <- Current

\* Whatever loop and table serve a call, the list goes through the merges of
\* the lowest-ranked leftmost pair, one at a time and none skipped, stale heap
\* entries and table building change nothing, and the compacted result is the
\* sequence no pair of which merges any more.
ImplementsPairMerge == Abstract!Spec

=============================================================================
