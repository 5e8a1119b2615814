---------------------------- MODULE MCMergeLoops -----------------------------
(* Merge tables over the byte symbols 0 and 1. *)
EXTENDS MergeLoops, TLC

MCSymbol == 0..8

Merge(a, b, id, rank) == <<a, b>> :> [id |-> id, rank |-> rank]

MCTables == {
    \* tiktoken-style: the id is the rank; 5 and 6 build on earlier merges
    Merge(0, 1, 4, 4) @@ Merge(4, 4, 5, 5) @@ Merge(1, 4, 6, 6) @@ Merge(0, 4, 7, 7),
    \* two merges of one id, one overlapping the other
    Merge(0, 0, 4, 4) @@ Merge(4, 0, 5, 5) @@ Merge(0, 4, 5, 5) @@ Merge(1, 5, 6, 6),
    \* an id the flat table cannot pack
    Merge(0, 1, 4, 4) @@ Merge(1, 0, 8, 8),
    \* explicit ranks that do not follow the ids
    Merge(0, 1, 4, 3) @@ Merge(1, 0, 5, 1) @@ Merge(4, 4, 6, 0) @@ Merge(0, 5, 7, 2)}

MCInputs == UNION {[1..n -> {0, 1}] : n \in 0..7}

\* Pairs crowd into the last two slots, so that probes wrap around.
MCHash(p) == IF p[1] = p[2] THEN 7 ELSE 6
=============================================================================
