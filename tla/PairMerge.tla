------------------------------ MODULE PairMerge ------------------------------
(* What a byte-pair merge promises, whichever loop of bpe/mod.rs computes it: *)
(* as long as two neighbours merge, the pair of the lowest rank does, and of  *)
(* several such pairs the leftmost. A merge table maps a pair of symbols to   *)
(* the symbol it becomes and to its rank; for tiktoken vocabularies the rank  *)
(* is the merged symbol itself.                                               *)
EXTENDS Integers, Sequences

CONSTANTS
    Tables,   \* merge tables: [pairs -> [id, rank]]
    Inputs    \* symbol sequences to merge

VARIABLES merges, symbols

vars == <<merges, symbols>>

\* The positions of s at which a pair of the table begins.
Candidates(table, s) ==
    {i \in 1..Len(s) - 1 : <<s[i], s[i + 1]>> \in DOMAIN table}

RankAt(table, s, i) == table[<<s[i], s[i + 1]>>].rank

\* The pair to merge next: the lowest rank, then the lowest position.
Best(table, s) ==
    CHOOSE i \in Candidates(table, s) :
        \A j \in Candidates(table, s) :
            \/ RankAt(table, s, i) < RankAt(table, s, j)
            \/ RankAt(table, s, i) = RankAt(table, s, j) /\ i <= j

MergeAt(table, s, i) ==
    SubSeq(s, 1, i - 1) \o <<table[<<s[i], s[i + 1]>>].id>> \o SubSeq(s, i + 2, Len(s))

Init == merges \in Tables /\ symbols \in Inputs

Step ==
    /\ Candidates(merges, symbols) # {}
    /\ symbols' = MergeAt(merges, symbols, Best(merges, symbols))
    /\ UNCHANGED merges

\* The merge of a sequence, run to its end.
Spec == Init /\ [][Step]_vars /\ WF_vars(Step)
=============================================================================
