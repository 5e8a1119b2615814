----------------------------- MODULE MCByteLevel -----------------------------
(* Small tokenizers over the bytes a = 0, b = 1 and space = 2: one whose ids   *)
(* follow its merge list, one whose ids do not, and one from a rank file; and  *)
(* files the loaders refuse.                                                   *)
EXTENDS ByteLevel

A(content, id, l, r) == [content |-> content, id |-> id, lstrip |-> l, rstrip |-> r]

MCHf(vocab, merges, ignore, nfc, prefix, added) ==
    [kind |-> "hf", vocab |-> [i \in 0..Len(vocab) - 1 |-> vocab[i + 1]], merges |-> merges,
     ignore_merges |-> ignore, nfc |-> nfc, prefix |-> prefix, added |-> added]

MCRanks(vocab, specials) ==
    [kind |-> "tiktoken", vocab |-> [i \in 0..Len(vocab) - 1 |-> vocab[i + 1]], specials |-> specials]

\* An entry before the merge it is made of; a special in a mergeable rank; no
\* entry for a byte, in a merge or at all.
MCRefused == {
    MCRanks(<<<<1>>, <<0>>, <<2>>, <<1, 0, 1>>, <<0, 1>>>>, <<>>),
    MCRanks(<<<<1>>, <<0>>, <<2>>, <<0, 1>>>>, <<[content |-> <<1, 1>>, id |-> 3]>>),
    MCRanks(<<<<1>>, <<0>>, <<0, 2>>>>, <<>>),
    MCHf(<<<<0>>, <<1>>, <<0, 1>>>>, <<<<<<0>>, <<1>>>>>>, FALSE, FALSE, FALSE, <<>>)}

\* abab is too long for a packed key; bb is an entry its merge list puts first.
MCFiles == {
    MCHf(<<<<0>>, <<1>>, <<2>>, <<0, 1>>, <<0, 1, 0, 1>>>>,
         <<<<<<0>>, <<1>>>>, <<<<0, 1>>, <<0, 1>>>>>>, FALSE, FALSE, TRUE, <<A(<<2, 1>>, 5, FALSE, TRUE)>>),
    MCHf(<<<<0>>, <<1>>, <<2>>, <<0, 1>>, <<1, 1>>, <<0, 1, 0, 1>>>>,
         <<<<<<1>>, <<1>>>>, <<<<0>>, <<1>>>>>>, TRUE, TRUE, FALSE, <<A(<<1, 0, 0, 1>>, 7, TRUE, FALSE)>>),
    MCRanks(<<<<1>>, <<0>>, <<2>>, <<0, 1>>, <<1, 0, 1>>>>, <<[content |-> <<1, 1>>, id |-> 6]>>)}
    \cup MCRefused

MCTexts == {
    <<0, 1, 0, 1, 2, 1, 2, 0, 0, 2, 0, 1, 2, 2, 1, 0>>,
    <<1, 1, 2, 0, 1, 1, 2, 1, 0, 0, 1, 1, 2, 0, 0>>,
    <<2, 0, 0, 0, 1, 0, 1, 2, 0, 0, 0, 1, 0, 1, 2, 1>>}

MCAddedSets == {<<>>, <<A(<<0, 1>>, 3, FALSE, FALSE), A(<<0, 1, 0>>, 8, TRUE, TRUE)>>, <<A(<<1, 1>>, 4, FALSE, FALSE)>>}

MCSpecials == {<<[content |-> <<0, 1>>, id |-> 8]>>, <<[content |-> <<2, 0>>, id |-> 4], [content |-> <<0, 0>>, id |-> 9]>>}

MCHash(key) == IF key[1] = 0 THEN 6 ELSE Len(key)

\* A stand-in for composition: b a composes to a.
MCNfc(s) == SelectSeq([i \in DOMAIN s |-> IF s[i] = 1 /\ i < Len(s) /\ s[i + 1] = 0 THEN 9 ELSE s[i]], LAMBDA b : b # 9)

\* A pretoken begins at every space.
MCPretokenize(s) ==
    LET starts == {i \in DOMAIN s : i = 1 \/ s[i] = 2}
        end(i) == IF \E j \in starts : j > i
                  THEN (CHOOSE j \in starts : j > i /\ \A k \in starts : k > i => j <= k) - 1 ELSE Len(s)
    IN [n \in 1..Cardinality(starts) |->
            LET i == CHOOSE i \in starts : Cardinality({j \in starts : j <= i}) = n IN SubSeq(s, i, end(i))]
=============================================================================
