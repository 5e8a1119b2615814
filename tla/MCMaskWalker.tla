---------------------------- MODULE MCMaskWalker ----------------------------
(***************************************************************************)
(* Texts for the mask scanner: a head, every choice of a few characters    *)
(* that straddle the edge of the first batch, and a tail long enough for a *)
(* second batch.                                                           *)
(***************************************************************************)
EXTENDS MaskWalker

SE == INSTANCE SequencesExt

\* A character's bytes, and a text from its characters.
Encode(b)  == <<b>> \o [i \in 1 .. LeadLen(b) - 1 |-> Cont]
TextOf(cs) == SE!FlattenSeq([i \in 1 .. Len(cs) |-> Encode(cs[i])])
Around(head, A, n, tail) == {TextOf(head \o mid \o tail) : mid \in [1 .. n -> A]}
Repeat(c, n) == [i \in 1 .. n |-> c]
Walks(ks, w, ts, simd, restarts) ==
    {[t |-> t, w |-> w, k |-> k, p |-> Schemes[k], simd |-> simd, restarts |-> restarts] : t \in ts, k \in ks}

Words      == {"a", "sp", "nl", "pt", "W2"}
Numbers    == {"1", "N2", "a", "sp"}
Suffix     == {"a", "ap", "s", "l", "LS"}
Casing     == {"A", "a", "X2", "M2", "sp"}
Tails      == {"pt", "sl", "nl", "sp", "a"}
HanText    == {"H3", "HS", "HN", "1", "a"}
Everything == {"a", "1", "sp", "nl", "pt", "H3", "HS", "M2", "ctl"}

Small(ks, A, n) ==
    Walks(ks, 5, Around(<<"1", "1", "pt">>, A, n, <<"1", "1", "sp", "a", "sp", "a">>), TRUE, FALSE)
Wide(ks, A, n)  ==
    Walks(ks, 7, Around(<<"a", "a", "pt", "nl", "sl">>, A, n, <<"1", "sp", "A", "a", "sp", "pt", "a", "a">>),
          TRUE, FALSE)

\* Pretokens longer than the boundary buffer's window.
Long == {TextOf(<<"a", "sp">> \o Repeat(c, 18) \o <<d>> \o Repeat("a", 6)) :
           c \in {"a", "sp", "nl"}, d \in {"pt", "N2", "W2"}}

MCInputs ==
         Small({"r50k", "cl100k"}, Words, 4)
    \cup Small({"qwen2", "olmo3"}, Words, 3)
    \cup Small({"r50k", "olmo3"}, Numbers, 3)
    \cup Small({"r50k", "cl100k"}, Suffix, 3)
    \cup Small({"qwen3_5"}, Casing, 3)
    \cup Wide({"o200k"}, Casing, 3)
    \cup Wide({"o200k", "kimi"}, Tails, 3)
    \cup Wide({"o200k"}, Suffix, 4)
    \cup Wide({"kimi"}, HanText, 3)
    \cup Wide({"nemotron"}, {"1", "N2", "sl", "nl"}, 3)
    \cup Walks({"r50k", "cl100k", "o200k"}, 5, Long, TRUE, FALSE)
    \cup Walks({"qwen2", "nemotron"}, 5, {Repeat("1", 16)}, TRUE, TRUE)
    \cup Walks({"qwen2", "kimi"}, 5, Around(<<"a">>, {"sp", "nl", "pt", "H3"}, 2, Repeat("a", 10)), TRUE, TRUE)
    \cup Walks({"deepseek"}, 5, Around(<<>>, Everything, 3, <<"a">>), FALSE, TRUE)
    \cup Walks({"cl100k"}, 5, Around(<<>>, Words, 3, <<>>), FALSE, FALSE)
=============================================================================
