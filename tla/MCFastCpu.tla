----------------------------- MODULE MCFastCpu ------------------------------
(***************************************************************************)
(* Work for the corrected CPU engine: documents cut into chunks and        *)
(* sessions appended to, over every choice of a few characters, and small  *)
(* mixes of calls that share the engine.                                   *)
(***************************************************************************)
EXTENDS FastCpu

Artifact(scheme, normalizer, raw) ==
    [scheme |-> scheme, normalizer |-> normalizer, raw |-> raw, norm |-> {}, rstrip |-> FALSE,
     roster |-> TRUE, evidence |-> "certified", lifted |-> FALSE]

Texts(head, A, n, end) == {head \o mid \o end : mid \in [1 .. n -> A]}
ChunkCall(cs, k)      == [op |-> "chunk", text |-> cs, k |-> k, minChunk |-> NoMinChunk, budget |-> 4]
SessionCall(cs, ds)   == [op |-> "session", text |-> cs, deltas |-> ds]
Idle                  == [op |-> "idle"]
Alone(face, call)     == [face |-> face, calls |-> "c1" :> call @@ "c2" :> Idle]

Chunks(faces, texts, ks) == {Alone(f, ChunkCall(cs, k)) : f \in faces, cs \in texts, k \in ks}
Sessions(faces, texts, deltas) == {Alone(f, SessionCall(cs, d)) : f \in faces, cs \in texts, d \in deltas}

Plain(s)  == Artifact(s, "none", {})
Lits      == {<<"a", "sp", "1">>, <<"sp", "1", "pt">>}
Literal(s) == Artifact(s, "none", Lits)
NfcOf(s)  == Artifact(s, "nfc", {<<"a", "1">>})

Words  == {"a", "1", "sp", "nl", "ap", "pt"}
Accent == {"a", "1", "mk", "eac", "sp"}
Jamo   == {"jl", "jv", "1", "kel"}

LongText == <<"a", "1", "sp", "a", "1", "sp">>
ChunkWork ==
         Chunks({Plain("cl100k"), Plain("o200k")}, Texts(<<>>, Words, 4, <<"s">>), {2})
    \cup Chunks({Plain("olmo3"), Plain("nemotron"), Plain("deepseek")},
                Texts(<<"pt">>, Words, 3, <<"a">>), {2})
    \cup Chunks({Plain("deepseek"), Plain("qwen3_5")},
                Texts(<<"a">>, {"H3", "M2", "1", "pt"}, 3, <<"ctl">>), {2})
    \cup Chunks({Literal("cl100k")}, Texts(<<"pt">>, {"a", "sp", "1", "pt"}, 4, <<"a">>), {2, 3})
    \cup Chunks({NfcOf("qwen2")}, Texts(<<"1">>, Accent, 4, <<"a">>), {2})
    \cup Chunks({NfcOf("qwen2")}, Texts(<<"a", "ov">>, Jamo \cup {"mk"}, 2, <<"mk", "a">>), {2})
    \cup Chunks({NfcOf("qwen2")}, Texts(<<"1">>, Jamo, 3, <<"a", "mk">>), {2})
    \cup Chunks({[Literal("qwen2") EXCEPT !.rstrip = TRUE], [NfcOf("qwen2") EXCEPT !.norm = {<<"eac">>}],
                 [NfcOf("qwen2") EXCEPT !.raw = {<<"a", "1">>, NoLiteral}],
                 [Plain("qwen2") EXCEPT !.evidence = "incomplete"], [Plain("qwen2") EXCEPT !.roster = FALSE],
                 [Plain("qwen2") EXCEPT !.evidence = "incomplete", !.lifted = TRUE]},
                Texts(<<"a">>, {"sp", "1", "eac"}, 2, <<"sp", "pt">>), {2})
    \cup {Alone(Plain("cl100k"), [ChunkCall(LongText, k) EXCEPT !.minChunk = m, !.budget = b]) :
            k \in {NoK, 0, 1, 4}, m \in {NoMinChunk, 3}, b \in {0, 1, 6}}

\* Calls that share the engine.
Full(cs)   == [op |-> "full", text |-> cs]
Batch(ts)  == [op |-> "batch", texts |-> ts]
Warm(n)    == [op |-> "warm", workers |-> n]
SharedCalls ==
    {ChunkCall(LongText, 3), Full(<<"a", "sp", "1">>), Full(<<"a", "a">>), Warm(2), Batch(<<>>),
     Batch(<<<<"a", "sp", "1">>, <<"a">>, <<"1", "1">>>>), SessionCall(<<"a">>, <<<<"a">>>>)}
Shared == {[face |-> Literal("qwen2"), calls |-> "c1" :> x @@ "c2" :> y] : x, y \in SharedCalls}

Old(A, n) == Texts(<<"a">>, A, n, <<"sp", "a">>)
SessionWork ==
         Sessions({Literal("cl100k")}, Old({"a", "1", "sp"}, 5), {<<<<"sp", "1">>, <<"a">>>>})
    \cup Sessions({Literal("o200k")}, Old({"a", "1", "sp"}, 5), {<<<<"1", "pt">>>>})
    \cup Sessions({NfcOf("qwen2")}, Old({"a", "1", "eac"}, 5), {<<<<"mk", "1">>>>})
    \cup Sessions({NfcOf("qwen2")}, Old({"mk", "1", "eac", "a"}, 2), {<<<<"1">>, <<"mk">>>>})
    \cup Sessions({Plain("cl100k")}, {[i \in 1 .. 12 |-> "a"]}, {<<<<"a">>>>})
    \cup Sessions({Plain("deepseek")}, Old({"1", "pt", "H3"}, 3), {<<<<"a">>, <<"sp", "sp">>>>})
    \cup Sessions({Literal("qwen2")}, {<<>>, <<"a">>}, {<<<<>>, <<"a">>, <<>>>>, <<<<"a", "sp">>, <<"1">>>>})

MCWork == ChunkWork \cup Shared \cup SessionWork

MCChunkTable == << <<4, 1>>, <<8, 2>>, <<0, 3>> >>
=============================================================================
