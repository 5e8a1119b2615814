--------------------------- MODULE MCSessionStore ---------------------------
(***************************************************************************)
(* A small engine for SessionStore.  Characters are a letter "x" and a      *)
(* space "_".  The added-token literal "x_x" is extracted from the whole    *)
(* text first, leftmost, as the added-token pass of a real tokenizer does;  *)
(* what remains is cut into runs of one class, and a run into pieces of at  *)
(* most two characters.  A cut between two classes at a token boundary is   *)
(* certified.  The literal is why sealing needs the end guard: "x_" has a   *)
(* boundary after "x" that the next "x" removes.                            *)
(***************************************************************************)
EXTENDS SessionStore

MCChar == {"x", "_"}
Literal == <<"x", "_", "x">>
MCGuard(k) == Len(Literal)

\* Does the literal start after position i of t?
LiteralAt(t, i) == i + Len(Literal) <= Len(t) /\ SubSeq(t, i + 1, i + Len(Literal)) = Literal

\* A second key has no literal: its fingerprint stands for another tokenizer.
HasLiteral(k) == k = "k1"

\* The number of characters of the token that starts after position i.
TokenLen(k, t, i) ==
    IF HasLiteral(k) /\ LiteralAt(t, i) THEN 3
    ELSE IF /\ i + 2 <= Len(t) /\ t[i + 2] = t[i + 1]
            /\ ~(HasLiteral(k) /\ LiteralAt(t, i + 1)) THEN 2
    ELSE 1

\* Token ends in ascending order: the positions reached from 0.
TokenEnds(k, t) ==
    LET from[i \in 0..Len(t)] ==
            IF i = Len(t) THEN <<>>
            ELSE LET j == i + TokenLen(k, t, i) IN <<j>> \o from[j]
    IN  from[0]

MCKey == {"k1"}
MCKeys == {"k1", "k2"}

\* A token is named by the key and the characters it stands for.
MCEnc(k, t) ==
    LET e == TokenEnds(k, t) IN
    [i \in 1..Len(e) |-> <<k, SubSeq(t, (IF i = 1 THEN 0 ELSE e[i - 1]) + 1, e[i])>>]

MCCuts(k, t) ==
    LET e == TokenEnds(k, t) IN
    {<<i, e[i]>> : i \in {j \in 1..(Len(e) - 1) : t[e[j]] # t[e[j] + 1]}}

MCJunk == <<"k2", <<"x", "_", "x">>>>
MCToken == MCKeys \X UNION {[1..n -> MCChar] : n \in 1..3}

\* Texts that share a prefix and part inside a block; a long one that completes
\* the literal across a run boundary after blocks were hashed.
Source1 == <<"x", "x", "_", "x", "x", "_">>
Source2 == <<"x", "x", "_", "_", "x", "x">>
Source3 == <<"x", "_", "_", "x", "_", "x", "_", "_", "x", "x">>
StoreCorpus == {Source3}
ClientCorpus == {Source1, Source2}
=============================================================================
