---------------------------- MODULE MCEntryStore ----------------------------
(***************************************************************************)
(* Small instances of EntryStore.  The digest of two characters counts the  *)
(* letters and does not order them, so that ab and ba collide: the index     *)
(* proposes an entry whose bytes are not a prefix of the text.               *)
(***************************************************************************)
EXTENDS EntryStore

A1 == <<"a">>
AB == <<"a", "b">>
BA == <<"b", "a">>
ABB == <<"a", "b", "b">>

MCText == {A1, AB, BA, ABB}
MCDigest(t) == <<Len(t), Len(SelectSeq(t, LAMBDA c : c = "a"))>>

\* Auto names sort before session names, as the prefixes a- and s- do.
MCSymmetry == Permutations(Process)

MCNameRank(n) == IF n[1] = "a" THEN 10 * n[2][1] + n[2][2]
                 ELSE IF n[2] = "x" THEN 100 ELSE 101
=============================================================================
