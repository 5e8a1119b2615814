------------------------------ MODULE MCRouter ------------------------------
(***************************************************************************)
(* Small instances of Router: a chain with all three backends, a threshold   *)
(* that some rows reach, and requests in which each engine accepts, refuses  *)
(* and fails.                                                               *)
(***************************************************************************)
EXTENDS Router

MCChain == <<"gpu", "fast_cpu", "hf">>
MCThreshold == <<2, 0, 0>>

R(bytes, added, gpu, fast, closes) ==
    [bytes |-> bytes, added |-> added, gpu |-> gpu, fast |-> fast, closes |-> closes]
Small == R(1, "no", "ok", "gigatoken", TRUE)
SmallGuarded == R(1, "candidate", "ok", "engine_guard", TRUE)
SmallBroken == R(1, "no", "ok", "error", TRUE)
Large == R(2, "no", "ok", "gigatoken", TRUE)
LargeFaulty == R(2, "no", "error", "added_token", TRUE)
LargeAdded == R(2, "yes", "ok", "gigatoken", TRUE)
LargeOpen == R(2, "no", "ok", "gigatoken", FALSE)

Q(op, rows, refFails) ==
    [op |-> op, rows |-> rows, refFails |-> refFails, repair |-> "repair", chunks |-> <<>>]
MCRequest ==
    {Q("batch", <<Large, Small, LargeFaulty>>, FALSE),
     Q("batch", <<Large, SmallBroken, SmallGuarded>>, FALSE),
     Q("batch", <<SmallGuarded, LargeAdded, LargeFaulty>>, FALSE),
     Q("batch", <<Large, SmallBroken>>, TRUE),
     Q("batch", <<Small>>, FALSE), Q("batch", <<LargeAdded, Small, LargeAdded>>, TRUE),
     Q("special", <<Large>>, TRUE), Q("special_batch", <<Large, Small>>, FALSE),
     Q("special_batch", <<Large, Small>>, TRUE),
     Q("seed", <<Large>>, FALSE), Q("seed", <<LargeOpen>>, FALSE), Q("seed", <<LargeOpen>>, TRUE),
     Q("seed", <<SmallBroken>>, FALSE)}
    \cup {[Q("append", <<Small>>, FALSE) EXCEPT !.repair = o] :
            o \in {"repair", "hf_full", "noop", "error"}}
    \cup {[Q("chunked", <<r>>, FALSE) EXCEPT !.chunks = c] :
            r \in {Small, Large}, c \in {<<"gigatoken", "engine_guard">>, <<"gigatoken", "error">>}}

=============================================================================
