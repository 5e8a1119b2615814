--------------------------- MODULE MCServingPool ---------------------------
(* Instances of ServingPool for TLC: one session, three operations and       *)
(* two encodes, submitted by two threads.                                    *)
EXTENDS ServingPool, TLC

CONSTANTS s1, t1, t2, a1, a2, a3, e1, e2

Op(dl) == [kind |-> "session", session |-> s1, bytes |-> 1, options |-> 0,
           deadline |-> dl]
Row(b) == [kind |-> "encode", session |-> s1, bytes |-> b, options |-> 0,
           deadline |-> FALSE]

\* The second operation has a deadline; e1 and e2 fit one batch.
AllJobs ==
    (a1 :> Op(FALSE)) @@ (a2 :> Op(TRUE)) @@ (a3 :> Op(FALSE)) @@
    (e1 :> Row(1)) @@ (e2 :> Row(2))

MCJob == [r \in Request |-> AllJobs[r]]

Scripts(x, y) == (t1 :> x) @@ (t2 :> y)

MCScript == Scripts(<<a1, a2, a3, e2>>, <<e1>>)
=============================================================================
