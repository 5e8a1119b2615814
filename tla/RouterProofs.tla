---------------------------- MODULE RouterProofs ----------------------------
(***************************************************************************)
(* Proofs about Router, for any threads, chain, thresholds and requests: a *)
(* batch answers its rows as their own routes would, its stages leave no   *)
(* row unanswered, and the ledger counts the rows that were answered.      *)
(*                                                                         *)
(* The argument: a row that has no answer yet has been refused by every    *)
(* backend from its start to the stage the batch has reached, and one with *)
(* an answer was taken by the first backend that did not refuse it.  What  *)
(* the device said stays true because the outcome of its open is latched   *)
(* before a row passes its stage; what the fast engine said is one answer  *)
(* for the whole group, the witness `broken' of the property.              *)
(***************************************************************************)
EXTENDS Router, FiniteSetTheorems, FunctionTheorems, SequenceTheorems, WellFoundedInduction,
        TLAPS

Entering == {"added", "special", "append", "chunked"}

ThreadType ==
    [pc : Entering \cup {"idle", "stage", "record", "returned"}, req : Request \cup {None},
     stage : Nat, next : Seq(Nat), out : Seq(AnswerType \cup {None}),
     events : Seq(Seq(Code)), recorded : Nat, result : {"ok", "error", "panic", None}]

SharedType ==
    /\ cell \in Thread \cup {"empty", "ready", "failed"} /\ opener \in BOOLEAN
    /\ DOMAIN ledger = {"fallback", "exec", "last"} /\ ledger.exec \in [Backend -> Nat]
    /\ answered \in [Backend -> Nat] /\ started \in Nat

TypeOK == thread \in [Thread -> ThreadType] /\ SharedType

-----------------------------------------------------------------------------
(* The inductive invariant, for the record x of a thread. *)

NRows(x) == Len(x.req.rows)
Finished(x) == x.pc = "record" \/ (x.pc = "returned" /\ x.result = "ok")

\* What a thread holds at each step.
Form(x) ==
    /\ x.pc # "idle" => x.req \in Request /\ Len(x.next) = NRows(x)
    /\ x.pc \in Entering =>
          /\ Len(x.out) = NRows(x) /\ Len(x.events) = NRows(x)
          /\ \A i \in 1..NRows(x) :
                x.out[i] = None /\ x.next[i] = StartIndex(x.req.rows[i])
    /\ x.pc \in Entering \ {"added"} => x.req.op \notin {"batch", "seed"}
    /\ x.pc \in Entering \cup {"idle", "stage"} => x.recorded = 0
    /\ x.pc = "stage" => x.stage \in 1..(Len(Chain) + 1) /\ Len(x.events) = NRows(x)
    /\ x.pc = "record" => x.recorded <= Len(x.out)
    /\ Finished(x) => \A i \in 1..Len(x.out) : x.out[i] # None

\* The stages have asked backend k; an answer of the device is final then.
Settled(k) == Chain[k] = "gpu" => cell \in {"ready", "failed"}
Refused(n, row, broken) ==
    \A k \in StartIndex(row)..(n - 1) : Settled(k) /\ ~Takes(k, row, broken)

\* Row i waits for the backend it has reached.
Waits(x, i, broken) ==
    LET row == x.req.rows[i] IN
    /\ ~IsAdded(row)
    /\ StartIndex(row) <= x.next[i] /\ x.stage <= x.next[i] /\ x.next[i] <= Len(Chain)
    /\ x.next[i] = x.stage \/ x.next[i] = StartIndex(row)
    /\ Refused(x.next[i], row, broken)

\* Row i was taken by the backend it had reached.
Taken(x, i, broken) ==
    LET row == x.req.rows[i]
        n == x.next[i]
    IN
    /\ StartIndex(row) <= n /\ n <= Len(Chain) /\ n < x.stage
    /\ Refused(n, row, broken) /\ Settled(n) /\ Takes(n, row, broken)
    /\ x.out[i].backend = RecordedAs(x.req, row, Chain[n])

RowInv(x, i, broken) ==
    IF x.out[i] = None THEN Waits(x, i, broken)
    ELSE IF IsAdded(x.req.rows[i]) THEN x.out[i].backend = "hf"
    ELSE Taken(x, i, broken)

\* The fast engine has failed: on a row of the batch, at a stage gone by.
Broke(x) ==
    /\ \E j \in 1..NRows(x) : x.req.rows[j].fast = "error"
    /\ \A k \in 1..Len(Chain) : Chain[k] = "fast_cpu" => k < x.stage

Staged(x) == x.pc = "stage" \/ (Finished(x) /\ x.req.op \in {"batch", "seed"})
Routing(x) == \E broken \in BOOLEAN :
    /\ broken => Broke(x)
    /\ \A i \in 1..NRows(x) : RowInv(x, i, broken)
RouteInv(x) == Staged(x) => Len(x.out) = NRows(x) /\ Routing(x)

ThreadInv == \A t \in Thread : Form(thread[t]) /\ RouteInv(thread[t])
IInv == TypeOK /\ ThreadInv

-----------------------------------------------------------------------------
(* The chain and the route of one row. *)

\* What NativeRouter::new has checked: the chain is made of different backends
\* and ends at the reference engine, which takes every row.
LEMMA ChainFacts ==
    /\ Len(Chain) \in Nat \ {0} /\ Chain[Len(Chain)] = "hf"
    /\ \A k \in 1..Len(Chain) : Chain[k] \in Backend /\ (Chain[k] # "hf" => k < Len(Chain))
    /\ \A i, j \in 1..Len(Chain) : Chain[i] = Chain[j] => i = j
BY RouterAssumption DEF ValidChain, Backend

LEMMA LeastElement ==
    ASSUME NEW S \in SUBSET Nat, S # {}
    PROVE  \E x \in S : \A y \in S : x <= y
<1> DEFINE R == {p \in Nat \X Nat : p[1] < p[2]}
<1>1. R = OpToRel(<, Nat)
  BY DEF OpToRel
<1>2. IsWellFoundedOn(R, Nat)
  BY <1>1, NatLessThanWellFounded
<1>3. ASSUME NEW a \in Nat, NEW b \in Nat, a < b PROVE <<a, b>> \in R
  <2>1. <<a, b>> \in Nat \X Nat /\ <<a, b>>[1] < <<a, b>>[2]
    BY <1>3
  <2> QED
    BY <2>1
<1> HIDE DEF R
<1>4. PICK x \in S : \A y \in S : ~(<<y, x>> \in R)
  BY <1>2, WFMin, IsWellFoundedOnSubset, ZenonT(30)
<1>5. \A y \in S : x <= y
  <2> TAKE y \in S
  <2>1. ~(<<y, x>> \in R) /\ x \in Nat /\ y \in Nat
    BY <1>4
  <2>2. ~(y < x)
    BY <1>3, <2>1, Zenon
  <2> QED
    BY <2>1, <2>2
<1> QED
  BY <1>5

LEMMA StartInChain ==
    ASSUME NEW row
    PROVE  StartIndex(row) \in 1..Len(Chain)
<1> DEFINE open == {i \in 1..Len(Chain) : row.bytes >= Threshold[i]}
<1>1. CASE open = {}
  BY <1>1, ChainFacts DEF StartIndex
<1>2. CASE open # {}
  <2>1. open \in SUBSET Nat
    BY ChainFacts
  <2>2. \E i \in open : \A j \in open : i <= j
    BY <1>2, <2>1, LeastElement
  <2>3. StartIndex(row) = CHOOSE i \in open : \A j \in open : i <= j
    BY <1>2 DEF StartIndex
  <2> QED
    BY <2>2, <2>3
<1> QED
  BY <1>1, <1>2

\* The first backend that takes a row is the one its route names.
LEMMA RouteOfRow ==
    ASSUME NEW req, NEW row, NEW broken, NEW n \in StartIndex(row)..Len(Chain),
           Takes(n, row, broken),
           \A k \in StartIndex(row)..(n - 1) : ~Takes(k, row, broken)
    PROVE  RowRoute(req, row, broken) =
               IF IsAdded(row) THEN "hf" ELSE RecordedAs(req, row, Chain[n])
<1> DEFINE First(i) == /\ Takes(i, row, broken)
                       /\ \A j \in StartIndex(row)..(i - 1) : ~Takes(j, row, broken)
           at == CHOOSE i \in StartIndex(row)..Len(Chain) : First(i)
<1>1. StartIndex(row) \in Nat /\ Len(Chain) \in Nat
  BY StartInChain, ChainFacts
<1>2. First(n)
  OBVIOUS
<1>3. at \in StartIndex(row)..Len(Chain) /\ First(at)
  BY <1>2
<1>4. at = n
  <2>1. ~(at < n)
    BY <1>1, <1>3
  <2>2. ~(n < at)
    BY <1>1, <1>3
  <2> QED
    BY <1>1, <1>3, <2>1, <2>2
<1> QED
  BY <1>4 DEF RowRoute

-----------------------------------------------------------------------------
(* A stage moves the rows of its group and no other. *)

\* One stage of a thread: x before it, y after it.
StageStep(x, y) ==
    /\ x.stage \in 1..Len(Chain) /\ y.stage = x.stage + 1 /\ y.req = x.req
    /\ Len(x.next) = NRows(x) /\ x.next \in Seq(Nat)
InGroup(x, i) == x.out[i] = None /\ x.next[i] = x.stage

LEMMA RowPasses ==
    ASSUME NEW x, NEW y, NEW i \in 1..NRows(x), NEW broken, StageStep(x, y), ~InGroup(x, i),
           RowInv(x, i, broken), y.out[i] = x.out[i], y.next[i] = x.next[i]
    PROVE  RowInv(y, i, broken)
<1>1. x.next[i] \in Nat /\ x.stage \in Nat /\ StartIndex(x.req.rows[i]) \in Nat
  BY StartInChain DEF StageStep
<1>2. CASE x.out[i] = None
  BY <1>1, <1>2 DEF RowInv, InGroup, Waits, StageStep
<1>3. CASE x.out[i] # None
  BY <1>1, <1>3, ChainFacts DEF RowInv, Taken, StageStep
<1> QED
  BY <1>2, <1>3

LEMMA RowFalls ==
    ASSUME NEW x, NEW y, NEW i \in 1..NRows(x), NEW broken, StageStep(x, y), InGroup(x, i),
           RowInv(x, i, broken), x.stage < Len(Chain), Settled(x.stage),
           ~Takes(x.stage, x.req.rows[i], broken),
           y.out[i] = x.out[i], y.next[i] = x.next[i] + 1
    PROVE  RowInv(y, i, broken)
<1>1. x.next[i] \in Nat /\ x.stage \in Nat /\ StartIndex(x.req.rows[i]) \in Nat
  BY StartInChain, SMTT(30) DEF StageStep
<1>2. Waits(x, i, broken)
  BY DEF RowInv, InGroup
<1>3. Refused(y.next[i], x.req.rows[i], broken)
  BY <1>1, <1>2 DEF Waits, InGroup, Refused
<1>4. Waits(y, i, broken)
  BY <1>1, <1>2, <1>3, ChainFacts DEF Waits, InGroup, StageStep
<1> QED
  BY <1>4 DEF RowInv, InGroup

LEMMA RowAnswered ==
    ASSUME NEW x, NEW y, NEW i \in 1..NRows(x), NEW broken, StageStep(x, y), InGroup(x, i),
           RowInv(x, i, broken), Settled(x.stage), Takes(x.stage, x.req.rows[i], broken),
           y.out[i] # None, y.next[i] = x.next[i],
           y.out[i].backend = RecordedAs(x.req, x.req.rows[i], Chain[x.stage])
    PROVE  RowInv(y, i, broken)
<1>1. x.next[i] \in Nat /\ x.stage \in Nat /\ StartIndex(x.req.rows[i]) \in Nat
  BY StartInChain DEF StageStep
<1>2. Waits(x, i, broken)
  BY DEF RowInv, InGroup
<1>3. Taken(y, i, broken)
  BY <1>1, <1>2, ChainFacts DEF Waits, Taken, InGroup, StageStep
<1> QED
  BY <1>2, <1>3 DEF RowInv, Waits, StageStep

\* Until its stage, what the fast engine answers is not part of a route.
LEMMA RowBreaks ==
    ASSUME NEW x, NEW i \in 1..NRows(x), x.stage \in 1..Len(Chain), Chain[x.stage] = "fast_cpu",
           x.next \in Seq(Nat), Len(x.next) = NRows(x), RowInv(x, i, FALSE)
    PROVE  RowInv(x, i, TRUE)
<1> DEFINE row == x.req.rows[i]
<1>1. x.next[i] \in Nat /\ x.stage \in Nat /\ StartIndex(row) \in 1..Len(Chain)
  BY StartInChain, ChainFacts, SMTT(30)
<1>2. ASSUME NEW k \in 1..Len(Chain), k < x.stage
      PROVE  Takes(k, row, TRUE) <=> Takes(k, row, FALSE)
  BY <1>2, ChainFacts DEF Takes
<1>3. ASSUME NEW n \in Nat, n <= x.stage, Refused(n, row, FALSE) PROVE Refused(n, row, TRUE)
  <2>1. \A k \in StartIndex(row)..(n - 1) : k \in 1..Len(Chain) /\ k < x.stage
    BY <1>1, <1>3, ChainFacts
  <2>2. \A k \in StartIndex(row)..(n - 1) : Settled(k) /\ ~Takes(k, row, FALSE)
    BY <1>3 DEF Refused
  <2> QED
    BY <1>2, <2>1, <2>2 DEF Refused
<1>4. CASE x.out[i] = None
  <2>1. Refused(x.next[i], row, TRUE)
    <3>1. CASE x.next[i] = x.stage
      BY <1>1, <1>3, <1>4, <3>1 DEF RowInv, Waits
    <3>2. CASE x.next[i] = StartIndex(row)
      BY <1>1, <3>2 DEF Refused
    <3> QED
      BY <1>4, <3>1, <3>2 DEF RowInv, Waits
  <2> QED
    BY <1>4, <2>1 DEF RowInv, Waits
<1>5. CASE x.out[i] # None /\ ~IsAdded(row)
  <2>1. Taken(x, i, FALSE)
    BY <1>5 DEF RowInv
  <2>2. x.next[i] \in 1..Len(Chain) /\ x.next[i] < x.stage /\ Refused(x.next[i], row, FALSE)
    <3>1. StartIndex(row) <= x.next[i] /\ x.next[i] <= Len(Chain)
      BY <2>1 DEF Taken
    <3>2. x.next[i] < x.stage /\ Refused(x.next[i], row, FALSE)
      BY <2>1 DEF Taken
    <3>3. x.next[i] \in 1..Len(Chain)
      BY <1>1, <3>1, ChainFacts
    <3> QED
      BY <3>2, <3>3
  <2>3. Takes(x.next[i], row, TRUE)
    BY <1>2, <2>1, <2>2 DEF Taken
  <2>4. Refused(x.next[i], row, TRUE)
    <3>1. x.next[i] \in Nat /\ x.next[i] <= x.stage
      BY <1>1, <2>2
    <3> QED
      BY <1>3, <2>2, <3>1
  <2> QED
    BY <1>5, <2>1, <2>3, <2>4 DEF RowInv, Taken
<1>6. CASE x.out[i] # None /\ IsAdded(row)
  BY <1>6 DEF RowInv
<1> QED
  BY <1>4, <1>5, <1>6

-----------------------------------------------------------------------------
(* What a step leaves alone. *)

\* A call none of whose rows the ledger counts yet.
Unrecorded(x) == x.pc # "record" \/ x.recorded = 0

\* The outcome of the open is latched.
CellLatched == cell \in {"ready", "failed"} => cell' = cell

LEMMA RouteKept ==
    ASSUME NEW x, CellLatched, RouteInv(x)
    PROVE  RouteInv(x)'
<1>1. ASSUME NEW k, NEW row, NEW broken, Settled(k)
      PROVE  Settled(k)' /\ (Takes(k, row, broken)' <=> Takes(k, row, broken))
  BY <1>1 DEF CellLatched, Settled, Takes
<1>2. ASSUME NEW n, NEW row, NEW broken, Refused(n, row, broken)
      PROVE  Refused(n, row, broken)'
  BY <1>1, <1>2 DEF Refused
<1>3. ASSUME NEW i, NEW broken, RowInv(x, i, broken) PROVE RowInv(x, i, broken)'
  <2>1. Waits(x, i, broken) => Waits(x, i, broken)'
    BY <1>2 DEF Waits
  <2>2. Taken(x, i, broken) => Taken(x, i, broken)'
    BY <1>1, <1>2 DEF Taken
  <2> QED
    BY <1>3, <2>1, <2>2 DEF RowInv
<1>4. Routing(x) => Routing(x)'
  BY <1>3 DEF Routing, Broke, NRows
<1> QED
  BY <1>4 DEF RouteInv, NRows, Staged, Finished

LEMMA RouteOf ==
    ASSUME NEW u, NEW y, thread'[u] = y, RouteInv(y)'
    PROVE  RouteInv(thread[u])'
BY DEF RouteInv, Staged, Finished, NRows, Routing, Broke, RowInv, Waits, Taken, Refused,
       Settled, Takes

LEMMA StepKeeps ==
    ASSUME IInv, NEW t \in Thread, NEW y \in ThreadType, thread' = [thread EXCEPT ![t] = y],
           SharedType', CellLatched, Form(y), RouteInv(y)
    PROVE  IInv' /\ thread'[t] = y
<1>1. thread' \in [Thread -> ThreadType]
  BY DEF IInv, TypeOK
<1>2. ASSUME NEW u \in Thread PROVE Form(thread[u])' /\ RouteInv(thread[u])'
  <2>1. CASE u = t
    <3>1. thread'[u] = y
      BY <2>1 DEF IInv, TypeOK
    <3>2. RouteInv(y)'
      BY RouteKept
    <3> QED
      BY <3>1, <3>2, RouteOf DEF Form, NRows, Finished
  <2>2. CASE u # t
    <3>1. PICK x : x = thread[u]
      OBVIOUS
    <3>2. thread'[u] = x /\ Form(x) /\ RouteInv(x)
      BY <2>2, <3>1 DEF IInv, TypeOK, ThreadInv
    <3>3. RouteInv(x)'
      BY <3>2, RouteKept
    <3> QED
      BY <3>2, <3>3, RouteOf DEF Form, NRows, Finished
  <2> QED
    BY <2>1, <2>2
<1> QED
  BY <1>1, <1>2 DEF IInv, TypeOK, ThreadInv

\* Nothing of a thread changes.
LEMMA CellKeeps ==
    ASSUME IInv, UNCHANGED thread, SharedType', CellLatched
    PROVE  IInv'
<1>1. ASSUME NEW u \in Thread PROVE RouteInv(thread[u])'
  <2>1. PICK x : x = thread[u]
    OBVIOUS
  <2>2. thread'[u] = x /\ RouteInv(x)'
    BY <2>1, RouteKept DEF IInv, ThreadInv
  <2> QED
    BY <2>2, RouteOf
<1> QED
  BY <1>1 DEF IInv, TypeOK, ThreadInv, Form, NRows, Finished

\* A call that fails or unwinds is answered with no rows.
LEMMA FailureKeeps ==
    ASSUME IInv, NEW t \in Thread, NEW result \in {"error", "panic"}, thread[t].pc # "idle",
           Returns(t, result), SharedType', CellLatched
    PROVE  IInv' /\ Unrecorded(thread[t])'
<1> DEFINE x == thread[t]
           y == [x EXCEPT !.pc = "returned", !.result = result]
<1>1. x \in ThreadType /\ Form(x)
  BY DEF IInv, TypeOK, ThreadInv
<1>2. thread' = [thread EXCEPT ![t] = y]
  BY DEF Returns, Becomes
<1>3. y \in ThreadType /\ y.pc = "returned" /\ y.result = result
      /\ y.req = x.req /\ y.next = x.next
  BY <1>1 DEF ThreadType
<1> HIDE DEF y
<1>4. Form(y)
  BY <1>1, <1>3 DEF Form, Entering, NRows, Finished
<1>5. RouteInv(y)
  BY <1>3 DEF RouteInv, Staged, Finished
<1>6. IInv' /\ thread'[t] = y
  BY <1>2, <1>3, <1>4, <1>5, StepKeeps
<1> QED
  BY <1>3, <1>6 DEF Unrecorded

LEMMA RecordsEvents ==
    ASSUME NEW codes, SharedType, RecordEvents(codes), UNCHANGED <<cell, opener, answered, started>>
    PROVE  SharedType' /\ ledger'.exec = ledger.exec
<1>1. DOMAIN ledger' = DOMAIN ledger /\ ledger'.exec = ledger.exec
  BY DEF RecordEvents, SharedType
<1> QED
  BY <1>1 DEF SharedType

LEMMA AnswerFacts ==
    ASSUME NEW b \in Backend, NEW path \in Path, NEW reason \in Code \cup {None}
    PROVE  /\ Answer(b, path, reason) \in AnswerType /\ Answer(b, path, reason) # None
           /\ Answer(b, path, reason).backend = b
BY RouterAssumption DEF Answer, AnswerType

-----------------------------------------------------------------------------
(* A call begins, and its rows with an added token. *)

LEMMA RowSequence ==
    ASSUME NEW C, NEW n \in Nat, NEW e \in [1..n -> C]
    PROVE  e \in Seq(C) /\ Len(e) = n
OBVIOUS

LEMMA RequestFacts ==
    ASSUME NEW r \in Request
    PROVE  r.rows \in Seq(RowType) /\ Len(r.rows) \in Nat
BY RouterAssumption DEF RequestType

LEMMA BelowThresholdType ==
    ASSUME NEW row
    PROVE  BelowThreshold(row) \in Seq(Code)
<1>1. "below_gpu_threshold" \in Code
  BY DEF Code
<1>2. <<"below_gpu_threshold">> \in Seq(Code) /\ <<>> \in Seq(Code)
  BY <1>1
<1> QED
  BY <1>2 DEF BelowThreshold

LEMMA SubmitKeeps ==
    ASSUME IInv, NEW t \in Thread, Submit(t)
    PROVE  IInv' /\ Unrecorded(thread[t])'
<1> DEFINE pc(r) == IF r.op \in {"batch", "seed"} THEN "added"
                    ELSE IF r.op \in {"append", "chunked"} THEN r.op
                    ELSE IF PostprocessorAdds THEN "special" ELSE "added"
           next(r) == [i \in 1..Len(r.rows) |-> StartIndex(r.rows[i])]
           out(r) == [i \in 1..Len(r.rows) |-> None]
           events(r) == [i \in 1..Len(r.rows) |-> BelowThreshold(r.rows[i])]
           y(r) == [Idle EXCEPT !.req = r, !.pc = pc(r), !.next = next(r), !.out = out(r),
                                !.events = events(r)]
<1>1. PICK r \in Request : thread' = [thread EXCEPT ![t] = y(r)]
  BY DEF Submit, Becomes
<1>2. PICK n \in Nat : n = Len(r.rows)
  BY RequestFacts
<1>3. next(r) \in Seq(Nat) /\ out(r) \in Seq(AnswerType \cup {None})
  BY <1>2, StartInChain, ChainFacts
<1>4. events(r) \in Seq(Seq(Code))
  BY <1>2, BelowThresholdType
<1>5. /\ y(r).pc = pc(r) /\ y(r).req = r /\ y(r).stage = 0 /\ y(r).recorded = 0
      /\ y(r).result = None /\ y(r).next = next(r) /\ y(r).out = out(r) /\ y(r).events = events(r)
  BY DEF Idle
<1>6. pc(r) \in Entering
  BY DEF Entering
<1>7. y(r) \in ThreadType
  BY <1>3, <1>4, <1>6 DEF Idle, ThreadType
<1>8. /\ Len(next(r)) = n /\ Len(out(r)) = n /\ Len(events(r)) = n
      /\ \A i \in 1..n : out(r)[i] = None /\ next(r)[i] = StartIndex(r.rows[i])
  BY <1>2
<1>9. pc(r) # "added" => r.op \notin {"batch", "seed"}
  OBVIOUS
<1>10. PICK z : z = y(r)
  OBVIOUS
<1> HIDE DEF y, pc, next, out, events
<1>11. Form(z)
  BY <1>2, <1>5, <1>6, <1>8, <1>9, <1>10 DEF Form, NRows, Entering, Finished
<1>12. RouteInv(z)
  BY <1>5, <1>6, <1>10 DEF RouteInv, Staged, Finished, Entering
<1>13. SharedType' /\ CellLatched
  BY DEF Submit, IInv, TypeOK, SharedType, CellLatched
<1>14. IInv' /\ thread'[t] = z
  BY <1>1, <1>7, <1>10, <1>11, <1>12, <1>13, StepKeeps
<1> QED
  BY <1>5, <1>6, <1>10, <1>14 DEF Unrecorded

LEMMA ResolveAddedKeeps ==
    ASSUME IInv, NEW t \in Thread, ResolveAdded(t)
    PROVE  IInv' /\ Unrecorded(thread[t])'
<1>1. PICK x : x = thread[t]
  OBVIOUS
<1> DEFINE n == Len(x.req.rows)
           mine == {i \in Rows(t) : IsAdded(Row(t, i))}
           events == [i \in Rows(t) |-> Resolved(t, i)]
           out == [i \in Rows(t) |->
                      IF i \in mine THEN Answer("hf", "hf_added_token", "added_token") ELSE None]
           y == [x EXCEPT !.pc = "stage", !.stage = 1, !.events = events, !.out = out]
<1>2. x \in ThreadType /\ Form(x) /\ x.pc = "added"
  BY <1>1 DEF IInv, TypeOK, ThreadInv, ResolveAdded, At
<1>3. /\ n \in Nat /\ Len(x.events) = n /\ Len(x.next) = n
      /\ \A i \in 1..n : x.next[i] = StartIndex(x.req.rows[i])
  BY <1>2, RequestFacts DEF Form, Entering, NRows
<1>4. CellLatched
  BY DEF ResolveAdded, CellLatched
<1>5. CASE thread' = [thread EXCEPT ![t] = y]
  <2>1. SharedType'
    BY RecordsEvents DEF ResolveAdded, IInv, TypeOK
  <2>2. Rows(t) = 1..n /\ \A i \in 1..n : Row(t, i) = x.req.rows[i]
    BY <1>1 DEF Rows, Row
  <2>3. events \in Seq(Seq(Code)) /\ Len(events) = n
    <3>1. x.events \in Seq(Seq(Code)) /\ "added_token" \in Code
      BY <1>2 DEF ThreadType, Code
    <3>2. \A i \in 1..n : x.events[i] \in Seq(Code) /\ Append(x.events[i], "added_token") \in Seq(Code)
      BY <1>3, <3>1
    <3>3. \A i \in 1..n : Resolved(t, i) \in Seq(Code)
      BY <1>1, <3>2 DEF Resolved
    <3> QED
      BY <1>3, <2>2, <3>3
  <2>4. /\ Answer("hf", "hf_added_token", "added_token") \in AnswerType
        /\ Answer("hf", "hf_added_token", "added_token") # None
        /\ Answer("hf", "hf_added_token", "added_token").backend = "hf"
    <3>1. "hf" \in Backend /\ "hf_added_token" \in Path /\ "added_token" \in Code \cup {None}
      BY DEF Backend, Code, Path
    <3> QED
      BY <3>1, AnswerFacts
  <2>5. out \in Seq(AnswerType \cup {None}) /\ Len(out) = n
    BY <1>3, <2>2, <2>4
  <2>6. \A i \in 1..n : IF IsAdded(x.req.rows[i])
                        THEN out[i] # None /\ out[i].backend = "hf" ELSE out[i] = None
    BY <2>2, <2>4
  <2>7. /\ y.pc = "stage" /\ y.stage = 1 /\ y.events = events /\ y.out = out /\ y.req = x.req
        /\ y.next = x.next /\ y.recorded = x.recorded
    BY <1>2 DEF ThreadType
  <2> HIDE DEF events, out
  <2>8. y \in ThreadType
    BY <1>2, <2>3, <2>5 DEF ThreadType
  <2> HIDE DEF y
  <2>9. Form(y)
    BY <1>2, <1>3, <2>3, <2>7, ChainFacts DEF Form, Finished, Entering, NRows
  <2>10. \A i \in 1..n : RowInv(y, i, FALSE)
    <3> TAKE i \in 1..n
    <3>1. CASE IsAdded(x.req.rows[i])
      BY <2>6, <2>7, <3>1 DEF RowInv
    <3>2. CASE ~IsAdded(x.req.rows[i])
      <4>1. y.next[i] = StartIndex(x.req.rows[i]) /\ y.next[i] \in 1..Len(Chain)
        BY <1>3, <2>7, StartInChain
      <4>2. Refused(y.next[i], x.req.rows[i], FALSE)
        BY <4>1, ChainFacts DEF Refused
      <4>3. y.stage <= y.next[i] /\ y.next[i] <= Len(Chain)
            /\ StartIndex(x.req.rows[i]) <= y.next[i]
        BY <2>7, <4>1, ChainFacts
      <4>4. Waits(y, i, FALSE)
        BY <2>7, <3>2, <4>1, <4>2, <4>3 DEF Waits
      <4> QED
        BY <2>6, <2>7, <3>2, <4>4 DEF RowInv
    <3> QED
      BY <3>1, <3>2
  <2>11. RouteInv(y)
    BY <2>5, <2>7, <2>10 DEF RouteInv, Routing, NRows
  <2>12. IInv' /\ thread'[t] = y
    BY <1>4, <1>5, <2>1, <2>8, <2>9, <2>11, StepKeeps
  <2> QED
    BY <2>7, <2>12 DEF Unrecorded
<1> QED
  BY <1>1, <1>5 DEF ResolveAdded, Becomes

\* A call that ends with an error before its stages, or in the device's.
LEMMA EarlyErrorKeeps ==
    ASSUME IInv, NEW t \in Thread, AddedFails(t) \/ GpuMiscounts(t)
    PROVE  IInv' /\ Unrecorded(thread[t])'
<1>1. thread[t].pc # "idle" /\ Returns(t, "error") /\ CellLatched
  BY DEF AddedFails, GpuMiscounts, NeedsGpu, AtBackend, At, CellLatched
<1>2. SharedType'
  <2>1. CASE AddedFails(t)
    BY <2>1, RecordsEvents DEF AddedFails, IInv, TypeOK
  <2>2. CASE GpuMiscounts(t)
    BY <2>2 DEF GpuMiscounts, IInv, TypeOK, SharedType
  <2> QED
    BY <2>1, <2>2
<1> QED
  BY <1>1, <1>2, FailureKeeps

-----------------------------------------------------------------------------
(* The stages of a batch. *)

\* Thread t is at a stage of the chain, and x is its record.
AtStage(t, x) ==
    IInv /\ t \in Thread /\ x = thread[t] /\ x.pc = "stage" /\ x.stage <= Len(Chain)

LEMMA StageFacts ==
    ASSUME NEW t, NEW x, AtStage(t, x)
    PROVE  /\ x \in ThreadType /\ x.req \in Request /\ NRows(x) \in Nat
           /\ x.req.rows \in Seq(RowType) /\ x.stage \in 1..Len(Chain)
           /\ Len(x.next) = NRows(x) /\ Len(x.out) = NRows(x) /\ Len(x.events) = NRows(x)
           /\ x.next \in Seq(Nat) /\ x.out \in Seq(AnswerType \cup {None})
           /\ x.events \in Seq(Seq(Code)) /\ x.recorded = 0 /\ Routing(x)
<1>1. x \in ThreadType /\ Form(x) /\ RouteInv(x) /\ x.pc = "stage"
  BY DEF AtStage, IInv, TypeOK, ThreadInv
<1>2. x.req \in Request /\ Len(x.next) = NRows(x) /\ Len(x.events) = NRows(x) /\ x.recorded = 0
  BY <1>1 DEF Form
<1>3. x.stage \in 1..Len(Chain)
  BY <1>1, ChainFacts DEF Form, AtStage
<1>4. Len(x.out) = NRows(x) /\ Routing(x)
  BY <1>1 DEF RouteInv, Staged
<1>5. x.req.rows \in Seq(RowType) /\ NRows(x) \in Nat
  BY <1>2, RequestFacts DEF NRows
<1>6. x.next \in Seq(Nat) /\ x.out \in Seq(AnswerType \cup {None}) /\ x.events \in Seq(Seq(Code))
  BY <1>1 DEF ThreadType
<1> QED
  BY <1>1, <1>2, <1>3, <1>4, <1>5, <1>6

LEMMA GroupFacts ==
    ASSUME NEW t, NEW x, AtStage(t, x)
    PROVE  /\ Rows(t) = 1..NRows(x) /\ \A i \in 1..NRows(x) : Row(t, i) = x.req.rows[i]
           /\ Group(t) \subseteq 1..NRows(x)
           /\ \A i \in 1..NRows(x) : i \in Group(t) <=> InGroup(x, i)
BY DEF AtStage, Rows, Row, NRows, Group, InGroup

\* A stage that leaves every row on its route keeps the invariant.
LEMMA StageKeeps ==
    ASSUME NEW t, NEW x, AtStage(t, x), NEW y \in ThreadType, thread' = [thread EXCEPT ![t] = y],
           y.pc = "stage", y.stage = x.stage + 1, y.req = x.req, y.recorded = x.recorded,
           Len(y.next) = NRows(x), Len(y.out) = NRows(x), Len(y.events) = NRows(x),
           Routing(y), SharedType', CellLatched
    PROVE  IInv' /\ Unrecorded(thread[t])'
<1>1. /\ x.stage \in 1..Len(Chain) /\ Len(Chain) \in Nat /\ x.req \in Request /\ x.recorded = 0
      /\ NRows(y) = NRows(x)
  BY StageFacts, ChainFacts DEF NRows
<1>2. y.stage \in 1..(Len(Chain) + 1)
  BY <1>1
<1>3. Form(y)
  BY <1>1, <1>2 DEF Form, Finished, Entering
<1>4. RouteInv(y)
  BY <1>1 DEF RouteInv
<1>5. IInv' /\ thread'[t] = y
  BY <1>3, <1>4, StepKeeps DEF AtStage
<1> QED
  BY <1>5 DEF Unrecorded

LEMMA BrokeStays ==
    ASSUME NEW x, NEW y, StageStep(x, y), Broke(x)
    PROVE  Broke(y)
BY ChainFacts DEF StageStep, Broke, NRows

LEMMA SkipStageKeeps ==
    ASSUME IInv, NEW t \in Thread, SkipStage(t)
    PROVE  IInv' /\ Unrecorded(thread[t])'
<1>1. PICK x : x = thread[t]
  OBVIOUS
<1>2. AtStage(t, x)
  BY <1>1 DEF SkipStage, At, AtStage
<1> DEFINE y == [x EXCEPT !.stage = @ + 1]
<1>3. thread' = [thread EXCEPT ![t] = y]
  BY <1>1 DEF SkipStage, Becomes
<1>4. /\ y.pc = x.pc /\ y.stage = x.stage + 1 /\ y.req = x.req /\ y.recorded = x.recorded
      /\ y.next = x.next /\ y.out = x.out /\ y.events = x.events
  BY <1>2, StageFacts DEF ThreadType
<1>5. y \in ThreadType
  BY <1>2, StageFacts, SMTT(30) DEF ThreadType
<1> HIDE DEF y
<1>6. StageStep(x, y)
  BY <1>2, <1>4, StageFacts DEF StageStep
<1>7. ASSUME NEW i \in 1..NRows(x) PROVE ~InGroup(x, i)
  BY <1>2, GroupFacts DEF SkipStage
<1>8. Routing(y)
  <2>1. PICK broken \in BOOLEAN :
            (broken => Broke(x)) /\ \A i \in 1..NRows(x) : RowInv(x, i, broken)
    BY <1>2, StageFacts DEF Routing
  <2>2. \A i \in 1..NRows(x) : RowInv(y, i, broken)
    BY <1>4, <1>6, <1>7, <2>1, RowPasses
  <2> QED
    BY <1>4, <1>6, <2>1, <2>2, BrokeStays DEF Routing, NRows
<1>9. SharedType' /\ CellLatched
  BY DEF SkipStage, IInv, TypeOK, SharedType, CellLatched
<1>10. /\ Len(y.next) = NRows(x) /\ Len(y.out) = NRows(x) /\ Len(y.events) = NRows(x)
       /\ y.pc = "stage"
  BY <1>2, <1>4, StageFacts DEF AtStage
<1> QED
  BY <1>2, <1>3, <1>4, <1>5, <1>8, <1>9, <1>10, StageKeeps

LEMMA ReasonType ==
    ASSUME NEW ev \in Seq(Code)
    PROVE  Reason(ev) \in Code \cup {None}
BY DEF Reason, Last

\* The rows of S fall to the next backend.
LEMMA FallThroughFacts ==
    ASSUME NEW t, NEW x, AtStage(t, x), NEW S
    PROVE  /\ FallThrough(t, S) \in ThreadType
           /\ FallThrough(t, S).pc = "stage" /\ FallThrough(t, S).stage = x.stage + 1
           /\ FallThrough(t, S).req = x.req /\ FallThrough(t, S).out = x.out
           /\ FallThrough(t, S).recorded = x.recorded
           /\ Len(FallThrough(t, S).next) = NRows(x) /\ Len(FallThrough(t, S).events) = NRows(x)
           /\ \A i \in 1..NRows(x) : FallThrough(t, S).next[i] =
                 IF i \in S THEN x.next[i] + 1 ELSE x.next[i]
<1> DEFINE n == NRows(x)
           next == [i \in 1..n |-> IF i \in S THEN x.next[i] + 1 ELSE x.next[i]]
           events == [i \in 1..n |-> IF i \in S THEN Append(x.events[i], "exec_fault")
                                     ELSE x.events[i]]
           y == [x EXCEPT !.stage = @ + 1, !.next = next, !.events = events]
<1>1. FallThrough(t, S) = y
  BY GroupFacts DEF FallThrough, AtStage
<1>2. /\ x \in ThreadType /\ n \in Nat /\ Len(x.next) = n /\ Len(x.events) = n
      /\ x.next \in Seq(Nat) /\ x.events \in Seq(Seq(Code)) /\ x.pc = "stage"
  BY StageFacts DEF AtStage
<1> HIDE DEF n
<1>3. next \in Seq(Nat) /\ Len(next) = n
      /\ \A i \in 1..n : next[i] = IF i \in S THEN x.next[i] + 1 ELSE x.next[i]
  BY <1>2
<1>4. events \in Seq(Seq(Code)) /\ Len(events) = n
  <2>1. "exec_fault" \in Code
    BY DEF Code
  <2>2. \A i \in 1..n : x.events[i] \in Seq(Code) /\ Append(x.events[i], "exec_fault") \in Seq(Code)
    BY <1>2, <2>1
  <2> QED
    <3>1. events \in [1..n -> Seq(Code)]
      BY <2>2
    <3> QED
      BY <1>2, <3>1, RowSequence
<1> HIDE DEF next, events
<1>5. y \in ThreadType
  <2>1. x.stage + 1 \in Nat
    BY <1>2 DEF ThreadType
  <2> QED
    BY <1>2, <1>3, <1>4, <2>1 DEF ThreadType
<1>6. /\ y.pc = "stage" /\ y.stage = x.stage + 1 /\ y.req = x.req /\ y.out = x.out
      /\ y.recorded = x.recorded /\ y.next = next /\ y.events = events
  BY <1>2 DEF ThreadType
<1> HIDE DEF y
<1> QED
  BY <1>1, <1>3, <1>4, <1>5, <1>6 DEF n

-----------------------------------------------------------------------------
(* The engines. *)

LEMMA RowTyped ==
    ASSUME NEW t, NEW x, AtStage(t, x), NEW i \in 1..NRows(x)
    PROVE  /\ x.req.rows[i].gpu \in {"ok", "error"} /\ x.req.rows[i] \in RowType
           /\ x.req.rows[i].fast \in {"gigatoken", "added_token", "engine_guard", "error"}
<1>1. x.req.rows \in Seq(RowType) /\ NRows(x) \in Nat
  BY StageFacts
<1>2. x.req.rows[i] \in RowType
  BY <1>1 DEF NRows
<1> QED
  BY <1>2 DEF RowType

LEMMA NeedsGpuFacts ==
    ASSUME NEW t, NEW x, AtStage(t, x), AtBackend(t, "gpu")
    PROVE  /\ Chain[x.stage] = "gpu" /\ x.stage < Len(Chain)
           /\ cell \in {"ready", "failed"} => Settled(x.stage)
           /\ \A row, broken :
                 Takes(x.stage, row, broken) <=> cell = "ready" /\ row.gpu = "ok"
BY StageFacts, ChainFacts DEF AtBackend, AtStage, Settled, Takes

LEMMA GpuStageKeeps ==
    ASSUME IInv, NEW t \in Thread, GpuStage(t)
    PROVE  IInv' /\ Unrecorded(thread[t])'
<1>1. PICK x : x = thread[t]
  OBVIOUS
<1>2. AtStage(t, x) /\ AtBackend(t, "gpu") /\ cell \in {"ready", "failed"}
  BY <1>1 DEF GpuStage, NeedsGpu, AtBackend, At, AtStage
<1> DEFINE failed == IF cell = "failed" THEN Group(t)
                     ELSE {i \in Group(t) : Row(t, i).gpu = "error"}
           kept == Group(t) \ failed
           th == FallThrough(t, failed)
           n == NRows(x)
           out == [i \in 1..n |-> IF i \in kept THEN Answer("gpu", "gpu_full", Reason(th.events[i]))
                                  ELSE x.out[i]]
           y == [th EXCEPT !.out = out]
<1>3. /\ th \in ThreadType /\ th.pc = "stage" /\ th.stage = x.stage + 1 /\ th.req = x.req
      /\ th.out = x.out /\ th.recorded = x.recorded /\ Len(th.next) = n /\ Len(th.events) = n
      /\ \A i \in 1..n : th.next[i] = IF i \in failed THEN x.next[i] + 1 ELSE x.next[i]
  BY <1>2, FallThroughFacts
<1>4. /\ n \in Nat /\ x.out \in Seq(AnswerType \cup {None}) /\ Len(x.out) = n
      /\ x.next \in Seq(Nat) /\ Len(x.next) = n /\ x.stage \in 1..Len(Chain)
  BY <1>2, StageFacts
<1>5. thread' = [thread EXCEPT ![t] = y]
  <2>1. Rows(t) = 1..n
    BY <1>2, GroupFacts
  <2> QED
    BY <1>1, <1>3, <2>1 DEF GpuStage, Becomes
<1>6. \A i \in kept : ~Unclosed(t, i)
  BY DEF GpuStage
<1>7. SharedType' /\ CellLatched
  BY RecordsEvents DEF GpuStage, IInv, TypeOK, CellLatched
<1> HIDE DEF th
<1>8. ASSUME NEW i \in 1..n
      PROVE  /\ Answer("gpu", "gpu_full", Reason(th.events[i])) \in AnswerType
             /\ Answer("gpu", "gpu_full", Reason(th.events[i])) # None
             /\ Answer("gpu", "gpu_full", Reason(th.events[i])).backend = "gpu"
  <2>1. th.events[i] \in Seq(Code)
    BY <1>3, <1>4 DEF ThreadType
  <2>2. "gpu" \in Backend /\ "gpu_full" \in Path
    BY DEF Backend, Path
  <2> QED
    BY <2>1, <2>2, ReasonType, AnswerFacts
<1>9. out \in Seq(AnswerType \cup {None}) /\ Len(out) = n
  <2>1. out \in [1..n -> AnswerType \cup {None}]
    BY <1>4, <1>8
  <2> QED
    BY <1>4, <2>1, RowSequence, SMTT(30)
<1>10. \A i \in 1..n : IF i \in kept THEN out[i] # None /\ out[i].backend = "gpu"
                       ELSE out[i] = x.out[i]
  BY <1>8
<1>11. /\ y.pc = "stage" /\ y.stage = x.stage + 1 /\ y.req = x.req /\ y.recorded = x.recorded
       /\ y.next = th.next /\ y.events = th.events /\ y.out = out
  BY <1>3 DEF ThreadType
<1>12. y \in ThreadType
  BY <1>3, <1>9 DEF ThreadType
<1>13. \A i \in 1..n : /\ i \in failed <=> InGroup(x, i) /\ (cell = "failed" \/ x.req.rows[i].gpu = "error")
                       /\ i \in kept <=> InGroup(x, i) /\ ~(cell = "failed" \/ x.req.rows[i].gpu = "error")
  BY <1>2, GroupFacts
<1>14. ASSUME NEW i \in kept
       PROVE  x.req.op = "seed" => x.req.rows[i].closes
  <2>1. i \in 1..n /\ Row(t, i) = x.req.rows[i]
    BY <1>2, GroupFacts
  <2> QED
    BY <1>1, <1>6, <2>1 DEF Unclosed
<1> HIDE DEF out, y, failed, kept
<1>15. StageStep(x, y)
  BY <1>4, <1>11 DEF StageStep, n
<1>16. Routing(y)
  <2>1. PICK broken \in BOOLEAN :
            (broken => Broke(x)) /\ \A i \in 1..n : RowInv(x, i, broken)
    BY <1>2, StageFacts DEF Routing
  <2>2. ASSUME NEW i \in 1..n PROVE RowInv(y, i, broken)
    <3>1. CASE ~InGroup(x, i)
      BY <1>3, <1>10, <1>11, <1>13, <1>15, <2>1, <3>1, RowPasses
    <3>2. CASE i \in failed
      <4>1. InGroup(x, i) /\ ~Takes(x.stage, x.req.rows[i], broken)
        BY <1>2, <1>13, <3>2, NeedsGpuFacts
      <4>2. y.out[i] = x.out[i] /\ y.next[i] = x.next[i] + 1
        BY <1>3, <1>10, <1>11, <1>13, <3>2
      <4> QED
        BY <1>2, <1>15, <2>1, <4>1, <4>2, NeedsGpuFacts, RowFalls
    <3>3. CASE i \in kept
      <4>1. InGroup(x, i) /\ cell = "ready" /\ x.req.rows[i].gpu = "ok"
        BY <1>2, <1>13, <3>3, RowTyped
      <4>2. Takes(x.stage, x.req.rows[i], broken) /\ Settled(x.stage) /\ Chain[x.stage] = "gpu"
        BY <1>2, <4>1, NeedsGpuFacts
      <4>3. y.out[i] # None /\ y.out[i].backend = "gpu" /\ y.next[i] = x.next[i]
        BY <1>3, <1>10, <1>11, <1>13, <3>3
      <4>4. RecordedAs(x.req, x.req.rows[i], Chain[x.stage]) = "gpu"
        BY <1>14, <3>3, <4>2 DEF RecordedAs
      <4> QED
        BY <1>15, <2>1, <4>1, <4>2, <4>3, <4>4, RowAnswered
    <3> QED
      BY <1>13, <3>1, <3>2, <3>3
  <2> QED
    BY <1>11, <1>15, <2>1, <2>2, BrokeStays DEF Routing, NRows
<1> QED
  BY <1>2, <1>3, <1>5, <1>7, <1>9, <1>11, <1>12, <1>16, StageKeeps

LEMMA SpanGuardKeeps ==
    ASSUME IInv, NEW t \in Thread, SpanGuard(t)
    PROVE  IInv' /\ Unrecorded(thread[t])'
<1>1. PICK x : x = thread[t]
  OBVIOUS
<1>2. AtStage(t, x) /\ AtBackend(t, "gpu") /\ cell = "ready" /\ x.pc = "stage"
  BY <1>1 DEF SpanGuard, NeedsGpu, AtBackend, At, AtStage
<1>3. SharedType' /\ CellLatched
  BY RecordsEvents DEF SpanGuard, IInv, TypeOK, CellLatched
<1>4. CASE Returns(t, "error")
  BY <1>1, <1>2, <1>3, <1>4, FailureKeeps
<1> DEFINE answer == Answer("hf", "hf_span_guard", "guard_routed")
           y == [x EXCEPT !.stage = @ + 1, !.events[1] = Append(@, "guard_routed"),
                          !.out[1] = answer]
<1>5. CASE thread' = [thread EXCEPT ![t] = y]
  <2>1. /\ x \in ThreadType /\ x.req \in Request /\ x.stage \in 1..Len(Chain)
        /\ Len(x.next) = NRows(x) /\ Len(x.out) = NRows(x) /\ Len(x.events) = NRows(x)
        /\ x.next \in Seq(Nat) /\ x.out \in Seq(AnswerType \cup {None})
        /\ x.events \in Seq(Seq(Code)) /\ Routing(x)
    BY <1>2, StageFacts
  <2>2. x.req.op = "seed" /\ ~Row(t, 1).closes /\ Row(t, 1).gpu = "ok"
    BY <1>1 DEF SpanGuard, Unclosed
  <2>3. NRows(x) = 1
    BY <2>1, <2>2, RouterAssumption DEF NRows
  <2>4. InGroup(x, 1) /\ Row(t, 1) = x.req.rows[1]
    <3>1. Group(t) # {} /\ Group(t) \subseteq {1}
      BY <1>2, <2>3, GroupFacts DEF SpanGuard, NeedsGpu
    <3> QED
      BY <1>2, <2>3, <3>1, GroupFacts
  <2>5. answer \in AnswerType /\ answer # None /\ answer.backend = "hf"
    <3>1. "hf" \in Backend /\ "hf_span_guard" \in Path /\ "guard_routed" \in Code \cup {None}
      BY DEF Backend, Code, Path
    <3> QED
      BY <3>1, AnswerFacts
  <2> HIDE DEF answer
  <2>6. /\ [x.out EXCEPT ![1] = answer] \in Seq(AnswerType \cup {None})
        /\ Len([x.out EXCEPT ![1] = answer]) = 1 /\ [x.out EXCEPT ![1] = answer][1] = answer
    <3>1. x.out \in [1..1 -> AnswerType \cup {None}]
      BY <2>1, <2>3, LenProperties
    <3>2. [x.out EXCEPT ![1] = answer] \in [1..1 -> AnswerType \cup {None}]
          /\ [x.out EXCEPT ![1] = answer][1] = answer
      BY <2>5, <3>1
    <3> QED
      BY <3>2, RowSequence, ZenonT(30)
  <2>7. /\ [x.events EXCEPT ![1] = Append(@, "guard_routed")] \in Seq(Seq(Code))
        /\ Len([x.events EXCEPT ![1] = Append(@, "guard_routed")]) = 1
    <3>1. "guard_routed" \in Code
      BY DEF Code
    <3>2. Append(x.events[1], "guard_routed") \in Seq(Code)
      BY <2>1, <2>3, <3>1
    <3> QED
      BY <2>1, <2>3, <3>2
  <2>8. /\ y.pc = "stage" /\ y.stage = x.stage + 1 /\ y.req = x.req /\ y.recorded = x.recorded
        /\ y.next = x.next /\ y.out = [x.out EXCEPT ![1] = answer]
        /\ y.events = [x.events EXCEPT ![1] = Append(@, "guard_routed")]
    BY <1>2, <2>1 DEF ThreadType
  <2>9. y \in ThreadType
    <3>1. x.stage + 1 \in Nat
      BY <2>1 DEF ThreadType
    <3> QED
      BY <2>1, <2>6, <2>7, <3>1 DEF ThreadType
  <2> HIDE DEF y
  <2>10. StageStep(x, y)
    BY <2>1, <2>8 DEF StageStep
  <2>11. Routing(y)
    <3>1. PICK broken \in BOOLEAN :
              (broken => Broke(x)) /\ \A i \in 1..NRows(x) : RowInv(x, i, broken)
      BY <2>1 DEF Routing
    <3>2. /\ Takes(x.stage, x.req.rows[1], broken) /\ Settled(x.stage)
          /\ Chain[x.stage] = "gpu"
      BY <1>2, <2>2, <2>4, NeedsGpuFacts
    <3>3. RecordedAs(x.req, x.req.rows[1], Chain[x.stage]) = "hf"
      BY <2>2, <2>4, <3>2 DEF RecordedAs
    <3>4. RowInv(y, 1, broken)
      BY <2>3, <2>4, <2>5, <2>6, <2>8, <2>10, <3>1, <3>2, <3>3, RowAnswered
    <3>5. \A i \in 1..NRows(y) : RowInv(y, i, broken)
      <4> TAKE i \in 1..NRows(y)
      <4>1. NRows(y) = 1
        BY <2>3, <2>8 DEF NRows
      <4>2. i = 1
        BY <4>1
      <4> QED
        BY <3>4, <4>2
    <3>6. broken => Broke(y)
      BY <2>10, <3>1, BrokeStays
    <3> QED
      BY <3>5, <3>6 DEF Routing
  <2> QED
    BY <1>2, <1>3, <1>5, <2>1, <2>3, <2>6, <2>7, <2>8, <2>9, <2>11, StageKeeps, ZenonT(30)
<1> QED
  BY <1>1, <1>4, <1>5 DEF SpanGuard, Becomes

LEMMA ReferenceStageKeeps ==
    ASSUME IInv, NEW t \in Thread, ReferenceStage(t)
    PROVE  IInv' /\ Unrecorded(thread[t])'
<1>1. PICK x : x = thread[t]
  OBVIOUS
<1>2. AtStage(t, x) /\ x.pc = "stage" /\ Chain[x.stage] = "hf"
  BY <1>1 DEF ReferenceStage, AtBackend, At, AtStage
<1>3. SharedType' /\ CellLatched
  BY DEF ReferenceStage, IInv, TypeOK, SharedType, CellLatched
<1>4. CASE Returns(t, "error")
  BY <1>1, <1>2, <1>3, <1>4, FailureKeeps
<1> DEFINE n == NRows(x)
           answer(i) == Answer("hf", ReferencePath(t), Reason(x.events[i]))
           out == [i \in 1..n |-> IF i \in Group(t) THEN answer(i) ELSE x.out[i]]
           y == [x EXCEPT !.stage = @ + 1, !.out = out]
<1>5. CASE Becomes(t, [thread[t] EXCEPT !.stage = @ + 1,
              !.out = [i \in Rows(t) |->
                  IF i \in Group(t) THEN Answer("hf", ReferencePath(t), Reason(thread[t].events[i]))
                  ELSE @[i]]])
  <2>1. thread' = [thread EXCEPT ![t] = y]
    BY <1>1, <1>2, <1>5, GroupFacts DEF Becomes
  <2>2. /\ x \in ThreadType /\ n \in Nat /\ x.stage \in 1..Len(Chain)
        /\ Len(x.next) = n /\ Len(x.out) = n /\ Len(x.events) = n
        /\ x.next \in Seq(Nat) /\ x.out \in Seq(AnswerType \cup {None})
        /\ x.events \in Seq(Seq(Code)) /\ Routing(x)
    BY <1>2, StageFacts
  <2>3. ASSUME NEW i \in 1..n
        PROVE  answer(i) \in AnswerType /\ answer(i) # None /\ answer(i).backend = "hf"
    <3>1. x.events[i] \in Seq(Code)
      BY <2>2
    <3>2. "hf" \in Backend /\ ReferencePath(t) \in Path
      BY DEF Backend, Path, ReferencePath
    <3> QED
      BY <3>1, <3>2, ReasonType, AnswerFacts
  <2> HIDE DEF answer
  <2>4. out \in Seq(AnswerType \cup {None}) /\ Len(out) = n
    <3>1. out \in [1..n -> AnswerType \cup {None}]
      BY <2>2, <2>3
    <3> HIDE DEF out
    <3> QED
      BY <2>2, <3>1, RowSequence
  <2>5. \A i \in 1..n : IF InGroup(x, i) THEN out[i] # None /\ out[i].backend = "hf"
                        ELSE out[i] = x.out[i]
    BY <1>2, <2>3, GroupFacts
  <2> HIDE DEF out
  <2>6. /\ y.pc = "stage" /\ y.stage = x.stage + 1 /\ y.req = x.req /\ y.recorded = x.recorded
        /\ y.next = x.next /\ y.events = x.events /\ y.out = out
    BY <1>2, <2>2 DEF ThreadType
  <2>7. y \in ThreadType
    <3>1. x.stage + 1 \in Nat
      BY <2>2
    <3> QED
      BY <2>2, <2>4, <3>1 DEF ThreadType
  <2> HIDE DEF y
  <2>8. StageStep(x, y)
    BY <2>2, <2>6 DEF StageStep
  <2>9. Routing(y)
    <3>1. PICK broken \in BOOLEAN :
              (broken => Broke(x)) /\ \A i \in 1..n : RowInv(x, i, broken)
      BY <2>2 DEF Routing
    <3>2. \A row : /\ Takes(x.stage, row, broken) /\ Settled(x.stage)
                   /\ RecordedAs(x.req, row, Chain[x.stage]) = "hf"
      BY <1>2 DEF Takes, Settled, RecordedAs
    <3>3. ASSUME NEW i \in 1..n PROVE RowInv(y, i, broken)
      <4>1. CASE InGroup(x, i)
        BY <2>5, <2>6, <2>8, <3>1, <3>2, <4>1, RowAnswered
      <4>2. CASE ~InGroup(x, i)
        BY <2>5, <2>6, <2>8, <3>1, <4>2, RowPasses
      <4> QED
        BY <4>1, <4>2
    <3> QED
      BY <2>6, <2>8, <3>1, <3>3, BrokeStays DEF Routing, NRows
  <2> QED
    BY <1>2, <1>3, <2>1, <2>2, <2>4, <2>6, <2>7, <2>9, StageKeeps
<1> QED
  BY <1>4, <1>5 DEF ReferenceStage

LEMMA FastReferenceType ==
    ASSUME NEW source
    PROVE  FastReference(source).path \in Path /\ FastReference(source).code \in Code
BY DEF FastReference, Path, Code

LEMMA FastAnswerFacts ==
    ASSUME NEW t, NEW x, AtStage(t, x), NEW i \in 1..NRows(x)
    PROVE  /\ FastAnswer(t, i) \in AnswerType /\ FastAnswer(t, i) # None
           /\ FastAnswer(t, i).backend = IF x.req.rows[i].fast = "gigatoken" THEN "fast_cpu"
                                         ELSE "hf"
<1>1. x = thread[t] /\ Row(t, i) = x.req.rows[i]
  BY GroupFacts DEF AtStage
<1>2. x.events[i] \in Seq(Code)
  BY StageFacts
<1>3. "hf" \in Backend /\ "fast_cpu" \in Backend /\ "gigatoken_full" \in Path
  BY DEF Backend, Path
<1>4. CASE x.req.rows[i].fast = "gigatoken"
  <2>1. FastAnswer(t, i) = Answer("fast_cpu", "gigatoken_full", Reason(x.events[i]))
    BY <1>1, <1>4 DEF FastAnswer
  <2> QED
    BY <1>2, <1>3, <1>4, <2>1, ReasonType, AnswerFacts
<1>5. CASE x.req.rows[i].fast # "gigatoken"
  <2> DEFINE ref == FastReference(x.req.rows[i].fast)
  <2>1. FastAnswer(t, i) = Answer("hf", ref.path, ref.code)
    BY <1>1, <1>5 DEF FastAnswer
  <2>2. ref.path \in Path /\ ref.code \in Code \cup {None}
    BY FastReferenceType
  <2> QED
    BY <1>3, <1>5, <2>1, <2>2, AnswerFacts, SMTT(30)
<1> QED
  BY <1>4, <1>5

\* No call of the fast engine has failed before its stage.
LEMMA NotYetBroken ==
    ASSUME NEW t, NEW x, AtStage(t, x), Chain[x.stage] = "fast_cpu"
    PROVE  /\ \A i \in 1..NRows(x) : RowInv(x, i, FALSE)
           /\ x.stage < Len(Chain) /\ Settled(x.stage)
           /\ \A row, broken :
                 Takes(x.stage, row, broken) <=> row.fast # "error" /\ ~broken
<1>1. x.stage \in 1..Len(Chain)
  BY StageFacts
<1>2. PICK broken \in BOOLEAN :
          (broken => Broke(x)) /\ \A i \in 1..NRows(x) : RowInv(x, i, broken)
  BY StageFacts DEF Routing
<1>3. broken = FALSE
  BY <1>1, <1>2 DEF Broke
<1>4. x.stage < Len(Chain) /\ Settled(x.stage)
  BY <1>1, ChainFacts DEF Settled
<1>5. \A row, b : Takes(x.stage, row, b) <=> row.fast # "error" /\ ~b
  BY DEF Takes
<1> QED
  BY <1>2, <1>3, <1>4, <1>5

\* The call fails: its whole group falls, whatever the engine thinks of a row.
LEMMA FastFailureKeeps ==
    ASSUME NEW t, NEW x, AtStage(t, x), Chain[x.stage] = "fast_cpu", FastGroupFails(t),
           thread' = [thread EXCEPT ![t] = FallThrough(t, Group(t))], SharedType', CellLatched
    PROVE  IInv' /\ Unrecorded(thread[t])'
<1> DEFINE y == FallThrough(t, Group(t))
<1>1. /\ y \in ThreadType /\ y.pc = "stage" /\ y.stage = x.stage + 1 /\ y.req = x.req
      /\ y.out = x.out /\ y.recorded = x.recorded
      /\ Len(y.next) = NRows(x) /\ Len(y.events) = NRows(x)
      /\ \A i \in 1..NRows(x) : y.next[i] = IF i \in Group(t) THEN x.next[i] + 1 ELSE x.next[i]
  BY FallThroughFacts
<1> HIDE DEF y
<1>2. /\ x.stage \in 1..Len(Chain) /\ x.next \in Seq(Nat) /\ Len(x.next) = NRows(x)
      /\ Len(x.out) = NRows(x)
  BY StageFacts
<1>3. StageStep(x, y)
  BY <1>1, <1>2 DEF StageStep
<1>4. /\ \A i \in 1..NRows(x) : RowInv(x, i, FALSE)
      /\ x.stage < Len(Chain) /\ Settled(x.stage)
      /\ \A row : ~Takes(x.stage, row, TRUE)
  BY NotYetBroken
<1>5. ASSUME NEW i \in 1..NRows(x) PROVE RowInv(y, i, TRUE)
  <2>1. RowInv(x, i, TRUE)
    BY <1>2, <1>4, RowBreaks
  <2>2. CASE InGroup(x, i)
    <3>1. y.next[i] = x.next[i] + 1 /\ y.out[i] = x.out[i]
      BY <1>1, <2>2, GroupFacts
    <3> QED
      BY <1>3, <1>4, <2>1, <2>2, <3>1, RowFalls
  <2>3. CASE ~InGroup(x, i)
    <3>1. y.next[i] = x.next[i] /\ y.out[i] = x.out[i]
      BY <1>1, <2>3, GroupFacts
    <3> QED
      BY <1>3, <2>1, <2>3, <3>1, RowPasses
  <2> QED
    BY <2>2, <2>3
<1>6. Broke(y)
  <2>1. \E j \in 1..NRows(y) : y.req.rows[j].fast = "error"
    BY <1>1, GroupFacts DEF FastGroupFails, NRows
  <2>2. \A k \in 1..Len(Chain) : Chain[k] = "fast_cpu" => k < y.stage
    BY <1>1, <1>2, ChainFacts
  <2> QED
    BY <2>1, <2>2 DEF Broke
<1>7. Routing(y)
  BY <1>1, <1>5, <1>6 DEF Routing, NRows
<1> QED
  BY <1>1, <1>2, <1>7, StageKeeps DEF y

\* The call succeeds: no row of the group is one the engine fails on.
LEMMA FastSuccessKeeps ==
    ASSUME NEW t, NEW x, AtStage(t, x), Chain[x.stage] = "fast_cpu", ~FastGroupFails(t),
           NEW y \in ThreadType, thread' = [thread EXCEPT ![t] = y], SharedType', CellLatched,
           y.pc = "stage", y.stage = x.stage + 1, y.req = x.req, y.recorded = x.recorded,
           y.next = x.next, Len(y.out) = NRows(x), Len(y.events) = NRows(x),
           \A i \in 1..NRows(x) :
              y.out[i] = IF InGroup(x, i) THEN FastAnswer(t, i) ELSE x.out[i]
    PROVE  IInv' /\ Unrecorded(thread[t])'
<1>1. /\ x.stage \in 1..Len(Chain) /\ x.next \in Seq(Nat) /\ Len(x.next) = NRows(x)
  BY StageFacts
<1>2. StageStep(x, y)
  BY <1>1 DEF StageStep
<1>3. ASSUME NEW i \in 1..NRows(x) PROVE RowInv(y, i, FALSE)
  <2>1. RowInv(x, i, FALSE) /\ Settled(x.stage)
    BY NotYetBroken
  <2>2. CASE InGroup(x, i)
    <3>1. x.req.rows[i].fast # "error"
      BY <2>2, GroupFacts DEF FastGroupFails
    <3>2. Takes(x.stage, x.req.rows[i], FALSE)
      BY <3>1, NotYetBroken
    <3>3. y.out[i] # None
          /\ y.out[i].backend = RecordedAs(x.req, x.req.rows[i], Chain[x.stage])
      BY <2>2, FastAnswerFacts DEF RecordedAs
    <3> QED
      BY <1>2, <2>1, <2>2, <3>2, <3>3, RowAnswered
  <2>3. CASE ~InGroup(x, i)
    BY <1>2, <2>1, <2>3, RowPasses
  <2> QED
    BY <2>2, <2>3
<1>4. Routing(y)
  BY <1>3 DEF Routing, NRows
<1> QED
  BY <1>1, <1>4, StageKeeps

LEMMA FastStageKeeps ==
    ASSUME IInv, NEW t \in Thread, FastStage(t)
    PROVE  IInv' /\ Unrecorded(thread[t])'
<1>1. PICK x : x = thread[t]
  OBVIOUS
<1>2. AtStage(t, x) /\ x.pc = "stage" /\ Chain[x.stage] = "fast_cpu"
  BY <1>1 DEF FastStage, AtBackend, At, AtStage
<1>3. CellLatched
  BY DEF FastStage, CellLatched
<1>4. CASE FastGroupFails(t)
  <2>1. RecordEvents(Faults(Group(t))) /\ Becomes(t, FallThrough(t, Group(t)))
    BY <1>4 DEF FastStage
  <2>2. SharedType'
    BY <2>1, RecordsEvents DEF FastStage, IInv, TypeOK
  <2> QED
    BY <1>2, <1>3, <1>4, <2>1, <2>2, FastFailureKeeps DEF Becomes
<1> DEFINE n == NRows(x)
           rerouted == {i \in Group(t) : Row(t, i).fast # "gigatoken"}
           events == [i \in 1..n |-> IF i \in rerouted
                         THEN Append(x.events[i], FastReference(Row(t, i).fast).code)
                         ELSE x.events[i]]
           out == [i \in 1..n |-> IF i \in Group(t) THEN FastAnswer(t, i) ELSE x.out[i]]
           y == [x EXCEPT !.stage = @ + 1, !.events = events, !.out = out]
<1>5. CASE ~FastGroupFails(t)
  <2>1. thread' = [thread EXCEPT ![t] = y]
    <3>1. Becomes(t, [thread[t] EXCEPT
              !.stage = @ + 1,
              !.events = [i \in Rows(t) |-> IF i \in rerouted
                  THEN Append(@[i], FastReference(Row(t, i).fast).code) ELSE @[i]],
              !.out = [i \in Rows(t) |-> IF i \in Group(t) THEN FastAnswer(t, i) ELSE @[i]]])
      BY <1>5 DEF FastStage
    <3>2. Rows(t) = 1..n
      BY <1>2, GroupFacts
    <3> QED
      BY <1>1, <3>1, <3>2 DEF Becomes
  <2>2. SharedType'
    <3>1. DOMAIN ledger' = DOMAIN ledger /\ ledger'.exec = ledger.exec
      BY <1>5 DEF FastStage, IInv, TypeOK, SharedType
    <3> QED
      BY <3>1 DEF FastStage, IInv, TypeOK, SharedType
  <2>3. /\ x \in ThreadType /\ n \in Nat /\ x.stage \in 1..Len(Chain)
        /\ Len(x.next) = n /\ Len(x.out) = n /\ Len(x.events) = n
        /\ x.next \in Seq(Nat) /\ x.out \in Seq(AnswerType \cup {None})
        /\ x.events \in Seq(Seq(Code))
    BY <1>2, StageFacts
  <2>4. events \in Seq(Seq(Code)) /\ Len(events) = n
    <3>1. \A i \in 1..n : x.events[i] \in Seq(Code)
      BY <2>3
    <3>2. events \in [1..n -> Seq(Code)]
      BY <3>1, FastReferenceType
    <3> HIDE DEF events
    <3> QED
      BY <2>3, <3>2, RowSequence
  <2>5. out \in Seq(AnswerType \cup {None}) /\ Len(out) = n
    <3>1. out \in [1..n -> AnswerType \cup {None}]
      BY <1>2, <2>3, FastAnswerFacts
    <3> HIDE DEF out
    <3> QED
      BY <2>3, <3>1, RowSequence
  <2>6. \A i \in 1..n : out[i] = IF InGroup(x, i) THEN FastAnswer(t, i) ELSE x.out[i]
    BY <1>2, GroupFacts
  <2> HIDE DEF events, out
  <2>7. /\ y.pc = "stage" /\ y.stage = x.stage + 1 /\ y.req = x.req /\ y.recorded = x.recorded
        /\ y.next = x.next /\ y.events = events /\ y.out = out
    BY <1>2, <2>3 DEF ThreadType
  <2>8. y \in ThreadType
    <3>1. x.stage + 1 \in Nat
      BY <2>3
    <3> QED
      BY <2>3, <2>4, <2>5, <3>1 DEF ThreadType
  <2> HIDE DEF y
  <2> QED
    BY <1>2, <1>3, <1>5, <2>1, <2>2, <2>4, <2>5, <2>6, <2>7, <2>8, FastSuccessKeeps
<1> QED
  BY <1>4, <1>5

-----------------------------------------------------------------------------
(* The device is opened. *)

LEMMA OpeningKeeps ==
    ASSUME IInv, NEW t \in Thread,
           BeginOpen(t) \/ OpenerConsumed(t) \/ OpenReturns(t) \/ OpenPanics(t)
    PROVE  IInv' /\ Unrecorded(thread[t])'
<1>1. cell \notin {"ready", "failed"}
  BY RouterAssumption DEF BeginOpen, OpenerConsumed, OpenReturns, OpenPanics
<1>2. CellLatched
  BY <1>1 DEF CellLatched
<1>3. SharedType'
  BY DEF BeginOpen, TakesOpener, OpenerConsumed, OpenReturns, OpenPanics, IInv, TypeOK, SharedType
<1>4. CASE UNCHANGED thread /\ At(t, "stage")
  BY <1>2, <1>3, <1>4, CellKeeps DEF Unrecorded, At
<1>5. CASE OpenPanics(t)
  BY <1>2, <1>3, <1>5, FailureKeeps DEF OpenPanics, NeedsGpu, AtBackend, At
<1> QED
  BY <1>4, <1>5 DEF BeginOpen, OpenerConsumed, OpenReturns, NeedsGpu, AtBackend

-----------------------------------------------------------------------------
(* A call ends. *)

\* Thread t has its answers, and x is its record.
Closing(t, x) ==
    IInv /\ t \in Thread /\ x = thread[t] /\ (StagesDone(t) \/ At(t, "record"))

LEMMA ClosingFacts ==
    ASSUME NEW t, NEW x, Closing(t, x)
    PROVE  /\ x \in ThreadType /\ x.req \in Request /\ Len(x.next) = NRows(x)
           /\ x.out \in Seq(AnswerType \cup {None}) /\ x.recorded \in Nat
           /\ x.recorded <= Len(x.out) /\ x.pc \in {"stage", "record"}
           /\ \A i \in 1..Len(x.out) : x.out[i] \in AnswerType /\ x.out[i] # None
<1>1. x \in ThreadType /\ Form(x) /\ RouteInv(x) /\ x.pc \in {"stage", "record"}
  BY DEF Closing, IInv, TypeOK, ThreadInv, StagesDone, At
<1>2. /\ x.req \in Request /\ Len(x.next) = NRows(x)
      /\ x.out \in Seq(AnswerType \cup {None}) /\ x.next \in Seq(Nat)
      /\ x.recorded \in Nat /\ x.stage \in Nat
  BY <1>1 DEF Form, ThreadType
<1>3. x.recorded <= Len(x.out)
  <2>1. Len(x.out) \in Nat
    BY <1>2
  <2>2. x.pc = "stage" => x.recorded = 0
    BY <1>1 DEF Form
  <2>3. x.pc = "record" => x.recorded <= Len(x.out)
    BY <1>1 DEF Form
  <2> QED
    BY <1>1, <2>1, <2>2, <2>3
<1>4. ASSUME NEW i \in 1..Len(x.out) PROVE x.out[i] # None
  <2>1. CASE x.pc = "record"
    BY <1>1, <2>1 DEF Form, Finished
  <2>2. CASE x.pc = "stage"
    <3>1. x.stage > Len(Chain) /\ Len(x.out) = NRows(x) /\ Routing(x)
      BY <1>1, <2>2 DEF Closing, StagesDone, At, RouteInv, Staged
    <3>2. PICK broken \in BOOLEAN : RowInv(x, i, broken)
      BY <3>1 DEF Routing
    <3>3. x.next[i] \in Nat /\ Len(Chain) \in Nat
      BY <1>2, <3>1, ChainFacts
    <3>4. ~Waits(x, i, broken)
      BY <1>2, <3>1, <3>3 DEF Waits
    <3> QED
      BY <3>2, <3>4 DEF RowInv
  <2> QED
    BY <1>1, <2>1, <2>2
<1>5. \A i \in 1..Len(x.out) : x.out[i] \in AnswerType
  BY <1>2, <1>4
<1> QED
  BY <1>1, <1>2, <1>3, <1>4, <1>5

LEMMA ClosedKeeps ==
    ASSUME NEW t, NEW x, Closing(t, x), NEW y \in ThreadType, thread' = [thread EXCEPT ![t] = y],
           y.pc = "record" \/ (y.pc = "returned" /\ y.result = "ok"),
           y.req = x.req, y.stage = x.stage, y.next = x.next, y.out = x.out,
           y.recorded <= Len(x.out), SharedType', CellLatched
    PROVE  IInv'
<1>1. Form(y)
  BY ClosingFacts DEF Form, Entering, NRows
<1>2. RouteInv(y)
  <2>1. RouteInv(x)
    BY DEF Closing, IInv, ThreadInv
  <2>2. Staged(y) => Staged(x)
    BY DEF Closing, Staged, Finished, StagesDone, At
  <2>3. Routing(x) => Routing(y)
    BY DEF Routing, Broke, RowInv, Waits, Taken, NRows
  <2> QED
    BY <2>1, <2>2, <2>3 DEF RouteInv, NRows
<1> QED
  BY <1>1, <1>2, StepKeeps DEF Closing

LEMMA RecordsExecution ==
    ASSUME NEW b \in Backend, NEW path, SharedType, RecordExecution(b, path),
           UNCHANGED <<cell, opener, answered, started>>
    PROVE  SharedType' /\ ledger'.exec = [ledger.exec EXCEPT ![b] = @ + 1]
<1>1. DOMAIN ledger' = DOMAIN ledger /\ ledger'.exec = [ledger.exec EXCEPT ![b] = @ + 1]
  BY DEF RecordExecution, SharedType
<1> QED
  BY <1>1 DEF SharedType

LEMMA RecordRowKeeps ==
    ASSUME IInv, NEW t \in Thread, RecordRow(t)
    PROVE  IInv'
<1>1. PICK x : x = thread[t]
  OBVIOUS
<1>2. Closing(t, x)
  BY <1>1 DEF RecordRow, Closing
<1> DEFINE n == x.recorded + 1
           y == [x EXCEPT !.pc = "record", !.recorded = n]
<1>3. n \in 1..Len(x.out) /\ n \in Nat /\ n <= Len(x.out)
  BY <1>1, <1>2, ClosingFacts DEF RecordRow
<1>4. thread' = [thread EXCEPT ![t] = y]
  BY <1>1 DEF RecordRow, Becomes
<1>5. x.out[n].backend \in Backend
  BY <1>2, <1>3, ClosingFacts DEF AnswerType
<1>6. SharedType'
  BY <1>1, <1>5, RecordsExecution DEF RecordRow, IInv, TypeOK
<1>7. CellLatched
  BY DEF RecordRow, CellLatched
<1>8. /\ y.pc = "record" /\ y.req = x.req /\ y.stage = x.stage /\ y.next = x.next
      /\ y.out = x.out /\ y.recorded = n /\ y \in ThreadType
  <2>1. x \in ThreadType
    BY <1>2, ClosingFacts
  <2> HIDE DEF n
  <2> QED
    BY <1>3, <2>1 DEF ThreadType
<1> HIDE DEF y
<1> QED
  BY <1>2, <1>3, <1>4, <1>6, <1>7, <1>8, ClosedKeeps

LEMMA RowsByFinite ==
    ASSUME NEW t, NEW b, Len(thread[t].out) \in Nat
    PROVE  IsFiniteSet(RowsBy(t, b)) /\ Cardinality(RowsBy(t, b)) \in Nat
<1>1. IsFiniteSet(1..Len(thread[t].out))
  BY FS_Interval
<1>2. RowsBy(t, b) \in SUBSET (1..Len(thread[t].out))
  BY DEF RowsBy
<1> QED
  BY <1>1, <1>2, FS_Subset, FS_CardinalityType

LEMMA DeliverKeeps ==
    ASSUME IInv, NEW t \in Thread, Deliver(t)
    PROVE  IInv'
<1>1. PICK x : x = thread[t]
  OBVIOUS
<1>2. Closing(t, x)
  BY <1>1 DEF Deliver, Closing
<1> DEFINE y == [x EXCEPT !.pc = "returned", !.result = "ok"]
<1>3. thread' = [thread EXCEPT ![t] = y]
  BY <1>1 DEF Deliver, Returns, Becomes
<1>4. Len(x.out) \in Nat
  BY <1>2, ClosingFacts
<1>5. SharedType'
  <2>1. \A b \in Backend : answered[b] + Cardinality(RowsBy(t, b)) \in Nat
    BY <1>1, <1>4, RowsByFinite DEF IInv, TypeOK, SharedType
  <2> QED
    BY <2>1 DEF Deliver, IInv, TypeOK, SharedType
<1>6. CellLatched
  BY DEF Deliver, CellLatched
<1>7. /\ y.pc = "returned" /\ y.result = "ok" /\ y.req = x.req /\ y.stage = x.stage
      /\ y.next = x.next /\ y.out = x.out /\ y.recorded = x.recorded /\ y \in ThreadType
  <2>1. x \in ThreadType
    BY <1>2, ClosingFacts
  <2> QED
    BY <2>1 DEF ThreadType
<1> HIDE DEF y
<1> QED
  BY <1>2, <1>3, <1>5, <1>6, <1>7, ClosedKeeps, ClosingFacts

-----------------------------------------------------------------------------
(* The requests with no stages. *)

LEMMA DirectKeeps ==
    ASSUME IInv, NEW t \in Thread, NEW x, x = thread[t], x.pc \in Entering \ {"added"},
           NEW out \in Seq(AnswerType), NEW events \in Seq(Seq(Code)),
           Becomes(t, [x EXCEPT !.pc = "record", !.events = events, !.out = out]),
           SharedType', CellLatched
    PROVE  IInv' /\ Unrecorded(thread[t])'
<1> DEFINE y == [x EXCEPT !.pc = "record", !.events = events, !.out = out]
<1>1. x \in ThreadType /\ Form(x)
  BY DEF IInv, TypeOK, ThreadInv
<1>2. out \in Seq(AnswerType \cup {None}) /\ Len(out) \in Nat
      /\ \A i \in 1..Len(out) : out[i] # None
  BY RouterAssumption
<1>3. /\ y.pc = "record" /\ y.req = x.req /\ y.next = x.next /\ y.recorded = x.recorded
      /\ y.out = out
  BY <1>1 DEF ThreadType
<1>4. y \in ThreadType
  BY <1>1, <1>2 DEF ThreadType
<1>5. thread' = [thread EXCEPT ![t] = y]
  BY DEF Becomes
<1> HIDE DEF y
<1>6. /\ x.req \in Request /\ Len(x.next) = NRows(x) /\ x.recorded = 0
      /\ x.req.op \notin {"batch", "seed"}
  BY <1>1 DEF Form, Entering
<1>7. Form(y)
  BY <1>2, <1>3, <1>6 DEF Form, Entering, NRows
<1>8. RouteInv(y)
  BY <1>3, <1>6 DEF RouteInv, Staged
<1>9. IInv' /\ thread'[t] = y
  BY <1>4, <1>5, <1>7, <1>8, StepKeeps
<1> QED
  BY <1>3, <1>6, <1>9 DEF Unrecorded

LEMMA SpecialKeeps ==
    ASSUME IInv, NEW t \in Thread, Special(t)
    PROVE  IInv' /\ Unrecorded(thread[t])'
<1>1. PICK x : x = thread[t]
  OBVIOUS
<1> DEFINE n == Len(x.req.rows)
           events == [i \in Rows(t) |-> Bypassed(Row(t, i))]
           answer == Answer("hf", "hf_postprocessed", "postprocess_routed")
           out == [i \in Rows(t) |-> answer]
<1>2. x \in ThreadType /\ Form(x) /\ x.pc = "special"
  BY <1>1 DEF Special, At, IInv, TypeOK, ThreadInv
<1>3. SharedType' /\ CellLatched
  BY RecordsEvents DEF Special, IInv, TypeOK, CellLatched
<1>4. n \in Nat /\ Rows(t) = 1..n
  BY <1>1, <1>2, RequestFacts DEF Form, Rows
<1>5. CASE Returns(t, "error")
  BY <1>1, <1>2, <1>3, <1>5, FailureKeeps
<1>6. CASE Becomes(t, [x EXCEPT !.pc = "record", !.events = events, !.out = out])
  <2>1. answer \in AnswerType
    <3>1. "hf" \in Backend /\ "hf_postprocessed" \in Path
          /\ "postprocess_routed" \in Code \cup {None}
      BY DEF Backend, Path, Code
    <3> QED
      BY <3>1, AnswerFacts
  <2>2. out \in Seq(AnswerType)
    <3> HIDE DEF answer
    <3>1. out \in [1..n -> AnswerType]
      BY <1>4, <2>1
    <3> HIDE DEF out
    <3> QED
      BY <1>4, <3>1, RowSequence
  <2>3. events \in Seq(Seq(Code))
    <3>1. ASSUME NEW row PROVE Bypassed(row) \in Seq(Code)
      <4>1. Len(Chain) - StartIndex(row) \in Nat
        BY StartInChain, ChainFacts
      <4>2. Bypassed(row) \in [1..(Len(Chain) - StartIndex(row)) -> Code]
        BY DEF Bypassed, Code
      <4> QED
        BY <4>1, <4>2, RowSequence
    <3>2. events \in [1..n -> Seq(Code)]
      BY <1>4, <3>1
    <3> HIDE DEF events
    <3> QED
      BY <1>4, <3>2, RowSequence
  <2>4. x.pc \in Entering \ {"added"}
    BY <1>2 DEF Entering
  <2> HIDE DEF out, events
  <2> QED
    BY <1>1, <1>3, <1>6, <2>2, <2>3, <2>4, DirectKeeps
<1> QED
  BY <1>1, <1>5, <1>6 DEF Special

LEMMA AppendTailKeeps ==
    ASSUME IInv, NEW t \in Thread, AppendTail(t)
    PROVE  IInv' /\ Unrecorded(thread[t])'
<1>1. PICK x : x = thread[t]
  OBVIOUS
<1> DEFINE ran == IF ~RepairFastCpu THEN <<Answer("hf", "hf_append", None)>>
                  ELSE IF x.req.repair = "repair" THEN <<Answer("fast_cpu", "repair", None)>>
                  ELSE IF x.req.repair = "hf_full" THEN <<Answer("hf", "hf_full_repair", None)>>
                  ELSE <<>>
<1>2. x \in ThreadType /\ x.pc = "append"
  BY <1>1 DEF AppendTail, At, IInv, TypeOK
<1>3. SharedType' /\ CellLatched
  BY DEF AppendTail, IInv, TypeOK, SharedType, CellLatched
<1>4. CASE Returns(t, "error")
  BY <1>1, <1>2, <1>3, <1>4, FailureKeeps
<1>5. CASE Becomes(t, [x EXCEPT !.pc = "record", !.out = ran])
  <2>1. ran \in Seq(AnswerType)
    <3>1. /\ {"hf", "fast_cpu"} \subseteq Backend /\ None \in Code \cup {None}
          /\ {"hf_append", "repair", "hf_full_repair"} \subseteq Path
      BY DEF Backend, Path
    <3>2. /\ Answer("hf", "hf_append", None) \in AnswerType
          /\ Answer("fast_cpu", "repair", None) \in AnswerType
          /\ Answer("hf", "hf_full_repair", None) \in AnswerType
      BY <3>1, AnswerFacts
    <3>3. \A a \in AnswerType : <<a>> \in Seq(AnswerType)
      OBVIOUS
    <3> QED
      BY <3>2, <3>3
  <2>2. x.events \in Seq(Seq(Code)) /\ x.pc \in Entering \ {"added"}
    BY <1>2 DEF ThreadType, Entering
  <2> HIDE DEF ran
  <2>3. [x EXCEPT !.pc = "record", !.out = ran] =
        [x EXCEPT !.pc = "record", !.events = x.events, !.out = ran]
    BY <1>2 DEF ThreadType
  <2> QED
    BY <1>1, <1>3, <1>5, <2>1, <2>2, <2>3, DirectKeeps
<1> QED
  BY <1>1, <1>4, <1>5 DEF AppendTail

LEMMA ChunkedKeeps ==
    ASSUME IInv, NEW t \in Thread, Chunked(t)
    PROVE  IInv' /\ Unrecorded(thread[t])'
<1>1. PICK x : x = thread[t]
  OBVIOUS
<1> DEFINE chunks == x.req.chunks
           answer(c) == IF c = "gigatoken" THEN Answer("fast_cpu", "gigatoken_full", None)
                        ELSE Answer("hf", FastReference(c).path, FastReference(c).code)
           codes == [i \in 1..Len(chunks) |->
                       IF chunks[i] = "gigatoken" THEN <<>> ELSE <<FastReference(chunks[i]).code>>]
           out == [i \in 1..Len(chunks) |-> answer(chunks[i])]
<1>2. x \in ThreadType /\ Form(x) /\ x.pc = "chunked"
  BY <1>1 DEF Chunked, At, IInv, TypeOK, ThreadInv
<1>3. SharedType' /\ CellLatched
  <2>1. SharedType /\ UNCHANGED <<cell, opener, answered, started>>
    BY DEF Chunked, IInv, TypeOK
  <2>2. UNCHANGED ledger \/ RecordEvents(Flatten(codes))
    BY <1>1 DEF Chunked
  <2> QED
    BY <2>1, <2>2, RecordsEvents DEF SharedType, CellLatched
<1>4. CASE Returns(t, "error")
  BY <1>1, <1>2, <1>3, <1>4, FailureKeeps
<1>5. CASE Becomes(t, [x EXCEPT !.pc = "added"])
  <2> DEFINE y == [x EXCEPT !.pc = "added"]
  <2>1. /\ y \in ThreadType /\ y.pc = "added" /\ y.req = x.req /\ y.next = x.next
        /\ y.out = x.out /\ y.events = x.events /\ y.recorded = x.recorded
    BY <1>2 DEF ThreadType, Entering
  <2> HIDE DEF y
  <2>2. Form(y)
    BY <1>2, <2>1 DEF Form, Entering, NRows, Finished
  <2>3. RouteInv(y)
    BY <2>1 DEF RouteInv, Staged, Finished
  <2>4. IInv' /\ thread'[t] = y
    BY <1>3, <1>5, <2>1, <2>2, <2>3, StepKeeps DEF Becomes, y
  <2> QED
    BY <2>1, <2>4 DEF Unrecorded
<1>6. CASE Becomes(t, [x EXCEPT !.pc = "record", !.events = codes, !.out = out])
  <2>1. Len(chunks) \in Nat
    BY <1>2, RouterAssumption DEF Form, RequestType
  <2>2. codes \in Seq(Seq(Code))
    <3>1. \A c : <<FastReference(c).code>> \in Seq(Code)
      BY FastReferenceType
    <3>2. codes \in [1..Len(chunks) -> Seq(Code)]
      BY <3>1
    <3> HIDE DEF codes, chunks
    <3> QED
      BY <2>1, <3>2, RowSequence
  <2>3. out \in Seq(AnswerType)
    <3>1. ASSUME NEW c PROVE answer(c) \in AnswerType
      <4>1. {"hf", "fast_cpu"} \subseteq Backend /\ "gigatoken_full" \in Path
            /\ None \in Code \cup {None}
        BY DEF Backend, Path
      <4>2. FastReference(c).path \in Path /\ FastReference(c).code \in Code \cup {None}
        BY FastReferenceType
      <4> QED
        BY <4>1, <4>2, AnswerFacts
    <3> HIDE DEF answer
    <3>2. out \in [1..Len(chunks) -> AnswerType]
      BY <3>1
    <3> HIDE DEF out, chunks
    <3> QED
      BY <2>1, <3>2, RowSequence
  <2>4. x.pc \in Entering \ {"added"}
    BY <1>2 DEF Entering
  <2> HIDE DEF out, codes
  <2> QED
    BY <1>1, <1>3, <1>6, <2>2, <2>3, <2>4, DirectKeeps
<1> QED
  BY <1>1, <1>4, <1>5, <1>6 DEF Chunked

-----------------------------------------------------------------------------
(* The invariant and what it says of a batch. *)

LEMMA InitInv == Init => IInv
<1> SUFFICES ASSUME Init PROVE IInv
  OBVIOUS
<1>1. Idle \in ThreadType /\ Idle.pc = "idle" /\ Idle.recorded = 0
  <2>1. <<>> \in Seq(Nat) /\ <<>> \in Seq(AnswerType \cup {None}) /\ <<>> \in Seq(Seq(Code))
    OBVIOUS
  <2> QED
    BY <2>1 DEF Idle, ThreadType
<1>2. TypeOK
  BY <1>1 DEF Init, TypeOK, SharedType
<1>3. Form(Idle) /\ RouteInv(Idle)
  BY <1>1 DEF Form, RouteInv, Staged, Finished, Entering
<1> QED
  BY <1>2, <1>3 DEF Init, IInv, ThreadInv

LEMMA NextInv == IInv /\ [Next]_vars => IInv'
<1> SUFFICES ASSUME IInv, [Next]_vars PROVE IInv'
  OBVIOUS
<1>1. CASE UNCHANGED vars
  BY <1>1, CellKeeps DEF vars, IInv, TypeOK, SharedType, CellLatched
<1>2. ASSUME NEW t \in Thread, Submit(t) \/ Step(t) PROVE IInv'
  <2>1. CASE Submit(t)
    BY <2>1, SubmitKeeps
  <2>2. CASE ResolveAdded(t)
    BY <2>2, ResolveAddedKeeps
  <2>3. CASE SkipStage(t)
    BY <2>3, SkipStageKeeps
  <2>4. CASE BeginOpen(t) \/ OpenerConsumed(t) \/ OpenReturns(t) \/ OpenPanics(t)
    BY <2>4, OpeningKeeps
  <2>5. CASE GpuStage(t)
    BY <2>5, GpuStageKeeps
  <2>6. CASE SpanGuard(t)
    BY <2>6, SpanGuardKeeps
  <2>7. CASE FastStage(t)
    BY <2>7, FastStageKeeps
  <2>8. CASE ReferenceStage(t)
    BY <2>8, ReferenceStageKeeps
  <2>9. CASE RecordRow(t)
    BY <2>9, RecordRowKeeps
  <2>10. CASE Deliver(t)
    BY <2>10, DeliverKeeps
  <2>11. CASE Special(t)
    BY <2>11, SpecialKeeps
  <2>12. CASE AppendTail(t)
    BY <2>12, AppendTailKeeps
  <2>13. CASE Chunked(t)
    BY <2>13, ChunkedKeeps
  <2>14. CASE AddedFails(t) \/ GpuMiscounts(t)
    BY <2>14, EarlyErrorKeeps
  <2> QED
    BY <1>2, <2>1, <2>2, <2>3, <2>4, <2>5, <2>6, <2>7, <2>8, <2>9, <2>10, <2>11, <2>12, <2>13,
       <2>14 DEF Step
<1> QED
  BY <1>1, <1>2 DEF Next

\* Every row is on its own route, in every state of every interleaving: the
\* invariant behind encode_batch_ids.
THEOREM RouterInvariance == Spec => []IInv
BY InitInv, NextInv, PTL DEF Spec

LEMMA InvBatch == IInv => BatchAsRows
<1> SUFFICES ASSUME IInv, NEW t \in Thread, Routed(t)
             PROVE  \E broken \in BOOLEAN :
                        /\ broken => \E j \in Rows(t) : Row(t, j).fast = "error"
                        /\ \A i \in Rows(t) : thread[t].out[i].backend =
                                                  RowRoute(thread[t].req, Row(t, i), broken)
  BY DEF BatchAsRows
<1>1. PICK x : x = thread[t]
  OBVIOUS
<1>2. /\ x \in ThreadType /\ Form(x) /\ RouteInv(x) /\ Staged(x) /\ Finished(x)
      /\ x.pc = "returned"
  BY <1>1 DEF Routed, IInv, TypeOK, ThreadInv, Staged, Finished
<1>3. /\ Len(x.out) = NRows(x) /\ Len(x.next) = NRows(x) /\ x.next \in Seq(Nat)
      /\ \A i \in 1..NRows(x) : x.out[i] # None
  BY <1>2 DEF Form, RouteInv, ThreadType
<1>4. Rows(t) = 1..NRows(x) /\ \A i : Row(t, i) = x.req.rows[i]
  BY <1>1 DEF Rows, Row, NRows
<1>5. PICK broken \in BOOLEAN :
          (broken => Broke(x)) /\ \A i \in 1..NRows(x) : RowInv(x, i, broken)
  BY <1>2 DEF RouteInv, Routing
<1>6. ASSUME NEW i \in 1..NRows(x)
      PROVE  x.out[i].backend = RowRoute(x.req, x.req.rows[i], broken)
  <2> DEFINE row == x.req.rows[i]
  <2>1. CASE IsAdded(row)
    BY <1>3, <1>5, <2>1 DEF RowInv, RowRoute
  <2>2. CASE ~IsAdded(row)
    <3>1. Taken(x, i, broken)
      BY <1>3, <1>5, <2>2 DEF RowInv
    <3>2. PICK n \in Nat : n = x.next[i]
      BY <1>3
    <3>3. /\ StartIndex(row) <= n /\ n <= Len(Chain) /\ Takes(n, row, broken)
          /\ \A k \in StartIndex(row)..(n - 1) : ~Takes(k, row, broken)
          /\ x.out[i].backend = RecordedAs(x.req, row, Chain[n])
      BY <3>1, <3>2 DEF Taken, Refused
    <3>4. n \in StartIndex(row)..Len(Chain)
      BY <3>2, <3>3, StartInChain, ChainFacts
    <3> QED
      BY <2>2, <3>3, <3>4, RouteOfRow
  <2> QED
    BY <2>1, <2>2
<1> QED
  BY <1>1, <1>4, <1>5, <1>6 DEF Broke

\* A batch answers each row as its own route would, for any chain and any
\* faults: encode_batch_ids against route_ids_internal.
THEOREM BatchRouted == Spec => []BatchAsRows
BY RouterInvariance, InvBatch, PTL

\* "native batch route did not close": the stages leave no row unanswered.
BatchCloses ==
    \A t \in Thread : StagesDone(t) => \A i \in Rows(t) : thread[t].out[i] # None

\* The error encode_batch_ids keeps for a batch whose rows are not all answered
\* after its last stage is never returned.
THEOREM BatchClosed == Spec => []BatchCloses
<1>1. IInv => BatchCloses
  <2> SUFFICES ASSUME IInv, NEW t \in Thread, StagesDone(t)
               PROVE  \A i \in Rows(t) : thread[t].out[i] # None
    BY DEF BatchCloses
  <2>1. PICK x : x = thread[t]
    OBVIOUS
  <2>2. Closing(t, x)
    BY <2>1 DEF Closing
  <2>3. Len(x.out) = NRows(x)
    BY <2>1 DEF IInv, ThreadInv, RouteInv, Staged, StagesDone, At
  <2> QED
    BY <2>1, <2>2, <2>3, ClosingFacts DEF Rows, NRows
<1> QED
  BY <1>1, RouterInvariance, PTL

-----------------------------------------------------------------------------
(* The ledger of executions. *)

AllInFlight(b) == UNION {InFlight(t, b) : t \in Thread}

LEMMA InFlightFinite ==
    ASSUME IInv, NEW b
    PROVE  /\ \A t \in Thread : IsFiniteSet(InFlight(t, b))
           /\ IsFiniteSet(AllInFlight(b)) /\ Cardinality(AllInFlight(b)) \in Nat
<1>1. ASSUME NEW t \in Thread PROVE IsFiniteSet(InFlight(t, b))
  <2>1. thread[t].recorded \in Nat
    BY DEF IInv, TypeOK, ThreadType
  <2>2. IsFiniteSet(1..thread[t].recorded) /\ IsFiniteSet({t})
    <3>1. IsFiniteSet(1..thread[t].recorded)
      BY <2>1, FS_Interval
    <3>2. IsFiniteSet({t})
      BY FS_Singleton
    <3> QED
      BY <3>1, <3>2
  <2>3. IsFiniteSet({t} \X (1..thread[t].recorded))
    BY <2>2, FS_Product
  <2>4. InFlight(t, b) \in SUBSET ({t} \X (1..thread[t].recorded))
    BY DEF InFlight
  <2> QED
    BY <2>3, <2>4, FS_Subset
<1>2. IsFiniteSet({InFlight(t, b) : t \in Thread})
  <2> DEFINE f == [t \in Thread |-> InFlight(t, b)]
             parts == {InFlight(t, b) : t \in Thread}
  <2>1. f \in Surjection(Thread, parts)
    BY DEF Surjection
  <2> HIDE DEF f, parts
  <2>2. IsFiniteSet(parts)
    BY <2>1, RouterAssumption, FS_Surjection
  <2> QED
    BY <2>2 DEF parts
<1>3. IsFiniteSet(AllInFlight(b))
  BY <1>1, <1>2, FS_UNION DEF AllInFlight
<1> QED
  BY <1>1, <1>3, FS_CardinalityType

LEMMA UnrecordedEmpty ==
    ASSUME IInv, NEW t \in Thread, Unrecorded(thread[t]), NEW b
    PROVE  InFlight(t, b) = {}
<1>1. Form(thread[t]) /\ thread[t] \in ThreadType
  BY DEF IInv, TypeOK, ThreadInv
<1>2. thread[t].pc # "returned" => thread[t].recorded = 0
  BY <1>1 DEF Form, ThreadType, Unrecorded
<1> QED
  BY <1>2 DEF InFlight

LEMMA OthersInFlight ==
    ASSUME IInv, NEW t \in Thread, NEW y, thread' = [thread EXCEPT ![t] = y],
           NEW u \in Thread, u # t, NEW b
    PROVE  InFlight(u, b)' = InFlight(u, b)
<1>1. thread'[u] = thread[u]
  BY DEF IInv, TypeOK
<1> QED
  BY <1>1 DEF InFlight

\* A step that records nothing and answers nobody.
LEMMA SilentStep ==
    ASSUME IInv, IInv', LedgerExact, NEW t \in Thread, NEW y,
           thread' = [thread EXCEPT ![t] = y], Unrecorded(thread[t]), Unrecorded(y),
           ledger'.exec = ledger.exec, answered' = answered
    PROVE  LedgerExact'
<1>1. Unrecorded(thread[t])'
  BY DEF IInv, TypeOK, Unrecorded
<1>2. ASSUME NEW b PROVE AllInFlight(b)' = AllInFlight(b)
  <2>1. InFlight(t, b) = {}
    BY UnrecordedEmpty
  <2>2. (InFlight(t, b) = {})'
    <3>1. Form(thread[t])' /\ thread'[t] \in ThreadType
      BY DEF IInv, TypeOK, ThreadInv
    <3>2. thread'[t].pc # "returned" => thread'[t].recorded = 0
      BY <1>1, <3>1 DEF Form, ThreadType, Unrecorded
    <3> QED
      BY <3>2 DEF InFlight
  <2>3. \A u \in Thread : InFlight(u, b)' = InFlight(u, b)
    BY <2>1, <2>2, OthersInFlight
  <2> QED
    BY <2>3 DEF AllInFlight
<1> QED
  BY <1>2 DEF LedgerExact, AllInFlight

LEMMA RecordRowLedger ==
    ASSUME IInv, IInv', LedgerExact, NEW t \in Thread, RecordRow(t)
    PROVE  LedgerExact'
<1>1. PICK x : x = thread[t]
  OBVIOUS
<1>2. Closing(t, x)
  BY <1>1 DEF RecordRow, Closing
<1>3. PICK n : n = x.recorded + 1
  OBVIOUS
<1> DEFINE y == [x EXCEPT !.pc = "record", !.recorded = n]
<1>4. /\ x \in ThreadType /\ x.recorded \in Nat /\ n \in 1..Len(x.out) /\ x.pc # "returned"
  BY <1>1, <1>2, <1>3, ClosingFacts DEF RecordRow
<1>5. thread' = [thread EXCEPT ![t] = y]
  BY <1>1, <1>3 DEF RecordRow, Becomes
<1>6. PICK a \in Backend : a = x.out[n].backend
  BY <1>2, <1>4, ClosingFacts DEF AnswerType
<1>7. ledger'.exec = [ledger.exec EXCEPT ![a] = @ + 1] /\ answered' = answered
  BY <1>1, <1>3, <1>6, RecordsExecution DEF RecordRow, IInv, TypeOK
<1>8. thread'[t] = y /\ y.pc = "record" /\ y.recorded = n /\ y.out = x.out
  BY <1>4, <1>5 DEF IInv, TypeOK, ThreadType
<1> HIDE DEF y
<1>9. ASSUME NEW b
      PROVE  InFlight(t, b)' = InFlight(t, b) \cup (IF b = a THEN {<<t, n>>} ELSE {})
  <2>1. InFlight(t, b) = {<<t, i>> : i \in {i \in 1..x.recorded : x.out[i].backend = b}}
    BY <1>1, <1>4 DEF InFlight
  <2>2. InFlight(t, b)' = {<<t, i>> : i \in {i \in 1..n : x.out[i].backend = b}}
    BY <1>8 DEF InFlight
  <2>3. {i \in 1..n : x.out[i].backend = b} =
        {i \in 1..x.recorded : x.out[i].backend = b} \cup (IF b = a THEN {n} ELSE {})
    BY <1>3, <1>4, <1>6
  <2> QED
    BY <2>1, <2>2, <2>3
<1>10. ASSUME NEW b
       PROVE  AllInFlight(b)' = AllInFlight(b) \cup (IF b = a THEN {<<t, n>>} ELSE {})
  <2>1. \A u \in Thread : u # t => InFlight(u, b)' = InFlight(u, b)
    BY <1>5, OthersInFlight
  <2> QED
    BY <1>9, <2>1 DEF AllInFlight
<1>11. <<t, n>> \notin AllInFlight(a)
  <2>1. ASSUME NEW u \in Thread, <<t, n>> \in InFlight(u, a) PROVE FALSE
    <3>1. PICK i \in 1..thread[u].recorded : <<t, n>> = <<u, i>>
      BY <2>1 DEF InFlight
    <3>2. u = t /\ i = n
      BY <3>1
    <3> QED
      BY <1>1, <1>3, <1>4, <3>1, <3>2
  <2> QED
    BY <2>1 DEF AllInFlight
<1>12. ASSUME NEW b \in Backend
       PROVE  ledger'.exec[b] = answered'[b] + Cardinality(AllInFlight(b)')
  <2>1. /\ ledger.exec[b] = answered[b] + Cardinality(AllInFlight(b))
        /\ IsFiniteSet(AllInFlight(b)) /\ Cardinality(AllInFlight(b)) \in Nat
        /\ ledger.exec \in [Backend -> Nat] /\ answered[b] \in Nat
    BY InFlightFinite DEF LedgerExact, AllInFlight, IInv, TypeOK, SharedType
  <2>2. CASE b = a
    <3>1. AllInFlight(b)' = AllInFlight(b) \cup {<<t, n>>}
      BY <1>10, <2>2
    <3>2. Cardinality(AllInFlight(b) \cup {<<t, n>>}) = Cardinality(AllInFlight(b)) + 1
      BY <1>11, <2>1, <2>2, FS_AddElement
    <3>3. ledger'.exec[b] = ledger.exec[b] + 1
      BY <1>7, <2>1, <2>2
    <3> QED
      BY <1>7, <2>1, <3>1, <3>2, <3>3
  <2>3. CASE b # a
    BY <1>7, <1>10, <2>1, <2>3
  <2> QED
    BY <2>2, <2>3
<1> QED
  BY <1>12 DEF LedgerExact, AllInFlight

LEMMA DeliverLedger ==
    ASSUME IInv, IInv', LedgerExact, NEW t \in Thread, Deliver(t)
    PROVE  LedgerExact'
<1>1. PICK x : x = thread[t]
  OBVIOUS
<1>2. Closing(t, x)
  BY <1>1 DEF Deliver, Closing
<1> DEFINE y == [x EXCEPT !.pc = "returned", !.result = "ok"]
<1>3. /\ x \in ThreadType /\ x.recorded = Len(x.out) /\ Len(x.out) \in Nat /\ x.pc # "returned"
  BY <1>1, <1>2, ClosingFacts DEF Deliver
<1>4. thread' = [thread EXCEPT ![t] = y]
  BY <1>1 DEF Deliver, Returns, Becomes
<1>5. thread'[t] = y /\ y.pc = "returned"
  BY <1>3, <1>4 DEF IInv, TypeOK, ThreadType
<1> HIDE DEF y
<1>6. ASSUME NEW b
      PROVE  /\ AllInFlight(b) = AllInFlight(b)' \cup InFlight(t, b)
             /\ AllInFlight(b)' \cap InFlight(t, b) = {}
  <2>1. InFlight(t, b)' = {}
    BY <1>5 DEF InFlight
  <2>2. \A u \in Thread : u # t => InFlight(u, b)' = InFlight(u, b)
    BY <1>4, OthersInFlight
  <2>3. ASSUME NEW u \in Thread, u # t PROVE InFlight(u, b) \cap InFlight(t, b) = {}
    BY <2>3 DEF InFlight
  <2> QED
    BY <2>1, <2>2, <2>3 DEF AllInFlight
<1>7. ASSUME NEW b PROVE Cardinality(InFlight(t, b)) = Cardinality(RowsBy(t, b))
  <2>1. InFlight(t, b) = {<<t, i>> : i \in RowsBy(t, b)}
    BY <1>1, <1>3 DEF InFlight, RowsBy
  <2>2. IsFiniteSet(RowsBy(t, b))
    BY <1>1, <1>3, RowsByFinite
  <2> DEFINE f == [i \in RowsBy(t, b) |-> <<t, i>>]
  <2>3. f \in Bijection(RowsBy(t, b), InFlight(t, b))
    <3>1. f \in [RowsBy(t, b) -> InFlight(t, b)]
      BY <2>1
    <3>2. \A p \in InFlight(t, b) : \E i \in RowsBy(t, b) : f[i] = p
      BY <2>1
    <3>3. \A i, j \in RowsBy(t, b) : f[i] = f[j] => i = j
      OBVIOUS
    <3> QED
      BY <3>1, <3>2, <3>3, Fun_IsBij
  <2> QED
    BY <2>2, <2>3, FS_Bijection DEF ExistsBijection
<1>8. ASSUME NEW b \in Backend
      PROVE  ledger'.exec[b] = answered'[b] + Cardinality(AllInFlight(b)')
  <2>1. /\ ledger.exec[b] = answered[b] + Cardinality(AllInFlight(b))
        /\ answered[b] \in Nat /\ ledger' = ledger
        /\ answered'[b] = answered[b] + Cardinality(RowsBy(t, b))
    BY DEF LedgerExact, AllInFlight, IInv, TypeOK, SharedType, Deliver
  <2>2. IsFiniteSet(AllInFlight(b)') /\ IsFiniteSet(InFlight(t, b))
    <3>1. IsFiniteSet(AllInFlight(b)) /\ IsFiniteSet(InFlight(t, b))
      BY InFlightFinite
    <3>2. AllInFlight(b)' \in SUBSET AllInFlight(b)
      BY <1>6
    <3> QED
      BY <3>1, <3>2, FS_Subset
  <2>3. Cardinality(AllInFlight(b)) =
        Cardinality(AllInFlight(b)') + Cardinality(InFlight(t, b))
    <3>1. PICK P, Q : P = AllInFlight(b)' /\ Q = InFlight(t, b)
      OBVIOUS
    <3>2. Cardinality(P \cup Q) = Cardinality(P) + Cardinality(Q) - Cardinality(P \cap Q)
      BY <2>2, <3>1, FS_Union
    <3>3. P \cap Q = {} /\ AllInFlight(b) = P \cup Q
      BY <1>6, <3>1
    <3>4. Cardinality({}) = 0 /\ Cardinality(P) \in Nat /\ Cardinality(Q) \in Nat
      BY <2>2, <3>1, FS_EmptySet, FS_CardinalityType
    <3>5. Cardinality(P \cup Q) = Cardinality(P) + Cardinality(Q)
      <4>1. Cardinality(P \cap Q) = 0
        BY <3>3, <3>4
      <4> QED
        BY <3>2, <3>4, <4>1
    <3> QED
      BY <3>1, <3>3, <3>5
  <2>4. Cardinality(RowsBy(t, b)) \in Nat /\ Cardinality(AllInFlight(b)') \in Nat
    BY <1>1, <1>3, <2>2, RowsByFinite, FS_CardinalityType
  <2> QED
    BY <1>7, <2>1, <2>3, <2>4
<1> QED
  BY <1>8 DEF LedgerExact, AllInFlight

\* The other steps leave the executions and the answered rows as they are, and
\* none of them touches a call whose rows are being recorded.
LEMMA OtherStepLedger ==
    ASSUME IInv, IInv', LedgerExact, NEW t \in Thread,
           Submit(t) \/ Step(t), ~RecordRow(t), ~Deliver(t)
    PROVE  LedgerExact'
<1>1. PICK x : x = thread[t] /\ x \in ThreadType /\ Form(x)
  BY DEF IInv, TypeOK, ThreadInv
<1>2. /\ x.pc # "record" /\ answered' = answered
      /\ x.pc \notin {"idle", "returned"} => x.recorded = 0
  <2>1. x.pc # "record" /\ answered' = answered
    BY <1>1 DEF Step, Submit, ResolveAdded, AddedFails, SkipStage, BeginOpen, OpenerConsumed,
           OpenReturns, OpenPanics, GpuStage, GpuMiscounts, SpanGuard, FastStage, ReferenceStage,
           Special, AppendTail, Chunked, NeedsGpu, AtBackend, At
  <2> QED
    BY <1>1, <2>1 DEF Form, ThreadType
<1>3. ledger'.exec = ledger.exec
  <2>1. UNCHANGED ledger \/ (\E codes : RecordEvents(codes)) \/ FastStage(t)
    BY DEF Step, Submit, ResolveAdded, AddedFails, SkipStage, BeginOpen, OpenerConsumed,
           OpenReturns, OpenPanics, GpuStage, GpuMiscounts, SpanGuard, ReferenceStage, Special,
           AppendTail, Chunked
  <2>2. CASE FastStage(t)
    BY <2>2 DEF FastStage, RecordEvents, IInv, TypeOK, SharedType
  <2>3. CASE \E codes : RecordEvents(codes)
    BY <2>3 DEF RecordEvents, IInv, TypeOK, SharedType
  <2> QED
    BY <2>1, <2>2, <2>3
<1>4. \E y : thread' = [thread EXCEPT ![t] = y]
  <2>1. UNCHANGED thread => thread' = [thread EXCEPT ![t] = thread[t]]
    BY DEF IInv, TypeOK
  <2> QED
    BY <2>1 DEF Step, Submit, ResolveAdded, AddedFails, SkipStage, BeginOpen, OpenerConsumed,
           OpenReturns, OpenPanics, GpuStage, GpuMiscounts, SpanGuard, FastStage, ReferenceStage,
           Special, AppendTail, Chunked, Returns, Becomes
<1>5. PICK y : thread' = [thread EXCEPT ![t] = y] /\ y = thread'[t]
  BY <1>4 DEF IInv, TypeOK
<1>6. Unrecorded(thread[t])'
  BY SubmitKeeps, ResolveAddedKeeps, EarlyErrorKeeps, SkipStageKeeps, OpeningKeeps, GpuStageKeeps,
     SpanGuardKeeps, FastStageKeeps, ReferenceStageKeeps, SpecialKeeps, AppendTailKeeps, ChunkedKeeps DEF Step
<1>7. Unrecorded(x) /\ Unrecorded(y)
  BY <1>2, <1>5, <1>6 DEF Unrecorded
<1> QED
  BY <1>1, <1>2, <1>3, <1>5, <1>7, SilentStep

LEMMA LedgerStep == IInv /\ IInv' /\ LedgerExact /\ [Next]_vars => LedgerExact'
<1> SUFFICES ASSUME IInv, IInv', LedgerExact, [Next]_vars PROVE LedgerExact'
  OBVIOUS
<1>1. CASE UNCHANGED vars
  BY <1>1 DEF vars, LedgerExact, InFlight
<1>2. ASSUME NEW t \in Thread, Submit(t) \/ Step(t) PROVE LedgerExact'
  BY <1>2, RecordRowLedger, DeliverLedger, OtherStepLedger
<1> QED
  BY <1>1, <1>2 DEF Next

\* The ledger counts an execution for each row that was answered and for no
\* other, whatever the threads do and whichever calls fail or unwind:
\* record_execution against the rows handed to the callers.
THEOREM LedgerCounts == Spec => []LedgerExact
<1>1. Init => LedgerExact
  <2> SUFFICES ASSUME Init PROVE LedgerExact
    OBVIOUS
  <2>1. ASSUME NEW b PROVE UNION {InFlight(t, b) : t \in Thread} = {}
    BY DEF Init, InFlight, Idle
  <2> QED
    BY <2>1, FS_EmptySet DEF Init, LedgerExact
<1> QED
  BY <1>1, LedgerStep, RouterInvariance, PTL DEF Spec

=============================================================================
