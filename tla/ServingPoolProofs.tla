-------------------------- MODULE ServingPoolProofs --------------------------
(***************************************************************************)
(* Proofs about ServingPool, for any threads, workers, sessions, requests  *)
(* and limits: the operations of a session are applied in the order they   *)
(* were submitted and never two at a time, a caller is told what happened  *)
(* to the session, and the slots and bytes charged are those in use.       *)
(*                                                                         *)
(* The argument: a request is in one place at a time, so it is begun at    *)
(* most once; an operation runs while the sequencer of its session stands  *)
(* at its ticket; the sequencer only advances; and a thread draws its      *)
(* tickets in the order of its submissions.                                *)
(***************************************************************************)
EXTENDS ServingPool, FiniteSetTheorems, SequenceTheorems, WellFoundedInduction, TLAPS

Resting == {"check", "asleep", "exited"}
Batching == {"first", "gather", "napping", "encode"}
Running == {"turn", "executed", "freed"}
OpSteps == {"waiting"} \cup Running
Outs == {"none", "ok", "error"}
Ticketed == {"enqueue", "rollback", "cancel"}

ThreadType == [pc : {"ready", "ticket"} \cup Ticketed, at : Nat \ {0}]
WorkerType ==
    [pc : Resting \cup Batching \cup OpSteps \cup {"deliver"}, jobs : Seq(Request), out : Outs]
LaneType ==
    [pending : Int, issued : Nat, next : Nat, cancelled : SUBSET Nat, applied : Seq(Request)]
ReqType ==
    [ticket : Nat, device : Nat, accepted : BOOLEAN, cancelled : BOOLEAN, expired : BOOLEAN,
     started : BOOLEAN, result : Outs \cup {"cancelled", "expired", "skipped"}]

TypeOK ==
    /\ thread \in [Thread -> ThreadType] /\ worker \in [Worker -> WorkerType]
    /\ queue \in Seq(Request) /\ queuedBytes \in Int
    /\ shutdown \in BOOLEAN /\ nextDevice \in Nat
    /\ lane \in [Session -> LaneType] /\ req \in [Request -> ReqType]

-----------------------------------------------------------------------------
(* The inductive invariant. *)

Holds(w, r) == \E i \in 1..Len(worker[w].jobs) : worker[w].jobs[i] = r
Applied(r) == \E i \in 1..Len(lane[Lane(r)].applied) : lane[Lane(r)].applied[i] = r
HasTurn(w) == worker[w].pc \in Running

\* What a worker holds at each step.
Shape(x) ==
    /\ x.pc \in Resting => x.jobs = <<>>
    /\ x.pc \in Batching \cup {"deliver"} => x.jobs # <<>>
    /\ x.pc \in Batching => \A i \in 1..Len(x.jobs) : ~IsOp(x.jobs[i])
    /\ x.pc \in OpSteps => Len(x.jobs) = 1 /\ IsOp(x.jobs[1])
    /\ x.pc = "deliver" => \A i \in 1..Len(x.jobs) : IsOp(x.jobs[i]) => Len(x.jobs) = 1
    /\ x.pc \in {"waiting", "turn"} => x.out = "none"
Shapes == \A w \in Worker : Shape(worker[w])

\* A request is in one place at a time.
Once ==
    /\ \A i, j \in 1..Len(queue) : queue[i] = queue[j] => i = j
    /\ \A r \in Request, w \in Worker :
          Holds(w, r) => ~InQueue(r) /\ \A v \in Worker : Holds(v, r) => v = w

\* What is known of a request that nobody has begun, and of an answered one.
Untouched(q) == q.result = "none" /\ ~q.started
EffectsOf(r) ==
    /\ ~req[r].accepted => Untouched(req[r])
    /\ InQueue(r) => req[r].accepted /\ Untouched(req[r])
    /\ \A w \in Worker : Holds(w, r) =>
          /\ req[r].accepted
          /\ worker[w].pc \in {"waiting", "turn"} => Untouched(req[r])
          /\ IsOp(r) /\ worker[w].out = "ok" => Applied(r)
    /\ IsOp(r) /\ req[r].result = "ok" => Applied(r)
    /\ IsOp(r) /\ req[r].result = "expired" => ~req[r].started
Effects == \A r \in Request : EffectsOf(r)

\* The sequencer of a session stands at the ticket of the worker it let in,
\* and lets in one.
Turns ==
    /\ \A w \in Worker : HasTurn(w) =>
          lane[Lane(worker[w].jobs[1])].next = req[worker[w].jobs[1]].ticket
    /\ \A v, w \in Worker : HasTurn(v) /\ HasTurn(w) /\ v # w =>
          Lane(worker[v].jobs[1]) # Lane(worker[w].jobs[1])

\* What a session applied: its own operations, begun, by ascending ticket,
\* behind the sequencer or just now.
LaneSound(s) ==
    LET a == lane[s].applied IN
    /\ IsFiniteSet(lane[s].cancelled)
    /\ \A i \in 1..Len(a) :
          /\ IsOp(a[i]) /\ Lane(a[i]) = s /\ req[a[i]].started
          /\ \/ req[a[i]].ticket < lane[s].next
             \/ \E w \in Worker : worker[w].pc \in {"executed", "freed"} /\ worker[w].jobs[1] = a[i]
    /\ \A i, j \in 1..Len(a) : i < j => req[a[i]].ticket < req[a[j]].ticket
Lanes == \A s \in Session : LaneSound(s)

\* Tickets ascend in the order a thread submits.
HasTicket(t, i) ==
    \/ req[Script[t][i]].accepted
    \/ i = thread[t].at /\ thread[t].pc \in Ticketed
Order ==
    /\ \A t \in Thread : \A i \in 1..Len(Script[t]) :
          /\ i >= thread[t].at => ~req[Script[t][i]].accepted
          /\ i = thread[t].at /\ thread[t].pc \in {"ticket", "rollback", "cancel"} =>
               IsOp(Script[t][i])
          /\ HasTicket(t, i) /\ IsOp(Script[t][i]) =>
               req[Script[t][i]].ticket < lane[Lane(Script[t][i])].issued
    /\ \A t \in Thread : \A i, j \in 1..Len(Script[t]) :
          /\ i < j /\ IsOp(Script[t][i]) /\ IsOp(Script[t][j])
          /\ Lane(Script[t][i]) = Lane(Script[t][j])
          /\ req[Script[t][i]].accepted /\ HasTicket(t, j)
          => req[Script[t][i]].ticket < req[Script[t][j]].ticket

\* The operations that hold a slot of session s.
Holding(r) ==
    \/ SubmittingIn(r, {"ticket", "enqueue", "rollback"})
    \/ InQueue(r)
    \/ ClaimedIn(r, {"waiting", "turn", "executed"})
Holders(s) == {r \in Request : IsOp(r) /\ Lane(r) = s /\ Holding(r)}
SlotsOf(s) ==
    /\ IsFiniteSet(Holders(s))
    /\ lane[s].pending = Cardinality(Holders(s))
    /\ lane[s].pending <= MaxSessionRequests
Slots == \A s \in Session : SlotsOf(s)

Charged == queuedBytes = BatchBytes(queue)

IInv ==
    /\ TypeOK /\ Shapes /\ Once /\ Effects /\ Turns /\ Lanes /\ Order /\ Slots /\ Charged

-----------------------------------------------------------------------------
(* Naturals, sequences, and the bytes of a batch. *)

\* A set of naturals has a least element.
LEMMA NatLeast ==
    ASSUME NEW S \in SUBSET Nat, S # {}
    PROVE  \E m \in S : \A k \in S : m <= k
<1> DEFINE R == {ss \in Nat \X Nat : ss[1] < ss[2]}
<1>1. R = OpToRel(<, Nat)
  BY DEF OpToRel
<1>2. IsWellFoundedOn(R, Nat)
  BY <1>1, NatLessThanWellFounded
<1> HIDE DEF R
<1>3. PICK x \in S : \A y \in S : ~(<<y, x>> \in R)
  BY <1>2, WFMin, IsWellFoundedOnSubset, ZenonT(30)
<1>4. \A y \in S : ~(y < x)
  <2> TAKE y \in S
  <2>1. <<y, x>> \in Nat \X Nat /\ <<y, x>>[1] = y /\ <<y, x>>[2] = x
    OBVIOUS
  <2>2. y < x => <<y, x>> \in R
    BY <2>1 DEF R
  <2> QED
    BY <2>2, <1>3
<1> QED
  BY <1>4

\* The sequencer skips cancelled tickets and never goes back.
LEMMA SequencerAdvances ==
    ASSUME NEW n \in Nat, NEW C \in SUBSET Nat, IsFiniteSet(C)
    PROVE  FirstLive(n, C) \in Nat /\ FirstLive(n, C) >= n
<1> DEFINE I == n..(n + Cardinality(C))
           K == {m \in I : m \notin C}
<1>1. Cardinality(C) \in Nat
  BY FS_CardinalityType
<1>2. IsFiniteSet(I) /\ Cardinality(I) = Cardinality(C) + 1
  BY <1>1, FS_Interval
<1>3. K # {}
  <2> SUFFICES ASSUME K = {} PROVE FALSE
    OBVIOUS
  <2>1. I \in SUBSET C
    OBVIOUS
  <2>2. Cardinality(I) <= Cardinality(C)
    BY <2>1, FS_Subset
  <2> QED
    BY <1>1, <1>2, <2>2
<1>4. K \in SUBSET Nat
  BY <1>1
<1>5. PICK m \in K : \A k \in K : m <= k
  BY <1>3, <1>4, NatLeast
<1>6. \A j \in n..(m - 1) : j \in C
  BY <1>1, <1>5
<1>7. \E k \in I : k \notin C /\ \A j \in n..(k - 1) : j \in C
  BY <1>5, <1>6
<1>8. FirstLive(n, C) \in I
  BY <1>7 DEF FirstLive
<1> QED
  BY <1>1, <1>8

\* The running total of the bytes of a sequence of requests.
IsTotal(f, q, n) ==
    f = [i \in 0..n |-> IF i = 0 THEN 0 ELSE f[i - 1] + Job[q[i]].bytes]

LEMMA JobTyped ==
    ASSUME NEW r \in Request
    PROVE  Job[r].bytes \in Nat /\ Lane(r) \in Session /\ Job[r] \in JobType
BY ScriptAssumption DEF JobType, Lane

\* The recursion has a solution, whatever the length.
LEMMA TotalExists ==
    ASSUME NEW q \in Seq(Request), NEW n \in 0..Len(q)
    PROVE  \E f : IsTotal(f, q, n)
<1> DEFINE T == {k \in 0..Len(q) : ~ \E f : IsTotal(f, q, k)}
<1> SUFFICES ASSUME T # {} PROVE FALSE
  OBVIOUS
<1>1. T \in SUBSET Nat
  OBVIOUS
<1>2. PICK m \in T : \A k \in T : m <= k
  BY <1>1, NatLeast
<1>3. CASE m = 0
  <2>1. IsTotal([i \in 0..0 |-> 0], q, 0)
    BY DEF IsTotal
  <2> QED
    BY <1>2, <1>3, <2>1
<1>4. CASE m > 0
  <2>1. m - 1 \in 0..Len(q) /\ m \in 1..Len(q) /\ m - 1 \notin T
    BY <1>1, <1>2, <1>4
  <2>2. PICK f : IsTotal(f, q, m - 1)
    BY <2>1
  <2> DEFINE g == [i \in 0..m |-> IF i = m THEN f[m - 1] + Job[q[m]].bytes ELSE f[i]]
  <2>3. ASSUME NEW i \in 0..m
        PROVE  g[i] = IF i = 0 THEN 0 ELSE g[i - 1] + Job[q[i]].bytes
    <3>1. CASE i = m
      BY <3>1, <2>1
    <3>2. CASE i # m
      <4>1. i \in 0..(m - 1) /\ (i # 0 => i - 1 \in 0..m /\ i - 1 # m)
        BY <3>2, <2>1
      <4>2. f[i] = IF i = 0 THEN 0 ELSE f[i - 1] + Job[q[i]].bytes
        BY <2>2, <4>1 DEF IsTotal
      <4> QED
        BY <3>2, <4>1, <4>2
    <3> QED
      BY <3>1, <3>2
  <2>4. g = [i \in 0..m |-> g[i]]
    OBVIOUS
  <2> HIDE DEF g
  <2>5. IsTotal(g, q, m)
    BY <2>3, <2>4 DEF IsTotal
  <2> QED
    BY <1>2, <2>5
<1> QED
  BY <1>1, <1>2, <1>3, <1>4

LEMMA BytesTotal ==
    ASSUME NEW q \in Seq(Request)
    PROVE  \E f : IsTotal(f, q, Len(q)) /\ BatchBytes(q) = f[Len(q)]
<1>1. \E f : f = [i \in 0..Len(q) |-> IF i = 0 THEN 0 ELSE f[i - 1] + Job[q[i]].bytes]
  BY TotalExists DEF IsTotal
<1> QED
  BY <1>1 DEF BatchBytes, IsTotal

\* Two totals agree as far as their sequences do.
Agree(q, e, n) == n <= Len(q) /\ n <= Len(e) /\ \A i \in 1..n : q[i] = e[i]

LEMMA TotalsAgree ==
    ASSUME NEW q \in Seq(Request), NEW e \in Seq(Request), NEW f, NEW g,
           IsTotal(f, q, Len(q)), IsTotal(g, e, Len(e)),
           NEW n \in Nat, Agree(q, e, n)
    PROVE  f[n] = g[n] /\ f[n] \in Nat
<1> DEFINE T == {k \in 0..n : ~(f[k] = g[k] /\ f[k] \in Nat)}
<1> SUFFICES ASSUME T # {} PROVE FALSE
  OBVIOUS
<1>1. T \in SUBSET Nat
  OBVIOUS
<1>2. PICK m \in T : \A k \in T : m <= k
  BY <1>1, NatLeast
<1>3. m \in 0..Len(q) /\ m \in 0..Len(e)
  BY DEF Agree
<1>4. /\ f[m] = IF m = 0 THEN 0 ELSE f[m - 1] + Job[q[m]].bytes
      /\ g[m] = IF m = 0 THEN 0 ELSE g[m - 1] + Job[e[m]].bytes
  BY <1>3 DEF IsTotal
<1>5. m # 0 => m - 1 \in 0..n /\ m - 1 \notin T /\ m \in 1..n
  BY <1>2
<1>6. m # 0 => q[m] = e[m] /\ Job[q[m]].bytes \in Nat
  BY <1>3, <1>5, JobTyped DEF Agree
<1> QED
  BY <1>2, <1>4, <1>5, <1>6

LEMMA BytesEmpty == BatchBytes(<<>>) = 0
<1>1. <<>> \in Seq(Request)
  OBVIOUS
<1>2. PICK f : IsTotal(f, <<>>, Len(<<>>)) /\ BatchBytes(<<>>) = f[Len(<<>>)]
  BY <1>1, BytesTotal
<1> QED
  BY <1>2 DEF IsTotal

LEMMA BytesAppend ==
    ASSUME NEW q \in Seq(Request), NEW r \in Request
    PROVE  BatchBytes(Append(q, r)) = BatchBytes(q) + Job[r].bytes
<1> DEFINE e == Append(q, r)
<1>1. /\ e \in Seq(Request) /\ Len(e) = Len(q) + 1 /\ e[Len(q) + 1] = r
      /\ \A i \in 1..Len(q) : q[i] = e[i]
  OBVIOUS
<1> HIDE DEF e
<1>2. PICK f : IsTotal(f, q, Len(q)) /\ BatchBytes(q) = f[Len(q)]
  BY BytesTotal
<1>3. PICK g : IsTotal(g, e, Len(e)) /\ BatchBytes(e) = g[Len(e)]
  BY <1>1, BytesTotal
<1>4. Len(q) \in Nat /\ Agree(q, e, Len(q))
  BY <1>1 DEF Agree
<1>5. f[Len(q)] = g[Len(q)]
  BY <1>1, <1>2, <1>3, <1>4, TotalsAgree
<1>6. g[Len(q) + 1] = g[Len(q)] + Job[r].bytes
  BY <1>1, <1>3, <1>4 DEF IsTotal
<1> QED
  BY <1>1, <1>2, <1>3, <1>5, <1>6 DEF e

\* Taking out position p takes its bytes off, wherever it stands.
LEMMA BytesRemoved ==
    ASSUME NEW q \in Seq(Request), NEW p \in 1..Len(q), NEW e \in Seq(Request),
           Len(e) = Len(q) - 1,
           \A i \in 1..Len(e) : e[i] = IF i < p THEN q[i] ELSE q[i + 1]
    PROVE  BatchBytes(e) = BatchBytes(q) - Job[q[p]].bytes
<1>1. PICK f : IsTotal(f, q, Len(q)) /\ BatchBytes(q) = f[Len(q)]
  BY BytesTotal
<1>2. PICK g : IsTotal(g, e, Len(e)) /\ BatchBytes(e) = g[Len(e)]
  BY BytesTotal
<1>3. Len(q) \in Nat /\ Len(e) \in Nat /\ Len(e) = Len(q) - 1
  OBVIOUS
<1>4. \A i \in 0..Len(q) : f[i] \in Nat
  <2> TAKE i \in 0..Len(q)
  <2>1. i \in Nat /\ Agree(q, q, i)
    BY <1>3 DEF Agree
  <2> QED
    BY <1>1, <2>1, TotalsAgree
<1>5. g[p - 1] = f[p - 1]
  <2>1. PICK n \in Nat : n = p - 1
    BY <1>3
  <2>2. n \in Nat /\ Agree(q, e, n)
    BY <1>3, <2>1 DEF Agree
  <2>3. f[n] = g[n]
    BY <1>1, <1>2, <2>2, TotalsAgree
  <2> QED
    BY <2>1, <2>3
<1> DEFINE b == Job[q[p]].bytes
           T == {k \in p..Len(q) : g[k - 1] # f[k] - b}
<1>6. T = {}
  <2> SUFFICES ASSUME T # {} PROVE FALSE
    OBVIOUS
  <2> T \in SUBSET Nat
    BY <1>3
  <2>1. PICK m \in T : \A k \in T : m <= k
    BY NatLeast
  <2>2. /\ m \in 1..Len(q) /\ m - 1 \in 0..Len(e) /\ f[m] = f[m - 1] + Job[q[m]].bytes
    BY <1>1, <1>3 DEF IsTotal
  <2>3. b \in Nat /\ Job[q[m]].bytes \in Nat /\ f[m] \in Nat /\ f[m - 1] \in Nat
    BY <1>3, <1>4, <2>2, JobTyped
  <2>4. CASE m = p
    BY <1>5, <2>1, <2>2, <2>3, <2>4
  <2>5. CASE m > p
    <3>1. m - 1 \in p..Len(q)
      BY <1>3, <2>2, <2>5
    <3>2. m - 1 \notin T /\ (m - 1) - 1 = m - 2
      BY <2>1, <2>2
    <3>3. g[m - 2] = f[m - 1] - b
      BY <3>1, <3>2
    <3>4. m - 1 \in 1..Len(e) /\ e[m - 1] = q[m]
      BY <2>2, <2>5
    <3>5. g[m - 1] = g[m - 2] + Job[q[m]].bytes
      BY <1>2, <1>3, <3>2, <3>4, SMTT(30) DEF IsTotal
    <3>6. \A x, y, z \in Nat : (x - y) + z = (x + z) - y
      OBVIOUS
    <3>7. g[m - 1] = (f[m - 1] - b) + Job[q[m]].bytes
      BY <3>3, <3>5
    <3>8. (f[m - 1] - b) + Job[q[m]].bytes = (f[m - 1] + Job[q[m]].bytes) - b
      BY <2>3, <3>6
    <3>9. g[m - 1] = f[m] - b
      BY <2>2, <3>7, <3>8
    <3> QED
      BY <2>1, <3>9
  <2> QED
    BY <2>1, <2>4, <2>5
<1>7. Len(q) \in p..Len(q) /\ Len(q) \notin T
  <2>1. Len(q) \in p..Len(q)
    BY <1>3
  <2> HIDE DEF T
  <2> QED
    BY <1>6, <2>1
<1> QED
  BY <1>1, <1>2, <1>3, <1>7

-----------------------------------------------------------------------------
(* What a step leaves alone. *)

LEMMA Typed ==
    ASSUME TypeOK
    PROVE  /\ \A t \in Thread : thread[t] \in ThreadType
           /\ \A w \in Worker : worker[w] \in WorkerType
           /\ \A s \in Session : lane[s] \in LaneType
           /\ \A r \in Request : req[r] \in ReqType
BY DEF TypeOK

LEMMA Scripted ==
    ASSUME NEW t \in Thread, NEW i \in 1..Len(Script[t])
    PROVE  /\ Script[t] \in Seq(Request) /\ Script[t][i] \in Request
           /\ \A u \in Thread : \A j \in 1..Len(Script[u]) :
                Script[t][i] = Script[u][j] => t = u /\ i = j
BY ScriptAssumption

LEMMA HeldTyped ==
    ASSUME TypeOK, Shapes, NEW w \in Worker, worker[w].jobs # <<>>
    PROVE  LET r == worker[w].jobs[1] IN
           r \in Request /\ Holds(w, r) /\ Lane(r) \in Session
<1>1. worker[w].jobs \in Seq(Request)
  BY Typed DEF WorkerType
<1>2. Len(worker[w].jobs) >= 1 /\ 1 \in 1..Len(worker[w].jobs)
  BY <1>1
<1>3. worker[w].jobs[1] \in Request
  BY <1>1, <1>2
<1> QED
  BY <1>2, <1>3, JobTyped DEF Holds

\* An operation in hand is the one job of its worker.
LEMMA OpHeld ==
    ASSUME TypeOK, Shapes, NEW w \in Worker, worker[w].pc \in OpSteps
    PROVE  LET r == worker[w].jobs[1] IN
           /\ r \in Request /\ Lane(r) \in Session /\ IsOp(r)
           /\ worker[w].jobs = <<r>> /\ Holds(w, r)
           /\ \A q \in Request : Holds(w, q) => q = r
<1>1. worker[w].jobs \in Seq(Request) /\ Len(worker[w].jobs) = 1 /\ IsOp(worker[w].jobs[1])
  BY Typed DEF WorkerType, Shapes, Shape
<1>2. worker[w].jobs # <<>> /\ worker[w].jobs = <<worker[w].jobs[1]>>
  BY <1>1
<1>3. \A q \in Request : Holds(w, q) => q = worker[w].jobs[1]
  BY <1>1 DEF Holds
<1> QED
  BY <1>1, <1>2, <1>3, HeldTyped

LEMMA LaneUpdated ==
    ASSUME TypeOK, NEW s \in Session, NEW l \in LaneType, lane' = [lane EXCEPT ![s] = l]
    PROVE  /\ lane' \in [Session -> LaneType] /\ lane'[s] = l
           /\ \A u \in Session \ {s} : lane'[u] = lane[u]
BY DEF TypeOK

LEMMA RequestUpdated ==
    ASSUME TypeOK, NEW r \in Request, NEW q \in ReqType, req' = [req EXCEPT ![r] = q]
    PROVE  /\ req' \in [Request -> ReqType] /\ req'[r] = q
           /\ \A u \in Request \ {r} : req'[u] = req[u]
BY DEF TypeOK

LEMMA WorkerUpdated ==
    ASSUME TypeOK, NEW w \in Worker, NEW x \in WorkerType, worker' = [worker EXCEPT ![w] = x]
    PROVE  /\ worker' \in [Worker -> WorkerType] /\ worker'[w] = x
           /\ \A v \in Worker \ {w} : worker'[v] = worker[v]
BY DEF TypeOK

\* A worker goes from one resting step, or one step of a batch, to another.
QuietMove(v) ==
    /\ worker'[v].jobs = worker[v].jobs
    /\ \/ worker'[v].pc = worker[v].pc /\ worker'[v].out = worker[v].out
       \/ worker[v].pc \in Resting /\ worker'[v].pc \in Resting
       \/ worker[v].pc \in Batching /\ worker'[v].pc \in Batching \cup {"deliver"}

LEMMA QuietWorkers ==
    ASSUME TypeOK, Shapes, \A v \in Worker : QuietMove(v)
    PROVE  /\ Shapes'
           /\ \A v \in Worker, step \in OpSteps : worker'[v].pc = step <=> worker[v].pc = step
           /\ \A v \in Worker : HasTurn(v)' <=> HasTurn(v)
           /\ \A v \in Worker, r \in Request : Holds(v, r)' <=> Holds(v, r)
           /\ \A v \in Worker, r \in Request :
                Holds(v, r) /\ IsOp(r) => worker'[v].out = worker[v].out
           /\ \A r \in Request : ClaimedIn(r, {"waiting", "turn", "executed"})' <=>
                                 ClaimedIn(r, {"waiting", "turn", "executed"})
<1>1. ASSUME NEW v \in Worker PROVE Shape(worker[v])'
  BY DEF Shapes, Shape, QuietMove, Resting, Batching, OpSteps, Running
<1>2. \A v \in Worker, step \in OpSteps : worker'[v].pc = step <=> worker[v].pc = step
  BY DEF QuietMove, Resting, Batching, OpSteps, Running
<1>3. \A v \in Worker, r \in Request : Holds(v, r)' <=> Holds(v, r)
  BY DEF Holds, QuietMove
<1>4. \A v \in Worker : worker'[v].jobs = worker[v].jobs
  BY DEF QuietMove
<1>5. ASSUME NEW v \in Worker, NEW r \in Request, Holds(v, r), IsOp(r)
      PROVE  worker'[v].out = worker[v].out
  <2>1. worker[v].pc \notin Resting
    BY <1>5, Typed DEF Holds, Shapes, Shape, WorkerType
  <2>2. worker[v].pc \notin Batching
    BY <1>5 DEF Holds, Shapes, Shape
  <2> QED
    BY <2>1, <2>2 DEF QuietMove
<1> QED
  BY <1>1, <1>2, <1>3, <1>4, <1>5 DEF Shapes, HasTurn, OpSteps, Running, ClaimedIn

\* The parts that do not look at the steps of a worker's batch.
TicketsKept ==
    /\ \A r \in Request : req'[r].accepted = req[r].accepted /\ req'[r].ticket = req[r].ticket
    /\ \A s \in Session : lane'[s].issued = lane[s].issued

LEMMA OrderFrame ==
    ASSUME Order, UNCHANGED thread, TicketsKept
    PROVE  Order'
<1>1. \A t \in Thread : \A i \in 1..Len(Script[t]) :
        /\ Script[t][i] \in Request /\ Lane(Script[t][i]) \in Session
        /\ HasTicket(t, i)' <=> HasTicket(t, i)
  BY Scripted, JobTyped DEF HasTicket, TicketsKept
<1> QED
  BY <1>1, ZenonT(30) DEF Order, TicketsKept

\* The slots of everything but the operations in `rs` and their sessions.
SlotsKept(rs) ==
    /\ \A q \in Request \ rs : IsOp(q) => (Holding(q)' <=> Holding(q))
    /\ \A s \in Session \ {Lane(q) : q \in rs} : lane'[s].pending = lane[s].pending

LEMMA SlotsFrame ==
    ASSUME Slots, SlotsKept({})
    PROVE  Slots'
<1>1. ASSUME NEW s \in Session PROVE SlotsOf(s)'
  <2>1. Holders(s)' = Holders(s)
    BY DEF Holders, SlotsKept
  <2> QED
    BY <2>1 DEF Slots, SlotsOf, SlotsKept
<1> QED
  BY <1>1 DEF Slots

\* One operation takes a slot, or gives one back.
LEMMA SlotTaken ==
    ASSUME Slots, NEW r \in Request, IsOp(r), ~Holding(r), Holding(r)',
           lane[Lane(r)].pending < MaxSessionRequests,
           SlotsKept({r}), lane'[Lane(r)].pending = lane[Lane(r)].pending + 1
    PROVE  Slots'
<1>1. ASSUME NEW s \in Session \ {Lane(r)} PROVE SlotsOf(s)'
  <2>1. Holders(s)' = Holders(s) /\ lane'[s].pending = lane[s].pending
    BY DEF Holders, SlotsKept
  <2> QED
    BY <2>1 DEF Slots, SlotsOf
<1>2. SlotsOf(Lane(r))'
  <2>1. Lane(r) \in Session /\ SlotsOf(Lane(r))
    BY JobTyped DEF Slots
  <2>2. Holders(Lane(r))' = Holders(Lane(r)) \cup {r} /\ r \notin Holders(Lane(r))
    BY DEF Holders, SlotsKept
  <2>3. /\ IsFiniteSet(Holders(Lane(r)) \cup {r})
        /\ Cardinality(Holders(Lane(r)) \cup {r}) = Cardinality(Holders(Lane(r))) + 1
        /\ Cardinality(Holders(Lane(r))) \in Nat
    BY <2>1, <2>2, FS_AddElement, FS_CardinalityType DEF SlotsOf
  <2> QED
    BY <2>1, <2>2, <2>3, LimitsAssumption DEF SlotsOf, ValidLimits
<1> QED
  BY <1>1, <1>2 DEF Slots

LEMMA SlotFreed ==
    ASSUME Slots, NEW r \in Request, IsOp(r), Holding(r), ~Holding(r)',
           SlotsKept({r}), lane'[Lane(r)].pending = lane[Lane(r)].pending - 1
    PROVE  Slots'
<1>1. ASSUME NEW s \in Session \ {Lane(r)} PROVE SlotsOf(s)'
  <2>1. Holders(s)' = Holders(s) /\ lane'[s].pending = lane[s].pending
    BY DEF Holders, SlotsKept
  <2> QED
    BY <2>1 DEF Slots, SlotsOf
<1>2. SlotsOf(Lane(r))'
  <2>1. Lane(r) \in Session /\ SlotsOf(Lane(r))
    BY JobTyped DEF Slots
  <2>2. Holders(Lane(r))' = Holders(Lane(r)) \ {r} /\ r \in Holders(Lane(r))
    BY DEF Holders, SlotsKept
  <2>3. /\ IsFiniteSet(Holders(Lane(r)) \ {r})
        /\ Cardinality(Holders(Lane(r)) \ {r}) = Cardinality(Holders(Lane(r))) - 1
        /\ Cardinality(Holders(Lane(r))) \in Nat
    BY <2>1, <2>2, FS_RemoveElement, FS_CardinalityType DEF SlotsOf
  <2> QED
    BY <2>1, <2>2, <2>3, LimitsAssumption DEF SlotsOf, ValidLimits
<1> QED
  BY <1>1, <1>2 DEF Slots

\* A request that nobody enqueued is nowhere, and one that was is past its
\* submission.
LEMMA Unaccepted ==
    ASSUME IInv, NEW r \in Request, ~req[r].accepted
    PROVE  /\ ~InQueue(r) /\ ~Applied(r) /\ \A w \in Worker : ~Holds(w, r)
           /\ \A steps \in SUBSET OpSteps : ~ClaimedIn(r, steps)
<1>1. ~InQueue(r) /\ \A w \in Worker : ~Holds(w, r)
  BY DEF IInv, Effects, EffectsOf
<1>2. ~Applied(r)
  <2>1. Lane(r) \in Session
    BY JobTyped
  <2>2. ~req[r].started
    BY DEF IInv, Effects, EffectsOf, Untouched
  <2> QED
    BY <2>1, <2>2 DEF IInv, Lanes, LaneSound, Applied
<1>3. ASSUME NEW w \in Worker, worker[w].jobs = <<r>> PROVE Holds(w, r)
  BY <1>3 DEF Holds
<1> QED
  BY <1>1, <1>2, <1>3 DEF ClaimedIn

-----------------------------------------------------------------------------
(* Submission. *)

\* A submission moves no job and no worker, touches only requests that are
\* not accepted yet, and moves a sequencer only when nobody has its turn.
LEMMA SubmitFrame ==
    ASSUME IInv, TypeOK', Order', Slots', UNCHANGED <<worker, queue, queuedBytes>>,
           \A r \in Request :
              /\ req'[r].accepted = req[r].accepted /\ req'[r].started = req[r].started
              /\ req'[r].result = req[r].result
              /\ req[r].accepted => req'[r].ticket = req[r].ticket,
           \A s \in Session :
              /\ lane'[s].applied = lane[s].applied /\ IsFiniteSet(lane'[s].cancelled)
              /\ lane'[s].next >= lane[s].next
              /\ TurnHeld(s) => lane'[s].next = lane[s].next
    PROVE  IInv'
<1>1. Shapes' /\ Once' /\ Charged'
  BY DEF IInv, Shapes, Shape, Once, Holds, InQueue, Charged
<1>2. \A r \in Request : Lane(r) \in Session /\ (Applied(r)' <=> Applied(r))
  BY JobTyped DEF Applied
<1>3. Effects'
  BY <1>2 DEF IInv, Effects, EffectsOf, Untouched, InQueue, Holds
<1>4. ASSUME NEW w \in Worker, HasTurn(w)
      PROVE  LET r == worker[w].jobs[1] IN
             /\ r \in Request /\ Lane(r) \in Session /\ TurnHeld(Lane(r)) /\ req[r].accepted
  <2> DEFINE r == worker[w].jobs[1]
  <2>1. r \in Request /\ Lane(r) \in Session /\ Holds(w, r)
    BY <1>4, OpHeld DEF IInv, HasTurn, OpSteps
  <2>2. req[r].accepted
    BY <2>1 DEF IInv, Effects, EffectsOf
  <2> QED
    BY <1>4, <2>1, <2>2 DEF TurnHeld, HasTurn, Running
<1>5. Turns'
  BY <1>4 DEF IInv, Turns, HasTurn
<1>6. ASSUME NEW s \in Session PROVE LaneSound(s)'
  <2> DEFINE a == lane[s].applied
  <2>1. LaneSound(s) /\ lane'[s].applied = a /\ IsFiniteSet(lane'[s].cancelled)
    BY DEF IInv, Lanes
  <2>2. a \in Seq(Request) /\ lane[s].next \in Nat /\ lane'[s].next \in Nat
    BY Typed DEF IInv, TypeOK, LaneType
  <2>3. \A i \in 1..Len(a) : a[i] \in Request /\ req[a[i]].started
    BY <2>1, <2>2 DEF LaneSound
  <2>4. \A i \in 1..Len(a) : req[a[i]].accepted
    BY <2>3 DEF IInv, Effects, EffectsOf, Untouched
  <2>5. \A i \in 1..Len(a) : /\ req'[a[i]].ticket = req[a[i]].ticket
                             /\ req'[a[i]].started = req[a[i]].started
                             /\ req[a[i]].ticket \in Nat
    BY <2>3, <2>4, Typed DEF IInv, ReqType
  <2>6. \A i \in 1..Len(a) : req[a[i]].ticket < lane[s].next => req'[a[i]].ticket < lane'[s].next
    BY <2>2, <2>5
  <2> QED
    BY <2>1, <2>5, <2>6 DEF LaneSound
<1> QED
  BY <1>1, <1>3, <1>5, <1>6 DEF IInv, Lanes

\* The same for a submission step that leaves sequencers and applied operations alone.
LEMMA SubmitKeeps ==
    ASSUME IInv, TypeOK', Order', Slots', UNCHANGED <<worker, queue, queuedBytes>>,
           \A r \in Request :
              /\ req'[r].accepted = req[r].accepted /\ req'[r].started = req[r].started
              /\ req'[r].result = req[r].result
              /\ req[r].accepted => req'[r].ticket = req[r].ticket,
           \A s \in Session :
              /\ lane'[s].applied = lane[s].applied /\ lane'[s].cancelled = lane[s].cancelled
              /\ lane'[s].next = lane[s].next
    PROVE  IInv'
<1>1. ASSUME NEW s \in Session
      PROVE  IsFiniteSet(lane[s].cancelled) /\ lane[s].next \in Nat
  <2>1. LaneSound(s) /\ lane[s] \in LaneType
    BY Typed DEF IInv, Lanes
  <2> QED
    BY <2>1 DEF LaneSound, LaneType
<1>2. \A s \in Session :
         /\ lane'[s].applied = lane[s].applied /\ IsFiniteSet(lane'[s].cancelled)
         /\ lane'[s].next >= lane[s].next
         /\ TurnHeld(s) => lane'[s].next = lane[s].next
  BY <1>1
<1> QED
  BY <1>2, SubmitFrame

\* Where a thread stands decides which operation it holds a slot for.
HoldSteps == {"ticket", "enqueue", "rollback"}
HoldsAt(x, t, r) ==
    x.at <= Len(Script[t]) /\ x.pc \in HoldSteps /\ Script[t][x.at] = r
Elsewhere(t, r) ==
    \/ \E u \in Thread \ {t} : HoldsAt(thread[u], u, r)
    \/ InQueue(r)
    \/ ClaimedIn(r, {"waiting", "turn", "executed"})

LEMMA HoldingAt ==
    ASSUME NEW t \in Thread, NEW r
    PROVE  Holding(r) <=> HoldsAt(thread[t], t, r) \/ Elsewhere(t, r)
BY DEF Holding, SubmittingIn, AtStep, Submitting, HoldsAt, HoldSteps, Elsewhere

LEMMA Moved ==
    ASSUME TypeOK, NEW t \in Thread, NEW x, thread' = [thread EXCEPT ![t] = x],
           UNCHANGED <<worker, queue>>
    PROVE  /\ \A r \in Request : Holding(r)' <=> HoldsAt(x, t, r) \/ Elsewhere(t, r)
           /\ \A r \in Request : Holding(r) <=> HoldsAt(thread[t], t, r) \/ Elsewhere(t, r)
           /\ thread'[t] = x /\ \A u \in Thread \ {t} : thread'[u] = thread[u]
<1>1. thread'[t] = x /\ \A u \in Thread \ {t} : thread'[u] = thread[u]
  BY DEF TypeOK
<1>2. ASSUME NEW r \in Request PROVE Elsewhere(t, r)' <=> Elsewhere(t, r)
  BY <1>1 DEF Elsewhere, InQueue, ClaimedIn, HoldsAt
<1>3. \A r \in Request : HoldsAt(thread[t], t, r)' <=> HoldsAt(x, t, r)
  BY <1>1 DEF HoldsAt
<1>4. ASSUME NEW r \in Request
      PROVE  Holding(r)' <=> HoldsAt(thread[t], t, r)' \/ Elsewhere(t, r)'
  BY DEF Holding, SubmittingIn, AtStep, Submitting, HoldsAt, HoldSteps, Elsewhere
<1> QED
  BY <1>1, <1>2, <1>3, <1>4, HoldingAt

\* What a thread is submitting is nowhere else.
LEMMA Submission ==
    ASSUME IInv, NEW t \in Thread, NEW step, AtStep(t, step)
    PROVE  LET r == Submitting(t)
               i == thread[t].at
           IN  /\ i \in 1..Len(Script[t]) /\ r \in Request /\ Lane(r) \in Session
               /\ thread[t] \in ThreadType /\ ~req[r].accepted /\ ~Elsewhere(t, r)
               /\ lane[Lane(r)] \in LaneType /\ req[r] \in ReqType
<1> DEFINE r == Submitting(t)
           i == thread[t].at
<1>1. thread[t] \in ThreadType
  BY Typed DEF IInv
<1>2. i \in 1..Len(Script[t])
  BY <1>1, ScriptAssumption DEF AtStep, ThreadType
<1>3. r \in Request /\ Lane(r) \in Session
  BY <1>2, Scripted, JobTyped DEF Submitting
<1>4. ~req[r].accepted
  BY <1>1, <1>2 DEF IInv, Order, Submitting, ThreadType
<1>5. ~InQueue(r) /\ ~ClaimedIn(r, {"waiting", "turn", "executed"})
  BY <1>3, <1>4, Unaccepted DEF OpSteps, Running
<1>6. ASSUME NEW u \in Thread \ {t} PROVE ~HoldsAt(thread[u], u, r)
  <2>1. thread[u].at \in Nat \ {0} /\ Script[u] \in Seq(Request)
    BY Typed, ScriptAssumption DEF IInv, ThreadType
  <2>2. thread[u].at <= Len(Script[u]) => thread[u].at \in 1..Len(Script[u])
    BY <2>1
  <2>3. thread[u].at <= Len(Script[u]) => Script[u][thread[u].at] # r
    BY <1>2, <2>2, Scripted DEF Submitting
  <2> QED
    BY <2>3 DEF HoldsAt
<1> QED
  BY <1>1, <1>2, <1>3, <1>4, <1>5, <1>6, Typed DEF Elsewhere, IInv

\* The order survives when a thread moves on without a ticket.
LEMMA OrderMoved ==
    ASSUME IInv, NEW t \in Thread, NEW x \in ThreadType, thread' = [thread EXCEPT ![t] = x],
           x.at >= thread[t].at, TicketsKept,
           x.pc \in Ticketed =>
              x.at = thread[t].at /\ (thread[t].pc \in Ticketed \/ ~IsOp(Script[t][x.at])),
           x.at \in 1..Len(Script[t]) /\ x.pc \in {"ticket", "rollback", "cancel"} =>
              IsOp(Script[t][x.at])
    PROVE  Order'
<1>1. \A u \in Thread \ {t} : thread'[u] = thread[u]
  BY DEF IInv, TypeOK
<1>2. thread'[t] = x
  BY DEF IInv, TypeOK
<1>3. \A u \in Thread : \A i \in 1..Len(Script[u]) :
        Script[u][i] \in Request /\ Lane(Script[u][i]) \in Session
  BY Scripted, JobTyped
<1>4. \A u \in Thread : \A i \in 1..Len(Script[u]) :
        IsOp(Script[u][i]) /\ HasTicket(u, i)' => HasTicket(u, i)
  BY <1>1, <1>2, <1>3 DEF HasTicket, TicketsKept
<1>5. thread[t].at \in Nat /\ x.at \in Nat
  BY Typed DEF IInv, ThreadType
<1>6. \A u \in Thread : \A i \in 1..Len(Script[u]) :
        i >= thread'[u].at => i >= thread[u].at
  BY <1>1, <1>2, <1>5
<1> USE DEF TicketsKept
<1>7. ASSUME NEW u \in Thread, NEW i \in 1..Len(Script[u])
      PROVE  /\ i >= thread'[u].at => ~req'[Script[u][i]].accepted
             /\ i = thread'[u].at /\ thread'[u].pc \in {"ticket", "rollback", "cancel"} =>
                  IsOp(Script[u][i])
             /\ HasTicket(u, i)' /\ IsOp(Script[u][i]) =>
                  req'[Script[u][i]].ticket < lane'[Lane(Script[u][i])].issued
  <2>1. i >= thread'[u].at => ~req'[Script[u][i]].accepted
    BY <1>3, <1>6 DEF IInv, Order
  <2>2. i = thread'[u].at /\ thread'[u].pc \in {"ticket", "rollback", "cancel"} =>
          IsOp(Script[u][i])
    BY <1>1, <1>2 DEF IInv, Order
  <2>3. HasTicket(u, i)' /\ IsOp(Script[u][i]) =>
          req'[Script[u][i]].ticket < lane'[Lane(Script[u][i])].issued
    BY <1>3, <1>4 DEF IInv, Order
  <2> QED
    BY <2>1, <2>2, <2>3
<1>8. ASSUME NEW u \in Thread, NEW i \in 1..Len(Script[u]), NEW j \in 1..Len(Script[u]),
             i < j, IsOp(Script[u][i]), IsOp(Script[u][j]),
             Lane(Script[u][i]) = Lane(Script[u][j]),
             req'[Script[u][i]].accepted, HasTicket(u, j)'
      PROVE  req'[Script[u][i]].ticket < req'[Script[u][j]].ticket
  BY <1>3, <1>4, <1>8 DEF IInv, Order
<1> QED
  BY <1>7, <1>8 DEF Order

LEMMA PickDeviceStep ==
    ASSUME IInv, NEW t \in Thread, PickDevice(t)
    PROVE  IInv'
<1> DEFINE r == Submitting(t)
           x == [thread[t] EXCEPT !.pc = "enqueue"]
<1>1. /\ thread[t] \in ThreadType /\ r \in Request /\ ~IsOp(r) /\ thread[t].pc = "ready"
      /\ thread[t].at \in 1..Len(Script[t])
  BY Submission DEF PickDevice, AtStep
<1>2. thread' = [thread EXCEPT ![t] = x]
  BY <1>1 DEF PickDevice, Go, IInv, TypeOK
<1>3. x \in ThreadType /\ x.pc = "enqueue" /\ x.at = thread[t].at
  BY <1>1 DEF ThreadType, Ticketed
<1> HIDE DEF x
<1>4. nextDevice \in Nat /\ Route \in Nat
  BY LimitsAssumption DEF IInv, TypeOK, Route
<1>5. /\ req' \in [Request -> ReqType]
      /\ \A q \in Request :
            /\ req'[q].accepted = req[q].accepted /\ req'[q].started = req[q].started
            /\ req'[q].result = req[q].result /\ req'[q].ticket = req[q].ticket
  <2>1. req' = [req EXCEPT ![r].device = Route] /\ req \in [Request -> ReqType]
    BY DEF PickDevice, IInv, TypeOK
  <2> QED
    BY <1>4, <2>1, ZenonT(30) DEF ReqType
<1>6. TypeOK'
  BY <1>2, <1>3, <1>4, <1>5 DEF PickDevice, IInv, TypeOK
<1>7. Order'
  <2>1. TicketsKept
    BY <1>5 DEF PickDevice, TicketsKept
  <2>2. x.at >= thread[t].at /\ ~IsOp(Script[t][x.at])
    BY <1>1, <1>3 DEF Submitting
  <2> QED
    BY <1>2, <1>3, <2>1, <2>2, OrderMoved
<1>8. Slots'
  <2>1. \A q \in Request : IsOp(q) => ~HoldsAt(x, t, q) /\ ~HoldsAt(thread[t], t, q)
    BY <1>1, <1>3 DEF HoldsAt, Submitting
  <2>2. SlotsKept({})
    BY <1>2, <2>1, Moved DEF PickDevice, IInv, SlotsKept
  <2> QED
    BY <2>2, SlotsFrame DEF IInv
<1> QED
  BY <1>5, <1>6, <1>7, <1>8, SubmitKeeps DEF PickDevice

LEMMA ReserveSlotStep ==
    ASSUME IInv, NEW t \in Thread, ReserveSlot(t)
    PROVE  IInv'
<1> DEFINE x == [thread[t] EXCEPT !.pc = "ticket"]
<1>1. PICK r \in Request :
        /\ r = Submitting(t) /\ Lane(r) \in Session /\ IsOp(r) /\ ~Elsewhere(t, r)
        /\ thread[t] \in ThreadType /\ thread[t].pc = "ready"
        /\ thread[t].at \in 1..Len(Script[t]) /\ lane[Lane(r)] \in LaneType
  BY Submission DEF ReserveSlot, AtStep
<1> DEFINE l == [lane[Lane(r)] EXCEPT !.pending = @ + 1]
<1>2. /\ thread' = [thread EXCEPT ![t] = x] /\ lane' = [lane EXCEPT ![Lane(r)] = l]
      /\ lane[Lane(r)].pending < MaxSessionRequests /\ TypeOK
      /\ UNCHANGED <<worker, queue, queuedBytes, shutdown, nextDevice, req>>
  BY <1>1 DEF ReserveSlot, Go, IInv, TypeOK
<1>3. x \in ThreadType /\ x.pc = "ticket" /\ x.at = thread[t].at
  BY <1>1 DEF ThreadType
<1>4. /\ l \in LaneType /\ l.pending = lane[Lane(r)].pending + 1
      /\ l.issued = lane[Lane(r)].issued /\ l.next = lane[Lane(r)].next
      /\ l.cancelled = lane[Lane(r)].cancelled /\ l.applied = lane[Lane(r)].applied
  BY <1>1 DEF LaneType
<1> HIDE DEF x, l
<1>5. /\ lane' \in [Session -> LaneType] /\ lane'[Lane(r)] = l
      /\ \A u \in Session \ {Lane(r)} : lane'[u] = lane[u]
  BY <1>1, <1>2, <1>4, LaneUpdated
<1>6. TypeOK'
  BY <1>2, <1>3, <1>5 DEF TypeOK
<1>7. Order'
  <2>1. TicketsKept
    BY <1>2, <1>4, <1>5 DEF TicketsKept
  <2>2. x.at >= thread[t].at /\ IsOp(Script[t][x.at]) /\ x.pc \notin Ticketed
    BY <1>1, <1>3 DEF Submitting, Ticketed
  <2> QED
    BY <1>2, <1>3, <2>1, <2>2, OrderMoved
<1>8. Slots'
  <2>1. /\ HoldsAt(x, t, r)
        /\ \A q \in Request : ~HoldsAt(thread[t], t, q) /\ (HoldsAt(x, t, q) => q = r)
    BY <1>1, <1>3 DEF HoldsAt, HoldSteps, Submitting
  <2>2. \A q \in Request : Holding(q)' <=> HoldsAt(x, t, q) \/ Elsewhere(t, q)
    BY <1>2, Moved
  <2>3. \A q \in Request : Holding(q) <=> HoldsAt(thread[t], t, q) \/ Elsewhere(t, q)
    BY HoldingAt
  <2>4. ~Holding(r) /\ Holding(r)'
    BY <1>1, <2>1, <2>2, <2>3
  <2>5. \A q \in Request \ {r} : Holding(q)' <=> Holding(q)
    BY <2>1, <2>2, <2>3
  <2>6. SlotsKept({r})
    BY <1>1, <1>5, <2>5 DEF SlotsKept
  <2> QED
    BY <1>1, <1>2, <1>4, <1>5, <2>4, <2>6, SlotTaken DEF IInv
<1> QED
  BY <1>2, <1>4, <1>5, <1>6, <1>7, <1>8, SubmitKeeps

LEMMA SlotRefusedStep ==
    ASSUME IInv, NEW t \in Thread, SlotRefused(t)
    PROVE  IInv'
<1> DEFINE x == [pc |-> "ready", at |-> thread[t].at + 1]
<1>1. thread[t] \in ThreadType /\ thread[t].pc = "ready"
  BY Submission DEF SlotRefused, AtStep
<1>2. /\ thread' = [thread EXCEPT ![t] = x] /\ TypeOK
      /\ UNCHANGED <<worker, queue, queuedBytes, shutdown, nextDevice, lane, req>>
  BY <1>1 DEF SlotRefused, SubmitReturns, IInv, TypeOK
<1>3. x \in ThreadType /\ x.pc = "ready" /\ x.at >= thread[t].at
  BY <1>1 DEF ThreadType
<1> HIDE DEF x
<1>4. TypeOK'
  BY <1>2, <1>3 DEF TypeOK
<1>5. Order'
  <2>1. TicketsKept
    BY <1>2 DEF TicketsKept
  <2>2. x.pc \notin Ticketed /\ x.pc \notin {"ticket", "rollback", "cancel"}
    BY <1>3 DEF Ticketed
  <2> QED
    BY <1>2, <1>3, <2>1, <2>2, OrderMoved
<1>6. Slots'
  <2>1. \A q \in Request : ~HoldsAt(thread[t], t, q) /\ ~HoldsAt(x, t, q)
    BY <1>1, <1>3 DEF HoldsAt, HoldSteps
  <2>2. \A q \in Request : Holding(q)' <=> HoldsAt(x, t, q) \/ Elsewhere(t, q)
    BY <1>2, Moved
  <2>3. \A q \in Request : Holding(q) <=> HoldsAt(thread[t], t, q) \/ Elsewhere(t, q)
    BY HoldingAt
  <2>4. SlotsKept({})
    BY <1>2, <2>1, <2>2, <2>3 DEF SlotsKept
  <2> QED
    BY <2>4, SlotsFrame DEF IInv
<1> QED
  BY <1>2, <1>4, <1>5, <1>6, SubmitKeeps

\* A ticket is drawn after those of all earlier submissions.
LEMMA ReserveTicketStep ==
    ASSUME IInv, NEW t \in Thread, ReserveTicket(t)
    PROVE  IInv'
<1> DEFINE x == [thread[t] EXCEPT !.pc = "enqueue"]
           k == thread[t].at
<1>1. PICK r \in Request :
        /\ r = Submitting(t) /\ Lane(r) \in Session /\ ~Elsewhere(t, r) /\ ~req[r].accepted
        /\ thread[t] \in ThreadType /\ thread[t].pc = "ticket"
        /\ k \in 1..Len(Script[t]) /\ lane[Lane(r)] \in LaneType /\ req[r] \in ReqType
  BY Submission DEF ReserveTicket, AtStep
<1> DEFINE l == [lane[Lane(r)] EXCEPT !.issued = @ + 1]
           q0 == [req[r] EXCEPT !.ticket = lane[Lane(r)].issued]
<1>2. /\ thread' = [thread EXCEPT ![t] = x] /\ lane' = [lane EXCEPT ![Lane(r)] = l]
      /\ req' = [req EXCEPT ![r] = q0] /\ TypeOK
      /\ UNCHANGED <<worker, queue, queuedBytes, shutdown, nextDevice>>
  BY <1>1 DEF ReserveTicket, Go, IInv, TypeOK
<1>3. x \in ThreadType /\ x.pc = "enqueue" /\ x.at = k /\ k \in Nat
  BY <1>1 DEF ThreadType, Ticketed
<1>4. /\ l \in LaneType /\ l.pending = lane[Lane(r)].pending
      /\ l.issued = lane[Lane(r)].issued + 1 /\ l.next = lane[Lane(r)].next
      /\ l.cancelled = lane[Lane(r)].cancelled /\ l.applied = lane[Lane(r)].applied
      /\ lane[Lane(r)].issued \in Nat
  BY <1>1 DEF LaneType
<1>5. /\ q0 \in ReqType /\ q0.ticket = lane[Lane(r)].issued /\ q0.accepted = req[r].accepted
      /\ q0.started = req[r].started /\ q0.result = req[r].result
  BY <1>1, <1>4 DEF ReqType
<1> HIDE DEF x, l, q0
<1>6. /\ lane' \in [Session -> LaneType] /\ lane'[Lane(r)] = l
      /\ \A u \in Session \ {Lane(r)} : lane'[u] = lane[u]
  BY <1>1, <1>2, <1>4, LaneUpdated
<1>7. /\ req' \in [Request -> ReqType] /\ req'[r] = q0
      /\ \A u \in Request \ {r} : req'[u] = req[u]
  BY <1>2, <1>5, RequestUpdated
<1>8. TypeOK'
  BY <1>2, <1>3, <1>6, <1>7 DEF TypeOK
<1>9. IsOp(r)
  BY <1>1 DEF IInv, Order, Submitting
<1>10. Order'
  <2>1. thread'[t] = x /\ \A u \in Thread \ {t} : thread'[u] = thread[u]
    BY <1>2 DEF TypeOK
  <2>2. ASSUME NEW u \in Thread, NEW i \in 1..Len(Script[u])
        PROVE  /\ Script[u][i] \in Request /\ Lane(Script[u][i]) \in Session
               /\ Script[u][i] = r <=> u = t /\ i = k
    BY <1>1, Scripted, JobTyped DEF Submitting
  <2>3. ASSUME NEW u \in Thread, NEW i \in 1..Len(Script[u]), ~(u = t /\ i = k)
        PROVE  /\ req'[Script[u][i]] = req[Script[u][i]]
               /\ HasTicket(u, i)' <=> HasTicket(u, i)
    BY <1>3, <1>7, <2>1, <2>2, <2>3 DEF HasTicket
  <2>4. ASSUME NEW s \in Session
        PROVE  /\ lane'[s].issued >= lane[s].issued
               /\ lane[s].issued \in Nat /\ lane'[s].issued \in Nat
    <3>1. lane[s].issued \in Nat
      BY Typed DEF IInv, LaneType
    <3>2. lane'[s].issued = lane[s].issued \/ lane'[s].issued = lane[s].issued + 1
      BY <1>4, <1>6
    <3> QED
      BY <3>1, <3>2
  <2>5. ASSUME NEW u \in Thread, NEW i \in 1..Len(Script[u])
        PROVE  /\ i >= thread'[u].at => ~req'[Script[u][i]].accepted
               /\ i = thread'[u].at /\ thread'[u].pc \in {"ticket", "rollback", "cancel"} =>
                    IsOp(Script[u][i])
               /\ HasTicket(u, i)' /\ IsOp(Script[u][i]) =>
                    req'[Script[u][i]].ticket < lane'[Lane(Script[u][i])].issued
    <3>1. CASE u = t /\ i = k
      BY <1>1, <1>3, <1>4, <1>5, <1>6, <1>7, <1>9, <2>1, <2>2, <3>1
    <3>2. CASE ~(u = t /\ i = k)
      <4>1. req'[Script[u][i]] = req[Script[u][i]] /\ (HasTicket(u, i)' <=> HasTicket(u, i))
        BY <2>3, <3>2
      <4>2. req[Script[u][i]].ticket \in Nat
        BY <2>2, Typed DEF IInv, ReqType
      <4>3. thread'[u].at = thread[u].at /\ (u = t => thread'[u].pc = "enqueue")
        BY <1>3, <2>1
      <4>4. /\ i >= thread[u].at => ~req[Script[u][i]].accepted
            /\ HasTicket(u, i) /\ IsOp(Script[u][i]) =>
                 req[Script[u][i]].ticket < lane[Lane(Script[u][i])].issued
        BY DEF IInv, Order
      <4>5. HasTicket(u, i)' /\ IsOp(Script[u][i]) =>
              req'[Script[u][i]].ticket < lane'[Lane(Script[u][i])].issued
        BY <2>2, <2>4, <4>1, <4>2, <4>4
      <4>6. i = thread'[u].at /\ thread'[u].pc \in {"ticket", "rollback", "cancel"} =>
              IsOp(Script[u][i])
        BY <2>1, <4>3 DEF IInv, Order
      <4> QED
        BY <4>1, <4>3, <4>4, <4>5, <4>6
    <3> QED
      BY <3>1, <3>2
  <2>6. ASSUME NEW u \in Thread, NEW i \in 1..Len(Script[u]), NEW j \in 1..Len(Script[u]),
               i < j, IsOp(Script[u][i]), IsOp(Script[u][j]),
               Lane(Script[u][i]) = Lane(Script[u][j]),
               req'[Script[u][i]].accepted, HasTicket(u, j)'
        PROVE  req'[Script[u][i]].ticket < req'[Script[u][j]].ticket
    <3>1. ~(u = t /\ i = k)
      BY <1>1, <1>5, <1>7, <2>2, <2>6
    <3>2. req'[Script[u][i]] = req[Script[u][i]] /\ req[Script[u][i]].accepted
      BY <2>3, <2>6, <3>1
    <3>3. CASE u = t /\ j = k
      <4>1. Script[u][j] = r /\ req'[r].ticket = lane[Lane(r)].issued
        BY <1>5, <1>7, <2>2, <3>3
      <4>2. req[Script[u][i]].ticket < lane[Lane(Script[u][i])].issued
        BY <2>6, <3>2 DEF IInv, Order, HasTicket
      <4> QED
        BY <2>6, <3>2, <4>1, <4>2
    <3>4. CASE ~(u = t /\ j = k)
      <4>1. req'[Script[u][j]] = req[Script[u][j]] /\ HasTicket(u, j)
        BY <2>3, <2>6, <3>4
      <4> QED
        BY <2>6, <3>2, <4>1 DEF IInv, Order
    <3> QED
      BY <3>3, <3>4
  <2> QED
    BY <2>5, <2>6 DEF Order
<1>11. Slots'
  <2>1. \A q \in Request : HoldsAt(thread[t], t, q) <=> HoldsAt(x, t, q)
    BY <1>1, <1>3 DEF HoldsAt, HoldSteps
  <2>2. \A q \in Request : Holding(q)' <=> HoldsAt(x, t, q) \/ Elsewhere(t, q)
    BY <1>2, Moved
  <2>3. \A q \in Request : Holding(q) <=> HoldsAt(thread[t], t, q) \/ Elsewhere(t, q)
    BY HoldingAt
  <2>4. SlotsKept({})
    BY <1>4, <1>6, <2>1, <2>2, <2>3 DEF SlotsKept
  <2> QED
    BY <2>4, SlotsFrame DEF IInv
<1>12. \A q \in Request :
         /\ req'[q].accepted = req[q].accepted /\ req'[q].started = req[q].started
         /\ req'[q].result = req[q].result
         /\ req[q].accepted => req'[q].ticket = req[q].ticket
  BY <1>1, <1>5, <1>7
<1>13. \A s \in Session :
         /\ lane'[s].applied = lane[s].applied /\ lane'[s].cancelled = lane[s].cancelled
         /\ lane'[s].next = lane[s].next /\ lane[s].next \in Nat
  BY <1>4, <1>6, Typed DEF IInv, LaneType
<1> QED
  BY <1>2, <1>8, <1>10, <1>11, <1>12, <1>13, SubmitKeeps

LEMMA EnqueueRefusedStep ==
    ASSUME IInv, NEW t \in Thread, EnqueueRefused(t)
    PROVE  IInv'
<1> DEFINE x == IF IsOp(Submitting(t)) THEN [thread[t] EXCEPT !.pc = "rollback"]
                ELSE [pc |-> "ready", at |-> thread[t].at + 1]
<1>1. /\ thread[t] \in ThreadType /\ thread[t].pc = "enqueue"
      /\ thread[t].at \in 1..Len(Script[t])
  BY Submission DEF EnqueueRefused, AtStep
<1>2. /\ thread' = [thread EXCEPT ![t] = x] /\ TypeOK
      /\ UNCHANGED <<worker, queue, queuedBytes, shutdown, nextDevice, lane, req>>
  BY <1>1 DEF EnqueueRefused, SubmitReturns, Go, IInv, TypeOK
<1>3. /\ x \in ThreadType /\ x.at >= thread[t].at
      /\ IsOp(Submitting(t)) => x.pc = "rollback" /\ x.at = thread[t].at
      /\ ~IsOp(Submitting(t)) => x.pc = "ready"
  BY <1>1 DEF ThreadType, Ticketed
<1> HIDE DEF x
<1>4. TypeOK'
  BY <1>2, <1>3 DEF TypeOK
<1>5. Order'
  <2>1. TicketsKept
    BY <1>2 DEF TicketsKept
  <2>2. /\ x.pc \in Ticketed => x.at = thread[t].at /\ thread[t].pc \in Ticketed
        /\ x.pc \in {"ticket", "rollback", "cancel"} => IsOp(Script[t][x.at])
    BY <1>1, <1>3 DEF Ticketed, Submitting
  <2> QED
    BY <1>2, <1>3, <2>1, <2>2, OrderMoved
<1>6. Slots'
  <2>1. \A q \in Request : IsOp(q) => (HoldsAt(thread[t], t, q) <=> HoldsAt(x, t, q))
    BY <1>1, <1>3 DEF HoldsAt, HoldSteps, Submitting
  <2>2. \A q \in Request : Holding(q)' <=> HoldsAt(x, t, q) \/ Elsewhere(t, q)
    BY <1>2, Moved
  <2>3. \A q \in Request : Holding(q) <=> HoldsAt(thread[t], t, q) \/ Elsewhere(t, q)
    BY HoldingAt
  <2>4. SlotsKept({})
    BY <1>2, <2>1, <2>2, <2>3 DEF SlotsKept
  <2> QED
    BY <2>4, SlotsFrame DEF IInv
<1> QED
  BY <1>2, <1>4, <1>5, <1>6, SubmitKeeps

LEMMA GiveBackSlotStep ==
    ASSUME IInv, NEW t \in Thread, GiveBackSlot(t)
    PROVE  IInv'
<1> DEFINE x == [thread[t] EXCEPT !.pc = "cancel"]
<1>1. PICK r \in Request :
        /\ r = Submitting(t) /\ Lane(r) \in Session /\ ~Elsewhere(t, r)
        /\ thread[t] \in ThreadType /\ thread[t].pc = "rollback"
        /\ thread[t].at \in 1..Len(Script[t]) /\ lane[Lane(r)] \in LaneType
  BY Submission DEF GiveBackSlot, AtStep
<1> DEFINE l == [lane[Lane(r)] EXCEPT !.pending = @ - 1]
<1>2. /\ thread' = [thread EXCEPT ![t] = x] /\ lane' = [lane EXCEPT ![Lane(r)] = l] /\ TypeOK
      /\ UNCHANGED <<worker, queue, queuedBytes, shutdown, nextDevice, req>>
  BY <1>1 DEF GiveBackSlot, Go, IInv, TypeOK
<1>3. x \in ThreadType /\ x.pc = "cancel" /\ x.at = thread[t].at
  BY <1>1 DEF ThreadType, Ticketed
<1>4. /\ l \in LaneType /\ l.pending = lane[Lane(r)].pending - 1
      /\ l.issued = lane[Lane(r)].issued /\ l.next = lane[Lane(r)].next
      /\ l.cancelled = lane[Lane(r)].cancelled /\ l.applied = lane[Lane(r)].applied
  BY <1>1, SMTT(30) DEF LaneType
<1> HIDE DEF x, l
<1>5. /\ lane' \in [Session -> LaneType] /\ lane'[Lane(r)] = l
      /\ \A u \in Session \ {Lane(r)} : lane'[u] = lane[u]
  BY <1>1, <1>2, <1>4, LaneUpdated
<1>6. TypeOK'
  BY <1>2, <1>3, <1>5 DEF TypeOK
<1>7. IsOp(r)
  BY <1>1 DEF IInv, Order, Submitting
<1>8. Order'
  <2>1. TicketsKept
    BY <1>2, <1>4, <1>5 DEF TicketsKept
  <2>2. /\ x.at >= thread[t].at /\ x.at = thread[t].at /\ thread[t].pc \in Ticketed
        /\ IsOp(Script[t][x.at])
    BY <1>1, <1>3, <1>7 DEF Submitting, Ticketed
  <2> QED
    BY <1>2, <1>3, <2>1, <2>2, OrderMoved
<1>9. Slots'
  <2>1. /\ HoldsAt(thread[t], t, r)
        /\ \A q \in Request : ~HoldsAt(x, t, q) /\ (HoldsAt(thread[t], t, q) => q = r)
    BY <1>1, <1>3 DEF HoldsAt, HoldSteps, Submitting
  <2>2. \A q \in Request : Holding(q)' <=> HoldsAt(x, t, q) \/ Elsewhere(t, q)
    BY <1>2, Moved
  <2>3. \A q \in Request : Holding(q) <=> HoldsAt(thread[t], t, q) \/ Elsewhere(t, q)
    BY HoldingAt
  <2>4. Holding(r) /\ ~Holding(r)'
    BY <1>1, <2>1, <2>2, <2>3
  <2>5. \A q \in Request \ {r} : Holding(q)' <=> Holding(q)
    BY <2>1, <2>2, <2>3
  <2>6. SlotsKept({r})
    BY <1>1, <1>5, <2>5 DEF SlotsKept
  <2> QED
    BY <1>1, <1>4, <1>5, <1>7, <2>4, <2>6, SlotFreed DEF IInv
<1>10. \A s \in Session :
         /\ lane'[s].applied = lane[s].applied /\ lane'[s].cancelled = lane[s].cancelled
         /\ lane'[s].next = lane[s].next /\ lane[s].next \in Nat
  BY <1>4, <1>5, Typed DEF IInv, LaneType
<1> QED
  BY <1>2, <1>6, <1>8, <1>9, <1>10, SubmitKeeps

LEMMA Advanced ==
    ASSUME NEW l \in LaneType, IsFiniteSet(l.cancelled)
    PROVE  LET m == AdvanceCancelled(l) IN
           /\ m \in LaneType /\ m.next >= l.next /\ IsFiniteSet(m.cancelled)
           /\ m.pending = l.pending /\ m.issued = l.issued /\ m.applied = l.applied
<1> DEFINE n == FirstLive(l.next, l.cancelled)
           c == l.cancelled \ (l.next..(n - 1))
           m == [l EXCEPT !.next = n, !.cancelled = c]
<1>1. l.next \in Nat /\ l.cancelled \in SUBSET Nat
  BY DEF LaneType
<1>2. n \in Nat /\ n >= l.next
  BY <1>1, SequencerAdvances
<1>3. IsFiniteSet(c)
  BY FS_Subset
<1>4. AdvanceCancelled(l) = m
  BY DEF AdvanceCancelled
<1> HIDE DEF n
<1>5. c \in SUBSET Nat
  BY <1>1
<1> HIDE DEF c
<1>6. /\ m \in LaneType /\ m.next = n /\ m.cancelled = c
      /\ m.pending = l.pending /\ m.issued = l.issued /\ m.applied = l.applied
  BY <1>2, <1>5 DEF LaneType
<1> QED
  BY <1>2, <1>3, <1>4, <1>6

LEMMA CancelTicketStep ==
    ASSUME IInv, NEW t \in Thread, CancelTicket(t)
    PROVE  IInv'
<1> DEFINE x == [pc |-> "ready", at |-> thread[t].at + 1]
<1>1. PICK r \in Request :
        /\ r = Submitting(t) /\ Lane(r) \in Session /\ ~TurnHeld(Lane(r))
        /\ thread[t] \in ThreadType /\ thread[t].pc = "cancel"
        /\ lane[Lane(r)] \in LaneType /\ req[r] \in ReqType
  BY Submission DEF CancelTicket, AtStep
<1> DEFINE k == [lane[Lane(r)] EXCEPT !.cancelled = lane[Lane(r)].cancelled \cup {req[r].ticket}]
           l == AdvanceCancelled(k)
<1>2. /\ thread' = [thread EXCEPT ![t] = x] /\ lane' = [lane EXCEPT ![Lane(r)] = l] /\ TypeOK
      /\ UNCHANGED <<worker, queue, queuedBytes, shutdown, nextDevice, req>>
  <2>1. thread' = [thread EXCEPT ![t] = x] /\ TypeOK
    BY <1>1 DEF CancelTicket, SubmitReturns, IInv, TypeOK
  <2>2. lane' = [lane EXCEPT ![Lane(r)] = l]
    BY <1>1 DEF CancelTicket
  <2> QED
    BY <2>1, <2>2 DEF CancelTicket
<1>3. x \in ThreadType /\ x.pc = "ready" /\ x.at >= thread[t].at
  BY <1>1 DEF ThreadType
<1>4. /\ l \in LaneType /\ l.pending = lane[Lane(r)].pending
      /\ l.issued = lane[Lane(r)].issued /\ l.next >= lane[Lane(r)].next
      /\ IsFiniteSet(l.cancelled) /\ l.applied = lane[Lane(r)].applied
  <2>1. IsFiniteSet(lane[Lane(r)].cancelled)
    BY <1>1 DEF IInv, Lanes, LaneSound
  <2>2. /\ k \in LaneType /\ k.cancelled = lane[Lane(r)].cancelled \cup {req[r].ticket}
        /\ k.pending = lane[Lane(r)].pending /\ k.issued = lane[Lane(r)].issued
        /\ k.next = lane[Lane(r)].next /\ k.applied = lane[Lane(r)].applied
    BY <1>1 DEF LaneType, ReqType
  <2> HIDE DEF k
  <2>3. IsFiniteSet(k.cancelled)
    BY <2>1, <2>2, FS_AddElement, SMTT(30)
  <2> QED
    BY <2>2, <2>3, Advanced
<1> HIDE DEF x, l
<1>5. /\ lane' \in [Session -> LaneType] /\ lane'[Lane(r)] = l
      /\ \A u \in Session \ {Lane(r)} : lane'[u] = lane[u]
  BY <1>1, <1>2, <1>4, LaneUpdated
<1>6. TypeOK'
  BY <1>2, <1>3, <1>5 DEF TypeOK
<1>7. Order'
  <2>1. TicketsKept
    BY <1>2, <1>4, <1>5 DEF TicketsKept
  <2>2. x.pc \notin Ticketed /\ x.pc \notin {"ticket", "rollback", "cancel"}
    BY <1>3 DEF Ticketed
  <2> QED
    BY <1>2, <1>3, <2>1, <2>2, OrderMoved
<1>8. Slots'
  <2>1. \A q \in Request : ~HoldsAt(thread[t], t, q) /\ ~HoldsAt(x, t, q)
    BY <1>1, <1>3 DEF HoldsAt, HoldSteps
  <2>2. \A q \in Request : Holding(q)' <=> HoldsAt(x, t, q) \/ Elsewhere(t, q)
    BY <1>2, Moved
  <2>3. \A q \in Request : Holding(q) <=> HoldsAt(thread[t], t, q) \/ Elsewhere(t, q)
    BY HoldingAt
  <2>4. SlotsKept({})
    BY <1>4, <1>5, <2>1, <2>2, <2>3 DEF SlotsKept
  <2> QED
    BY <2>4, SlotsFrame DEF IInv
<1>9. \A s \in Session :
        /\ lane'[s].applied = lane[s].applied /\ IsFiniteSet(lane'[s].cancelled)
        /\ lane'[s].next >= lane[s].next
        /\ TurnHeld(s) => lane'[s].next = lane[s].next
  <2> TAKE s \in Session
  <2>1. CASE s = Lane(r)
    BY <1>1, <1>4, <1>5, <2>1
  <2>2. CASE s # Lane(r)
    <3>1. lane'[s] = lane[s] /\ lane[s].next \in Nat
      BY <1>5, <2>2, Typed DEF IInv, LaneType
    <3> QED
      BY <3>1 DEF IInv, Lanes, LaneSound
  <2> QED
    BY <2>1, <2>2
<1> QED
  BY <1>2, <1>6, <1>7, <1>8, <1>9, SubmitFrame DEF IInv

-----------------------------------------------------------------------------
(* What the parts of the invariant ask of a step of a worker. *)

Kept == \A r \in Request :
    req'[r].ticket = req[r].ticket /\ (req[r].started => req'[r].started)

\* Whoever has a turn had it, and its sequencer did not move.
TurnsKept == \A v \in Worker : HasTurn(v)' =>
    /\ HasTurn(v) /\ worker'[v].jobs = worker[v].jobs
    /\ lane'[Lane(worker[v].jobs[1])].next = lane[Lane(worker[v].jobs[1])].next

LEMMA TurnsFrame ==
    ASSUME IInv, Kept, TurnsKept
    PROVE  Turns'
<1>1. ASSUME NEW v \in Worker, HasTurn(v)'
      PROVE  /\ HasTurn(v) /\ worker'[v].jobs = worker[v].jobs
             /\ lane'[Lane(worker[v].jobs[1])].next = lane[Lane(worker[v].jobs[1])].next
             /\ req'[worker[v].jobs[1]].ticket = req[worker[v].jobs[1]].ticket
  <2>1. HasTurn(v) /\ worker'[v].jobs = worker[v].jobs
    BY <1>1 DEF TurnsKept
  <2>2. worker[v].jobs[1] \in Request
    BY <2>1, OpHeld DEF IInv, HasTurn, OpSteps
  <2> QED
    BY <1>1, <2>1, <2>2 DEF Kept, TurnsKept
<1>2. ASSUME NEW v \in Worker, HasTurn(v)'
      PROVE  lane'[Lane(worker'[v].jobs[1])].next = req'[worker'[v].jobs[1]].ticket
  BY <1>1, <1>2 DEF IInv, Turns
<1>3. ASSUME NEW v \in Worker, NEW w \in Worker, HasTurn(v)', HasTurn(w)', v # w
      PROVE  Lane(worker'[v].jobs[1]) # Lane(worker'[w].jobs[1])
  BY <1>1, <1>3 DEF IInv, Turns
<1> QED
  BY <1>2, <1>3 DEF Turns

\* Behind its sequencer, or finished while it stands there.
Finished(q) ==
    \E w \in Worker : worker[w].pc \in {"executed", "freed"} /\ worker[w].jobs[1] = q
Behind(q) == req[q].ticket < lane[Lane(q)].next \/ Finished(q)
LaneKept(s) ==
    /\ lane'[s].applied = lane[s].applied /\ IsFiniteSet(lane'[s].cancelled)
    /\ \A q \in Request : Lane(q) = s /\ Behind(q) => Behind(q)'

LEMMA LaneFrame ==
    ASSUME IInv, Kept, NEW s \in Session, LaneKept(s)
    PROVE  LaneSound(s)'
<1> DEFINE a == lane[s].applied
<1>1. LaneSound(s) /\ lane'[s].applied = a /\ IsFiniteSet(lane'[s].cancelled)
  BY DEF IInv, Lanes, LaneKept
<1>2. a \in Seq(Request)
  BY Typed DEF IInv, LaneType
<1>3. ASSUME NEW i \in 1..Len(a)
      PROVE  /\ a[i] \in Request /\ IsOp(a[i]) /\ Lane(a[i]) = s
             /\ req'[a[i]].started /\ req'[a[i]].ticket = req[a[i]].ticket
             /\ \/ req'[a[i]].ticket < lane'[s].next
                \/ \E w \in Worker :
                     worker'[w].pc \in {"executed", "freed"} /\ worker'[w].jobs[1] = a[i]
  <2>1. PICK q \in Request : q = a[i]
    BY <1>2
  <2>2. IsOp(q) /\ Lane(q) = s /\ req[q].started /\ Behind(q)
    BY <1>1, <2>1 DEF LaneSound, Behind, Finished
  <2>3. Behind(q)'
    BY <2>2 DEF LaneKept
  <2>4. \/ req'[q].ticket < lane'[s].next
        \/ \E w \in Worker : worker'[w].pc \in {"executed", "freed"} /\ worker'[w].jobs[1] = q
    BY <2>2, <2>3 DEF Behind, Finished
  <2> QED
    BY <2>1, <2>2, <2>4 DEF Kept
<1>4. \A i, j \in 1..Len(a) : i < j => req'[a[i]].ticket < req'[a[j]].ticket
  BY <1>1, <1>3 DEF LaneSound
<1> QED
  BY <1>1, <1>3, <1>4 DEF LaneSound

\* A request goes from the queue to worker w, from there to nowhere.
Passes(w) ==
    /\ \A r \in Request, v \in Worker \ {w} : Holds(v, r)' => Holds(v, r)
    /\ \A r \in Request : InQueue(r)' => InQueue(r)
    /\ \A r \in Request : Holds(w, r)' => (Holds(w, r) \/ InQueue(r)) /\ ~InQueue(r)'

LEMMA OnceFrame ==
    ASSUME Once, NEW w \in Worker, Passes(w),
           \A i, j \in 1..Len(queue') : queue'[i] = queue'[j] => i = j
    PROVE  Once'
<1>1. ASSUME NEW r \in Request, NEW u \in Worker, Holds(u, r)'
      PROVE  ~InQueue(r)' /\ \A v \in Worker : Holds(v, r)' => v = u
  <2>1. ~InQueue(r)'
    BY <1>1 DEF Once, Passes
  <2>2. ASSUME NEW v \in Worker, Holds(v, r)' PROVE v = u
    BY <1>1, <2>2 DEF Once, Passes
  <2> QED
    BY <2>1, <2>2
<1> QED
  BY <1>1 DEF Once

\* A request that a step neither answers nor begins.
Spared(q) ==
    /\ req'[q] = req[q] /\ (InQueue(q)' => InQueue(q)) /\ (Applied(q) => Applied(q)')
    /\ \A v \in Worker : Holds(v, q)' =>
          /\ Holds(v, q)
          /\ worker'[v].pc \in {"waiting", "turn"} => worker[v].pc \in {"waiting", "turn"}
          /\ IsOp(q) => worker'[v].out = worker[v].out

LEMMA EffectsFrame ==
    ASSUME Effects, NEW q \in Request, Spared(q)
    PROVE  EffectsOf(q)'
<1>1. EffectsOf(q)
  BY DEF Effects
<1>2. \A v \in Worker : Holds(v, q)' =>
        /\ req'[q].accepted
        /\ worker'[v].pc \in {"waiting", "turn"} => Untouched(req'[q])
        /\ IsOp(q) /\ worker'[v].out = "ok" => Applied(q)'
  BY <1>1 DEF EffectsOf, Spared
<1>3. /\ ~req'[q].accepted => Untouched(req'[q])
      /\ InQueue(q)' => req'[q].accepted /\ Untouched(req'[q])
      /\ IsOp(q) /\ req'[q].result = "ok" => Applied(q)'
      /\ IsOp(q) /\ req'[q].result = "expired" => ~req'[q].started
  BY <1>1 DEF EffectsOf, Spared
<1> QED
  BY <1>2, <1>3 DEF EffectsOf

\* A step that leaves the jobs, the turns and the requests where they were.
LEMMA QuietStep ==
    ASSUME IInv, TypeOK', \A v \in Worker : QuietMove(v),
           UNCHANGED <<thread, queue, queuedBytes, lane, req>>
    PROVE  IInv'
<1>1. /\ Shapes'
      /\ \A v \in Worker, step \in OpSteps : worker'[v].pc = step <=> worker[v].pc = step
      /\ \A v \in Worker : HasTurn(v)' <=> HasTurn(v)
      /\ \A v \in Worker, r \in Request : Holds(v, r)' <=> Holds(v, r)
      /\ \A v \in Worker, r \in Request :
           Holds(v, r) /\ IsOp(r) => worker'[v].out = worker[v].out
      /\ \A r \in Request : ClaimedIn(r, {"waiting", "turn", "executed"})' <=>
                            ClaimedIn(r, {"waiting", "turn", "executed"})
  BY QuietWorkers DEF IInv
<1>2. \A v \in Worker : worker'[v].jobs = worker[v].jobs
  BY DEF QuietMove
<1>3. Kept /\ TicketsKept
  BY DEF Kept, TicketsKept
<1>4. Once'
  BY <1>1 DEF IInv, Once, InQueue
<1>5. ASSUME NEW q \in Request PROVE EffectsOf(q)'
  <2>1. /\ \A v \in Worker : worker'[v].pc \in {"waiting", "turn"} <=>
                             worker[v].pc \in {"waiting", "turn"}
        /\ InQueue(q)' = InQueue(q) /\ Applied(q)' = Applied(q)
    BY <1>1 DEF OpSteps, Running, InQueue, Applied
  <2>2. Spared(q)
    BY <1>1, <2>1 DEF Spared
  <2> QED
    BY <2>2, EffectsFrame DEF IInv
<1>6. Turns'
  <2>1. TurnsKept
    BY <1>1, <1>2 DEF TurnsKept
  <2> QED
    BY <1>3, <2>1, TurnsFrame
<1>7. ASSUME NEW s \in Session PROVE LaneSound(s)'
  <2>1. \A v \in Worker : worker'[v].pc \in {"executed", "freed"} <=>
                          worker[v].pc \in {"executed", "freed"}
    BY <1>1 DEF OpSteps, Running
  <2>2. \A q \in Request : Behind(q)' <=> Behind(q)
    BY <1>2, <2>1 DEF Behind, Finished
  <2>3. LaneKept(s)
    BY <2>2 DEF LaneKept, IInv, Lanes, LaneSound
  <2> QED
    BY <1>3, <2>3, LaneFrame
<1>8. Order'
  BY <1>3, OrderFrame DEF IInv
<1>9. Slots'
  <2>1. \A q \in Request : Holding(q)' <=> Holding(q)
    BY <1>1 DEF Holding, SubmittingIn, AtStep, Submitting, InQueue
  <2>2. SlotsKept({})
    BY <2>1 DEF SlotsKept
  <2> QED
    BY <2>2, SlotsFrame DEF IInv
<1> QED
  BY <1>1, <1>4, <1>5, <1>6, <1>7, <1>8, <1>9 DEF IInv, Effects, Lanes, Charged

\* Resting and batch steps of one worker.
LEMMA StepQuiet ==
    ASSUME IInv, NEW w \in Worker, NEW x \in WorkerType, worker' = [worker EXCEPT ![w] = x],
           x.jobs = worker[w].jobs,
           \/ worker[w].pc \in Resting /\ x.pc \in Resting
           \/ worker[w].pc \in Batching /\ x.pc \in Batching \cup {"deliver"},
           UNCHANGED <<thread, queue, queuedBytes, shutdown, nextDevice, lane, req>>
    PROVE  IInv'
<1>1. /\ worker' \in [Worker -> WorkerType] /\ worker'[w] = x
      /\ \A v \in Worker \ {w} : worker'[v] = worker[v]
  BY WorkerUpdated DEF IInv
<1>2. \A v \in Worker : QuietMove(v)
  BY <1>1 DEF QuietMove
<1>3. TypeOK'
  BY <1>1 DEF IInv, TypeOK
<1> QED
  BY <1>2, <1>3, QuietStep

LEMMA QuietSteps ==
    ASSUME IInv, NEW w \in Worker,
           \/ Sleep(w) \/ SpuriousWakeup(w) \/ Exit(w) \/ StartBatch(w)
           \/ Nap(w) \/ CloseBatch(w) \/ EncodeBatch(w)
    PROVE  IInv'
<1>1. worker[w] \in WorkerType
  BY Typed DEF IInv
<1>2. ASSUME NEW step, worker' = [worker EXCEPT ![w].pc = step],
             \/ worker[w].pc \in Resting /\ step \in Resting
             \/ worker[w].pc \in Batching /\ step \in Batching,
             UNCHANGED <<thread, queue, queuedBytes, shutdown, nextDevice, lane, req>>
      PROVE  IInv'
  <2> DEFINE x == [worker[w] EXCEPT !.pc = step]
  <2>1. worker' = [worker EXCEPT ![w] = x]
    BY <1>2 DEF IInv, TypeOK
  <2>2. x \in WorkerType /\ x.jobs = worker[w].jobs /\ x.pc = step
    BY <1>1, <1>2 DEF WorkerType, Resting, Batching, OpSteps, Running
  <2> HIDE DEF x
  <2> QED
    BY <1>2, <2>1, <2>2, StepQuiet
<1>3. CASE Sleep(w)
  BY <1>2, <1>3 DEF Sleep, IsAt, Step, Resting
<1>4. CASE SpuriousWakeup(w)
  <2>1. worker[w].pc \in {"asleep", "napping"} /\ worker' = [worker EXCEPT ![w] = Awake(w)]
    BY <1>4 DEF SpuriousWakeup, Waiters
  <2> DEFINE x == Awake(w)
  <2>2. /\ x \in WorkerType /\ x.jobs = worker[w].jobs
        /\ x.pc = IF worker[w].pc = "asleep" THEN "check" ELSE "gather"
    BY <1>1 DEF Awake, WorkerType, Resting, Batching
  <2>3. \/ worker[w].pc \in Resting /\ x.pc \in Resting
        \/ worker[w].pc \in Batching /\ x.pc \in Batching \cup {"deliver"}
    BY <2>1, <2>2 DEF Resting, Batching
  <2> HIDE DEF x
  <2>4. worker' = [worker EXCEPT ![w] = x]
    BY <2>1 DEF x
  <2> QED
    BY <1>4, <2>2, <2>3, <2>4, StepQuiet DEF SpuriousWakeup
<1>5. CASE Exit(w)
  BY <1>2, <1>5 DEF Exit, MayExit, IsAt, Step, Resting
<1>6. CASE StartBatch(w)
  BY <1>2, <1>6 DEF StartBatch, IsAt, Step, Batching
<1>7. CASE Nap(w)
  BY <1>2, <1>7 DEF Nap, IsAt, Step, Batching
<1>8. CASE CloseBatch(w)
  BY <1>2, <1>8 DEF CloseBatch, Step, Batching
<1>9. CASE EncodeBatch(w)
  <2>1. PICK o \in {"ok", "error"} :
          worker' = [worker EXCEPT ![w].pc = "deliver", ![w].out = o]
    BY <1>9 DEF EncodeBatch
  <2> DEFINE x == [worker[w] EXCEPT !.pc = "deliver", !.out = o]
  <2>2. worker' = [worker EXCEPT ![w] = x]
    BY <2>1 DEF IInv, TypeOK
  <2>3. x \in WorkerType /\ x.jobs = worker[w].jobs /\ x.pc = "deliver"
    BY <1>1, <2>1 DEF WorkerType, Outs
  <2>4. worker[w].pc \in Batching
    BY <1>9 DEF EncodeBatch, IsAt, Batching
  <2> HIDE DEF x
  <2> QED
    BY <1>9, <2>2, <2>3, <2>4, StepQuiet DEF EncodeBatch
<1> QED
  BY <1>3, <1>4, <1>5, <1>6, <1>7, <1>8, <1>9

\* The callers and the clock change nothing that the parts look at.
LEMMA FlagStep ==
    ASSUME IInv, NEW r \in Request, Abandon(r) \/ DeadlinePasses(r)
    PROVE  IInv'
<1> DEFINE x == IF Abandon(r) THEN [req[r] EXCEPT !.cancelled = TRUE]
                ELSE [req[r] EXCEPT !.expired = TRUE]
<1>1. req[r] \in ReqType
  BY Typed DEF IInv
<1>2. /\ req' = [req EXCEPT ![r] = x]
      /\ UNCHANGED <<thread, worker, queue, queuedBytes, shutdown, nextDevice, lane>>
  BY <1>1 DEF Abandon, DeadlinePasses, IInv, TypeOK
<1>3. /\ x \in ReqType /\ x.accepted = req[r].accepted /\ x.ticket = req[r].ticket
      /\ x.started = req[r].started /\ x.result = req[r].result
  BY <1>1 DEF ReqType
<1> HIDE DEF x
<1>4. /\ req' \in [Request -> ReqType]
      /\ \A q \in Request :
            /\ req'[q].accepted = req[q].accepted /\ req'[q].ticket = req[q].ticket
            /\ req'[q].started = req[q].started /\ req'[q].result = req[q].result
  BY <1>2, <1>3, RequestUpdated DEF IInv
<1>5. TypeOK'
  BY <1>2, <1>4 DEF IInv, TypeOK
<1>6. Order'
  BY <1>2, <1>4, OrderFrame DEF IInv, TicketsKept
<1>7. Slots'
  BY <1>2, SlotsFrame
     DEF IInv, SlotsKept, Holding, SubmittingIn, AtStep, Submitting, InQueue, ClaimedIn
<1>8. \A s \in Session : lane[s].next \in Nat /\ IsFiniteSet(lane[s].cancelled)
  BY Typed DEF IInv, LaneType, Lanes, LaneSound
<1> QED
  BY <1>2, <1>4, <1>5, <1>6, <1>7, <1>8, SubmitFrame

LEMMA ShutdownStep ==
    ASSUME IInv, Shutdown
    PROVE  IInv'
<1>1. \A v \in Worker : worker[v] \in WorkerType
  BY Typed DEF IInv
<1>2. /\ worker' = [v \in Worker |-> IF v \in Waiters THEN Awake(v) ELSE worker[v]]
      /\ UNCHANGED <<thread, queue, queuedBytes, nextDevice, lane, req>> /\ shutdown' = TRUE
  BY DEF Shutdown, NotifyAll
<1>3. ASSUME NEW v \in Worker PROVE worker'[v] \in WorkerType /\ QuietMove(v)
  <2>1. CASE v \in Waiters
    BY <1>1, <1>2, <2>1 DEF Waiters, Awake, WorkerType, QuietMove, Resting, Batching
  <2>2. CASE v \notin Waiters
    BY <1>1, <1>2, <2>2 DEF QuietMove
  <2> QED
    BY <2>1, <2>2
<1>4. TypeOK'
  BY <1>2, <1>3 DEF IInv, TypeOK
<1> QED
  BY <1>2, <1>3, <1>4, QuietStep

-----------------------------------------------------------------------------
(* Steps that move a job. *)

LEMMA NotifyOneQuiet ==
    ASSUME IInv, NotifyOne
    PROVE  worker' \in [Worker -> WorkerType] /\ \A v \in Worker : QuietMove(v)
<1>1. \A v \in Worker : worker[v] \in WorkerType
  BY Typed DEF IInv
<1>2. CASE UNCHANGED worker
  BY <1>2 DEF QuietMove, IInv, TypeOK
<1>3. CASE ~UNCHANGED worker
  <2>1. PICK w \in Waiters : worker' = [worker EXCEPT ![w] = Awake(w)]
    BY <1>3 DEF NotifyOne
  <2> DEFINE x == Awake(w)
  <2>2. /\ w \in Worker /\ x \in WorkerType /\ x.jobs = worker[w].jobs
        /\ \/ worker[w].pc \in Resting /\ x.pc \in Resting
           \/ worker[w].pc \in Batching /\ x.pc \in Batching
    BY <1>1 DEF Waiters, Awake, WorkerType, Resting, Batching
  <2>3. worker' = [worker EXCEPT ![w] = x]
    BY <2>1
  <2> HIDE DEF x
  <2>4. /\ worker' \in [Worker -> WorkerType] /\ worker'[w] = x
        /\ \A v \in Worker \ {w} : worker'[v] = worker[v]
    BY <2>2, <2>3, WorkerUpdated DEF IInv
  <2> QED
    BY <2>2, <2>4 DEF QuietMove
<1> QED
  BY <1>2, <1>3

\* An accepted request is past its submission.
LEMMA AcceptedSettled ==
    ASSUME IInv, NEW r \in Request, req[r].accepted
    PROVE  ~SubmittingIn(r, HoldSteps)
<1> SUFFICES ASSUME NEW t \in Thread, thread[t].at <= Len(Script[t]), Submitting(t) = r
             PROVE  FALSE
  BY DEF SubmittingIn, AtStep
<1>1. thread[t].at \in Nat \ {0} /\ Script[t] \in Seq(Request)
  BY Typed, ScriptAssumption DEF IInv, ThreadType
<1>2. thread[t].at \in 1..Len(Script[t])
  BY <1>1
<1>3. ~req[Script[t][thread[t].at]].accepted
  BY <1>1, <1>2 DEF IInv, Order
<1> QED
  BY <1>3 DEF Submitting

LEMMA EnqueueStep ==
    ASSUME IInv, NEW t \in Thread, Enqueue(t)
    PROVE  IInv'
<1> DEFINE x == [pc |-> "ready", at |-> thread[t].at + 1]
           k == thread[t].at
<1>1. PICK r \in Request :
        /\ r = Submitting(t) /\ Lane(r) \in Session /\ ~Elsewhere(t, r) /\ ~req[r].accepted
        /\ thread[t] \in ThreadType /\ thread[t].pc = "enqueue"
        /\ k \in 1..Len(Script[t]) /\ req[r] \in ReqType
  BY Submission DEF Enqueue, AtStep
<1> DEFINE q0 == [req[r] EXCEPT !.accepted = TRUE]
<1>2. /\ thread' = [thread EXCEPT ![t] = x] /\ req' = [req EXCEPT ![r] = q0] /\ TypeOK
      /\ queue' = Append(queue, r) /\ queuedBytes' = queuedBytes + Job[r].bytes
      /\ NotifyOne /\ UNCHANGED <<shutdown, nextDevice, lane>>
  BY <1>1 DEF Enqueue, SubmitReturns, IInv, TypeOK
<1>3. x \in ThreadType /\ x.pc = "ready" /\ x.at = k + 1 /\ k \in Nat
  BY <1>1 DEF ThreadType
<1>4. /\ q0 \in ReqType /\ q0.ticket = req[r].ticket /\ q0.accepted
      /\ q0.started = req[r].started /\ q0.result = req[r].result
  BY <1>1 DEF ReqType
<1> HIDE DEF x, q0
<1>5. /\ req' \in [Request -> ReqType] /\ req'[r] = q0
      /\ \A u \in Request \ {r} : req'[u] = req[u]
  BY <1>2, <1>4, RequestUpdated
<1>6. /\ worker' \in [Worker -> WorkerType] /\ \A v \in Worker : QuietMove(v)
  BY <1>2, NotifyOneQuiet
<1>7. /\ Shapes'
      /\ \A v \in Worker, step \in OpSteps : worker'[v].pc = step <=> worker[v].pc = step
      /\ \A v \in Worker : HasTurn(v)' <=> HasTurn(v)
      /\ \A v \in Worker, q \in Request : Holds(v, q)' <=> Holds(v, q)
      /\ \A v \in Worker, q \in Request :
           Holds(v, q) /\ IsOp(q) => worker'[v].out = worker[v].out
      /\ \A q \in Request : ClaimedIn(q, {"waiting", "turn", "executed"})' <=>
                            ClaimedIn(q, {"waiting", "turn", "executed"})
  BY <1>2, <1>6, QuietWorkers DEF IInv
<1>8. /\ queue \in Seq(Request) /\ queue' \in Seq(Request) /\ Len(queue') = Len(queue) + 1
      /\ queue'[Len(queue) + 1] = r /\ \A i \in 1..Len(queue) : queue'[i] = queue[i]
  BY <1>2 DEF TypeOK
<1>9. \A q \in Request : InQueue(q)' <=> InQueue(q) \/ q = r
  BY <1>8 DEF InQueue
<1>10. ~InQueue(r) /\ ~Applied(r) /\ \A w \in Worker : ~Holds(w, r)
  BY <1>1, Unaccepted
<1>11. TypeOK' /\ Charged'
  <2>1. Job[r].bytes \in Nat
    BY JobTyped
  <2>2. BatchBytes(queue') = BatchBytes(queue) + Job[r].bytes
    BY <1>2, <1>8, BytesAppend
  <2>3. thread' \in [Thread -> ThreadType]
    BY <1>2, <1>3 DEF TypeOK
  <2> QED
    BY <1>2, <1>5, <1>6, <1>8, <2>1, <2>2, <2>3 DEF IInv, TypeOK, Charged
<1>12. Once'
  <2>1. \A i, j \in 1..Len(queue') : queue'[i] = queue'[j] => i = j
    BY <1>8, <1>10 DEF IInv, Once, InQueue
  <2>2. ASSUME NEW q \in Request, NEW w \in Worker, Holds(w, q)'
        PROVE  ~InQueue(q)' /\ \A v \in Worker : Holds(v, q)' => v = w
    BY <1>7, <1>9, <1>10, <2>2 DEF IInv, Once
  <2> QED
    BY <2>1, <2>2 DEF Once
<1>13. ASSUME NEW q \in Request PROVE EffectsOf(q)'
  <2>1. CASE q = r
    <3>1. Untouched(req'[r]) /\ req'[r].accepted
      BY <1>1, <1>4, <1>5 DEF IInv, Effects, EffectsOf, Untouched
    <3>2. \A w \in Worker : ~Holds(w, r)'
      BY <1>7, <1>10
    <3> QED
      BY <2>1, <3>1, <3>2 DEF EffectsOf, Untouched
  <2>2. CASE q # r
    <3>1. \A v \in Worker : worker'[v].pc \in {"waiting", "turn"} <=>
                            worker[v].pc \in {"waiting", "turn"}
      BY <1>7 DEF OpSteps, Running
    <3>2. Applied(q)' = Applied(q)
      BY <1>2 DEF Applied
    <3>3. Spared(q)
      BY <1>5, <1>7, <1>9, <2>2, <3>1, <3>2 DEF Spared
    <3> QED
      BY <3>3, EffectsFrame DEF IInv
  <2> QED
    BY <2>1, <2>2
<1>14. \A v \in Worker : worker'[v].jobs = worker[v].jobs
  BY <1>6 DEF QuietMove
<1>15. Kept
  BY <1>1, <1>4, <1>5 DEF Kept
<1>16. Turns'
  <2>1. TurnsKept
    BY <1>2, <1>7, <1>14 DEF TurnsKept
  <2> QED
    BY <1>15, <2>1, TurnsFrame
<1>17. ASSUME NEW s \in Session PROVE LaneSound(s)'
  <2>1. \A v \in Worker : worker'[v].pc \in {"executed", "freed"} <=>
                          worker[v].pc \in {"executed", "freed"}
    BY <1>7 DEF OpSteps, Running
  <2>2. \A q \in Request : Behind(q) => Behind(q)'
    BY <1>2, <1>14, <1>15, <2>1 DEF Behind, Finished, Kept
  <2>3. LaneKept(s)
    BY <1>2, <2>2 DEF LaneKept, IInv, Lanes, LaneSound
  <2> QED
    BY <1>15, <2>3, LaneFrame
<1>18. thread'[t] = x /\ \A u \in Thread \ {t} : thread'[u] = thread[u]
  BY <1>2 DEF TypeOK
<1>19. ASSUME NEW u \in Thread, NEW i \in 1..Len(Script[u])
       PROVE  /\ Script[u][i] \in Request /\ Lane(Script[u][i]) \in Session
              /\ Script[u][i] = r <=> u = t /\ i = k
              /\ req'[Script[u][i]].ticket = req[Script[u][i]].ticket
              /\ req'[Script[u][i]].accepted <=> req[Script[u][i]].accepted \/ (u = t /\ i = k)
  <2>1. /\ Script[u][i] \in Request /\ Lane(Script[u][i]) \in Session
        /\ Script[u][i] = r <=> u = t /\ i = k
    BY <1>1, Scripted, JobTyped DEF Submitting
  <2> QED
    BY <1>4, <1>5, <2>1
<1>20. ASSUME NEW u \in Thread, NEW i \in 1..Len(Script[u]), HasTicket(u, i)'
       PROVE  HasTicket(u, i)
  BY <1>1, <1>3, <1>18, <1>19, <1>20 DEF HasTicket, Ticketed
<1>21. Order'
  <2>1. ASSUME NEW u \in Thread, NEW i \in 1..Len(Script[u])
        PROVE  /\ i >= thread'[u].at => ~req'[Script[u][i]].accepted
               /\ i = thread'[u].at /\ thread'[u].pc \in {"ticket", "rollback", "cancel"} =>
                    IsOp(Script[u][i])
               /\ HasTicket(u, i)' /\ IsOp(Script[u][i]) =>
                    req'[Script[u][i]].ticket < lane'[Lane(Script[u][i])].issued
    <3>1. i >= thread'[u].at => i >= thread[u].at /\ ~(u = t /\ i = k)
      BY <1>3, <1>18
    <3>2. i >= thread'[u].at => ~req'[Script[u][i]].accepted
      BY <1>19, <3>1 DEF IInv, Order
    <3>3. i = thread'[u].at /\ thread'[u].pc \in {"ticket", "rollback", "cancel"} =>
            IsOp(Script[u][i])
      BY <1>3, <1>18 DEF IInv, Order
    <3>4. HasTicket(u, i)' /\ IsOp(Script[u][i]) =>
            req'[Script[u][i]].ticket < lane'[Lane(Script[u][i])].issued
      BY <1>2, <1>19, <1>20 DEF IInv, Order
    <3> QED
      BY <3>2, <3>3, <3>4
  <2>2. ASSUME NEW u \in Thread, NEW i \in 1..Len(Script[u]), NEW j \in 1..Len(Script[u]),
               i < j, IsOp(Script[u][i]), IsOp(Script[u][j]),
               Lane(Script[u][i]) = Lane(Script[u][j]),
               req'[Script[u][i]].accepted, HasTicket(u, j)'
        PROVE  req'[Script[u][i]].ticket < req'[Script[u][j]].ticket
    <3>1. HasTicket(u, j)
      BY <1>20, <2>2
    <3>2. ~(u = t /\ i = k)
      <4> SUFFICES ASSUME u = t, i = k PROVE FALSE
        OBVIOUS
      <4>1. j >= thread[t].at /\ j # thread[t].at
        BY <1>3, <2>2
      <4>2. ~req[Script[u][j]].accepted
        BY <4>1 DEF IInv, Order
      <4> QED
        BY <3>1, <4>1, <4>2 DEF HasTicket
    <3>3. req[Script[u][i]].accepted
      BY <1>19, <2>2, <3>2
    <3>4. req[Script[u][i]].ticket < req[Script[u][j]].ticket
      BY <2>2, <3>1, <3>3 DEF IInv, Order
    <3> QED
      BY <1>19, <3>4
  <2> QED
    BY <2>1, <2>2 DEF Order
<1>22. Slots'
  <2>1. ASSUME NEW q \in Request, IsOp(q)
        PROVE  HoldsAt(thread[t], t, q) <=> q = r
    BY <1>1 DEF HoldsAt, HoldSteps, Submitting
  <2>2. ASSUME NEW q \in Request
        PROVE  Holding(q)' <=> Elsewhere(t, q) \/ q = r
    <3>1. SubmittingIn(q, HoldSteps)' <=> \E u \in Thread \ {t} : HoldsAt(thread[u], u, q)
      BY <1>3, <1>18 DEF SubmittingIn, AtStep, Submitting, HoldsAt, HoldSteps
    <3> QED
      BY <1>7, <1>9, <3>1 DEF Holding, HoldSteps, Elsewhere
  <2>3. \A q \in Request : IsOp(q) => (Holding(q)' <=> Holding(q))
    BY <2>1, <2>2, HoldingAt
  <2>4. SlotsKept({})
    BY <1>2, <2>3 DEF SlotsKept
  <2> QED
    BY <2>4, SlotsFrame DEF IInv
<1> QED
  BY <1>7, <1>11, <1>12, <1>13, <1>16, <1>17, <1>21, <1>22 DEF IInv, Effects, Lanes

\* Position p of the queue is taken out.
Taken(p) ==
    /\ queue' \in Seq(Request) /\ Len(queue') = Len(queue) - 1
    /\ \A i \in 1..Len(queue') : queue'[i] = IF i < p THEN queue[i] ELSE queue[i + 1]
    /\ queuedBytes' = queuedBytes - Job[queue[p]].bytes

LEMMA QueueTaken ==
    ASSUME IInv, NEW p \in 1..Len(queue), Taken(p)
    PROVE  /\ Charged' /\ queuedBytes' \in Int
           /\ \A i, j \in 1..Len(queue') : queue'[i] = queue'[j] => i = j
           /\ \A r \in Request : InQueue(r)' <=> InQueue(r) /\ r # queue[p]
<1>1. queue \in Seq(Request) /\ Len(queue) \in Nat /\ queue[p] \in Request
  BY DEF IInv, TypeOK
<1>2. Charged' /\ queuedBytes' \in Int
  <2>1. BatchBytes(queue') = BatchBytes(queue) - Job[queue[p]].bytes
    BY <1>1, BytesRemoved DEF Taken
  <2>2. queuedBytes = BatchBytes(queue) /\ queuedBytes \in Int
    BY DEF IInv, Charged, TypeOK
  <2> QED
    BY <1>1, <2>1, <2>2, JobTyped DEF Taken, Charged
<1>3. \A i, j \in 1..Len(queue) : queue[i] = queue[j] => i = j
  BY DEF IInv, Once
<1>4. Len(queue') = Len(queue) - 1 /\ Len(queue') \in Nat
  BY <1>1 DEF Taken
<1> DEFINE At(i) == IF i < p THEN i ELSE i + 1
<1>5. \A i \in 1..Len(queue') : At(i) \in 1..Len(queue) /\ queue'[i] = queue[At(i)] /\ At(i) # p
  BY <1>1, <1>4 DEF Taken
<1>6. \A i, j \in 1..Len(queue') : queue'[i] = queue'[j] => i = j
  <2> TAKE i, j \in 1..Len(queue')
  <2>1. queue'[i] = queue'[j] => At(i) = At(j)
    BY <1>3, <1>5
  <2>2. At(i) = At(j) => i = j
    BY <1>4
  <2> QED
    BY <2>1, <2>2
<1>7. ASSUME NEW r \in Request PROVE InQueue(r)' <=> InQueue(r) /\ r # queue[p]
  <2>1. ASSUME NEW i \in 1..Len(queue'), queue'[i] = r
        PROVE  InQueue(r) /\ r # queue[p]
    BY <1>3, <1>5, <2>1 DEF InQueue
  <2>2. ASSUME NEW j \in 1..Len(queue), queue[j] = r, j # p
        PROVE  \E i \in 1..Len(queue') : queue'[i] = r
    <3>1. CASE j < p
      <4>1. j \in 1..Len(queue') /\ At(j) = j
        BY <1>1, <1>4, <3>1
      <4> QED
        BY <1>5, <2>2, <4>1
    <3>2. CASE j > p
      <4>1. j - 1 \in 1..Len(queue') /\ At(j - 1) = j
        BY <1>1, <1>4, <3>2
      <4> QED
        BY <1>5, <2>2, <4>1
    <3> QED
      BY <2>2, <3>1, <3>2
  <2> QED
    BY <2>1, <2>2 DEF InQueue
<1> QED
  BY <1>2, <1>6, <1>7

\* Which operation worker state x holds a slot for, and who else may.
ClaimedOf(x, q) == x.pc \in {"waiting", "turn", "executed"} /\ x.jobs = <<q>>
Apart(w, q) ==
    SubmittingIn(q, HoldSteps) \/ \E v \in Worker \ {w} : ClaimedOf(worker[v], q)

LEMMA HoldingWorker ==
    ASSUME NEW w \in Worker, NEW q
    PROVE  Holding(q) <=> Apart(w, q) \/ InQueue(q) \/ ClaimedOf(worker[w], q)
BY DEF Holding, ClaimedIn, ClaimedOf, Apart, HoldSteps

LEMMA WorkerMoved ==
    ASSUME TypeOK, NEW w \in Worker, NEW x \in WorkerType,
           worker' = [worker EXCEPT ![w] = x], UNCHANGED thread
    PROVE  /\ worker' \in [Worker -> WorkerType] /\ worker'[w] = x
           /\ \A v \in Worker \ {w} : worker'[v] = worker[v]
           /\ \A v \in Worker \ {w}, q \in Request : Holds(v, q)' <=> Holds(v, q)
           /\ \A q \in Request :
                Holding(q)' <=> Apart(w, q) \/ InQueue(q)' \/ ClaimedOf(x, q)
<1>1. /\ worker' \in [Worker -> WorkerType] /\ worker'[w] = x
      /\ \A v \in Worker \ {w} : worker'[v] = worker[v]
  BY WorkerUpdated
<1>2. \A v \in Worker \ {w}, q \in Request : Holds(v, q)' <=> Holds(v, q)
  BY <1>1 DEF Holds
<1>3. ASSUME NEW q \in Request
      PROVE  Holding(q)' <=> Apart(w, q) \/ InQueue(q)' \/ ClaimedOf(x, q)
  <2>1. SubmittingIn(q, HoldSteps)' <=> SubmittingIn(q, HoldSteps)
    BY DEF SubmittingIn, AtStep, Submitting
  <2>2. ClaimedIn(q, {"waiting", "turn", "executed"})' <=>
          (\E v \in Worker \ {w} : ClaimedOf(worker[v], q)) \/ ClaimedOf(x, q)
    BY <1>1 DEF ClaimedIn, ClaimedOf
  <2> QED
    BY <2>1, <2>2 DEF Holding, Apart, HoldSteps
<1> QED
  BY <1>1, <1>2, <1>3

\* The parts common to the steps of one worker.
LEMMA WorkParts ==
    ASSUME IInv, NEW w \in Worker, NEW x \in WorkerType, worker' = [worker EXCEPT ![w] = x],
           Shape(x), UNCHANGED <<thread, shutdown, nextDevice>>,
           lane' \in [Session -> LaneType], \A s \in Session : lane'[s].issued = lane[s].issued,
           req' \in [Request -> ReqType], queue' \in Seq(Request), queuedBytes' \in Int, Kept,
           \A r \in Request : req'[r].accepted = req[r].accepted
    PROVE  TypeOK' /\ Shapes' /\ Order'
<1>1. /\ worker' \in [Worker -> WorkerType] /\ worker'[w] = x
      /\ \A v \in Worker \ {w} : worker'[v] = worker[v]
  BY WorkerUpdated DEF IInv
<1>2. TypeOK'
  BY <1>1 DEF IInv, TypeOK
<1>3. Shapes'
  <2>1. ASSUME NEW v \in Worker PROVE Shape(worker'[v])
    BY <1>1 DEF IInv, Shapes
  <2>2. ASSUME NEW v \in Worker PROVE Shape(worker[v])'
    BY <2>1 DEF Shape
  <2> QED
    BY <2>2 DEF Shapes
<1>4. Order'
  BY OrderFrame DEF IInv, TicketsKept, Kept
<1> QED
  BY <1>2, <1>3, <1>4

\* And of those that leave the sequencers alone.
LEMMA WorkFrame ==
    ASSUME IInv, NEW w \in Worker, NEW x \in WorkerType, worker' = [worker EXCEPT ![w] = x],
           Shape(x), UNCHANGED <<thread, shutdown, nextDevice, lane>>,
           req' \in [Request -> ReqType], queue' \in Seq(Request), queuedBytes' \in Int, Kept,
           \A r \in Request : req'[r].accepted = req[r].accepted,
           x.pc \in Running => worker[w].pc \in Running /\ x.jobs = worker[w].jobs,
           worker[w].pc \in {"executed", "freed"} =>
              x.pc \in {"executed", "freed"} /\ x.jobs = worker[w].jobs
    PROVE  TypeOK' /\ Shapes' /\ Turns' /\ Lanes' /\ Order'
<1>1. worker'[w] = x /\ \A v \in Worker \ {w} : worker'[v] = worker[v]
  BY WorkerUpdated DEF IInv
<1>2. TypeOK' /\ Shapes' /\ Order'
  <2>1. lane' \in [Session -> LaneType] /\ \A s \in Session : lane'[s].issued = lane[s].issued
    BY DEF IInv, TypeOK
  <2> QED
    BY <2>1, WorkParts
<1>3. Turns'
  <2>1. TurnsKept
    BY <1>1 DEF TurnsKept, HasTurn
  <2> QED
    BY <2>1, TurnsFrame
<1>4. ASSUME NEW s \in Session PROVE LaneSound(s)'
  <2>1. \A q \in Request : Behind(q) => Behind(q)'
    BY <1>1 DEF Behind, Finished, Kept
  <2>2. LaneKept(s)
    BY <2>1 DEF LaneKept, IInv, Lanes, LaneSound
  <2> QED
    BY <2>2, LaneFrame
<1> QED
  BY <1>2, <1>3, <1>4 DEF Lanes

\* What is known where an operation stands in its turn.
LEMMA AtWork ==
    ASSUME IInv, NEW w \in Worker, worker[w].pc \in OpSteps, NEW r, r = worker[w].jobs[1]
    PROVE  /\ r \in Request /\ Lane(r) \in Session /\ IsOp(r) /\ worker[w].jobs = <<r>>
           /\ worker[w] \in WorkerType /\ req[r] \in ReqType /\ lane[Lane(r)] \in LaneType
           /\ req[r].accepted /\ ~InQueue(r)
           /\ \A q \in Request : Holds(w, q) <=> q = r
           /\ \A v \in Worker : Holds(v, r) <=> v = w
<1>1. /\ r \in Request /\ Lane(r) \in Session /\ IsOp(r) /\ worker[w].jobs = <<r>>
      /\ Holds(w, r) /\ \A q \in Request : Holds(w, q) => q = r
  BY OpHeld DEF IInv
<1>2. req[r].accepted /\ ~InQueue(r) /\ \A v \in Worker : Holds(v, r) => v = w
  BY <1>1 DEF IInv, Effects, EffectsOf, Once
<1> QED
  BY <1>1, <1>2, Typed DEF IInv

-----------------------------------------------------------------------------
(* The steps of a worker. *)

LEMMA ClaimStep ==
    ASSUME IInv, NEW w \in Worker, Claim(w)
    PROVE  IInv'
<1>1. queue \in Seq(Request) /\ queue # <<>> /\ worker[w].pc = "check" /\ worker[w].jobs = <<>>
  BY DEF Claim, IsAt, IInv, TypeOK, Shapes, Shape, Resting
<1>2. PICK r \in Request : r = Head(queue) /\ r = queue[1]
  BY <1>1
<1> DEFINE x == [pc |-> IF IsOp(r) THEN "waiting" ELSE "first", jobs |-> <<r>>, out |-> "none"]
<1>3. /\ worker' = [worker EXCEPT ![w] = x] /\ queue' = Tail(queue)
      /\ queuedBytes' = queuedBytes - Job[queue[1]].bytes
      /\ UNCHANGED <<thread, shutdown, nextDevice, lane, req>>
  BY <1>2 DEF Claim, Uncharged
<1>4. /\ x \in WorkerType /\ Shape(x) /\ x.jobs = <<r>> /\ x.out = "none"
      /\ x.pc = IF IsOp(r) THEN "waiting" ELSE "first"
  BY DEF WorkerType, Shape, Resting, Batching, OpSteps, Running, Outs
<1> HIDE DEF x
<1>5. 1 \in 1..Len(queue) /\ Taken(1)
  BY <1>1, <1>3 DEF Taken
<1>6. /\ Charged' /\ queuedBytes' \in Int
      /\ \A i, j \in 1..Len(queue') : queue'[i] = queue'[j] => i = j
      /\ \A q \in Request : InQueue(q)' <=> InQueue(q) /\ q # r
  BY <1>2, <1>5, QueueTaken
<1>7. /\ worker'[w] = x /\ \A v \in Worker \ {w} : worker'[v] = worker[v]
      /\ \A v \in Worker \ {w}, q \in Request : Holds(v, q)' <=> Holds(v, q)
      /\ \A q \in Request : Holding(q)' <=> Apart(w, q) \/ InQueue(q)' \/ ClaimedOf(x, q)
  BY <1>3, <1>4, WorkerMoved DEF IInv
<1>8. InQueue(r) /\ req[r].accepted /\ Untouched(req[r])
  BY <1>2, <1>5 DEF InQueue, IInv, Effects, EffectsOf
<1>9. \A q \in Request : Holds(w, q)' <=> q = r
  <2>1. worker'[w].jobs = <<r>> /\ Len(<<r>>) = 1 /\ <<r>>[1] = r
    BY <1>4, <1>7
  <2> QED
    BY <2>1 DEF Holds
<1>10. Kept /\ req' \in [Request -> ReqType]
  BY <1>3 DEF Kept, IInv, TypeOK
<1>11. TypeOK' /\ Shapes' /\ Turns' /\ Lanes' /\ Order'
  <2>1. x.pc \notin Running /\ worker[w].pc \notin {"executed", "freed"}
    BY <1>1, <1>4 DEF Running
  <2>2. queue' \in Seq(Request) /\ \A q \in Request : req'[q].accepted = req[q].accepted
    BY <1>3, <1>5 DEF Taken
  <2> QED
    BY <1>3, <1>4, <1>6, <1>10, <2>1, <2>2, WorkFrame
<1>12. Once'
  <2>1. Passes(w)
    BY <1>6, <1>7, <1>8, <1>9 DEF Passes
  <2> QED
    BY <1>6, <2>1, OnceFrame DEF IInv
<1>13. ASSUME NEW q \in Request PROVE EffectsOf(q)'
  <2>1. Applied(q)' = Applied(q)
    BY <1>3 DEF Applied
  <2>2. CASE q = r
    <3>1. \A v \in Worker : Holds(v, r)' => v = w
      BY <1>9, <1>12 DEF Once
    <3>2. worker'[w].out # "ok" /\ ~InQueue(r)' /\ req'[r] = req[r]
      BY <1>3, <1>4, <1>6, <1>7
    <3> QED
      BY <1>8, <2>2, <3>1, <3>2 DEF EffectsOf, Untouched
  <2>3. CASE q # r
    <3>1. Spared(q)
      BY <1>3, <1>6, <1>7, <1>9, <2>1, <2>3 DEF Spared
    <3> QED
      BY <3>1, EffectsFrame DEF IInv
  <2> QED
    BY <2>2, <2>3
<1>14. Slots'
  <2>1. \A q \in Request : ClaimedOf(x, q) <=> q = r /\ IsOp(r)
    BY <1>4 DEF ClaimedOf
  <2>2. \A q \in Request : ~ClaimedOf(worker[w], q)
    BY <1>1 DEF ClaimedOf
  <2>3. \A q \in Request : IsOp(q) => (Holding(q)' <=> Holding(q))
    BY <1>6, <1>7, <1>8, <2>1, <2>2, HoldingWorker
  <2>4. SlotsKept({})
    BY <1>3, <2>3 DEF SlotsKept
  <2> QED
    BY <2>4, SlotsFrame DEF IInv
<1> QED
  BY <1>6, <1>11, <1>12, <1>13, <1>14 DEF IInv, Effects

\* One request of a batch, or of the queue, is answered.
LEMMA CompletedTyped ==
    ASSUME NEW r \in Request, req[r] \in ReqType,
           NEW res \in Outs \cup {"cancelled", "expired", "skipped"}
    PROVE  LET c == Completed(r, res) IN
           /\ c \in ReqType /\ c.accepted = req[r].accepted /\ c.ticket = req[r].ticket
           /\ c.started = req[r].started
           /\ c.result = IF req[r].cancelled THEN "cancelled" ELSE res
BY DEF Completed, ReqType

LEMMA SkipFirstStep ==
    ASSUME IInv, NEW w \in Worker, SkipFirst(w)
    PROVE  IInv'
<1>1. /\ worker[w].pc = "first" /\ worker[w].jobs # <<>>
      /\ \A i \in 1..Len(worker[w].jobs) : ~IsOp(worker[w].jobs[i])
  BY DEF SkipFirst, IsAt, IInv, Shapes, Shape, Batching
<1>2. PICK r \in Request : r = worker[w].jobs[1] /\ Holds(w, r) /\ ~IsOp(r)
  BY <1>1, HeldTyped DEF IInv, Holds
<1> DEFINE x == [pc |-> "check", jobs |-> <<>>, out |-> "none"]
           c == Completed(r, SkipError(r))
<1>3. /\ worker' = [worker EXCEPT ![w] = x] /\ req' = [req EXCEPT ![r] = c]
      /\ UNCHANGED <<thread, queue, queuedBytes, shutdown, nextDevice, lane>>
  BY <1>2 DEF SkipFirst, Idle
<1>4. x \in WorkerType /\ Shape(x) /\ x.jobs = <<>> /\ x.pc = "check"
  BY DEF WorkerType, Shape, Resting, Batching, OpSteps, Outs, Running
<1>5. req[r] \in ReqType /\ req[r].accepted
  BY <1>2, Typed DEF IInv, Effects, EffectsOf
<1>6. /\ c \in ReqType /\ c.accepted = req[r].accepted /\ c.ticket = req[r].ticket
      /\ c.started = req[r].started
  BY <1>5, CompletedTyped DEF SkipError
<1> HIDE DEF x, c
<1>7. /\ req' \in [Request -> ReqType] /\ req'[r] = c
      /\ \A q \in Request \ {r} : req'[q] = req[q]
  BY <1>3, <1>6, RequestUpdated DEF IInv
<1>8. /\ worker'[w] = x /\ \A v \in Worker \ {w} : worker'[v] = worker[v]
      /\ \A v \in Worker \ {w}, q \in Request : Holds(v, q)' <=> Holds(v, q)
      /\ \A q \in Request : Holding(q)' <=> Apart(w, q) \/ InQueue(q)' \/ ClaimedOf(x, q)
  BY <1>3, <1>4, WorkerMoved DEF IInv
<1>9. /\ \A q \in Request : ~Holds(w, q)' /\ (InQueue(q)' <=> InQueue(q))
      /\ \A q \in Request : Applied(q)' <=> Applied(q)
  BY <1>3, <1>4, <1>8 DEF Holds, InQueue, Applied
<1>10. TypeOK' /\ Shapes' /\ Turns' /\ Lanes' /\ Order'
  <2>1. x.pc \notin Running /\ worker[w].pc \notin {"executed", "freed"}
    BY <1>1, <1>4 DEF Running
  <2>2. Kept /\ \A q \in Request : req'[q].accepted = req[q].accepted
    BY <1>6, <1>7 DEF Kept
  <2>3. queue' \in Seq(Request) /\ queuedBytes' \in Int
    BY <1>3 DEF IInv, TypeOK
  <2> QED
    BY <1>3, <1>4, <1>7, <2>1, <2>2, <2>3, WorkFrame
<1>11. Once' /\ Charged'
  <2>1. Passes(w) /\ \A i, j \in 1..Len(queue') : queue'[i] = queue'[j] => i = j
    BY <1>3, <1>8, <1>9 DEF Passes, IInv, Once
  <2> QED
    BY <1>3, <2>1, OnceFrame DEF IInv, Charged
<1>12. ASSUME NEW q \in Request PROVE EffectsOf(q)'
  <2>1. CASE q = r
    <3>1. ~InQueue(r) /\ \A v \in Worker : ~Holds(v, r)'
      BY <1>2, <1>8, <1>9 DEF IInv, Once
    <3> QED
      BY <1>2, <1>5, <1>6, <1>7, <1>9, <2>1, <3>1 DEF EffectsOf
  <2>2. CASE q # r
    <3>1. Spared(q)
      BY <1>7, <1>8, <1>9, <2>2 DEF Spared
    <3> QED
      BY <3>1, EffectsFrame DEF IInv
  <2> QED
    BY <2>1, <2>2
<1>13. Slots'
  <2>1. \A q \in Request : ~ClaimedOf(x, q) /\ ~ClaimedOf(worker[w], q)
    BY <1>1, <1>4 DEF ClaimedOf
  <2>2. SlotsKept({})
    BY <1>3, <1>8, <1>9, <2>1, HoldingWorker DEF SlotsKept
  <2> QED
    BY <2>2, SlotsFrame DEF IInv
<1> QED
  BY <1>10, <1>11, <1>12, <1>13 DEF IInv, Effects

LEMMA GatherStep ==
    ASSUME IInv, NEW w \in Worker, Gather(w)
    PROVE  IInv'
<1>1. PICK p \in Joins(w) :
        LET r == queue[p] IN
        /\ queue' = SubSeq(queue, 1, p - 1) \o SubSeq(queue, p + 1, Len(queue))
        /\ queuedBytes' = Uncharged(r)
        /\ IF ShouldSkip(r)
           THEN /\ req' = [req EXCEPT ![r] = Completed(r, SkipError(r))]
                /\ UNCHANGED worker
           ELSE /\ worker' = [worker EXCEPT ![w].jobs = Append(@, r)]
                /\ UNCHANGED req
  BY DEF Gather
<1>2. /\ queue \in Seq(Request) /\ worker[w].pc = "gather" /\ worker[w] \in WorkerType
      /\ worker[w].jobs \in Seq(Request) /\ UNCHANGED <<thread, shutdown, nextDevice, lane>>
  BY Typed DEF Gather, IsAt, IInv, TypeOK, WorkerType
<1>3. p \in 1..Len(queue) /\ ~IsOp(queue[p])
  BY <1>1 DEF Joins
<1>4. PICK r \in Request : r = queue[p]
  BY <1>2, <1>3
<1>5. Taken(p)
  <2>1. /\ queue' \in Seq(Request) /\ Len(queue') = Len(queue) - 1
        /\ \A i \in 1..Len(queue') : queue'[i] = IF i < p THEN queue[i] ELSE queue[i + 1]
    <3> DEFINE e == SubSeq(queue, 1, p - 1)
               f == SubSeq(queue, p + 1, Len(queue))
    <3>1. /\ e \in Seq(Request) /\ Len(e) = p - 1 /\ \A i \in 1..(p - 1) : e[i] = queue[i]
          /\ f \in Seq(Request) /\ Len(f) = Len(queue) - p
          /\ \A i \in 1..(Len(queue) - p) : f[i] = queue[p + i]
          /\ p \in Nat /\ Len(queue) \in Nat
      BY <1>2, <1>3
    <3>2. queue' = e \o f
      BY <1>1
    <3> HIDE DEF e, f
    <3>3. /\ queue' \in Seq(Request) /\ Len(queue') = Len(e) + Len(f)
          /\ \A i \in 1..(Len(e) + Len(f)) :
               queue'[i] = IF i <= Len(e) THEN e[i] ELSE f[i - Len(e)]
      BY <3>1, <3>2, ConcatProperties
    <3>4. Len(queue') = Len(queue) - 1
      BY <3>1, <3>3
    <3>5. ASSUME NEW i \in 1..Len(queue')
          PROVE  queue'[i] = IF i < p THEN queue[i] ELSE queue[i + 1]
      <4>1. queue'[i] = IF i <= p - 1 THEN e[i] ELSE f[i - (p - 1)]
        BY <3>1, <3>3, <3>4
      <4>2. CASE i < p
        BY <3>1, <4>1, <4>2
      <4>3. CASE i >= p
        <5>1. i - (p - 1) \in 1..(Len(queue) - p) /\ p + (i - (p - 1)) = i + 1
          BY <3>1, <3>4, <4>3
        <5>2. f[i - (p - 1)] = queue[i + 1]
          BY <3>1, <5>1
        <5> QED
          BY <3>1, <4>1, <4>3, <5>2
      <4> QED
        BY <3>1, <4>2, <4>3
    <3> QED
      BY <3>3, <3>4, <3>5
  <2> QED
    BY <1>1, <2>1 DEF Taken, Uncharged
<1>6. /\ Charged' /\ queuedBytes' \in Int
      /\ \A i, j \in 1..Len(queue') : queue'[i] = queue'[j] => i = j
      /\ \A q \in Request : InQueue(q)' <=> InQueue(q) /\ q # r
  BY <1>3, <1>4, <1>5, QueueTaken
<1>7. /\ ~IsOp(r) /\ InQueue(r) /\ req[r].accepted /\ Untouched(req[r]) /\ req[r] \in ReqType
      /\ \A v \in Worker : ~Holds(v, r)
  BY <1>3, <1>4, Typed DEF InQueue, IInv, Effects, EffectsOf, Once
<1> DEFINE x == IF ShouldSkip(r) THEN worker[w]
                ELSE [worker[w] EXCEPT !.jobs = Append(worker[w].jobs, r)]
           c == IF ShouldSkip(r) THEN Completed(r, SkipError(r)) ELSE req[r]
<1>8. /\ worker' = [worker EXCEPT ![w] = x] /\ req' = [req EXCEPT ![r] = c]
  <2>1. CASE ShouldSkip(r)
    BY <1>1, <1>4, <2>1 DEF IInv, TypeOK
  <2>2. CASE ~ShouldSkip(r)
    BY <1>1, <1>4, <2>2 DEF IInv, TypeOK
  <2> QED
    BY <2>1, <2>2
<1>9. /\ x \in WorkerType /\ x.pc = "gather" /\ x.out = worker[w].out
      /\ x.jobs = IF ShouldSkip(r) THEN worker[w].jobs ELSE Append(worker[w].jobs, r)
  <2>1. Append(worker[w].jobs, r) \in Seq(Request)
    BY <1>2
  <2>2. CASE ShouldSkip(r)
    BY <1>2, <2>2
  <2>3. CASE ~ShouldSkip(r)
    BY <1>2, <2>1, <2>3 DEF WorkerType
  <2> QED
    BY <2>2, <2>3
<1>10. /\ c \in ReqType /\ c.accepted = req[r].accepted /\ c.ticket = req[r].ticket
       /\ c.started = req[r].started
  BY <1>7, CompletedTyped DEF SkipError
<1> HIDE DEF x, c
<1>11. Shape(x)
  <2>1. /\ worker[w].jobs # <<>> /\ \A i \in 1..Len(worker[w].jobs) : ~IsOp(worker[w].jobs[i])
    BY <1>2 DEF IInv, Shapes, Shape, Batching
  <2>2. /\ x.jobs # <<>> /\ \A i \in 1..Len(x.jobs) : ~IsOp(x.jobs[i])
    BY <1>2, <1>7, <1>9, <2>1
  <2> QED
    BY <1>9, <2>2 DEF Shape, Resting, Batching, OpSteps, Running
<1>12. /\ req' \in [Request -> ReqType] /\ req'[r] = c
       /\ \A q \in Request \ {r} : req'[q] = req[q]
  BY <1>8, <1>10, RequestUpdated DEF IInv
<1>13. /\ worker'[w] = x /\ \A v \in Worker \ {w} : worker'[v] = worker[v]
       /\ \A v \in Worker \ {w}, q \in Request : Holds(v, q)' <=> Holds(v, q)
       /\ \A q \in Request : Holding(q)' <=> Apart(w, q) \/ InQueue(q)' \/ ClaimedOf(x, q)
  BY <1>2, <1>8, <1>9, WorkerMoved DEF IInv
<1>14. \A q \in Request : Holds(w, q)' => Holds(w, q) \/ q = r
  <2>1. worker'[w].jobs = worker[w].jobs \/ worker'[w].jobs = Append(worker[w].jobs, r)
    BY <1>9, <1>13
  <2> QED
    BY <1>2, <2>1, SMTT(30) DEF Holds
<1>15. TypeOK' /\ Shapes' /\ Turns' /\ Lanes' /\ Order'
  <2>1. x.pc \notin Running /\ worker[w].pc \notin {"executed", "freed"}
    BY <1>2, <1>9 DEF Running
  <2>2. Kept /\ \A q \in Request : req'[q].accepted = req[q].accepted
    BY <1>10, <1>12 DEF Kept
  <2>3. queue' \in Seq(Request)
    BY <1>5 DEF Taken
  <2> QED
    BY <1>2, <1>6, <1>8, <1>9, <1>11, <1>12, <2>1, <2>2, <2>3, WorkFrame
<1>16. Once'
  <2>1. Passes(w)
    BY <1>6, <1>7, <1>13, <1>14 DEF Passes, IInv, Once
  <2> QED
    BY <1>6, <2>1, OnceFrame DEF IInv
<1>17. ASSUME NEW q \in Request PROVE EffectsOf(q)'
  <2>1. CASE q = r
    <3>1. \A v \in Worker : Holds(v, r)' => v = w
      BY <1>7, <1>13
    <3>2. worker'[w].pc = "gather" /\ ~InQueue(r)' /\ req'[r].accepted
      BY <1>6, <1>7, <1>9, <1>10, <1>12, <1>13
    <3> QED
      BY <1>7, <2>1, <3>1, <3>2 DEF EffectsOf
  <2>2. CASE q # r
    <3>1. Applied(q)' <=> Applied(q)
      BY <1>2 DEF Applied
    <3>2. worker'[w].out = worker[w].out /\ worker'[w].pc = worker[w].pc
      BY <1>2, <1>9, <1>13
    <3>3. Spared(q)
      BY <1>6, <1>12, <1>13, <1>14, <2>2, <3>1, <3>2 DEF Spared
    <3> QED
      BY <3>3, EffectsFrame DEF IInv
  <2> QED
    BY <2>1, <2>2
<1>18. Slots'
  <2>1. \A q \in Request : ~ClaimedOf(x, q) /\ ~ClaimedOf(worker[w], q)
    BY <1>2, <1>9 DEF ClaimedOf
  <2>2. \A q \in Request : IsOp(q) => (Holding(q)' <=> Holding(q))
    BY <1>6, <1>7, <1>13, <2>1, HoldingWorker
  <2>3. SlotsKept({})
    BY <1>2, <2>2 DEF SlotsKept
  <2> QED
    BY <2>3, SlotsFrame DEF IInv
<1> QED
  BY <1>6, <1>15, <1>16, <1>17, <1>18 DEF IInv, Effects

LEMMA DeliverStep ==
    ASSUME IInv, NEW w \in Worker, Deliver(w)
    PROVE  IInv'
<1>1. /\ worker[w].pc = "deliver" /\ worker[w] \in WorkerType /\ worker[w].jobs # <<>>
      /\ worker[w].jobs \in Seq(Request) /\ worker[w].out \in Outs
      /\ \A i \in 1..Len(worker[w].jobs) : IsOp(worker[w].jobs[i]) => Len(worker[w].jobs) = 1
  BY Typed DEF Deliver, IsAt, IInv, Shapes, Shape, WorkerType
<1>2. PICK r \in Request : r = worker[w].jobs[1] /\ Holds(w, r)
  BY <1>1, HeldTyped DEF IInv
<1> DEFINE x == IF Len(worker[w].jobs) = 1 THEN [pc |-> "check", jobs |-> <<>>, out |-> "none"]
                ELSE [worker[w] EXCEPT !.jobs = Tail(worker[w].jobs)]
           c == Completed(r, worker[w].out)
<1>3. /\ worker' = [worker EXCEPT ![w] = x] /\ req' = [req EXCEPT ![r] = c]
      /\ UNCHANGED <<thread, queue, queuedBytes, shutdown, nextDevice, lane>>
  BY <1>1, <1>2 DEF Deliver, Idle, IInv, TypeOK
<1>4. /\ x \in WorkerType
      /\ IF Len(worker[w].jobs) = 1 THEN x.jobs = <<>> /\ x.pc = "check"
         ELSE x.jobs = Tail(worker[w].jobs) /\ x.pc = "deliver" /\ x.out = worker[w].out
  <2>1. CASE Len(worker[w].jobs) = 1
    BY <2>1 DEF WorkerType, Resting, Outs
  <2>2. CASE Len(worker[w].jobs) # 1
    <3>1. Tail(worker[w].jobs) \in Seq(Request)
      BY <1>1
    <3> QED
      BY <1>1, <2>2, <3>1 DEF WorkerType
  <2> QED
    BY <2>1, <2>2
<1>5. req[r] \in ReqType /\ req[r].accepted /\ (IsOp(r) /\ worker[w].out = "ok" => Applied(r))
  BY <1>2, Typed DEF IInv, Effects, EffectsOf
<1>6. /\ c \in ReqType /\ c.accepted = req[r].accepted /\ c.ticket = req[r].ticket
      /\ c.started = req[r].started
      /\ c.result = IF req[r].cancelled THEN "cancelled" ELSE worker[w].out
  BY <1>1, <1>5, CompletedTyped
<1> HIDE DEF x, c
<1>7. /\ req' \in [Request -> ReqType] /\ req'[r] = c
      /\ \A q \in Request \ {r} : req'[q] = req[q]
  BY <1>3, <1>6, RequestUpdated DEF IInv
<1>8. /\ worker'[w] = x /\ \A v \in Worker \ {w} : worker'[v] = worker[v]
      /\ \A v \in Worker \ {w}, q \in Request : Holds(v, q)' <=> Holds(v, q)
      /\ \A q \in Request : Holding(q)' <=> Apart(w, q) \/ InQueue(q)' \/ ClaimedOf(x, q)
  BY <1>3, <1>4, WorkerMoved DEF IInv
<1>9. \A i \in 1..Len(x.jobs) :
        /\ i + 1 \in 1..Len(worker[w].jobs) /\ x.jobs[i] = worker[w].jobs[i + 1]
        /\ Len(worker[w].jobs) # 1
  <2>1. Len(<<>>) = 0 /\ 1..0 = {}
    OBVIOUS
  <2>2. CASE Len(worker[w].jobs) = 1
    BY <1>4, <2>1, <2>2
  <2>3. CASE Len(worker[w].jobs) # 1
    <3>1. /\ Len(Tail(worker[w].jobs)) = Len(worker[w].jobs) - 1 /\ Len(worker[w].jobs) \in Nat
          /\ \A i \in 1..(Len(worker[w].jobs) - 1) : Tail(worker[w].jobs)[i] = worker[w].jobs[i + 1]
      BY <1>1
    <3>2. x.jobs = Tail(worker[w].jobs)
      BY <1>4, <2>3
    <3> QED
      BY <2>3, <3>1, <3>2
  <2> QED
    BY <2>2, <2>3
<1>10. Shape(x)
  <2>1. \A i \in 1..Len(x.jobs) : ~IsOp(x.jobs[i])
    BY <1>1, <1>9
  <2>2. Len(worker[w].jobs) # 1 => x.jobs # <<>>
    <3>1. Len(worker[w].jobs) \in Nat \ {0} /\ Len(Tail(worker[w].jobs)) = Len(worker[w].jobs) - 1
      BY <1>1
    <3>2. Len(<<>>) = 0
      OBVIOUS
    <3>3. Len(worker[w].jobs) # 1 => x.jobs = Tail(worker[w].jobs)
      BY <1>4
    <3>4. ASSUME Len(worker[w].jobs) # 1 PROVE Len(x.jobs) # 0
      <4>1. Len(x.jobs) = Len(Tail(worker[w].jobs))
        BY <3>3, <3>4
      <4>2. \A n \in Nat \ {0} : n # 1 => n - 1 # 0
        OBVIOUS
      <4> QED
        BY <3>1, <3>4, <4>1, <4>2
    <3> QED
      BY <3>2, <3>4
  <2> QED
    BY <1>4, <2>1, <2>2 DEF Shape, Resting, Batching, OpSteps, Running
<1>11. \A q \in Request : Holds(w, q)' =>
         Holds(w, q) /\ worker'[w].pc = worker[w].pc /\ worker'[w].out = worker[w].out
  <2>1. ASSUME NEW q \in Request, NEW i \in 1..Len(x.jobs), x.jobs[i] = q
        PROVE  Holds(w, q) /\ x.pc = worker[w].pc /\ x.out = worker[w].out
    BY <1>1, <1>4, <1>9, <2>1 DEF Holds
  <2> QED
    BY <1>8, <2>1 DEF Holds
<1>12. \A q \in Request : (InQueue(q)' <=> InQueue(q)) /\ (Applied(q)' <=> Applied(q))
  BY <1>3 DEF InQueue, Applied
<1>13. TypeOK' /\ Shapes' /\ Turns' /\ Lanes' /\ Order'
  <2>1. x.pc \notin Running /\ worker[w].pc \notin {"executed", "freed"}
    BY <1>1, <1>4 DEF Running
  <2>2. Kept /\ \A q \in Request : req'[q].accepted = req[q].accepted
    BY <1>6, <1>7 DEF Kept
  <2>3. queue' \in Seq(Request) /\ queuedBytes' \in Int
    BY <1>3 DEF IInv, TypeOK
  <2> QED
    BY <1>3, <1>4, <1>7, <1>10, <2>1, <2>2, <2>3, WorkFrame
<1>14. Once' /\ Charged'
  <2>1. Passes(w) /\ \A i, j \in 1..Len(queue') : queue'[i] = queue'[j] => i = j
    BY <1>3, <1>8, <1>11, <1>12 DEF Passes, IInv, Once
  <2> QED
    BY <1>3, <2>1, OnceFrame DEF IInv, Charged
<1>15. ASSUME NEW q \in Request PROVE EffectsOf(q)'
  <2>1. CASE q = r
    <3>1. ~InQueue(r) /\ \A v \in Worker : Holds(v, r)' => v = w
      BY <1>2, <1>8 DEF IInv, Once
    <3>2. \A v \in Worker : Holds(v, r)' =>
            worker'[v].pc = "deliver" /\ worker'[v].out = worker[w].out
      BY <1>1, <1>11, <3>1
    <3>3. req'[r].result \notin {"ok", "expired"} \/ req'[r].result = worker[w].out
      BY <1>6, <1>7
    <3>4. req'[r].result # "expired"
      BY <1>1, <1>6, <1>7 DEF Outs
    <3> QED
      BY <1>5, <1>6, <1>7, <1>12, <2>1, <3>1, <3>2, <3>3, <3>4 DEF EffectsOf
  <2>2. CASE q # r
    <3>1. Spared(q)
      BY <1>7, <1>8, <1>11, <1>12, <2>2 DEF Spared
    <3> QED
      BY <3>1, EffectsFrame DEF IInv
  <2> QED
    BY <2>1, <2>2
<1>16. Slots'
  <2>1. \A q \in Request : ~ClaimedOf(x, q) /\ ~ClaimedOf(worker[w], q)
    BY <1>1, <1>4 DEF ClaimedOf
  <2>2. SlotsKept({})
    BY <1>3, <1>8, <1>12, <2>1, HoldingWorker DEF SlotsKept
  <2> QED
    BY <2>2, SlotsFrame DEF IInv
<1> QED
  BY <1>13, <1>14, <1>15, <1>16 DEF IInv, Effects

-----------------------------------------------------------------------------
(* The turn of an operation. *)

LEMMA TakeTurnStep ==
    ASSUME IInv, NEW w \in Worker, TakeTurn(w)
    PROVE  IInv'
<1>1. worker[w].pc = "waiting" /\ worker[w].pc \in OpSteps
  BY DEF TakeTurn, IsAt, OpSteps
<1>2. PICK r \in Request :
        /\ r = worker[w].jobs[1] /\ Lane(r) \in Session /\ IsOp(r) /\ worker[w].jobs = <<r>>
        /\ worker[w] \in WorkerType /\ \A q \in Request : Holds(w, q) <=> q = r
  BY <1>1, AtWork
<1> DEFINE x == [worker[w] EXCEPT !.pc = "turn"]
<1>3. /\ worker' = [worker EXCEPT ![w] = x]
      /\ lane[Lane(r)].next = req[r].ticket /\ ~TurnHeld(Lane(r))
      /\ UNCHANGED <<thread, queue, queuedBytes, shutdown, nextDevice, lane, req>>
  BY <1>2 DEF TakeTurn, Step, IsTurn, IInv, TypeOK
<1>4. x \in WorkerType /\ x.pc = "turn" /\ x.jobs = <<r>> /\ x.out = worker[w].out
  BY <1>2 DEF WorkerType, OpSteps, Running
<1> HIDE DEF x
<1>5. Shape(x)
  <2>1. Len(<<r>>) = 1 /\ <<r>>[1] = r /\ x.out = "none"
    BY <1>1, <1>4 DEF IInv, Shapes, Shape
  <2> QED
    BY <1>2, <1>4, <2>1 DEF Shape, Resting, Batching
<1>6. /\ worker'[w] = x /\ \A v \in Worker \ {w} : worker'[v] = worker[v]
      /\ \A v \in Worker \ {w}, q \in Request : Holds(v, q)' <=> Holds(v, q)
      /\ \A q \in Request : Holding(q)' <=> Apart(w, q) \/ InQueue(q)' \/ ClaimedOf(x, q)
  BY <1>3, <1>4, WorkerMoved DEF IInv
<1>7. \A v \in Worker, q \in Request : Holds(v, q)' <=> Holds(v, q)
  <2>1. worker'[w].jobs = worker[w].jobs
    BY <1>2, <1>4, <1>6
  <2> QED
    BY <1>6, <2>1 DEF Holds
<1>8. Kept
  BY <1>3 DEF Kept
<1>9. TypeOK' /\ Shapes' /\ Order'
  <2>1. /\ lane' \in [Session -> LaneType] /\ req' \in [Request -> ReqType]
        /\ queue' \in Seq(Request) /\ queuedBytes' \in Int
        /\ \A s \in Session : lane'[s].issued = lane[s].issued
        /\ \A q \in Request : req'[q].accepted = req[q].accepted
    BY <1>3 DEF IInv, TypeOK
  <2> QED
    BY <1>3, <1>4, <1>5, <1>8, <2>1, WorkParts
<1>10. Once' /\ Charged'
  BY <1>3, <1>7 DEF IInv, Once, InQueue, Charged
<1>11. ASSUME NEW q \in Request PROVE EffectsOf(q)'
  <2>1. InQueue(q)' = InQueue(q) /\ Applied(q)' = Applied(q)
    BY <1>3 DEF InQueue, Applied
  <2>2. Spared(q)
    BY <1>1, <1>3, <1>4, <1>6, <1>7, <2>1 DEF Spared
  <2> QED
    BY <2>2, EffectsFrame DEF IInv
<1>12. Turns'
  <2>1. \A v \in Worker : worker'[v].jobs = worker[v].jobs
    BY <1>2, <1>4, <1>6
  <2>2. \A v \in Worker : HasTurn(v)' <=> HasTurn(v) \/ v = w
    BY <1>4, <1>6 DEF HasTurn, Running
  <2>3. ASSUME NEW v \in Worker, HasTurn(v) PROVE Lane(worker[v].jobs[1]) # Lane(r)
    BY <1>3, <2>3 DEF TurnHeld, HasTurn, Running
  <2>4. ASSUME NEW v \in Worker, HasTurn(v)'
        PROVE  lane'[Lane(worker'[v].jobs[1])].next = req'[worker'[v].jobs[1]].ticket
    BY <1>2, <1>3, <2>1, <2>2, <2>4 DEF IInv, Turns
  <2>5. ASSUME NEW v \in Worker, NEW u \in Worker, HasTurn(v)', HasTurn(u)', v # u
        PROVE  Lane(worker'[v].jobs[1]) # Lane(worker'[u].jobs[1])
    BY <1>2, <2>1, <2>2, <2>3, <2>5 DEF IInv, Turns
  <2> QED
    BY <2>4, <2>5 DEF Turns
<1>13. ASSUME NEW s \in Session PROVE LaneSound(s)'
  <2>1. \A q \in Request : Behind(q) => Behind(q)'
    BY <1>1, <1>3, <1>6 DEF Behind, Finished
  <2>2. LaneKept(s)
    BY <1>3, <2>1 DEF LaneKept, IInv, Lanes, LaneSound
  <2> QED
    BY <1>8, <2>2, LaneFrame
<1>14. Slots'
  <2>1. \A q \in Request : ClaimedOf(x, q) <=> ClaimedOf(worker[w], q)
    BY <1>1, <1>2, <1>4 DEF ClaimedOf
  <2>2. \A q \in Request : InQueue(q)' = InQueue(q)
    BY <1>3 DEF InQueue
  <2>3. SlotsKept({})
    BY <1>3, <1>6, <2>1, <2>2, HoldingWorker DEF SlotsKept
  <2> QED
    BY <2>3, SlotsFrame DEF IInv
<1> QED
  BY <1>9, <1>10, <1>11, <1>12, <1>13, <1>14 DEF IInv, Effects, Lanes

LEMMA SkipOpStep ==
    ASSUME IInv, NEW w \in Worker, SkipOp(w)
    PROVE  IInv'
<1>1. worker[w].pc = "turn" /\ worker[w].pc \in OpSteps
  BY DEF SkipOp, IsAt, OpSteps, Running
<1>2. PICK r \in Request :
        /\ r = worker[w].jobs[1] /\ Lane(r) \in Session /\ IsOp(r) /\ worker[w].jobs = <<r>>
        /\ worker[w] \in WorkerType /\ req[r] \in ReqType /\ req[r].accepted /\ ~InQueue(r)
        /\ \A q \in Request : Holds(w, q) <=> q = r
        /\ \A v \in Worker : Holds(v, r) <=> v = w
  BY <1>1, AtWork
<1> DEFINE x == [worker[w] EXCEPT !.pc = "executed"]
           c == Completed(r, SkipError(r))
<1>3. /\ worker' = [worker EXCEPT ![w] = x] /\ req' = [req EXCEPT ![r] = c]
      /\ UNCHANGED <<thread, queue, queuedBytes, shutdown, nextDevice, lane>>
  BY <1>2 DEF SkipOp, Step, IInv, TypeOK
<1>4. x \in WorkerType /\ x.pc = "executed" /\ x.jobs = <<r>> /\ x.out = "none"
  BY <1>1, <1>2 DEF WorkerType, OpSteps, Running, IInv, Shapes, Shape
<1>5. /\ c \in ReqType /\ c.accepted = req[r].accepted /\ c.ticket = req[r].ticket
      /\ c.started = req[r].started /\ c.result # "ok"
  <2>1. PICK e \in {"expired", "skipped"} : e = SkipError(r)
    BY DEF SkipError
  <2>2. LET d == Completed(r, e) IN
        /\ d \in ReqType /\ d.accepted = req[r].accepted /\ d.ticket = req[r].ticket
        /\ d.started = req[r].started
        /\ d.result = IF req[r].cancelled THEN "cancelled" ELSE e
    BY <1>2, CompletedTyped, ZenonT(30)
  <2> QED
    BY <2>1, <2>2
<1>6. ~req[r].started
  BY <1>1, <1>2 DEF IInv, Effects, EffectsOf, Untouched
<1> HIDE DEF x, c
<1>7. Shape(x)
  <2>1. Len(<<r>>) = 1 /\ <<r>>[1] = r
    OBVIOUS
  <2> QED
    BY <1>2, <1>4, <2>1 DEF Shape, Resting, Batching
<1>8. /\ req' \in [Request -> ReqType] /\ req'[r] = c
      /\ \A q \in Request \ {r} : req'[q] = req[q]
  BY <1>3, <1>5, RequestUpdated DEF IInv
<1>9. /\ worker'[w] = x /\ \A v \in Worker \ {w} : worker'[v] = worker[v]
      /\ \A v \in Worker \ {w}, q \in Request : Holds(v, q)' <=> Holds(v, q)
      /\ \A q \in Request : Holding(q)' <=> Apart(w, q) \/ InQueue(q)' \/ ClaimedOf(x, q)
  BY <1>3, <1>4, WorkerMoved DEF IInv
<1>10. \A v \in Worker, q \in Request : Holds(v, q)' <=> Holds(v, q)
  <2>1. worker'[w].jobs = worker[w].jobs
    BY <1>2, <1>4, <1>9
  <2> QED
    BY <1>9, <2>1 DEF Holds
<1>11. TypeOK' /\ Shapes' /\ Turns' /\ Lanes' /\ Order'
  <2>1. /\ worker[w].pc \in Running /\ x.jobs = worker[w].jobs
        /\ worker[w].pc \notin {"executed", "freed"}
    BY <1>1, <1>2, <1>4 DEF Running
  <2>2. Kept /\ \A q \in Request : req'[q].accepted = req[q].accepted
    BY <1>5, <1>8 DEF Kept
  <2>3. queue' \in Seq(Request) /\ queuedBytes' \in Int
    BY <1>3 DEF IInv, TypeOK
  <2> QED
    BY <1>3, <1>4, <1>7, <1>8, <2>1, <2>2, <2>3, WorkFrame
<1>12. Once' /\ Charged'
  BY <1>3, <1>10 DEF IInv, Once, InQueue, Charged
<1>13. ASSUME NEW q \in Request PROVE EffectsOf(q)'
  <2>1. InQueue(q)' = InQueue(q) /\ Applied(q)' = Applied(q)
    BY <1>3 DEF InQueue, Applied
  <2>2. CASE q = r
    <3>1. \A v \in Worker : Holds(v, r)' => worker'[v].pc = "executed" /\ worker'[v].out = "none"
      BY <1>2, <1>4, <1>9, <1>10
    <3> QED
      BY <1>2, <1>5, <1>6, <1>8, <2>1, <2>2, <3>1 DEF EffectsOf
  <2>3. CASE q # r
    <3>1. \A v \in Worker : Holds(v, q)' => v # w /\ Holds(v, q)
      BY <1>2, <1>10, <2>3
    <3>2. Spared(q)
      BY <1>8, <1>9, <2>1, <2>3, <3>1 DEF Spared
    <3> QED
      BY <3>2, EffectsFrame DEF IInv
  <2> QED
    BY <2>2, <2>3
<1>14. Slots'
  <2>1. \A q \in Request : ClaimedOf(x, q) <=> ClaimedOf(worker[w], q)
    BY <1>1, <1>2, <1>4 DEF ClaimedOf
  <2>2. \A q \in Request : InQueue(q)' = InQueue(q)
    BY <1>3 DEF InQueue
  <2>3. SlotsKept({})
    BY <1>3, <1>9, <2>1, <2>2, HoldingWorker DEF SlotsKept
  <2> QED
    BY <2>3, SlotsFrame DEF IInv
<1> QED
  BY <1>11, <1>12, <1>13, <1>14 DEF IInv, Effects

\* An operation is begun: the session may have applied it.
LEMMA ExecuteStep ==
    ASSUME IInv, NEW w \in Worker, Execute(w)
    PROVE  IInv'
<1>1. worker[w].pc = "turn" /\ worker[w].pc \in OpSteps /\ HasTurn(w)
  BY DEF Execute, IsAt, OpSteps, Running, HasTurn
<1>2. PICK r \in Request :
        /\ r = worker[w].jobs[1] /\ Lane(r) \in Session /\ IsOp(r) /\ worker[w].jobs = <<r>>
        /\ worker[w] \in WorkerType /\ req[r] \in ReqType /\ req[r].accepted /\ ~InQueue(r)
        /\ lane[Lane(r)] \in LaneType
        /\ \A q \in Request : Holds(w, q) <=> q = r
        /\ \A v \in Worker : Holds(v, r) <=> v = w
  BY <1>1, AtWork
<1>3. PICK o \in {"ok", "error"} :
        /\ worker' = [worker EXCEPT ![w].pc = "executed", ![w].out = o]
        /\ lane' = [lane EXCEPT ![Lane(r)].applied = IF o = "ok" THEN Append(@, r) ELSE @]
  BY <1>2 DEF Execute
<1> DEFINE x == [worker[w] EXCEPT !.pc = "executed", !.out = o]
           a == lane[Lane(r)].applied
           b == IF o = "ok" THEN Append(a, r) ELSE a
           l == [lane[Lane(r)] EXCEPT !.applied = b]
           c == [req[r] EXCEPT !.started = TRUE]
<1>4. /\ worker' = [worker EXCEPT ![w] = x] /\ lane' = [lane EXCEPT ![Lane(r)] = l]
      /\ req' = [req EXCEPT ![r] = c]
      /\ UNCHANGED <<thread, queue, queuedBytes, shutdown, nextDevice>>
  BY <1>2, <1>3 DEF Execute, IInv, TypeOK
<1>5. x \in WorkerType /\ x.pc = "executed" /\ x.jobs = <<r>> /\ x.out = o
  BY <1>2 DEF WorkerType, OpSteps, Running, Outs
<1>6. /\ c \in ReqType /\ c.accepted = req[r].accepted /\ c.ticket = req[r].ticket
      /\ c.started /\ c.result = req[r].result
  BY <1>2 DEF ReqType
<1>7. a \in Seq(Request) /\ b \in Seq(Request) /\ Len(a) \in Nat
  BY <1>2 DEF LaneType
<1> HIDE DEF b
<1>8. /\ l \in LaneType /\ l.applied = b /\ l.pending = lane[Lane(r)].pending
      /\ l.issued = lane[Lane(r)].issued /\ l.next = lane[Lane(r)].next
      /\ l.cancelled = lane[Lane(r)].cancelled
  BY <1>2, <1>7 DEF LaneType
<1> HIDE DEF x, c, l
<1>9. /\ req' \in [Request -> ReqType] /\ req'[r] = c
      /\ \A q \in Request \ {r} : req'[q] = req[q]
  BY <1>4, <1>6, RequestUpdated DEF IInv
<1>10. /\ lane' \in [Session -> LaneType] /\ lane'[Lane(r)] = l
       /\ \A u \in Session \ {Lane(r)} : lane'[u] = lane[u]
  BY <1>2, <1>4, <1>8, LaneUpdated DEF IInv
<1>11. /\ worker'[w] = x /\ \A v \in Worker \ {w} : worker'[v] = worker[v]
       /\ \A v \in Worker \ {w}, q \in Request : Holds(v, q)' <=> Holds(v, q)
       /\ \A q \in Request : Holding(q)' <=> Apart(w, q) \/ InQueue(q)' \/ ClaimedOf(x, q)
  BY <1>4, <1>5, WorkerMoved DEF IInv
<1>12. /\ worker'[w].jobs = worker[w].jobs
       /\ \A v \in Worker, q \in Request : Holds(v, q)' <=> Holds(v, q)
  <2>1. worker'[w].jobs = worker[w].jobs
    BY <1>2, <1>5, <1>11
  <2> QED
    BY <1>11, <2>1 DEF Holds
<1>13. \A s \in Session : /\ lane'[s].issued = lane[s].issued /\ lane'[s].next = lane[s].next
                          /\ lane'[s].pending = lane[s].pending
                          /\ lane'[s].cancelled = lane[s].cancelled
  BY <1>8, <1>10
<1>14. Kept /\ \A q \in Request : req'[q].accepted = req[q].accepted
  BY <1>6, <1>9 DEF Kept
<1>15. Shape(x)
  <2>1. Len(<<r>>) = 1 /\ <<r>>[1] = r
    OBVIOUS
  <2> QED
    BY <1>2, <1>5, <2>1 DEF Shape, Resting, Batching
<1>16. TypeOK' /\ Shapes' /\ Order'
  <2>1. queue' \in Seq(Request) /\ queuedBytes' \in Int
    BY <1>4 DEF IInv, TypeOK
  <2> QED
    BY <1>4, <1>5, <1>9, <1>10, <1>13, <1>14, <1>15, <2>1, WorkParts
<1>17. Once' /\ Charged'
  BY <1>4, <1>12 DEF IInv, Once, InQueue, Charged
<1>18. Turns'
  <2>1. \A v \in Worker : HasTurn(v)' => HasTurn(v) /\ worker'[v].jobs = worker[v].jobs
    BY <1>1, <1>11, <1>12 DEF HasTurn
  <2>2. \A v \in Worker : HasTurn(v) => Lane(worker[v].jobs[1]) \in Session
    BY OpHeld DEF IInv, HasTurn, OpSteps
  <2>3. TurnsKept
    BY <1>13, <2>1, <2>2 DEF TurnsKept
  <2> QED
    BY <1>14, <2>3, TurnsFrame
<1>19. \A q \in Request : Behind(q) => Behind(q)'
  <2>1. \A q \in Request : Finished(q) => Finished(q)'
    BY <1>1, <1>11 DEF Finished
  <2>2. \A q \in Request : Lane(q) \in Session
    BY JobTyped
  <2> QED
    BY <1>13, <1>14, <2>1, <2>2 DEF Behind, Kept
<1>20. ASSUME NEW s \in Session PROVE LaneSound(s)'
  <2>1. CASE s # Lane(r) \/ o # "ok"
    <3>1. LaneKept(s)
      BY <1>8, <1>10, <1>13, <1>19, <2>1 DEF b, LaneKept, IInv, Lanes, LaneSound
    <3> QED
      BY <1>14, <3>1, LaneFrame
  <2>2. CASE s = Lane(r) /\ o = "ok"
    <3>1. LaneSound(s) /\ lane[s].applied = a
      BY <2>2 DEF IInv, Lanes
    <3>2. /\ lane'[s].applied = b /\ Len(b) = Len(a) + 1 /\ b[Len(a) + 1] = r
          /\ \A i \in 1..Len(a) : b[i] = a[i]
      BY <1>7, <1>8, <1>10, <2>2 DEF b
    <3>3. lane[s].next = req[r].ticket
      BY <1>1, <1>2, <2>2 DEF IInv, Turns
    <3>4. ASSUME NEW i \in 1..Len(a)
          PROVE  /\ a[i] \in Request /\ IsOp(a[i]) /\ Lane(a[i]) = s
                 /\ req'[a[i]].started /\ req'[a[i]].ticket = req[a[i]].ticket
                 /\ req[a[i]].ticket < req[r].ticket
      <4>1. a[i] \in Request /\ IsOp(a[i]) /\ Lane(a[i]) = s /\ req[a[i]].started
        BY <1>7, <3>1 DEF LaneSound
      <4>2. ASSUME NEW v \in Worker, worker[v].pc \in {"executed", "freed"},
                   worker[v].jobs[1] = a[i]
            PROVE  FALSE
        <5>1. HasTurn(v) /\ v # w
          BY <1>1, <4>2 DEF HasTurn, Running
        <5> QED
          BY <1>1, <1>2, <2>2, <4>1, <4>2, <5>1 DEF IInv, Turns
      <4>3. req[a[i]].ticket < lane[s].next
        BY <3>1, <4>2 DEF LaneSound
      <4> QED
        BY <1>14, <3>3, <4>1, <4>3 DEF Kept
    <3>5. /\ req'[r].started /\ req'[r].ticket = req[r].ticket
          /\ worker'[w].pc = "executed" /\ worker'[w].jobs[1] = r
      BY <1>2, <1>5, <1>6, <1>9, <1>11, <1>12
    <3>6. lane'[s].next = lane[s].next /\ IsFiniteSet(lane'[s].cancelled)
      BY <1>13, <3>1 DEF LaneSound
    <3>7. ASSUME NEW i \in 1..Len(b)
          PROVE  /\ IsOp(b[i]) /\ Lane(b[i]) = s /\ req'[b[i]].started
                 /\ \/ req'[b[i]].ticket < lane'[s].next
                    \/ \E v \in Worker : /\ worker'[v].pc \in {"executed", "freed"}
                                         /\ worker'[v].jobs[1] = b[i]
      <4>1. CASE i \in 1..Len(a)
        BY <3>2, <3>3, <3>4, <3>6, <4>1
      <4>2. CASE i = Len(a) + 1
        BY <1>2, <2>2, <3>2, <3>5, <4>2
      <4> QED
        BY <1>7, <3>2, <4>1, <4>2
    <3>8. ASSUME NEW i \in 1..Len(b), NEW j \in 1..Len(b), i < j
          PROVE  req'[b[i]].ticket < req'[b[j]].ticket
      <4>1. i \in 1..Len(a)
        BY <1>7, <3>2, <3>8
      <4>2. CASE j \in 1..Len(a)
        BY <3>1, <3>2, <3>4, <3>8, <4>1, <4>2, SMTT(30) DEF LaneSound
      <4>3. CASE j = Len(a) + 1
        BY <3>2, <3>4, <3>5, <4>1, <4>3
      <4> QED
        BY <1>7, <3>2, <4>2, <4>3
    <3> QED
      BY <3>2, <3>6, <3>7, <3>8 DEF LaneSound
  <2> QED
    BY <2>1, <2>2
<1>21. ASSUME NEW q \in Request, Applied(q) \/ (q = r /\ o = "ok") PROVE Applied(q)'
  <2>1. CASE Lane(q) = Lane(r) /\ o = "ok"
    <3>1. /\ lane'[Lane(q)].applied = b /\ Len(b) = Len(a) + 1 /\ b[Len(a) + 1] = r
          /\ \A i \in 1..Len(a) : b[i] = a[i]
      BY <1>7, <1>8, <1>10, <2>1 DEF b
    <3>2. \E i \in 1..Len(b) : b[i] = q
      BY <1>7, <1>21, <2>1, <3>1 DEF Applied
    <3> QED
      BY <3>1, <3>2 DEF Applied
  <2>2. CASE ~(Lane(q) = Lane(r) /\ o = "ok")
    <3>1. Lane(q) \in Session /\ Applied(q)
      BY <1>21, <2>2, JobTyped
    <3>2. lane'[Lane(q)].applied = lane[Lane(q)].applied
      BY <1>8, <1>10, <2>2, <3>1 DEF b
    <3> QED
      BY <3>1, <3>2 DEF Applied
  <2> QED
    BY <2>1, <2>2
<1>22. ASSUME NEW q \in Request PROVE EffectsOf(q)'
  <2>1. InQueue(q)' = InQueue(q)
    BY <1>4 DEF InQueue
  <2>2. CASE q = r
    <3>1. \A v \in Worker : Holds(v, r)' => worker'[v].pc = "executed" /\ worker'[v].out = o
      BY <1>2, <1>5, <1>11, <1>12
    <3>2. req'[r].result = "none"
      BY <1>1, <1>2, <1>6, <1>9 DEF IInv, Effects, EffectsOf, Untouched
    <3>3. o = "ok" => Applied(r)'
      BY <1>21
    <3> QED
      BY <1>2, <1>6, <1>9, <2>1, <2>2, <3>1, <3>2, <3>3 DEF EffectsOf
  <2>3. CASE q # r
    <3>1. \A v \in Worker : Holds(v, q)' => v # w /\ Holds(v, q)
      BY <1>2, <1>12, <2>3
    <3>2. Applied(q) => Applied(q)'
      BY <1>21
    <3>3. Spared(q)
      BY <1>9, <1>11, <2>1, <2>3, <3>1, <3>2 DEF Spared
    <3> QED
      BY <3>3, EffectsFrame DEF IInv
  <2> QED
    BY <2>2, <2>3
<1>23. Slots'
  <2>1. \A q \in Request : ClaimedOf(x, q) <=> ClaimedOf(worker[w], q)
    BY <1>1, <1>2, <1>5 DEF ClaimedOf
  <2>2. \A q \in Request : InQueue(q)' = InQueue(q)
    BY <1>4 DEF InQueue
  <2>3. SlotsKept({})
    BY <1>11, <1>13, <2>1, <2>2, HoldingWorker DEF SlotsKept
  <2> QED
    BY <2>3, SlotsFrame DEF IInv
<1> QED
  BY <1>16, <1>17, <1>18, <1>20, <1>22, <1>23 DEF IInv, Effects, Lanes

LEMMA FreeSlotStep ==
    ASSUME IInv, NEW w \in Worker, FreeSlot(w)
    PROVE  IInv'
<1>1. worker[w].pc = "executed" /\ worker[w].pc \in OpSteps
  BY DEF FreeSlot, IsAt, OpSteps, Running
<1>2. PICK r \in Request :
        /\ r = worker[w].jobs[1] /\ Lane(r) \in Session /\ IsOp(r) /\ worker[w].jobs = <<r>>
        /\ worker[w] \in WorkerType /\ req[r].accepted /\ ~InQueue(r)
        /\ lane[Lane(r)] \in LaneType
        /\ \A v \in Worker : Holds(v, r) <=> v = w
  BY <1>1, AtWork
<1> DEFINE x == [worker[w] EXCEPT !.pc = "freed"]
           l == [lane[Lane(r)] EXCEPT !.pending = @ - 1]
<1>3. /\ worker' = [worker EXCEPT ![w] = x] /\ lane' = [lane EXCEPT ![Lane(r)] = l]
      /\ UNCHANGED <<thread, queue, queuedBytes, shutdown, nextDevice, req>>
  BY <1>2 DEF FreeSlot, SlotsAfter, Step, IInv, TypeOK
<1>4. x \in WorkerType /\ x.pc = "freed" /\ x.jobs = <<r>> /\ x.out = worker[w].out
  BY <1>2 DEF WorkerType, OpSteps, Running
<1>5. /\ l \in LaneType /\ l.pending = lane[Lane(r)].pending - 1
      /\ l.issued = lane[Lane(r)].issued /\ l.next = lane[Lane(r)].next
      /\ l.cancelled = lane[Lane(r)].cancelled /\ l.applied = lane[Lane(r)].applied
  BY <1>2 DEF LaneType
<1> HIDE DEF x, l
<1>6. /\ lane' \in [Session -> LaneType] /\ lane'[Lane(r)] = l
      /\ \A u \in Session \ {Lane(r)} : lane'[u] = lane[u]
  BY <1>2, <1>3, <1>5, LaneUpdated DEF IInv
<1>7. /\ worker'[w] = x /\ \A v \in Worker \ {w} : worker'[v] = worker[v]
      /\ \A v \in Worker \ {w}, q \in Request : Holds(v, q)' <=> Holds(v, q)
      /\ \A q \in Request : Holding(q)' <=> Apart(w, q) \/ InQueue(q)' \/ ClaimedOf(x, q)
  BY <1>3, <1>4, WorkerMoved DEF IInv
<1>8. /\ worker'[w].jobs = worker[w].jobs
      /\ \A v \in Worker, q \in Request : Holds(v, q)' <=> Holds(v, q)
  <2>1. worker'[w].jobs = worker[w].jobs
    BY <1>2, <1>4, <1>7
  <2> QED
    BY <1>7, <2>1 DEF Holds
<1>9. \A s \in Session : /\ lane'[s].issued = lane[s].issued /\ lane'[s].next = lane[s].next
                         /\ lane'[s].applied = lane[s].applied
                         /\ lane'[s].cancelled = lane[s].cancelled
  BY <1>5, <1>6
<1>10. Kept
  BY <1>3 DEF Kept
<1>11. Shape(x)
  <2>1. Len(<<r>>) = 1 /\ <<r>>[1] = r
    OBVIOUS
  <2> QED
    BY <1>2, <1>4, <2>1 DEF Shape, Resting, Batching
<1>12. TypeOK' /\ Shapes' /\ Order'
  <2>1. /\ queue' \in Seq(Request) /\ queuedBytes' \in Int /\ req' \in [Request -> ReqType]
        /\ \A q \in Request : req'[q].accepted = req[q].accepted
    BY <1>3 DEF IInv, TypeOK
  <2> QED
    BY <1>3, <1>4, <1>6, <1>9, <1>10, <1>11, <2>1, WorkParts
<1>13. Once' /\ Charged'
  BY <1>3, <1>8 DEF IInv, Once, InQueue, Charged
<1>14. Turns'
  <2>1. \A v \in Worker : HasTurn(v)' => HasTurn(v) /\ worker'[v].jobs = worker[v].jobs
    BY <1>1, <1>7, <1>8 DEF HasTurn, Running
  <2>2. \A v \in Worker : HasTurn(v) => Lane(worker[v].jobs[1]) \in Session
    BY OpHeld DEF IInv, HasTurn, OpSteps
  <2>3. TurnsKept
    BY <1>9, <2>1, <2>2 DEF TurnsKept
  <2> QED
    BY <1>10, <2>3, TurnsFrame
<1>15. ASSUME NEW s \in Session PROVE LaneSound(s)'
  <2>1. \A q \in Request : Finished(q) => Finished(q)'
    BY <1>4, <1>7, <1>8 DEF Finished
  <2>2. \A q \in Request : Lane(q) \in Session
    BY JobTyped
  <2>3. \A q \in Request : Behind(q) => Behind(q)'
    BY <1>3, <1>9, <2>1, <2>2 DEF Behind
  <2>4. LaneKept(s)
    BY <1>9, <2>3 DEF LaneKept, IInv, Lanes, LaneSound
  <2> QED
    BY <1>10, <2>4, LaneFrame
<1>16. ASSUME NEW q \in Request PROVE EffectsOf(q)'
  <2>1. InQueue(q)' = InQueue(q)
    BY <1>3 DEF InQueue
  <2>2. Applied(q)' = Applied(q)
    BY <1>9, JobTyped DEF Applied
  <2>3. Spared(q)
    BY <1>1, <1>3, <1>4, <1>7, <1>8, <2>1, <2>2 DEF Spared
  <2> QED
    BY <2>3, EffectsFrame DEF IInv
<1>17. Slots'
  <2>1. \A q \in Request : ~ClaimedOf(x, q) /\ (ClaimedOf(worker[w], q) <=> q = r)
    BY <1>1, <1>2, <1>4 DEF ClaimedOf
  <2>2. \A q \in Request : InQueue(q)' = InQueue(q)
    BY <1>3 DEF InQueue
  <2>3. ~Apart(w, r)
    <3>1. ~SubmittingIn(r, HoldSteps)
      BY <1>2, AcceptedSettled
    <3>2. ASSUME NEW v \in Worker \ {w} PROVE ~ClaimedOf(worker[v], r)
      <4>1. worker[v].jobs = <<r>> => Holds(v, r)
        BY DEF Holds
      <4> QED
        BY <1>2, <4>1 DEF ClaimedOf
    <3> QED
      BY <3>1, <3>2 DEF Apart
  <2>4. Holding(r) /\ ~Holding(r)'
    BY <1>2, <1>7, <2>1, <2>2, <2>3, HoldingWorker
  <2>5. \A q \in Request \ {r} : Holding(q)' <=> Holding(q)
    BY <1>7, <2>1, <2>2, HoldingWorker
  <2>6. SlotsKept({r})
    BY <1>2, <1>6, <2>5 DEF SlotsKept
  <2> QED
    BY <1>2, <1>5, <1>6, <2>4, <2>6, SlotFreed DEF IInv
<1> QED
  BY <1>12, <1>13, <1>14, <1>15, <1>16, <1>17 DEF IInv, Effects, Lanes

\* The sequencer passes the ticket of the operation that had the turn.
LEMMA EndTurnStep ==
    ASSUME IInv, NEW w \in Worker, EndTurn(w)
    PROVE  IInv'
<1>1. worker[w].pc = "freed" /\ worker[w].pc \in OpSteps /\ HasTurn(w)
  BY DEF EndTurn, IsAt, OpSteps, Running, HasTurn
<1>2. PICK r \in Request :
        /\ r = worker[w].jobs[1] /\ Lane(r) \in Session /\ IsOp(r) /\ worker[w].jobs = <<r>>
        /\ worker[w] \in WorkerType /\ req[r] \in ReqType
        /\ lane[Lane(r)] \in LaneType
  BY <1>1, AtWork
<1> DEFINE x == IF worker[w].out = "none" THEN [pc |-> "check", jobs |-> <<>>, out |-> "none"]
                ELSE [worker[w] EXCEPT !.pc = "deliver"]
           k == [lane[Lane(r)] EXCEPT !.next = @ + 1]
           l == AdvanceCancelled(k)
<1>3. /\ worker' = [worker EXCEPT ![w] = x] /\ lane' = [lane EXCEPT ![Lane(r)] = l]
      /\ UNCHANGED <<thread, queue, queuedBytes, shutdown, nextDevice, req>>
  <2>1. worker' = [worker EXCEPT ![w] = x]
    BY <1>2 DEF EndTurn, Idle, Step, IInv, TypeOK
  <2>2. lane' = [lane EXCEPT ![Lane(r)] = l]
    BY <1>2 DEF EndTurn
  <2> QED
    BY <2>1, <2>2 DEF EndTurn
<1>4. /\ x \in WorkerType
      /\ \/ x.jobs = <<>> /\ x.pc = "check"
         \/ x.jobs = <<r>> /\ x.pc = "deliver" /\ x.out = worker[w].out
  <2>1. CASE worker[w].out = "none"
    BY <2>1 DEF WorkerType, Resting, Outs
  <2>2. CASE worker[w].out # "none"
    BY <1>2, <2>2 DEF WorkerType
  <2> QED
    BY <2>1, <2>2
<1>5. /\ l \in LaneType /\ l.pending = lane[Lane(r)].pending /\ l.issued = lane[Lane(r)].issued
      /\ l.next > lane[Lane(r)].next /\ IsFiniteSet(l.cancelled)
      /\ l.applied = lane[Lane(r)].applied
  <2>1. IsFiniteSet(lane[Lane(r)].cancelled)
    BY <1>2 DEF IInv, Lanes, LaneSound
  <2>2. /\ k \in LaneType /\ k.cancelled = lane[Lane(r)].cancelled
        /\ k.pending = lane[Lane(r)].pending /\ k.issued = lane[Lane(r)].issued
        /\ k.next = lane[Lane(r)].next + 1 /\ k.applied = lane[Lane(r)].applied
        /\ lane[Lane(r)].next \in Nat
    BY <1>2 DEF LaneType
  <2> HIDE DEF k
  <2>3. /\ l \in LaneType /\ l.next >= k.next /\ IsFiniteSet(l.cancelled)
        /\ l.pending = k.pending /\ l.issued = k.issued /\ l.applied = k.applied
    BY <2>1, <2>2, Advanced
  <2>4. l.next \in Nat
    BY <2>3 DEF LaneType
  <2> QED
    BY <2>2, <2>3, <2>4
<1> HIDE DEF x, k, l
<1>6. /\ lane' \in [Session -> LaneType] /\ lane'[Lane(r)] = l
      /\ \A u \in Session \ {Lane(r)} : lane'[u] = lane[u]
  BY <1>2, <1>3, <1>5, LaneUpdated DEF IInv
<1>7. /\ worker'[w] = x /\ \A v \in Worker \ {w} : worker'[v] = worker[v]
      /\ \A v \in Worker \ {w}, q \in Request : Holds(v, q)' <=> Holds(v, q)
      /\ \A q \in Request : Holding(q)' <=> Apart(w, q) \/ InQueue(q)' \/ ClaimedOf(x, q)
  BY <1>3, <1>4, WorkerMoved DEF IInv
<1>8. \A q \in Request : Holds(w, q)' =>
        Holds(w, q) /\ worker'[w].pc = "deliver" /\ worker'[w].out = worker[w].out
  <2>1. \/ worker'[w].jobs = <<>>
        \/ /\ worker'[w].jobs = worker[w].jobs
           /\ worker'[w].pc = "deliver" /\ worker'[w].out = worker[w].out
    BY <1>2, <1>4, <1>7
  <2> QED
    BY <2>1 DEF Holds
<1>9. \A s \in Session : /\ lane'[s].issued = lane[s].issued /\ lane'[s].pending = lane[s].pending
                         /\ lane'[s].applied = lane[s].applied
                         /\ IsFiniteSet(lane'[s].cancelled)
  BY <1>5, <1>6 DEF IInv, Lanes, LaneSound
<1>10. Kept
  BY <1>3 DEF Kept
<1>11. Shape(x)
  <2>1. Len(<<r>>) = 1 /\ <<r>>[1] = r
    OBVIOUS
  <2> QED
    <3>1. CASE x.jobs = <<>> /\ x.pc = "check"
      BY <3>1 DEF Shape, Resting, Batching, OpSteps, Running
    <3>2. CASE x.jobs = <<r>> /\ x.pc = "deliver"
      <4>1. x.jobs # <<>> /\ Len(x.jobs) = 1
        BY <2>1, <3>2
      <4> QED
        BY <3>2, <4>1 DEF Shape, Resting, Batching, OpSteps, Running
    <3> QED
      BY <1>4, <3>1, <3>2
<1>12. TypeOK' /\ Shapes' /\ Order'
  <2>1. /\ queue' \in Seq(Request) /\ queuedBytes' \in Int /\ req' \in [Request -> ReqType]
        /\ \A q \in Request : req'[q].accepted = req[q].accepted
    BY <1>3 DEF IInv, TypeOK
  <2> QED
    BY <1>3, <1>4, <1>6, <1>9, <1>10, <1>11, <2>1, WorkParts
<1>13. Once' /\ Charged'
  <2>1. Passes(w) /\ \A i, j \in 1..Len(queue') : queue'[i] = queue'[j] => i = j
    BY <1>3, <1>7, <1>8 DEF Passes, IInv, Once, InQueue
  <2> QED
    BY <1>3, <2>1, OnceFrame DEF IInv, Charged
<1>14. Turns'
  <2>1. ASSUME NEW v \in Worker, HasTurn(v)'
        PROVE  v # w /\ HasTurn(v) /\ worker'[v].jobs = worker[v].jobs
    BY <1>4, <1>7, <2>1 DEF HasTurn, Running
  <2>2. ASSUME NEW v \in Worker, HasTurn(v)'
        PROVE  Lane(worker[v].jobs[1]) \in Session \ {Lane(r)}
    <3>1. HasTurn(v) /\ v # w
      BY <2>1, <2>2
    <3> QED
      BY <1>1, <1>2, <3>1, OpHeld DEF IInv, HasTurn, OpSteps, Turns
  <2>3. TurnsKept
    BY <1>6, <2>1, <2>2 DEF TurnsKept
  <2> QED
    BY <1>10, <2>3, TurnsFrame
<1>15. ASSUME NEW s \in Session PROVE LaneSound(s)'
  <2>1. ASSUME NEW q \in Request, Lane(q) = s, Behind(q) PROVE Behind(q)'
    <3>1. /\ req'[q].ticket = req[q].ticket /\ req[q].ticket \in Nat
          /\ lane[s].next \in Nat /\ lane'[s].next \in Nat
      BY <1>3, <1>6, Typed DEF IInv, ReqType, LaneType
    <3>2. CASE req[q].ticket < lane[s].next
      <4>1. lane'[s].next >= lane[s].next
        BY <1>5, <1>6, <3>1
      <4> QED
        BY <2>1, <3>1, <3>2, <4>1 DEF Behind
    <3>3. CASE Finished(q)
      <4>1. PICK v \in Worker : worker[v].pc \in {"executed", "freed"} /\ worker[v].jobs[1] = q
        BY <3>3 DEF Finished
      <4>2. CASE v = w
        <5>1. q = r /\ lane[s].next = req[q].ticket /\ lane'[s].next > lane[s].next
          BY <1>1, <1>2, <1>5, <1>6, <2>1, <4>1, <4>2 DEF IInv, Turns
        <5> QED
          BY <2>1, <3>1, <5>1 DEF Behind
      <4>3. CASE v # w
        BY <1>7, <4>1, <4>3 DEF Behind, Finished
      <4> QED
        BY <4>2, <4>3
    <3> QED
      BY <2>1, <3>2, <3>3 DEF Behind
  <2>2. LaneKept(s)
    BY <1>9, <2>1 DEF LaneKept
  <2> QED
    BY <1>10, <2>2, LaneFrame
<1>16. ASSUME NEW q \in Request PROVE EffectsOf(q)'
  <2>1. InQueue(q)' = InQueue(q)
    BY <1>3 DEF InQueue
  <2>2. Applied(q)' = Applied(q)
    BY <1>9, JobTyped DEF Applied
  <2>3. Spared(q)
    BY <1>3, <1>7, <1>8, <2>1, <2>2 DEF Spared
  <2> QED
    BY <2>3, EffectsFrame DEF IInv
<1>17. Slots'
  <2>1. \A q \in Request : ~ClaimedOf(x, q) /\ ~ClaimedOf(worker[w], q)
    BY <1>1, <1>4 DEF ClaimedOf
  <2>2. \A q \in Request : InQueue(q)' = InQueue(q)
    BY <1>3 DEF InQueue
  <2>3. SlotsKept({})
    BY <1>7, <1>9, <2>1, <2>2, HoldingWorker DEF SlotsKept
  <2> QED
    BY <2>3, SlotsFrame DEF IInv
<1> QED
  BY <1>12, <1>13, <1>14, <1>15, <1>16, <1>17 DEF IInv, Effects, Lanes

-----------------------------------------------------------------------------
(* The theorems. *)

LEMMA InitHolds == Init => IInv
<1> SUFFICES ASSUME Init PROVE IInv
  OBVIOUS
<1> USE DEF Init
<1>1. TypeOK
  <2>1. nextDevice \in Nat
    BY SessionsAssumption, FS_CardinalityType
  <2>2. \A s \in Session : lane[s] \in LaneType
    BY DEF LaneType
  <2>3. /\ \A t \in Thread : thread[t] \in ThreadType
        /\ \A w \in Worker : worker[w] \in WorkerType
        /\ \A r \in Request : req[r] \in ReqType
    BY DEF ThreadType, WorkerType, ReqType, Resting, Outs
  <2>4. /\ lane \in [Session -> LaneType] /\ thread \in [Thread -> ThreadType]
        /\ worker \in [Worker -> WorkerType] /\ req \in [Request -> ReqType]
    BY <2>2, <2>3
  <2>5. queue \in Seq(Request) /\ queuedBytes \in Int
    OBVIOUS
  <2>6. shutdown \in BOOLEAN
    BY Zenon
  <2> QED
    BY <2>1, <2>4, <2>5, <2>6 DEF TypeOK
<1>2. Len(<<>>) = 0 /\ 1..0 = {} /\ queue = <<>>
  OBVIOUS
<1>3. \A w \in Worker : worker[w].pc = "check" /\ worker[w].jobs = <<>> /\ worker[w].out = "none"
  OBVIOUS
<1>4. \A r \in Request : ~InQueue(r) /\ \A w \in Worker : ~Holds(w, r)
  BY <1>2, <1>3 DEF InQueue, Holds
<1>5. Shapes
  BY <1>3 DEF Shapes, Shape, Resting, Batching, OpSteps, Running
<1>6. Once
  BY <1>2, <1>4 DEF Once
<1>7. Effects
  BY <1>4 DEF Effects, EffectsOf, Untouched
<1>8. Turns
  BY <1>3 DEF Turns, HasTurn, Running
<1>9. ASSUME NEW s \in Session PROVE LaneSound(s)
  <2>1. lane[s].cancelled = {} /\ lane[s].applied = <<>>
    OBVIOUS
  <2> QED
    BY <1>2, <2>1, FS_EmptySet DEF LaneSound
<1>10. Order
  <2>1. \A t \in Thread : \A i \in 1..Len(Script[t]) :
          Script[t][i] \in Request /\ ~req[Script[t][i]].accepted
    BY Scripted
  <2>2. \A t \in Thread : thread[t].pc = "ready" /\ thread[t].at = 1
    OBVIOUS
  <2> QED
    BY <2>1, <2>2 DEF Order, HasTicket, Ticketed
<1>11. Slots
  <2>1. \A r \in Request : ~Holding(r)
    BY <1>2, <1>3, <1>4 DEF Holding, SubmittingIn, AtStep, ClaimedIn
  <2>2. \A s \in Session : Holders(s) = {} /\ lane[s].pending = 0
    BY <2>1 DEF Holders
  <2>3. IsFiniteSet({}) /\ Cardinality({}) = 0
    BY FS_EmptySet
  <2>4. 0 <= MaxSessionRequests
    BY LimitsAssumption DEF ValidLimits
  <2> QED
    BY <2>2, <2>3, <2>4 DEF Slots, SlotsOf
<1>12. Charged
  BY <1>2, BytesEmpty DEF Charged
<1> QED
  BY <1>1, <1>5, <1>6, <1>7, <1>8, <1>9, <1>10, <1>11, <1>12 DEF IInv, Lanes

LEMMA NextKeeps == IInv /\ [Next]_vars => IInv'
<1> SUFFICES ASSUME IInv, [Next]_vars PROVE IInv'
  OBVIOUS
<1>1. CASE UNCHANGED vars
  <2>1. TypeOK'
    BY <1>1 DEF vars, IInv, TypeOK
  <2>2. \A v \in Worker : QuietMove(v)
    BY <1>1 DEF vars, QuietMove
  <2> QED
    BY <1>1, <2>1, <2>2, QuietStep DEF vars
<1>2. ASSUME NEW t \in Thread, Submit(t) PROVE IInv'
  BY <1>2, PickDeviceStep, ReserveSlotStep, SlotRefusedStep, ReserveTicketStep, EnqueueStep,
     EnqueueRefusedStep, GiveBackSlotStep, CancelTicketStep DEF Submit
<1>3. ASSUME NEW w \in Worker, Work(w) PROVE IInv'
  BY <1>3, QuietSteps, ClaimStep, SkipFirstStep, GatherStep, DeliverStep, TakeTurnStep,
     SkipOpStep, ExecuteStep, FreeSlotStep, EndTurnStep DEF Work
<1>4. ASSUME NEW w \in Worker, SpuriousWakeup(w) PROVE IInv'
  BY <1>4, QuietSteps
<1> QED
  BY <1>1, <1>2, <1>3, <1>4, ShutdownStep, FlagStep DEF Next

\* Worker scheduling, notification, batching, cancellation, deadlines and
\* shutdown keep every request in one place and every sequencer at the ticket
\* of the operation it let in.
THEOREM PoolInvariance == Spec => []IInv
BY InitHolds, NextKeeps, PTL DEF Spec

\* The in-flight count of a session is that of the operations between
\* reserve_session_slot and the release, on every path, and within its bound;
\* the bytes charged are those of the queued jobs.
THEOREM SlotsCounted == Spec => []SlotsAccounted
<1>1. IInv => SlotsAccounted
  BY DEF IInv, Charged, Slots, SlotsOf, Holders, Holding, SlotsAccounted
<1> QED
  BY <1>1, PoolInvariance, PTL

\* The operations that one thread submitted to a session are applied in that
\* order, each at most once, and never while another one of the session runs.
THEOREM OrderKept == Spec => []SubmissionOrderKept
<1>1. ASSUME IInv, NEW t \in Thread, NEW i \in 1..Len(Script[t]), NEW j \in 1..Len(Script[t]),
             i < j, NEW s, s = Lane(Script[t][i]),
             NEW m \in 1..Len(lane[s].applied), NEW n \in 1..Len(lane[s].applied), m <= n,
             lane[s].applied[m] = Script[t][j], lane[s].applied[n] = Script[t][i]
      PROVE  FALSE
  <2>1. /\ Script[t][i] \in Request /\ Script[t][j] \in Request /\ s \in Session
        /\ Script[t][i] # Script[t][j]
    BY <1>1, Scripted, JobTyped
  <2>2. LaneSound(s) /\ lane[s].applied \in Seq(Request)
    BY <1>1, <2>1, Typed DEF IInv, Lanes, LaneType
  <2>3. /\ IsOp(Script[t][i]) /\ IsOp(Script[t][j]) /\ Lane(Script[t][j]) = s
        /\ req[Script[t][i]].started /\ req[Script[t][j]].started
    <3>1. \A k \in 1..Len(lane[s].applied) :
            LET q == lane[s].applied[k] IN IsOp(q) /\ Lane(q) = s /\ req[q].started
      BY <2>2 DEF LaneSound
    <3>2. /\ IsOp(lane[s].applied[m]) /\ Lane(lane[s].applied[m]) = s
          /\ req[lane[s].applied[m]].started
      BY <3>1
    <3>3. IsOp(lane[s].applied[n]) /\ req[lane[s].applied[n]].started
      BY <3>1
    <3> QED
      BY <1>1, <3>2, <3>3
  <2>4. req[Script[t][i]].accepted /\ HasTicket(t, j)
    BY <1>1, <2>1, <2>3 DEF IInv, Effects, EffectsOf, Untouched, HasTicket
  <2>5. req[Script[t][i]].ticket < req[Script[t][j]].ticket
    BY <1>1, <2>3, <2>4 DEF IInv, Order
  <2>6. m < n
    BY <1>1, <2>1, <2>2
  <2>7. req[Script[t][j]].ticket < req[Script[t][i]].ticket
    BY <1>1, <2>2, <2>6, ZenonT(30) DEF LaneSound
  <2>8. req[Script[t][i]].ticket \in Nat /\ req[Script[t][j]].ticket \in Nat
    BY <1>1, <2>1, Typed DEF IInv, ReqType
  <2> QED
    BY <2>5, <2>7, <2>8
<1>2. IInv => SubmissionOrderKept
  <2> SUFFICES ASSUME IInv PROVE SubmissionOrderKept
    OBVIOUS
  <2>1. \A v, w \in Worker :
          /\ v # w
          /\ worker[v].pc \in {"turn", "executed", "freed"}
          /\ worker[w].pc \in {"turn", "executed", "freed"}
          => Lane(worker[v].jobs[1]) # Lane(worker[w].jobs[1])
    BY DEF IInv, Turns, HasTurn, Running
  <2>2. ASSUME NEW t \in Thread, NEW i \in 1..Len(Script[t]), NEW j \in 1..Len(Script[t]), i < j,
               NEW m \in 1..Len(lane[Lane(Script[t][i])].applied),
               NEW n \in 1..Len(lane[Lane(Script[t][i])].applied), m <= n,
               lane[Lane(Script[t][i])].applied[m] = Script[t][j],
               lane[Lane(Script[t][i])].applied[n] = Script[t][i]
        PROVE  FALSE
    BY <1>1, <2>2
  <2> QED
    BY <2>1, <2>2, ZenonT(30) DEF SubmissionOrderKept
<1> QED
  BY <1>2, PoolInvariance, PTL

\* What a caller is told of an operation is what happened to its session,
\* whatever deadline or cancellation came in between.
THEOREM ResultsTrue == Spec => []ResultMatchesEffect
<1>1. ASSUME IInv, NEW r \in Request, IsOp(r)
      PROVE  LET I == {i \in 1..Len(lane[Lane(r)].applied) : lane[Lane(r)].applied[i] = r}
                 n == Cardinality(I)
             IN  /\ req[r].result = "ok" => n = 1
                 /\ req[r].result = "expired" => n = 0 /\ ~req[r].started
                 /\ n <= 1
  <2> DEFINE a == lane[Lane(r)].applied
             I == {i \in 1..Len(a) : a[i] = r}
  <2>1. LaneSound(Lane(r)) /\ a \in Seq(Request) /\ req[r].ticket \in Nat
    BY <1>1, JobTyped, Typed DEF IInv, Lanes, LaneType, ReqType
  <2>2. \A i, j \in I : i = j
    <3>1. \A i, j \in I : ~(i < j)
      BY <2>1 DEF LaneSound
    <3> QED
      BY <2>1, <3>1
  <2>3. I = {} \/ \E i : I = {i}
    BY <2>2
  <2>4. IF I = {} THEN Cardinality(I) = 0 ELSE Cardinality(I) = 1
    BY <2>3, FS_EmptySet, FS_Singleton
  <2>5. Applied(r) <=> I # {}
    BY DEF Applied
  <2>6. I # {} => req[r].started
    BY <2>1 DEF LaneSound
  <2>7. /\ req[r].result = "ok" => Applied(r)
        /\ req[r].result = "expired" => ~req[r].started
    BY <1>1 DEF IInv, Effects, EffectsOf
  <2> QED
    BY <2>4, <2>5, <2>6, <2>7
<1>2. IInv => ResultMatchesEffect
  BY <1>1 DEF ResultMatchesEffect
<1> QED
  BY <1>2, PoolInvariance, PTL

=============================================================================
