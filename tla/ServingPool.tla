---------------------------- MODULE ServingPool ----------------------------
(***************************************************************************)
(* The bounded serving pool of crates/toktier/src/serving.rs: caller        *)
(* threads submit stateless encodes and stateful session operations to one  *)
(* bounded queue; worker threads batch the encodes, and run the operations  *)
(* of a session one at a time in the order of their tickets.                *)
(*                                                                         *)
(* One action is one critical section or one atomic instruction.  A         *)
(* condition variable is a set of waiting workers: notify_one moves any one *)
(* of them, notify_all moves all.  Waiting for a turn or for the mutex of a *)
(* sequencer is a guard, because that state changes only under the mutex    *)
(* and every change is followed by notify_all.  SessionTurn holds the mutex *)
(* while the operation runs, so cancel of a ticket waits for the operation. *)
(*                                                                         *)
(* Completion::complete is one step: its reader takes the result under the  *)
(* same mutex, so it sees either no result or the whole of it.  Seed and    *)
(* append differ only in what they ask of the session, and are one kind of  *)
(* job.  Time is a choice: a deadline or a batch window may pass at any     *)
(* step.  Texts, ids and timings are left out.                              *)
(***************************************************************************)
EXTENDS Integers, Sequences, FiniteSets

CONSTANTS
    Thread,              \* caller threads
    Worker,              \* ServingLimits.worker_threads of them
    Session,             \* open ServingSessions
    Request,             \* the requests of an instance
    Job,                 \* Job[r]: what request r asks for
    Script,              \* Script[t]: the requests thread t submits, in order
    MayCancel,           \* requests whose caller may cancel or drop them
    Devices,             \* number of tokenizer handles of the pool
    RetryPeer,           \* DeviceFailurePolicy::RetryEligiblePeer
    MaxQueuedRequests,
    MaxQueuedBytes,
    MaxBatchRows,
    MaxBatchBytes,
    MaxSessionRequests

JobType == [kind : {"encode", "session"}, session : Session, bytes : Nat,
            options : Nat, deadline : BOOLEAN]

\* validate_limits
ValidLimits ==
    /\ MaxQueuedRequests \in Nat \ {0} /\ MaxQueuedBytes \in Nat \ {0}
    /\ MaxBatchRows \in Nat \ {0} /\ MaxBatchBytes \in Nat \ {0}
    /\ MaxSessionRequests \in Nat \ {0}
    /\ MaxBatchBytes <= MaxQueuedBytes
    /\ Worker # {}

ASSUME LimitsAssumption ==
    ValidLimits /\ Devices \in Nat \ {0} /\ RetryPeer \in BOOLEAN

\* open_session counts the sessions it opened.
ASSUME SessionsAssumption == IsFiniteSet(Session)

\* Every request is submitted at most once.
ASSUME ScriptAssumption ==
    /\ Job \in [Request -> JobType]
    /\ MayCancel \subseteq Request
    /\ Script \in [Thread -> Seq(Request)]
    /\ \A t, u \in Thread : \A i \in 1..Len(Script[t]), j \in 1..Len(Script[u]) :
        Script[t][i] = Script[u][j] => t = u /\ i = j

VARIABLES
    thread,       \* [pc, at]: the submission a caller thread is in
    worker,       \* [pc, jobs, out]: the step and the claimed jobs of a worker
    queue,        \* QueueState.jobs
    queuedBytes,  \* QueueState.queued_bytes
    shutdown,     \* QueueState.shutdown
    nextDevice,   \* Shared.next_device; open_session has taken one per session
    lane,         \* per session: in-flight count, tickets, applied operations
    req           \* per request: ticket, device, flags and result; started is
                  \* not in the program, it marks an operation that was begun

vars == <<thread, worker, queue, queuedBytes, shutdown, nextDevice, lane, req>>

-----------------------------------------------------------------------------
(* Jobs, tickets and results. *)

IsOp(r) == Job[r].kind = "session"
Lane(r) == Job[r].session

\* The request a thread is submitting.
Submitting(t) == Script[t][thread[t].at]
AtStep(t, step) ==
    /\ thread[t].at <= Len(Script[t])
    /\ thread[t].pc = step

Go(t, step) == thread' = [thread EXCEPT ![t].pc = step]
SubmitReturns(t) ==
    thread' = [thread EXCEPT ![t] = [pc |-> "ready", at |-> @.at + 1]]

\* The ticket after a run of cancelled ones: advance_cancelled.
FirstLive(n, cancelled) ==
    CHOOSE m \in n..(n + Cardinality(cancelled)) :
        m \notin cancelled /\ \A j \in n..(m - 1) : j \in cancelled

AdvanceCancelled(l) ==
    LET n == FirstLive(l.next, l.cancelled)
    IN  [l EXCEPT !.next = n, !.cancelled = @ \ (l.next..(n - 1))]

\* The worker whose SessionTurn holds the sequencer of session s.
TurnHeld(s) ==
    \E w \in Worker : /\ worker[w].pc \in {"turn", "executed", "freed"}
                      /\ Lane(worker[w].jobs[1]) = s

ShouldSkip(r) == req[r].cancelled \/ req[r].expired

\* Fault: the deadline is looked at again when the result is delivered.
CompletedByDeadline(r, res) ==
    [req[r] EXCEPT !.result = IF req[r].cancelled THEN "cancelled"
                              ELSE IF req[r].expired THEN "expired" ELSE res]

\* complete: a cancelled request gets its own error whatever the result is.
Completed(r, res) ==
    [req[r] EXCEPT !.result = IF req[r].cancelled THEN "cancelled" ELSE res]

\* The error should_skip passes to complete.
SkipError(r) == IF req[r].expired THEN "expired" ELSE "skipped"

-----------------------------------------------------------------------------
(* Condition variable of the queue. *)

Waiters == {w \in Worker : worker[w].pc \in {"asleep", "napping"}}
Awake(w) ==
    [worker[w] EXCEPT !.pc = IF @ = "asleep" THEN "check" ELSE "gather"]

\* Fault: nobody is notified of a new job.
NotifyNobody == UNCHANGED worker

NotifyOne ==
    IF Waiters = {} THEN UNCHANGED worker
    ELSE \E w \in Waiters : worker' = [worker EXCEPT ![w] = Awake(w)]

\* Fault: shutdown wakes one worker only.
NotifyAllWakesOne == NotifyOne

NotifyAll ==
    worker' = [w \in Worker |-> IF w \in Waiters THEN Awake(w) ELSE worker[w]]

-----------------------------------------------------------------------------
(* Submission. *)

Route == nextDevice % Devices

\* submit_with: the device is chosen round robin before the job is queued.
PickDevice(t) ==
    /\ AtStep(t, "ready") /\ ~IsOp(Submitting(t))
    /\ req' = [req EXCEPT ![Submitting(t)].device = Route]
    /\ nextDevice' = nextDevice + 1
    /\ Go(t, "enqueue")
    /\ UNCHANGED <<worker, queue, queuedBytes, shutdown, lane>>

\* reserve_session_slot
ReserveSlot(t) ==
    LET s == Lane(Submitting(t)) IN
    /\ AtStep(t, "ready") /\ IsOp(Submitting(t))
    /\ lane[s].pending < MaxSessionRequests
    /\ lane' = [lane EXCEPT ![s].pending = @ + 1]
    /\ Go(t, "ticket")
    /\ UNCHANGED <<worker, queue, queuedBytes, shutdown, nextDevice, req>>

SlotRefused(t) ==
    /\ AtStep(t, "ready") /\ IsOp(Submitting(t))
    /\ lane[Lane(Submitting(t))].pending >= MaxSessionRequests
    /\ SubmitReturns(t)
    /\ UNCHANGED <<worker, queue, queuedBytes, shutdown, nextDevice, lane, req>>

\* SessionSequencer::reserve
ReserveTicket(t) ==
    LET s == Lane(Submitting(t)) IN
    /\ AtStep(t, "ticket")
    /\ req' = [req EXCEPT ![Submitting(t)].ticket = lane[s].issued]
    /\ lane' = [lane EXCEPT ![s].issued = @ + 1]
    /\ Go(t, "enqueue")
    /\ UNCHANGED <<worker, queue, queuedBytes, shutdown, nextDevice>>

\* The checks of Shared::enqueue.
Admissible(r) ==
    /\ Job[r].bytes <= MaxBatchBytes
    /\ ~shutdown
    /\ Len(queue) < MaxQueuedRequests
    /\ queuedBytes + Job[r].bytes <= MaxQueuedBytes

Enqueue(t) ==
    LET r == Submitting(t) IN
    /\ AtStep(t, "enqueue")
    /\ Admissible(r)
    /\ queue' = Append(queue, r)
    /\ queuedBytes' = queuedBytes + Job[r].bytes
    /\ NotifyOne
    /\ req' = [req EXCEPT ![r].accepted = TRUE]
    /\ SubmitReturns(t)
    /\ UNCHANGED <<shutdown, nextDevice, lane>>

\* A refused session operation still has to give back its slot and its ticket.
EnqueueRefused(t) ==
    LET r == Submitting(t) IN
    /\ AtStep(t, "enqueue")
    /\ ~Admissible(r)
    /\ IF IsOp(r) THEN Go(t, "rollback") ELSE SubmitReturns(t)
    /\ UNCHANGED <<worker, queue, queuedBytes, shutdown, nextDevice, lane, req>>

GiveBackSlot(t) ==
    /\ AtStep(t, "rollback")
    /\ lane' = [lane EXCEPT ![Lane(Submitting(t))].pending = @ - 1]
    /\ Go(t, "cancel")
    /\ UNCHANGED <<worker, queue, queuedBytes, shutdown, nextDevice, req>>

\* SessionSequencer::cancel
CancelTicket(t) ==
    LET r == Submitting(t)
        l == lane[Lane(r)]
        tickets == l.cancelled \cup {req[r].ticket}
    IN
    /\ AtStep(t, "cancel")
    /\ ~TurnHeld(Lane(r))
    /\ lane' = [lane EXCEPT ![Lane(r)] = AdvanceCancelled([l EXCEPT !.cancelled = tickets])]
    /\ SubmitReturns(t)
    /\ UNCHANGED <<worker, queue, queuedBytes, shutdown, nextDevice, req>>

-----------------------------------------------------------------------------
(* worker_loop. *)

IsAt(w, step) == worker[w].pc = step
Step(w, step) == worker' = [worker EXCEPT ![w].pc = step]
Idle(w) == worker' = [worker EXCEPT ![w] = [pc |-> "check", jobs |-> <<>>, out |-> "none"]]

Uncharged(r) == queuedBytes - Job[r].bytes

Claim(w) ==
    LET r == Head(queue) IN
    /\ IsAt(w, "check")
    /\ queue # <<>>
    /\ queue' = Tail(queue)
    /\ queuedBytes' = Uncharged(r)
    /\ worker' = [worker EXCEPT ![w] =
                    [pc |-> IF IsOp(r) THEN "waiting" ELSE "first",
                     jobs |-> <<r>>, out |-> "none"]]
    /\ UNCHANGED <<thread, shutdown, nextDevice, lane, req>>

Sleep(w) ==
    /\ IsAt(w, "check")
    /\ queue = <<>> /\ ~shutdown
    /\ Step(w, "asleep")
    /\ UNCHANGED <<thread, queue, queuedBytes, shutdown, nextDevice, lane, req>>

SpuriousWakeup(w) ==
    /\ w \in Waiters
    /\ worker' = [worker EXCEPT ![w] = Awake(w)]
    /\ UNCHANGED <<thread, queue, queuedBytes, shutdown, nextDevice, lane, req>>

MayExit(w) == IsAt(w, "check") /\ shutdown /\ queue = <<>>

Exit(w) ==
    /\ MayExit(w)
    /\ Step(w, "exited")
    /\ UNCHANGED <<thread, queue, queuedBytes, shutdown, nextDevice, lane, req>>

-----------------------------------------------------------------------------
(* execute_encode_batch. *)

SkipFirst(w) ==
    LET r == worker[w].jobs[1] IN
    /\ IsAt(w, "first")
    /\ ShouldSkip(r)
    /\ req' = [req EXCEPT ![r] = Completed(r, SkipError(r))]
    /\ Idle(w)
    /\ UNCHANGED <<thread, queue, queuedBytes, shutdown, nextDevice, lane>>

StartBatch(w) ==
    /\ IsAt(w, "first")
    /\ ~ShouldSkip(worker[w].jobs[1])
    /\ Step(w, "gather")
    /\ UNCHANGED <<thread, queue, queuedBytes, shutdown, nextDevice, lane, req>>

BatchBytes(jobs) ==
    LET b[i \in 0..Len(jobs)] == IF i = 0 THEN 0 ELSE b[i - 1] + Job[jobs[i]].bytes
    IN  b[Len(jobs)]

\* Positions of the queue that may join the batch of worker w.
Joins(w) ==
    LET jobs == worker[w].jobs
        first == jobs[1]
    IN  {i \in 1..Len(queue) :
            /\ ~IsOp(queue[i])
            /\ req[queue[i]].device = req[first].device
            /\ Job[queue[i]].options = Job[first].options
            /\ BatchBytes(jobs) + Job[queue[i]].bytes <= MaxBatchBytes}

HasRoom(w) == Len(worker[w].jobs) < MaxBatchRows

\* The first position that joins is removed; a job to be skipped is answered.
Gather(w) ==
    /\ IsAt(w, "gather") /\ HasRoom(w)
    /\ \E i \in Joins(w) :
        LET r == queue[i] IN
        /\ \A j \in Joins(w) : i <= j
        /\ queue' = SubSeq(queue, 1, i - 1) \o SubSeq(queue, i + 1, Len(queue))
        /\ queuedBytes' = Uncharged(r)
        /\ IF ShouldSkip(r)
           THEN /\ req' = [req EXCEPT ![r] = Completed(r, SkipError(r))]
                /\ UNCHANGED worker
           ELSE /\ worker' = [worker EXCEPT ![w].jobs = Append(@, r)]
                /\ UNCHANGED req
    /\ UNCHANGED <<thread, shutdown, nextDevice, lane>>

Nap(w) ==
    /\ IsAt(w, "gather") /\ HasRoom(w)
    /\ Joins(w) = {}
    /\ Step(w, "napping")
    /\ UNCHANGED <<thread, queue, queuedBytes, shutdown, nextDevice, lane, req>>

\* The batch is full or its window has passed.
CloseBatch(w) ==
    /\ worker[w].pc \in {"gather", "napping"}
    /\ Step(w, "encode")
    /\ UNCHANGED <<thread, queue, queuedBytes, shutdown, nextDevice, lane, req>>

\* The devices in failed return an error; a peer may be asked instead.
EncodeBatch(w) ==
    /\ IsAt(w, "encode")
    /\ \E failed \in SUBSET (0..(Devices - 1)) :
        LET own == req[worker[w].jobs[1]].device
            good == \/ own \notin failed
                    \/ RetryPeer /\ failed # 0..(Devices - 1)
        IN  worker' = [worker EXCEPT ![w].pc = "deliver",
                                     ![w].out = IF good THEN "ok" ELSE "error"]
    /\ UNCHANGED <<thread, queue, queuedBytes, shutdown, nextDevice, lane, req>>

\* One row of the batch, or the operation of a session, is answered.
Deliver(w) ==
    LET r == worker[w].jobs[1] IN
    /\ IsAt(w, "deliver")
    /\ req' = [req EXCEPT ![r] = Completed(r, worker[w].out)]
    /\ IF Len(worker[w].jobs) = 1 THEN Idle(w)
       ELSE worker' = [worker EXCEPT ![w].jobs = Tail(@)]
    /\ UNCHANGED <<thread, queue, queuedBytes, shutdown, nextDevice, lane>>

-----------------------------------------------------------------------------
(* execute_seed, execute_append. *)

\* Fault: an operation runs as soon as the sequencer is free.
IsTurnAny(r) == TRUE

IsTurn(r) == lane[Lane(r)].next = req[r].ticket

\* SessionSequencer::wait_for
TakeTurn(w) ==
    LET r == worker[w].jobs[1] IN
    /\ IsAt(w, "waiting")
    /\ IsTurn(r)
    /\ ~TurnHeld(Lane(r))
    /\ Step(w, "turn")
    /\ UNCHANGED <<thread, queue, queuedBytes, shutdown, nextDevice, lane, req>>

SkipOp(w) ==
    LET r == worker[w].jobs[1] IN
    /\ IsAt(w, "turn")
    /\ ShouldSkip(r)
    /\ req' = [req EXCEPT ![r] = Completed(r, SkipError(r))]
    /\ Step(w, "executed")
    /\ UNCHANGED <<thread, queue, queuedBytes, shutdown, nextDevice, lane>>

Execute(w) ==
    LET r == worker[w].jobs[1] IN
    /\ IsAt(w, "turn")
    /\ ~ShouldSkip(r)
    /\ \E out \in {"ok", "error"} :
        /\ worker' = [worker EXCEPT ![w].pc = "executed", ![w].out = out]
        /\ lane' = [lane EXCEPT ![Lane(r)].applied =
                      IF out = "ok" THEN Append(@, r) ELSE @]
    /\ req' = [req EXCEPT ![r].started = TRUE]
    /\ UNCHANGED <<thread, queue, queuedBytes, shutdown, nextDevice>>

\* Fault: the slot of a finished operation is kept.
SlotsAfterKept(l) == l

SlotsAfter(l) == [l EXCEPT !.pending = @ - 1]

FreeSlot(w) ==
    /\ IsAt(w, "executed")
    /\ lane' = [lane EXCEPT ![Lane(worker[w].jobs[1])] = SlotsAfter(@)]
    /\ Step(w, "freed")
    /\ UNCHANGED <<thread, queue, queuedBytes, shutdown, nextDevice, req>>

\* Dropping the SessionTurn; a skipped operation has been answered already.
EndTurn(w) ==
    LET s == Lane(worker[w].jobs[1]) IN
    /\ IsAt(w, "freed")
    /\ lane' = [lane EXCEPT ![s] = AdvanceCancelled([lane[s] EXCEPT !.next = @ + 1])]
    /\ IF worker[w].out = "none" THEN Idle(w) ELSE Step(w, "deliver")
    /\ UNCHANGED <<thread, queue, queuedBytes, shutdown, nextDevice, req>>

-----------------------------------------------------------------------------
(* The callers and the clock. *)

\* PoolOwner::stop, once.
Shutdown ==
    /\ ~shutdown
    /\ shutdown' = TRUE
    /\ NotifyAll
    /\ UNCHANGED <<thread, queue, queuedBytes, nextDevice, lane, req>>

\* cancel, wait_timeout or drop of a ServingRequest that is not answered.
Abandon(r) ==
    /\ r \in MayCancel
    /\ req[r].accepted /\ req[r].result = "none" /\ ~req[r].cancelled
    /\ req' = [req EXCEPT ![r].cancelled = TRUE]
    /\ UNCHANGED <<thread, worker, queue, queuedBytes, shutdown, nextDevice, lane>>

DeadlinePasses(r) ==
    /\ Job[r].deadline
    /\ req[r].accepted /\ req[r].result = "none" /\ ~req[r].expired
    /\ req' = [req EXCEPT ![r].expired = TRUE]
    /\ UNCHANGED <<thread, worker, queue, queuedBytes, shutdown, nextDevice, lane>>

-----------------------------------------------------------------------------
Init ==
    /\ thread = [t \in Thread |-> [pc |-> "ready", at |-> 1]]
    /\ worker = [w \in Worker |-> [pc |-> "check", jobs |-> <<>>, out |-> "none"]]
    /\ queue = <<>> /\ queuedBytes = 0 /\ shutdown = FALSE
    /\ nextDevice = Cardinality(Session)
    /\ lane = [s \in Session |-> [pending |-> 0, issued |-> 0, next |-> 0,
                                  cancelled |-> {}, applied |-> <<>>]]
    /\ req = [r \in Request |-> [ticket |-> 0, device |-> 0, accepted |-> FALSE,
                                 cancelled |-> FALSE, expired |-> FALSE,
                                 started |-> FALSE, result |-> "none"]]

Submit(t) ==
    \/ PickDevice(t)
    \/ ReserveSlot(t) \/ SlotRefused(t)
    \/ ReserveTicket(t)
    \/ Enqueue(t) \/ EnqueueRefused(t)
    \/ GiveBackSlot(t) \/ CancelTicket(t)

Work(w) ==
    \/ Claim(w) \/ Sleep(w) \/ Exit(w)
    \/ SkipFirst(w) \/ StartBatch(w)
    \/ Gather(w) \/ Nap(w) \/ CloseBatch(w)
    \/ EncodeBatch(w) \/ Deliver(w)
    \/ TakeTurn(w) \/ SkipOp(w) \/ Execute(w)
    \/ FreeSlot(w) \/ EndTurn(w)

Next ==
    \/ \E t \in Thread : Submit(t)
    \/ \E w \in Worker : Work(w)
    \/ \E w \in Worker : SpuriousWakeup(w)
    \/ Shutdown
    \/ \E r \in Request : Abandon(r)
    \/ \E r \in Request : DeadlinePasses(r)

Spec == Init /\ [][Next]_vars

(***************************************************************************)
(* Every thread is scheduled.  A batch window passes, so a worker does not  *)
(* gather for ever (CloseBatch), and an engine call returns.  Nobody has to *)
(* shut the pool down, cancel, or run out of time.                          *)
(***************************************************************************)
Fairness ==
    /\ \A t \in Thread : WF_vars(Submit(t))
    /\ \A w \in Worker : WF_vars(Work(w)) /\ WF_vars(CloseBatch(w))
FairSpec == Spec /\ Fairness

-----------------------------------------------------------------------------
(* Properties. *)

InQueue(r) == \E i \in 1..Len(queue) : queue[i] = r
ClaimedIn(r, steps) ==
    \E w \in Worker : worker[w].pc \in steps /\ worker[w].jobs = <<r>>
SubmittingIn(r, steps) ==
    \E t \in Thread : \E step \in steps : AtStep(t, step) /\ Submitting(t) = r

\* The in-flight bound of a session: pending counts exactly the operations
\* between reserve_session_slot and the matching release, on every path
\* (executed, skipped, refused by the queue), and never exceeds the bound; and
\* the bytes charged to the queue are those of the jobs in it, wherever a batch
\* took one from.
SlotsAccounted ==
    /\ queuedBytes = BatchBytes(queue)
    /\ \A s \in Session :
        LET holders == {r \in Request :
                          /\ IsOp(r) /\ Lane(r) = s
                          /\ \/ SubmittingIn(r, {"ticket", "enqueue", "rollback"})
                             \/ InQueue(r)
                             \/ ClaimedIn(r, {"waiting", "turn", "executed"})}
        IN  /\ lane[s].pending = Cardinality(holders)
            /\ lane[s].pending <= MaxSessionRequests

\* Worker scheduling cannot reorder a session: two operations of one session
\* that a thread submitted in some order are applied in that order, each at
\* most once, and never while another operation of the session runs.
SubmissionOrderKept ==
    /\ \A t \in Thread : \A i, j \in 1..Len(Script[t]) :
        LET s == Lane(Script[t][i])
            a == lane[s].applied
        IN  i < j => ~ \E m, n \in 1..Len(a) :
                        m <= n /\ a[m] = Script[t][j] /\ a[n] = Script[t][i]
    /\ \A v, w \in Worker :
        /\ v # w
        /\ worker[v].pc \in {"turn", "executed", "freed"}
        /\ worker[w].pc \in {"turn", "executed", "freed"}
        => Lane(worker[v].jobs[1]) # Lane(worker[w].jobs[1])

\* What the caller is told is what happened to the session: ok means applied
\* exactly once, a deadline error means the deadline passed before execution
\* and nothing was applied, whatever deadline or cancellation arrives while the
\* operation waits for its turn, runs or is answered.
ResultMatchesEffect ==
    \A r \in Request :
        LET n == Cardinality({i \in 1..Len(lane[Lane(r)].applied) :
                                lane[Lane(r)].applied[i] = r})
        IN  IsOp(r) => /\ req[r].result = "ok" => n = 1
                       /\ req[r].result = "expired" => n = 0 /\ ~req[r].started
                       /\ n <= 1

\* Every accepted request is answered: from some point on, none is without its
\* answer.  (Acceptance and answers are never taken back.)
AcceptedCompletes ==
    <>[](\A r \in Request : req[r].accepted => req[r].result # "none")

\* Shutdown ends: all workers leave, so that join returns.
ShutdownEnds == <>[](shutdown => \A w \in Worker : worker[w].pc = "exited")

=============================================================================
