SPECIFICATION FairSpec
CONSTANTS
    s1 = s1  t1 = t1  t2 = t2
    a1 = a1  a2 = a2  a3 = a3  e1 = e1  e2 = e2
    Thread = {t1, t2}
    Worker = {w1, w2}
    Session = {s1}
    Request = {a1, a2, a3, e1, e2}
    Job <- MCJob
    Script <- MCScript
    MayCancel = {e2}
    Devices = 1
    RetryPeer = FALSE
    MaxQueuedRequests = 2
    MaxQueuedBytes = 4
    MaxBatchRows = 2
    MaxBatchBytes = 3
    MaxSessionRequests = 2
CHECK_DEADLOCK FALSE
INVARIANTS
    SlotsAccounted
    SubmissionOrderKept
    ResultMatchesEffect
PROPERTIES
    AcceptedCompletes
    ShutdownEnds
