SPECIFICATION Spec
CONSTANTS
    p1 = p1  p2 = p2  e1 = e1  x1 = x1
    b1 = b1  b2 = b2  b3 = b3  s1 = s1  s2 = s2
    NoBatch = NoBatch
    Calls = {p1, p2, e1, x1}
    Batches = {b1, b2, b3}
    Signals = {s1, s2}
    Requests <- QueueRequests
    SignalOf <- QueueSignals
    Topics = {e1}
    Parallelizable = {p1, p2, x1}
    Unbuildable = {x1}
    Modifiable = {}
    Sandboxed = {}
    Backgroundable = {}
    MaxTails <- NoTails
    MaxEdits = 0
    BareCancel = TRUE
    CancelQueuedOnCancel = FALSE
INVARIANTS CompleteResults NoneRunsOn
PROPERTIES ImplementsContract
CHECK_DEADLOCK FALSE
