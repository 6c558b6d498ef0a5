SPECIFICATION Spec
CONSTANTS
    p1 = p1  p2 = p2  e1 = e1  x1 = x1
    b1 = b1  b2 = b2  b3 = b3  s1 = s1  s2 = s2
    NoBatch = NoBatch
    Calls = {p1, p2, e1}
    Batches = {b1}
    Signals = {s1}
    Requests <- WaveRequests
    SignalOf <- OneSignal
    Topics = {}
    Parallelizable = {p1, p2}
    Unbuildable = {}
    Modifiable = {e1}
    Sandboxed = {p2}
    Backgroundable = {p1}
    MaxTails <- TailOfAny
    MaxEdits = 1
    BareCancel = FALSE
    CancelQueuedOnCancel = TRUE
INVARIANTS TypeOK Conservation NothingAbandoned Isolation InformedConsent
PROPERTIES InOrder CancelledNeverStarts DenialStopsQueue
CHECK_DEADLOCK FALSE
