SPECIFICATION FairSpec
CONSTANTS
    p1 = p1  p2 = p2  e1 = e1  x1 = x1
    b1 = b1  b2 = b2  b3 = b3  s1 = s1  s2 = s2
    NoBatch = NoBatch
    Calls = {p1, p2}
    Batches = {b1}
    Signals = {s1}
    Requests <- DuoRequests
    SignalOf <- OneSignal
    Topics = {}
    Parallelizable = {p1, p2}
    Unbuildable = {}
    Modifiable = {}
    Sandboxed = {}
    Backgroundable = {p1}
    MaxTails <- NoTails
    MaxEdits = 0
    BareCancel = FALSE
    CancelQueuedOnCancel = TRUE
PROPERTIES BatchesSettle
CHECK_DEADLOCK FALSE
