SPECIFICATION FairSpec
CONSTANTS
    p1 = p1  p2 = p2  e1 = e1  x1 = x1
    b1 = b1  b2 = b2  b3 = b3  s1 = s1  s2 = s2
    NoBatch = NoBatch
    Calls = {p1, e1}
    Batches = {b1, b2}
    Signals = {s1, s2}
    Requests <- ShortRequests
    SignalOf <- PairSignals
    Topics = {}
    Parallelizable = {p1}
    Unbuildable = {}
    Modifiable = {e1}
    Sandboxed = {p1}
    Backgroundable = {}
    MaxTails <- TailOfP1
    MaxEdits = 1
    BareCancel = FALSE
    CancelQueuedOnCancel = TRUE
PROPERTIES BatchesSettle
CHECK_DEADLOCK FALSE
