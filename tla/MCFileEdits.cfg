SPECIFICATION Spec
CONSTANTS
    c1 = c1  c2 = c2  c3 = c3  c4 = c4
    k1 = k1  k2 = k2  f1 = f1
    NoCaller = NoCaller
    Callers = {c1, c2, c3, c4}
    Keys = {k1}
    KeyOf <- OneKey
    Files = {f1}
    FileOf <- OneFile
    Creators = {c1, c2}
    Writers = {c3}
    HardLinked = {}
INVARIANTS EditsKept AbortedChangeNothing NoLeak
PROPERTIES ImplementsFairMutex
CHECK_DEADLOCK FALSE
