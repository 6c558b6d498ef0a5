SPECIFICATION FairSpec
CONSTANTS
    c1 = c1  c2 = c2  c3 = c3  c4 = c4
    k1 = k1  k2 = k2  f1 = f1
    NoCaller = NoCaller
    Callers = {c1, c2, c3}
    Keys = {k1, k2}
    KeyOf <- NameKey
    Files = {f1}
    FileOf <- OneFile
    Creators = {}
    Writers = {c2}
    HardLinked = {f1}
PROPERTIES AllServed
CHECK_DEADLOCK FALSE
