SPECIFICATION OutputFairSpec
CONSTANTS
    OwnAddresses = {a1}
    Receivers = {n1, n2, n3}
    Contents = {d1, d2}
    None = None
    SeqMax = 3
    Repeats = TRUE
    SendsFail = TRUE
INVARIANTS
    OnlyLoopIsCurrent
PROPERTIES
    ListenerIsServed
