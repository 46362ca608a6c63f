SPECIFICATION FairSpec
CONSTANTS
    Data = {d1, d2}
    Senders = {s1, s2}
    SeqMod = 2
    NoData = NoData
    Stream = Stream
    Nothing = Nothing
    Terminated = Terminated
    SocketsFail = TRUE
INVARIANTS
    DisabledHasNoStream
    KeepAliveIsCurrent
PROPERTIES
    DisabledFallsSilent
    QuietStreamRetransmits
