CONSTANTS
    f1 = f1
    f2 = f2
    p1 = p1
    p2 = p2
    Fingerprints = {f1, f2}
    Payloads = {p1, p2}
    AllowDebug = FALSE
    None = None
    Malformed = Malformed
    MaxStreams = 2
    MaxFrames = 5
    MaxLater = 2
    Untold = Untold
    Inbox <- MCInbox
SPECIFICATION HSpec
INVARIANTS TypeOK SoundAdvice RestartIsTransparent AdviceMatchesHistory
PROPERTY NeverBackward
