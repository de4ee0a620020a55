CONSTANTS
    Fingerprints = {"a"}
    Payloads = {"a"}
    AllowDebug = FALSE
    None = None
    Divs <- MCDivs
    FileIds = {i1, i2}
    MaxSessions = 2
    MaxDivs = 3
    MaxCrashes = 1
    ReplaceDuringPoll = FALSE
SPECIFICATION Spec
INVARIANTS TypeOK NothingSkippedOrDoubled
PROPERTIES PolledAdviceStandsInTheLog
SYMMETRY MCSymmetry
