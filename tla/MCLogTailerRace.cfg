CONSTANTS
    Fingerprints = {"a"}
    Payloads = {"a"}
    AllowDebug = FALSE
    None = None
    Divs <- MCDivs
    FileIds = {i1, i2}
    MaxSessions = 2
    MaxDivs = 3
    MaxCrashes = 0
    ReplaceDuringPoll = TRUE
SPECIFICATION Spec
PROPERTIES PolledAdviceStandsInTheLog
