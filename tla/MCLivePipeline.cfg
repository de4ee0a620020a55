CONSTANTS
    Sources = {s1, s2}
    Fingerprints = {s1, s2}
    Payloads = {s1, s2}
    AllowDebug = FALSE
    None = None
    Faults = {"stream_start", "export"}
    MaxBattles = 2
    MaxGen = 1
    MaxInFlight = 2
    Corruption = TRUE
SPECIFICATION FairSpec
INVARIANTS ProducerIsSound CaughtUpAdviceIsExact
PROPERTIES ImplementsChannel WithdrawnAdviceGoes SteadyDecisionIsAdvised
