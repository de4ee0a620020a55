CONSTANTS
    Sources = {s1, s2}
    Fingerprints = {s1, s2}
    Payloads = {s1, s2}
    AllowDebug = FALSE
    None = None
    Faults = {"configure"}
    MaxBattles = 2
    MaxGen = 2
    MaxInFlight = 1
SPECIFICATION Spec
INVARIANTS LastWordTellsReadiness
