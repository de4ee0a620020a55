CONSTANTS
    Sources = {s1, s2}
    Fingerprints = {s1, s2}
    Payloads = {s1, s2}
    AllowDebug = FALSE
    None = None
    Faults = {"stream_start", "export", "readiness", "acquisition", "invalidation", "provenance", "configure"}
    MaxBattles = 2
    MaxGen = 1
    MaxInFlight = 1
SPECIFICATION Spec
INVARIANTS TypeOK FailedGenerationStaysSilent
PROPERTIES KeysNeverGoBack
