CONSTANTS
    Sources = {s1, s2}
    None = None
    Oracle = 1
    Legal = 1
    ShardSize = 2
    Faults = {}
    MaxBattles = 1
    MaxStaged = 1
    MaxJobs = 8
SPECIFICATION Spec
INVARIANTS ReportedSnapshotIsExtracted
