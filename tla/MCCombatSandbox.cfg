CONSTANTS
    Sources = {s1, s2}
    None = None
    Oracle = 1
    Legal = 0
    ShardSize = 2
    Faults = {"job", "discovery", "transport", "build", "runtime"}
    MaxBattles = 2
    MaxStaged = 2
    MaxJobs = 6
SPECIFICATION FairSpec
INVARIANTS TypeOK SnapshotIsWhole PumpNeverSpins UndisturbedSnapshotIsExtracted
PROPERTIES RecordsDescribeTheirGeneration SteadySnapshotEnds
