CONSTANTS
    None = None
    Origin = "a"
    Tiles <- MCTiles
    Neighbors <- MCNeighbors
    Worlds <- MCWorlds
SPECIFICATION FairSpec
CHECK_DEADLOCK FALSE
INVARIANTS TypeOK FrontIsExact SearchIsSound
PROPERTIES LabelsOnlyImprove SearchEnds
