CONSTANTS
    Tiles <- MCTiles
    Coord <- MCCoord
    Elevation <- MCElevation
    Neighbors <- MCNeighbors
    Others = {"friend", "foe", "foe2"}
    Alive = {"friend", "foe", "foe2"}
    Relation <- MCRelation
    Post = {"o", "e"}
    FirstSight <- MCFirstSight
    Lessons <- MCLessons
SPECIFICATION Spec
CHECK_DEADLOCK FALSE
INVARIANTS TypeOK SureIsPossible FullKnowledgeIsExact SightIsMutual
PROPERTIES LearningNarrows
