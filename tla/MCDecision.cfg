CONSTANTS
    Tiles <- MCTiles
    Coord <- MCCoord
    Elevation <- MCElevation
    Neighbors <- MCNeighbors
    Others <- MCOthers
    Alive <- MCOthers
    Relation <- MCRelation
    Post = {"o"}
    FirstSight <- MCFirstSight
    Lessons <- MCLessons
    Family <- MCFamily
    Content <- MCContent
    Requires <- MCRequires
    KindsOf <- MCKindsOf
    Weapon <- MCWeapon
    Unit = 6400
    Scale <- MCScale
    Grain = 100
    Foe <- MCFoe
    Weighted = {"far"}
    Fixtures <- MCFixtures
    Engines <- MCEngines
    None = None
SPECIFICATION DSpec
CHECK_DEADLOCK FALSE
INVARIANTS DTypeOK FailClosed MovesAreWhole RankingKeepsTheMargin DominanceHoldsWhenKnown UpgradesLoseNothing
PROPERTIES LearningNeverHurts LearningChoosesAWinner
