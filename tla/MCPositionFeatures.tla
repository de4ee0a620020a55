------------------------- MODULE MCPositionFeatures -------------------------
(* The hex of the acting actor, four around it and two behind the eastern  *)
(* one: contact, flanks, a screen and lines with one tile between.         *)
EXTENDS PositionFeatures

MCTiles == {"o", "w", "e", "ne", "se", "ee", "ene"}
MCCoord == [t \in MCTiles |->
              CASE t = "o" -> <<0, 0>> [] t = "w" -> <<-1, 0>> [] t = "e" -> <<1, 0>>
                [] t = "ne" -> <<1, -1>> [] t = "se" -> <<0, 1>>
                [] t = "ee" -> <<2, 0>> [] t = "ene" -> <<2, -1>>]
MCElevation == [t \in MCTiles |-> CASE t = "e" -> 1 [] t = "w" -> -1 [] OTHER -> 0]
MCNeighbors ==
    [s \in MCTiles |-> { t \in MCTiles : Distance(MCCoord[s], MCCoord[t]) = 1 }]

MCRelation == [a \in {"friend", "foe", "foe2"} |-> IF a = "friend" THEN "ALLY" ELSE "HOSTILE"]

MCFirstSight ==
    [t \in MCTiles |->
       [sight |-> IF t = "e" THEN BOOLEAN ELSE {FALSE},
        pass  |-> IF t = "ne" THEN BOOLEAN ELSE {TRUE},
        block |-> {FALSE}]]

MCLessons == { {"e"}, {"w"}, {"ee"}, {"ne", "e"}, {"w", "se"} }
=============================================================================
