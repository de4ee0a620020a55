--------------------------- MODULE MCMovementGraph ---------------------------
(* Two rows of three hexes: two ways round, a tile to jump, rings.  Cheap  *)
(* ground tires, slow ground does not, so that routes trade AP for fatigue.*)
EXTENDS MovementGraph

MCTiles == {"a", "b", "c", "d", "e", "f"}
Hex == [t \in MCTiles |->
          CASE t = "a" -> <<0, 0>> [] t = "b" -> <<1, 0>> [] t = "c" -> <<2, 0>>
            [] t = "d" -> <<0, 1>> [] t = "e" -> <<1, 1>> [] t = "f" -> <<2, 1>>]
Offset == << <<1, 0>>, <<1, -1>>, <<0, -1>>, <<-1, 0>>, <<-1, 1>>, <<0, 1>> >>

MCNeighbors ==
    [t \in MCTiles |-> [i \in Directions |->
        LET at == { u \in MCTiles : /\ Hex[u][1] = Hex[t][1] + Offset[i][1]
                                    /\ Hex[u][2] = Hex[t][2] + Offset[i][2] }
        IN IF at = {} THEN None ELSE CHOOSE u \in at : TRUE]]

Land(tb, td, te) == [t \in MCTiles |-> CASE t = "b" -> tb [] t = "d" -> td
                                         [] t = "e" -> te [] OTHER -> 0]
Heights(hb, he) == [t \in MCTiles |-> CASE t = "b" -> hb [] t = "e" -> he [] OTHER -> 0]
Known(b, e) == [t \in MCTiles |-> CASE t = "b" -> b [] t = "e" -> e [] OTHER -> None]

\* Terrain 0 costs 1 AP and 3 fatigue, 1 costs 2 and 1, 2 is a sentinel, 3 is
\* the worst of both.
World(terrain, level, known, hidden, ap, mult, held) ==
    [terrain |-> terrain, level |-> level, known |-> known, zoc |-> {"a"},
     hidden |-> hidden, ap |-> ap, fatigue |-> 1, fatigueMax |-> 11,
     terrains |-> 4, apCosts |-> [n \in 0..3 |-> <<4, 8, 0, 12>>[n + 1]],
     fatigueCosts |-> [n \in 0..3 |-> <<3, 1, 1, 5>>[n + 1]],
     levelAp |-> 4, levelFatigue |-> 1, climbFatigue |-> 1, maxLevels |-> 1,
     mult |-> mult, rooted |-> held = "rooted", stunned |-> held = "stunned"]

MCWorlds ==
    { World(Land(tb, td, te), Heights(hb, he), Known(None, None), {"c"}, 5, mult, "free") :
        tb \in {0, 1, 3}, td \in {0, 1}, te \in {0, 1, -1},
        hb \in {0, 2}, he \in {0, 1}, mult \in {3, 4} }
    \cup
    { World(Land(0, 1, 0), Heights(0, 1), Known(b, e), {}, 3, 4, held) :
        b \in Occupants \cup {None}, e \in Occupants \cup {None},
        held \in {"free", "rooted", "stunned"} }
    \cup { World(Land(2, 4, 1), Heights(0, 0), Known(None, None), {}, 3, 5, "free") }
=============================================================================
