--------------------------- MODULE PositionFeatures ---------------------------
(***************************************************************************)
(* The positional facts of features.py: who touches the acting actor, who  *)
(* has a line to it, who is flanked, screened or open around it.  Other    *)
(* actors' positions and the tiles' flags are known exactly, as a set of   *)
(* candidates, or not at all; each fact is counted twice, as what holds    *)
(* for certain (definite) and as what may hold (possible).                 *)
(*                                                                         *)
(* Between two decisions the player learns: a position or a flag narrows.  *)
(***************************************************************************)
EXTENDS Integers, Sequences, FiniteSets

CONSTANTS Tiles,
          Coord,        \* [Tiles -> <<q, r>>], axial
          Elevation,    \* [Tiles -> Int]
          Neighbors,    \* [Tiles -> SUBSET Tiles]: the non-None neighbour slots
          Others,       \* the combatants but the acting one
          Relation,     \* [Others -> {"PLAYER", "ALLY", "HOSTILE", "NEUTRAL"}]
          Alive,        \* the living among them
          Post,         \* tiles the acting actor may stand on afterwards
          FirstSight,   \* what is known of the tiles at first
          Lessons       \* sets of tiles an actor can be narrowed down to

VARIABLES origin,       \* the tile the acting actor stands on
          at,           \* and the one it stands on after the candidate
          position,     \* [Others -> set of candidate tiles, {} for unknown]
          tile          \* [Tiles -> [sight, pass, block: nonempty SUBSET BOOLEAN]]

vars == <<origin, at, position, tile>>

\* What may be true of a boolean: its representation's candidates.
Flag == (SUBSET BOOLEAN) \ {{}}

ASSUME MapAssumption ==
    /\ IsFiniteSet(Tiles) /\ IsFiniteSet(Others)
    /\ Coord \in [Tiles -> Int \X Int] /\ Elevation \in [Tiles -> Int]
    /\ Neighbors \in [Tiles -> SUBSET Tiles]
    /\ \A s, t \in Tiles : t \in Neighbors[s] => s \in Neighbors[t]
    /\ Alive \subseteq Others /\ Post \subseteq Tiles
    /\ Lessons \subseteq (SUBSET Tiles) \ {{}}
    /\ FirstSight \in [Tiles -> [sight: Flag, pass: Flag, block: Flag]]

Known(a) == position[a] # {}

\* _actor_domain: where actor a may be; a position that names no tile of the
\* topology, or is a range or unknown, leaves every tile.
Where(a) == IF Known(a) THEN position[a] ELSE Tiles

\* _bool_bounds of a flag's candidates
Surely(flag) == FALSE \notin flag
Perhaps(flag) == TRUE \in flag

Friends == { a \in Alive : Relation[a] \in {"PLAYER", "ALLY"} }
Hostiles == { a \in Alive : Relation[a] = "HOSTILE" }

\* A fact about single actors, from what is true of them on each tile.
Definite(as, P(_)) == { a \in as : Known(a) /\ \A t \in Where(a) : P(t) }
Possible(as, P(_)) == { a \in as : \E t \in Where(a) : P(t) }

-----------------------------------------------------------------------------
(* Lines of sight *)

Abs(n) == IF n < 0 THEN -n ELSE n
Distance(c, d) == (Abs(c[1] - d[1]) + Abs(c[2] - d[2])
                   + Abs(c[1] - d[1] + c[2] - d[2])) \div 2

\* The coordinates of a line are nudged by 1 and 2 parts in Nudge (1e-7 in the
\* code), so that none lies between two tiles; rounding needs no floats then.
Nudge == 1000

\* _cube_round of the point <<q, r>>, given in units of 1/unit
CubeRound(q, r, unit) ==
    LET nearest(n) == (2 * n + unit) \div (2 * unit)
        x == nearest(q)
        z == nearest(r)
        y == nearest(-q - r)
        dx == Abs(x * unit - q)
        dy == Abs(y * unit + q + r)
        dz == Abs(z * unit - r)
    IN CASE dx > dy /\ dx > dz -> <<-y - z, z>>
         [] ~(dx > dy /\ dx > dz) /\ dy > dz -> <<x, z>>
         [] OTHER -> <<x, -x - y>>

\* Mutant of HexLine: the far end belongs to the line.
HexLineWithEnd(c, d) ==
    LET n == Distance(c, d)
    IN { CubeRound((c[1] * Nudge + 1) * n + (d[1] - c[1]) * Nudge * k,
                   (c[2] * Nudge + 2) * n + (d[2] - c[2]) * Nudge * k,
                   n * Nudge) : k \in 1..n }

\* _hex_line: the coordinates strictly between two tiles
HexLine(c, d) ==
    LET n == Distance(c, d)
    IN { CubeRound((c[1] * Nudge + 1) * n + (d[1] - c[1]) * Nudge * k,
                   (c[2] * Nudge + 2) * n + (d[2] - c[2]) * Nudge * k,
                   n * Nudge) : k \in 1..(n - 1) }

Apart == [p \in Tiles \X Tiles |-> Distance(Coord[p[1]], Coord[p[2]])]

\* What lies between two tiles: coordinates without a tile, and tiles
Line == [p \in Tiles \X Tiles |-> HexLine(Coord[p[1]], Coord[p[2]])]
OffMap == [p \in Tiles \X Tiles |-> Line[p] \ { Coord[u] : u \in Tiles }]
Between == [p \in Tiles \X Tiles |-> { u \in Tiles : Coord[u] \in Line[p] }]

\* _line_status as two answers: not BLOCKED, and CLEAR
MaySee(s, t) ==
    /\ Apart[<<s, t>>] >= 2
    /\ \A u \in Between[<<s, t>>] : ~Surely(tile[u].sight)
Sees(s, t) ==
    /\ Apart[<<s, t>>] >= 2
    /\ OffMap[<<s, t>>] = {}
    /\ \A u \in Between[<<s, t>>] : ~Perhaps(tile[u].sight)

-----------------------------------------------------------------------------
(* The facts about a place, as sets: what surely holds and what may hold *)

Touches(s, t) == t \in Neighbors[s]
Under(s, t) == Touches(s, t) /\ Elevation[s] > Elevation[t]
Over(s, t) == Touches(s, t) /\ Elevation[s] < Elevation[t]

AdjacentFriends(s)  == [sure |-> Definite(Friends, LAMBDA t : Touches(s, t)),
                        may  |-> Possible(Friends, LAMBDA t : Touches(s, t))]
AdjacentHostiles(s) == [sure |-> Definite(Hostiles, LAMBDA t : Touches(s, t)),
                        may  |-> Possible(Hostiles, LAMBDA t : Touches(s, t))]
LowerHostiles(s)    == [sure |-> Definite(Hostiles, LAMBDA t : Under(s, t)),
                        may  |-> Possible(Hostiles, LAMBDA t : Under(s, t))]
HigherHostiles(s)   == [sure |-> Definite(Hostiles, LAMBDA t : Over(s, t)),
                        may  |-> Possible(Hostiles, LAMBDA t : Over(s, t))]

SightedFrom(s) ==
    [sure |-> Definite(Hostiles, LAMBDA t : Sees(s, t)),
     may  |-> Possible(Hostiles, LAMBDA t : MaySee(s, t))]
SightedHostiles == SightedFrom(at)

\* Hostiles beside the actor that a friend is beside as well
FlankedHostiles(s) ==
    [sure |-> Definite(Hostiles, LAMBDA t :
                /\ Touches(s, t)
                /\ \E f \in Friends : Known(f) /\ Where(f) \subseteq Neighbors[t]),
     may  |-> Possible(Hostiles, LAMBDA t :
                /\ Touches(s, t)
                /\ \E f \in Friends : Where(f) \cap Neighbors[t] # {})]

\* The places of a friend and a hostile on opposite sides of tile x
Opposite ==
    [x \in Tiles |->
       { p \in Neighbors[x] \X Neighbors[x] :
           \A i \in {1, 2} : Coord[p[1]][i] + Coord[p[2]][i] = 2 * Coord[x][i] }]

ScreenPairs(x) ==
    LET places(p) == Where(p[1]) \X Where(p[2])
    IN [sure |-> { p \in Friends \X Hostiles :
                     /\ Known(p[1]) /\ Known(p[2])
                     /\ places(p) \subseteq Opposite[x] },
        may  |-> { p \in Friends \X Hostiles : places(p) \cap Opposite[x] # {} }]

\* What a move gives up of f when g holds afterwards
Minus(f, g) == [sure |-> f.sure \ g.may, may |-> f.may \ g.sure]
Nothing == [sure |-> {}, may |-> {}]

\* Screens there are at y and not at x; a candidate that stays where it is
\* changes none, whatever is unknown.
ScreensGained(x, y) == IF x = y THEN Nothing ELSE Minus(ScreenPairs(y), ScreenPairs(x))

Screens == ScreenPairs(at)
ScreensLost == ScreensGained(at, origin)
ScreensCreated == ScreensGained(origin, at)

\* Mutant of Occupied: only friends stand in the way.
OccupiedByFriend(t) == \E a \in Friends : position[a] = {t}

Occupied(t) == \E a \in Alive : position[a] = {t}
MayBeOccupied(t) == \E a \in Alive : t \in Where(a)

\* Mutant of OpenTiles: an actor that may be elsewhere does not count.
OpenTilesHopeful(s) ==
    [sure |-> { t \in Neighbors[s] : /\ Surely(tile[t].pass) /\ ~Perhaps(tile[t].block)
                                      /\ ~Occupied(t) },
     may  |-> { t \in Neighbors[s] : /\ Perhaps(tile[t].pass) /\ ~Surely(tile[t].block)
                                      /\ ~Occupied(t) }]

\* Mutant of OpenTiles: the two occupancies are swapped.
OpenTilesSwapped(s) ==
    [sure |-> { t \in Neighbors[s] : /\ Surely(tile[t].pass) /\ ~Perhaps(tile[t].block)
                                      /\ ~Occupied(t) },
     may  |-> { t \in Neighbors[s] : /\ Perhaps(tile[t].pass) /\ ~Surely(tile[t].block)
                                      /\ ~MayBeOccupied(t) }]

OpenTiles(s) ==
    [sure |-> { t \in Neighbors[s] : /\ Surely(tile[t].pass) /\ ~Perhaps(tile[t].block)
                                      /\ ~MayBeOccupied(t) },
     may  |-> { t \in Neighbors[s] : /\ Perhaps(tile[t].pass) /\ ~Surely(tile[t].block)
                                      /\ ~Occupied(t) }]

ActorFacts == { AdjacentFriends(at), AdjacentHostiles(at), LowerHostiles(at),
                HigherHostiles(at), FlankedHostiles(at) }
PairFacts == { Screens, ScreensLost, ScreensCreated }

-----------------------------------------------------------------------------
(* What the player knows, and learns *)

Taken == {origin} \cup { t \in Tiles : \E a \in Others : position[a] = {t} }

Init ==
    /\ origin \in Post /\ at \in Post
    /\ position = [a \in Others |-> {}]
    /\ tile = FirstSight

\* Mutant of LearnPosition: an exact position may be taken already.
LearnPositionAnywhere(a, places) ==
    /\ places \subseteq Where(a) /\ places # position[a]
    /\ position' = [position EXCEPT ![a] = places]
    /\ UNCHANGED <<origin, at, tile>>

\* No two actors are known to stand on one tile (_validate_structure).
LearnPosition(a, places) ==
    /\ places \subseteq Where(a) /\ places # position[a]
    /\ \A t \in Tiles : places = {t} => t \notin Taken \cup {at}
    /\ position' = [position EXCEPT ![a] = places]
    /\ UNCHANGED <<origin, at, tile>>

LearnTile(t, field, value) ==
    /\ tile[t][field] = BOOLEAN
    /\ tile' = [tile EXCEPT ![t] = [tile[t] EXCEPT ![field] = {value}]]
    /\ UNCHANGED <<origin, at, position>>

Next ==
    \/ \E a \in Others, places \in Lessons : LearnPosition(a, places)
    \/ \E t \in Tiles, value \in BOOLEAN :
          \/ LearnTile(t, "sight", value)
          \/ LearnTile(t, "pass", value)
          \/ LearnTile(t, "block", value)

Spec == Init /\ [][Next]_vars

-----------------------------------------------------------------------------
(* Properties *)

\* Known places are tiles, flags have a value, and no two exact positions meet.
TypeOK ==
    /\ origin \in Post /\ at \in Post
    /\ position \in [Others -> SUBSET Tiles]
    /\ tile \in [Tiles -> [sight: Flag, pass: Flag, block: Flag]]
    /\ \A a, b \in Others : \A t \in Tiles :
          position[a] = {t} /\ position[b] = {t} => a = b

\* What surely holds may hold: every MetricRange has minimum <= maximum, where
\* the constructor raises an error no caller expects (its bounds are the sizes of
\* the two sets).
SureIsPossible ==
    /\ \A f \in ActorFacts \cup {SightedHostiles} : f.sure \subseteq f.may
    /\ \A f \in PairFacts : f.sure \subseteq f.may
    /\ OpenTiles(at).sure \subseteq OpenTiles(at).may

\* When every position and flag is known exactly nothing is left open, but for
\* sight along a line that leaves the map.
FullKnowledgeIsExact ==
    /\ \A a \in Others : Known(a) /\ Cardinality(position[a]) = 1
    /\ \A t \in Tiles : \A field \in DOMAIN tile[t] : tile[t][field] # BOOLEAN
    => /\ \A f \in ActorFacts : f.sure = f.may
       /\ \A f \in PairFacts : f.sure = f.may
       /\ OpenTiles(at).sure = OpenTiles(at).may
       /\ \/ SightedHostiles.sure = SightedHostiles.may
          \/ \E h \in Hostiles : \E t \in Where(h) : OffMap[<<at, t>>] # {}

\* Sight is mutual, blockers unknown included: what the actor may be shot from
\* it may shoot at; and a line never leaves the shortest way.
SightIsMutual ==
    \A s, t \in Tiles :
        /\ MaySee(s, t) <=> MaySee(t, s)
        /\ Sees(s, t) <=> Sees(t, s)
        /\ \A u \in Between[<<s, t>>] : Apart[<<s, u>>] + Apart[<<u, t>>] = Apart[<<s, t>>]

Narrows(f, g) == f.sure \subseteq g.sure /\ g.may \subseteq f.may

\* Learning never widens a count: whatever a position or a flag turns out to be,
\* the fact it had was within the bounds given before.
LearningNarrows ==
    [][/\ Narrows(AdjacentFriends(at), AdjacentFriends(at)')
       /\ Narrows(AdjacentHostiles(at), AdjacentHostiles(at)')
       /\ Narrows(LowerHostiles(at), LowerHostiles(at)')
       /\ Narrows(HigherHostiles(at), HigherHostiles(at)')
       /\ Narrows(SightedHostiles, SightedHostiles')
       /\ Narrows(FlankedHostiles(at), FlankedHostiles(at)')
       /\ Narrows(OpenTiles(at), OpenTiles(at)')
       /\ Narrows(Screens, Screens')
       /\ Narrows(ScreensLost, ScreensLost')
       /\ Narrows(ScreensCreated, ScreensCreated')]_vars
=============================================================================
