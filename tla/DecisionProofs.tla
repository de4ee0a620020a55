---------------------------- MODULE DecisionProofs ----------------------------
(***************************************************************************)
(* What holds of the facts a decision rests on, and of the decisions, for  *)
(* every map, offer and engine.                                            *)
(*                                                                         *)
(* The positional facts keep their two bounds in order, and learning more  *)
(* never widens them.  The regression gate loses nothing over any number   *)
(* of upgrades: it compares two traces at a time; that a chain of          *)
(* acceptances keeps what the first trace had needs that a failed decision *)
(* carries no scores, for the comparison of components skips traces that   *)
(* have none in common.                                                    *)
(*                                                                         *)
(* The branches of a move share all of the chance: it is a fold over the   *)
(* reactions, and each divides the weight of a living branch among its     *)
(* outcomes.  A ranking orders the whole offer and keeps to its margin     *)
(* because every score it compares is a number; that is followed from the  *)
(* branches through the measures to the scores.                            *)
(*                                                                         *)
(* What a trace says outlives the state it was made in.  A measure narrows *)
(* when more is known: its means keep within the bounds they had, its      *)
(* support and its robust range shrink.  A score is a sum of scaled means  *)
(* of measures, each step of which is monotone, so narrower measures are   *)
(* worth no less for sure.  That is what a hidden state does to what is    *)
(* known, what an observation does, and what the invariant KnowingInv      *)
(* carries from a trace to every state after it.                           *)
(***************************************************************************)
EXTENDS Decision, FiniteSetTheorems, FunctionTheorems, NaturalsInduction,
        WellFoundedInduction, TLAPS

-----------------------------------------------------------------------------
(* The positional facts (PositionFeatures) *)

\* What a step may do to what is known.
Learns ==
    /\ origin' = origin /\ at' = at
    /\ \A a \in Others : /\ Where(a)' \subseteq Where(a)
                         /\ Known(a) => Known(a)'
                         /\ \A t : position[a] = {t} => position'[a] = {t}
    /\ \A t \in Tiles : /\ tile'[t].sight \subseteq tile[t].sight
                        /\ tile'[t].pass \subseteq tile[t].pass
                        /\ tile'[t].block \subseteq tile[t].block

\* What a map gives.
LEMMA MapFacts ==
    /\ Neighbors \in [Tiles -> SUBSET Tiles]
    /\ Alive \subseteq Others /\ Post \subseteq Tiles
    /\ Lessons \subseteq (SUBSET Tiles) \ {{}}
    /\ FirstSight \in [Tiles -> [sight: Flag, pass: Flag, block: Flag]]
BY MapAssumption

\* Learning keeps the known places on the map, a value for every flag, and exact
\* positions apart.
LEMMA TypeKeeps == TypeOK /\ [Next]_vars => TypeOK'
<1> SUFFICES ASSUME TypeOK, [Next]_vars PROVE TypeOK'
  OBVIOUS
<1>1. ASSUME NEW a \in Others, NEW places \in Lessons, LearnPosition(a, places)
      PROVE  TypeOK'
  <2>1. places \in SUBSET Tiles /\ places # {}
    BY <1>1, MapFacts
  <2>2. \A b \in Others : position'[b] = IF b = a THEN places ELSE position[b]
    BY <1>1 DEF LearnPosition, TypeOK
  <2>3. \A b \in Others : \A t \in Tiles : places = {t} => position[b] # {t}
    BY <1>1 DEF LearnPosition, Taken
  <2> QED
    BY <1>1, <2>1, <2>2, <2>3 DEF LearnPosition, TypeOK
<1>2. ASSUME NEW t \in Tiles, NEW value \in BOOLEAN,
             \/ LearnTile(t, "sight", value)
             \/ LearnTile(t, "pass", value)
             \/ LearnTile(t, "block", value)
      PROVE  TypeOK'
  <2>1. {value} \in Flag
    BY DEF Flag
  <2>2. tile[t] \in [sight: Flag, pass: Flag, block: Flag]
    BY DEF TypeOK
  <2>3. \/ tile' = [tile EXCEPT ![t] = [tile[t] EXCEPT !["sight"] = {value}]]
        \/ tile' = [tile EXCEPT ![t] = [tile[t] EXCEPT !["pass"] = {value}]]
        \/ tile' = [tile EXCEPT ![t] = [tile[t] EXCEPT !["block"] = {value}]]
    BY <1>2 DEF LearnTile
  <2>4. \A r \in [sight: Flag, pass: Flag, block: Flag] :
           [tile EXCEPT ![t] = r] \in [Tiles -> [sight: Flag, pass: Flag, block: Flag]]
    BY DEF TypeOK
  <2>5. /\ [tile[t] EXCEPT !["sight"] = {value}] \in [sight: Flag, pass: Flag, block: Flag]
        /\ [tile[t] EXCEPT !["pass"] = {value}] \in [sight: Flag, pass: Flag, block: Flag]
        /\ [tile[t] EXCEPT !["block"] = {value}] \in [sight: Flag, pass: Flag, block: Flag]
    BY <2>1, <2>2
  <2>6. tile' \in [Tiles -> [sight: Flag, pass: Flag, block: Flag]]
    BY <2>3, <2>4, <2>5
  <2>7. UNCHANGED <<origin, at, position>>
    BY <1>2 DEF LearnTile
  <2> QED
    BY <2>6, <2>7 DEF TypeOK
<1>3. CASE UNCHANGED vars
  <2>1. UNCHANGED <<origin, at, position, tile>>
    BY <1>3 DEF vars
  <2> QED
    BY <2>1 DEF TypeOK
<1> QED
  BY <1>1, <1>2, <1>3 DEF Next

\* The known places are tiles, flags keep a value and no exact positions meet.
THEOREM PositionTypeCorrect == Spec => []TypeOK
<1>1. Init => TypeOK
  BY MapFacts DEF Init, TypeOK
<1> QED
  BY <1>1, TypeKeeps, PTL DEF Spec

\* Each step learns.
LEMMA StepLearns ==
    ASSUME TypeOK, [Next]_vars
    PROVE  Learns
<1>1. ASSUME NEW a \in Others, NEW places \in Lessons, LearnPosition(a, places)
      PROVE  Learns
  <2>1. places # {} /\ places \subseteq Where(a)
    BY <1>1, MapFacts DEF LearnPosition
  <2>2. \A b \in Others : position'[b] = IF b = a THEN places ELSE position[b]
    BY <1>1 DEF LearnPosition, TypeOK
  <2>3. \A b \in Others : /\ Where(b)' \subseteq Where(b)
                          /\ Known(b) => Known(b)'
    BY <2>1, <2>2 DEF Where, Known
  <2>4. \A b \in Others : \A t : position[b] = {t} => position'[b] = {t}
    BY <2>1, <2>2 DEF Where, Known
  <2> QED
    BY <1>1, <2>3, <2>4 DEF Learns, LearnPosition
<1>2. ASSUME NEW t \in Tiles, NEW value \in BOOLEAN,
             \/ LearnTile(t, "sight", value)
             \/ LearnTile(t, "pass", value)
             \/ LearnTile(t, "block", value)
      PROVE  Learns
  <2>1. tile[t] \in [sight: Flag, pass: Flag, block: Flag]
    BY DEF TypeOK
  <2>2. \/ /\ tile[t].sight = BOOLEAN
           /\ tile' = [tile EXCEPT ![t] = [tile[t] EXCEPT !["sight"] = {value}]]
        \/ /\ tile[t].pass = BOOLEAN
           /\ tile' = [tile EXCEPT ![t] = [tile[t] EXCEPT !["pass"] = {value}]]
        \/ /\ tile[t].block = BOOLEAN
           /\ tile' = [tile EXCEPT ![t] = [tile[t] EXCEPT !["block"] = {value}]]
    BY <1>2 DEF LearnTile
  <2>3. \A u \in Tiles : /\ tile'[u].sight \subseteq tile[u].sight
                         /\ tile'[u].pass \subseteq tile[u].pass
                         /\ tile'[u].block \subseteq tile[u].block
    BY <2>1, <2>2 DEF TypeOK
  <2> QED
    BY <1>2, <2>3 DEF LearnTile, Learns, Where, Known
<1>3. CASE UNCHANGED vars
  BY <1>3 DEF vars, Learns, Where, Known
<1> QED
  BY <1>1, <1>2, <1>3 DEF Next

\* What is known of an actor stays known.
LEMMA KnownFacts ==
    ASSUME TypeOK, TypeOK', Learns
    PROVE  /\ \A a \in Others : /\ Where(a) # {} /\ Where(a) \subseteq Tiles
                                /\ Where(a)' # {} /\ Where(a)' \subseteq Where(a)
                                /\ Known(a) => Known(a)'
           /\ Friends \subseteq Others /\ Hostiles \subseteq Others
           /\ Friends' = Friends /\ Hostiles' = Hostiles
<1>1. Alive \subseteq Others /\ Tiles # {}
  BY MapFacts DEF TypeOK
<1>2. ASSUME NEW a \in Others
      PROVE  /\ Where(a) # {} /\ Where(a) \subseteq Tiles
             /\ Where(a)' # {}
             /\ Where(a)' \subseteq Where(a)
             /\ Known(a) => Known(a)'
  <2>1. position[a] \in SUBSET Tiles /\ position'[a] \in SUBSET Tiles
    BY DEF TypeOK
  <2>2. Where(a) # {} /\ Where(a) \subseteq Tiles /\ Where(a)' # {}
    BY <1>1, <2>1 DEF Where, Known
  <2>3. Where(a)' \subseteq Where(a) /\ (Known(a) => Known(a)')
    BY DEF Learns
  <2> QED
    BY <2>2, <2>3
<1>3. /\ Friends \subseteq Others /\ Hostiles \subseteq Others
      /\ Friends' = Friends /\ Hostiles' = Hostiles
  BY <1>1 DEF Friends, Hostiles
<1> QED
  BY <1>2, <1>3

\* The facts about one actor's surroundings, which no flag bears on.
LEMMA TouchNarrows ==
    ASSUME TypeOK, TypeOK', Learns, NEW s \in Tiles
    PROVE  /\ Narrows(AdjacentFriends(s), AdjacentFriends(s)')
           /\ Narrows(AdjacentHostiles(s), AdjacentHostiles(s)')
           /\ Narrows(LowerHostiles(s), LowerHostiles(s)')
           /\ Narrows(HigherHostiles(s), HigherHostiles(s)')
<1>1. /\ AdjacentFriends(s).sure \subseteq AdjacentFriends(s)'.sure
      /\ AdjacentFriends(s)'.may \subseteq AdjacentFriends(s).may
  BY KnownFacts DEF AdjacentFriends, Definite, Possible, Touches
<1>2. /\ AdjacentHostiles(s).sure \subseteq AdjacentHostiles(s)'.sure
      /\ AdjacentHostiles(s)'.may \subseteq AdjacentHostiles(s).may
  BY KnownFacts DEF AdjacentHostiles, Definite, Possible, Touches
<1>3. /\ LowerHostiles(s).sure \subseteq LowerHostiles(s)'.sure
      /\ LowerHostiles(s)'.may \subseteq LowerHostiles(s).may
  BY KnownFacts DEF LowerHostiles, Definite, Possible, Under, Touches
<1>4. /\ HigherHostiles(s).sure \subseteq HigherHostiles(s)'.sure
      /\ HigherHostiles(s)'.may \subseteq HigherHostiles(s).may
  BY KnownFacts DEF HigherHostiles, Definite, Possible, Over, Touches
<1> QED
  BY <1>1, <1>2, <1>3, <1>4 DEF Narrows

\* Sight: a blocker that becomes known was possible, and a clear line stays so.
LEMMA SightNarrows ==
    ASSUME TypeOK, TypeOK', Learns, NEW s \in Tiles
    PROVE  Narrows(SightedFrom(s), SightedFrom(s)')
<1>1. \A t \in Tiles : /\ Sees(s, t) => Sees(s, t)'
                       /\ MaySee(s, t)' => MaySee(s, t)
  <2>1. \A r, t \in Tiles : Between[<<r, t>>] \subseteq Tiles
    BY DEF Between
  <2>2. \A u \in Tiles : /\ Perhaps(tile'[u].sight) => Perhaps(tile[u].sight)
                         /\ Surely(tile[u].sight) => Surely(tile'[u].sight)
    BY DEF Learns, Perhaps, Surely
  <2> QED
    BY <2>1, <2>2 DEF Sees, MaySee
<1>2. /\ SightedFrom(s).sure \subseteq SightedFrom(s)'.sure
      /\ SightedFrom(s)'.may \subseteq SightedFrom(s).may
  BY <1>1, KnownFacts DEF SightedFrom, Definite, Possible
<1> QED
  BY <1>2 DEF Narrows

\* Learning narrows which hostiles a place has an ally opposite of,
LEMMA FlanksNarrow ==
    ASSUME TypeOK, TypeOK', Learns, NEW s \in Tiles
    PROVE  Narrows(FlankedHostiles(s), FlankedHostiles(s)')
<1>1. FlankedHostiles(s).sure \subseteq FlankedHostiles(s)'.sure
  BY KnownFacts DEF FlankedHostiles, Definite, Touches
<1>2. FlankedHostiles(s)'.may \subseteq FlankedHostiles(s).may
  BY KnownFacts DEF FlankedHostiles, Possible, Touches
<1> QED
  BY <1>1, <1>2 DEF Narrows

\* the open tiles around it,
LEMMA OpenTilesNarrow ==
    ASSUME TypeOK, TypeOK', Learns, NEW s \in Tiles
    PROVE  Narrows(OpenTiles(s), OpenTiles(s)')
<1>1. Neighbors[s] \subseteq Tiles
  BY MapFacts
<1>2. \A t \in Tiles : /\ tile'[t].pass \subseteq tile[t].pass
                       /\ tile'[t].block \subseteq tile[t].block
                       /\ tile[t].pass \in Flag /\ tile'[t].pass \in Flag
                       /\ tile[t].block \in Flag /\ tile'[t].block \in Flag
  BY DEF Learns, TypeOK
<1>3. \A t \in Tiles : /\ Surely(tile[t].pass) => Surely(tile'[t].pass)
                       /\ Perhaps(tile'[t].pass) => Perhaps(tile[t].pass)
                       /\ Surely(tile[t].block) => Surely(tile'[t].block)
                       /\ Perhaps(tile'[t].block) => Perhaps(tile[t].block)
  BY <1>2 DEF Surely, Perhaps
<1>4. \A t \in Tiles : /\ MayBeOccupied(t)' => MayBeOccupied(t)
                       /\ Occupied(t) => Occupied(t)'
  <2>1. Alive \subseteq Others
    BY MapFacts
  <2>2. \A a \in Others : \A t : position[a] = {t} => position'[a] = {t}
    BY DEF Learns
  <2> QED
    BY <2>1, <2>2, KnownFacts DEF MayBeOccupied, Occupied
<1>5. /\ OpenTiles(s).sure \subseteq OpenTiles(s)'.sure
      /\ OpenTiles(s)'.may \subseteq OpenTiles(s).may
  <2> DEFINE SureOpen(t) == /\ Surely(tile[t].pass) /\ ~Perhaps(tile[t].block)
                            /\ ~MayBeOccupied(t)
             MayOpen(t) == /\ Perhaps(tile[t].pass) /\ ~Surely(tile[t].block)
                           /\ ~Occupied(t)
  <2>1. \A t \in Neighbors[s] : /\ SureOpen(t) => SureOpen(t)'
                                /\ MayOpen(t)' => MayOpen(t)
    BY <1>1, <1>3, <1>4
  <2>2. /\ OpenTiles(s).sure = { t \in Neighbors[s] : SureOpen(t) }
        /\ OpenTiles(s).may = { t \in Neighbors[s] : MayOpen(t) }
    BY DEF OpenTiles
  <2>3. /\ OpenTiles(s)'.sure = { t \in Neighbors[s] : SureOpen(t)' }
        /\ OpenTiles(s)'.may = { t \in Neighbors[s] : MayOpen(t)' }
    BY DEF OpenTiles
  <2> HIDE DEF SureOpen, MayOpen
  <2> QED
    BY <2>1, <2>2, <2>3
<1> QED
  BY <1>5 DEF Narrows

\* the pairs of an ally and the hostile it is screened from,
LEMMA PairsNarrow ==
    ASSUME TypeOK, TypeOK', Learns, NEW x \in Tiles
    PROVE  Narrows(ScreenPairs(x), ScreenPairs(x)')
<1> DEFINE places(p) == Where(p[1]) \X Where(p[2])
<1>1. \A p \in Friends \X Hostiles : p[1] \in Others /\ p[2] \in Others
  BY KnownFacts
<1>2. \A p \in Friends \X Hostiles : places(p)' \subseteq places(p)
  BY <1>1, KnownFacts
<1>3. ScreenPairs(x).sure \subseteq ScreenPairs(x)'.sure
  BY <1>1, <1>2, KnownFacts DEF ScreenPairs
<1>4. ScreenPairs(x)'.may \subseteq ScreenPairs(x).may
  BY <1>1, <1>2, KnownFacts DEF ScreenPairs
<1> QED
  BY <1>3, <1>4 DEF Narrows

\* the screens that going from one place to another gains,
LEMMA GainsNarrow ==
    ASSUME TypeOK, TypeOK', Learns, NEW x \in Tiles, NEW y \in Tiles
    PROVE  Narrows(ScreensGained(x, y), ScreensGained(x, y)')
<1>1. /\ Narrows(ScreenPairs(x), ScreenPairs(x)')
      /\ Narrows(ScreenPairs(y), ScreenPairs(y)')
  BY PairsNarrow
<1>2. \A f, g, h, i : Narrows(f, g) /\ Narrows(h, i) => Narrows(Minus(f, h), Minus(g, i))
  BY DEF Narrows, Minus
<1>3. Narrows(Nothing, Nothing)
  BY DEF Narrows
<1>4. Narrows(Minus(ScreenPairs(y), ScreenPairs(x)), Minus(ScreenPairs(y)', ScreenPairs(x)'))
  BY <1>1, <1>2
<1> QED
  BY <1>3, <1>4 DEF ScreensGained

\* and the three facts made of them.
LEMMA ScreensNarrow ==
    ASSUME TypeOK, TypeOK', Learns
    PROVE  /\ Narrows(Screens, Screens')
           /\ Narrows(ScreensLost, ScreensLost')
           /\ Narrows(ScreensCreated, ScreensCreated')
<1>1. at' = at /\ origin' = origin /\ at \in Tiles /\ origin \in Tiles
  BY MapFacts DEF Learns, TypeOK
<1>2. Narrows(ScreenPairs(at), ScreenPairs(at)')
  BY <1>1, PairsNarrow
<1>3. /\ Narrows(ScreensGained(at, origin), ScreensGained(at, origin)')
      /\ Narrows(ScreensGained(origin, at), ScreensGained(origin, at)')
  BY <1>1, GainsNarrow
<1> QED
  BY <1>2, <1>3 DEF Screens, ScreensLost, ScreensCreated

\* What the player learns never widens a count given before: each fact that was
\* sure stays sure, and only what may have held may hold.
THEOREM LearningKeepsBounds == Spec => LearningNarrows
<1>1. TypeOK /\ TypeOK' /\ [Next]_vars =>
        [/\ Narrows(AdjacentFriends(at), AdjacentFriends(at)')
         /\ Narrows(AdjacentHostiles(at), AdjacentHostiles(at)')
         /\ Narrows(LowerHostiles(at), LowerHostiles(at)')
         /\ Narrows(HigherHostiles(at), HigherHostiles(at)')
         /\ Narrows(SightedHostiles, SightedHostiles')
         /\ Narrows(FlankedHostiles(at), FlankedHostiles(at)')
         /\ Narrows(OpenTiles(at), OpenTiles(at)')
         /\ Narrows(Screens, Screens')
         /\ Narrows(ScreensLost, ScreensLost')
         /\ Narrows(ScreensCreated, ScreensCreated')]_vars
  <2> SUFFICES ASSUME TypeOK, TypeOK', [Next]_vars
               PROVE  /\ Narrows(AdjacentFriends(at), AdjacentFriends(at)')
                      /\ Narrows(AdjacentHostiles(at), AdjacentHostiles(at)')
                      /\ Narrows(LowerHostiles(at), LowerHostiles(at)')
                      /\ Narrows(HigherHostiles(at), HigherHostiles(at)')
                      /\ Narrows(SightedHostiles, SightedHostiles')
                      /\ Narrows(FlankedHostiles(at), FlankedHostiles(at)')
                      /\ Narrows(OpenTiles(at), OpenTiles(at)')
                      /\ Narrows(Screens, Screens')
                      /\ Narrows(ScreensLost, ScreensLost')
                      /\ Narrows(ScreensCreated, ScreensCreated')
    OBVIOUS
  <2>1. Learns
    BY StepLearns
  <2>2. PICK s \in Tiles : s = at /\ s = at'
    BY <2>1, MapFacts DEF Learns, TypeOK
  <2>3. /\ AdjacentFriends(s) = AdjacentFriends(at)
        /\ AdjacentHostiles(s) = AdjacentHostiles(at)
        /\ LowerHostiles(s) = LowerHostiles(at) /\ HigherHostiles(s) = HigherHostiles(at)
        /\ SightedFrom(s) = SightedHostiles /\ FlankedHostiles(s) = FlankedHostiles(at)
        /\ OpenTiles(s) = OpenTiles(at)
    BY <2>2 DEF SightedHostiles
  <2>4. /\ AdjacentFriends(s)' = AdjacentFriends(at)'
        /\ AdjacentHostiles(s)' = AdjacentHostiles(at)'
        /\ LowerHostiles(s)' = LowerHostiles(at)' /\ HigherHostiles(s)' = HigherHostiles(at)'
        /\ SightedFrom(s)' = SightedHostiles' /\ FlankedHostiles(s)' = FlankedHostiles(at)'
        /\ OpenTiles(s)' = OpenTiles(at)'
    BY <2>2 DEF SightedHostiles
  <2> QED
    BY <2>1, <2>3, <2>4, TouchNarrows, SightNarrows, FlanksNarrow, OpenTilesNarrow,
       ScreensNarrow
<1> QED
  BY <1>1, PositionTypeCorrect, PTL DEF Spec, LearningNarrows

\* A blocker surely there is possibly there, as a flag has some value.
LEMMA FlagFacts ==
    ASSUME NEW flag \in Flag
    PROVE  Surely(flag) => Perhaps(flag)
BY DEF Flag, Surely, Perhaps

\* What surely holds of the pairs around a tile may hold.
LEMMA PairsOrder ==
    ASSUME TypeOK, NEW x \in Tiles
    PROVE  ScreenPairs(x).sure \subseteq ScreenPairs(x).may
<1> DEFINE places(p) == Where(p[1]) \X Where(p[2])
<1>1. /\ Friends \subseteq Others /\ Hostiles \subseteq Others
      /\ \A a \in Others : Where(a) # {}
  BY MapFacts DEF TypeOK, Where, Known, Friends, Hostiles
<1>2. \A p \in Friends \X Hostiles : places(p) # {}
  <2>1. \A S, T : S # {} /\ T # {} => S \X T # {}
    <3> SUFFICES ASSUME NEW S, NEW T, NEW u \in S, NEW t \in T PROVE S \X T # {}
      OBVIOUS
    <3>1. <<u, t>> \in S \X T
      OBVIOUS
    <3> QED
      BY <3>1
  <2>2. \A p \in Friends \X Hostiles : Where(p[1]) # {} /\ Where(p[2]) # {}
    BY <1>1
  <2> QED
    BY <2>1, <2>2
<1> HIDE DEF places
<1> QED
  BY <1>2 DEF ScreenPairs, places

\* So it does of the pairs gained.
LEMMA GainsOrder ==
    ASSUME TypeOK, NEW x \in Tiles, NEW y \in Tiles
    PROVE  ScreensGained(x, y).sure \subseteq ScreensGained(x, y).may
<1>1. /\ ScreenPairs(x).sure \subseteq ScreenPairs(x).may
      /\ ScreenPairs(y).sure \subseteq ScreenPairs(y).may
  BY PairsOrder
<1>2. \A f, g : f.sure \subseteq f.may /\ g.sure \subseteq g.may
                  => Minus(f, g).sure \subseteq Minus(f, g).may
  BY DEF Minus
<1>3. Nothing.sure \subseteq Nothing.may
  BY DEF Nothing
<1>4. Minus(ScreenPairs(y), ScreenPairs(x)).sure \subseteq Minus(ScreenPairs(y), ScreenPairs(x)).may
  BY <1>1, <1>2
<1> QED
  BY <1>3, <1>4 DEF ScreensGained

\* And of the other facts about a place.
LEMMA PlaceOrder ==
    ASSUME TypeOK, NEW s \in Tiles
    PROVE  /\ AdjacentFriends(s).sure \subseteq AdjacentFriends(s).may
           /\ AdjacentHostiles(s).sure \subseteq AdjacentHostiles(s).may
           /\ LowerHostiles(s).sure \subseteq LowerHostiles(s).may
           /\ HigherHostiles(s).sure \subseteq HigherHostiles(s).may
           /\ SightedFrom(s).sure \subseteq SightedFrom(s).may
           /\ FlankedHostiles(s).sure \subseteq FlankedHostiles(s).may
           /\ OpenTiles(s).sure \subseteq OpenTiles(s).may
<1>1. /\ Neighbors[s] \subseteq Tiles
      /\ Friends \subseteq Others /\ Hostiles \subseteq Others
      /\ \A a \in Others : Where(a) # {} /\ Where(a) \subseteq Tiles
  <2>1. Alive \subseteq Others
    BY MapFacts
  <2> QED
    BY <2>1, MapFacts DEF TypeOK, Where, Known, Friends, Hostiles
<1>2. \A t \in Tiles : Sees(s, t) => MaySee(s, t)
  <2>1. \A r, t \in Tiles : Between[<<r, t>>] \subseteq Tiles
    BY DEF Between
  <2>2. \A u \in Tiles : ~Perhaps(tile[u].sight) => ~Surely(tile[u].sight)
    BY FlagFacts DEF TypeOK
  <2> QED
    BY <2>1, <2>2 DEF Sees, MaySee
<1>3. AdjacentFriends(s).sure \subseteq AdjacentFriends(s).may
  BY <1>1 DEF AdjacentFriends, Definite, Possible
<1>4. AdjacentHostiles(s).sure \subseteq AdjacentHostiles(s).may
  BY <1>1 DEF AdjacentHostiles, Definite, Possible
<1>5. LowerHostiles(s).sure \subseteq LowerHostiles(s).may
  BY <1>1 DEF LowerHostiles, Definite, Possible
<1>6. HigherHostiles(s).sure \subseteq HigherHostiles(s).may
  BY <1>1 DEF HigherHostiles, Definite, Possible
<1>7. SightedFrom(s).sure \subseteq SightedFrom(s).may
  BY <1>1, <1>2 DEF SightedFrom, Definite, Possible
<1>8. FlankedHostiles(s).sure \subseteq FlankedHostiles(s).may
  <2>1. \A f \in Friends : \A t \in Tiles :
           Where(f) \subseteq Neighbors[t] => Where(f) \cap Neighbors[t] # {}
    BY <1>1
  <2> QED
    BY <1>1, <2>1 DEF FlankedHostiles, Definite, Possible
<1>9. OpenTiles(s).sure \subseteq OpenTiles(s).may
  <2>1. \A t \in Tiles : /\ tile[t].pass \in Flag
                         /\ tile[t].block \in Flag
    BY DEF TypeOK
  <2>2. \A t \in Tiles : Occupied(t) => MayBeOccupied(t)
    <3>1. Alive \subseteq Others
      BY MapFacts
    <3> QED
      BY <3>1 DEF Occupied, MayBeOccupied, Where, Known
  <2>3. \A t \in Tiles : /\ Surely(tile[t].pass) => Perhaps(tile[t].pass)
                         /\ Surely(tile[t].block) => Perhaps(tile[t].block)
    BY <2>1, FlagFacts
  <2>4. \A t \in Neighbors[s] :
           /\ Surely(tile[t].pass) => Perhaps(tile[t].pass)
           /\ Surely(tile[t].block) => Perhaps(tile[t].block)
           /\ Occupied(t) => MayBeOccupied(t)
    BY <1>1, <2>2, <2>3
  <2> QED
    BY <2>4 DEF OpenTiles
<1> QED
  BY <1>3, <1>4, <1>5, <1>6, <1>7, <1>8, <1>9

\* What surely holds may hold, so every count has its minimum below its maximum.
LEMMA TypeGivesOrder ==
    ASSUME TypeOK
    PROVE  SureIsPossible
<1>1. at \in Tiles /\ origin \in Tiles
  BY MapFacts DEF TypeOK
<1>2. \A f \in ActorFacts \cup {SightedHostiles} : f.sure \subseteq f.may
  BY <1>1, PlaceOrder DEF ActorFacts, SightedHostiles
<1>3. \A f \in PairFacts : f.sure \subseteq f.may
  BY <1>1, PairsOrder, GainsOrder DEF PairFacts, Screens, ScreensLost, ScreensCreated
<1>4. OpenTiles(at).sure \subseteq OpenTiles(at).may
  BY <1>1, PlaceOrder
<1> QED
  BY <1>2, <1>3, <1>4 DEF SureIsPossible

\* No MetricRange of a positional fact is ever built with its bounds crossed.
THEOREM BoundsInOrder == Spec => []SureIsPossible
<1>1. TypeOK => SureIsPossible
  BY TypeGivesOrder
<1> QED
  BY <1>1, PositionTypeCorrect, PTL

\* Everything is known: each actor is on one tile, each flag has one value.
FullyKnown ==
    /\ \A a \in Others : \E t \in Tiles : Known(a) /\ Where(a) = {t} /\ position[a] = {t}
    /\ \A t \in Tiles : /\ Perhaps(tile[t].sight) <=> Surely(tile[t].sight)
                        /\ Perhaps(tile[t].pass) <=> Surely(tile[t].pass)
                        /\ Perhaps(tile[t].block) <=> Surely(tile[t].block)

\* Single positions and settled flags are full knowledge.
LEMMA ExactlyKnown ==
    ASSUME TypeOK,
           \A a \in Others : Known(a) /\ Cardinality(position[a]) = 1,
           \A t \in Tiles : \A field \in DOMAIN tile[t] : tile[t][field] # BOOLEAN
    PROVE  FullyKnown
<1>1. ASSUME NEW a \in Others
      PROVE  \E t \in Tiles : Known(a) /\ Where(a) = {t} /\ position[a] = {t}
  <2>1. position[a] \subseteq Tiles /\ IsFiniteSet(position[a])
    BY MapAssumption, FS_Subset DEF TypeOK
  <2>2. PICK t : position[a] = {t}
    BY <2>1, FS_Singleton
  <2> QED
    BY <2>1, <2>2 DEF Where, Known
<1>2. ASSUME NEW flag \in Flag, flag # BOOLEAN
      PROVE  Perhaps(flag) <=> Surely(flag)
  BY <1>2 DEF Flag, Perhaps, Surely
<1>3. ASSUME NEW t \in Tiles
      PROVE  /\ Perhaps(tile[t].sight) <=> Surely(tile[t].sight)
             /\ Perhaps(tile[t].pass) <=> Surely(tile[t].pass)
             /\ Perhaps(tile[t].block) <=> Surely(tile[t].block)
  <2>1. tile[t] \in [sight: Flag, pass: Flag, block: Flag]
    BY DEF TypeOK
  <2>2. DOMAIN tile[t] = {"sight", "pass", "block"}
    BY <2>1
  <2>3. tile[t].sight # BOOLEAN /\ tile[t].pass # BOOLEAN /\ tile[t].block # BOOLEAN
    BY <2>2
  <2> QED
    BY <1>2, <2>1, <2>3
<1> QED
  BY <1>1, <1>3 DEF FullyKnown

\* With everything known each fact surely holds or surely does not; sight may
\* still be lost off the map, where there is nothing to know.
LEMMA ExactFacts ==
    ASSUME TypeOK, FullyKnown
    PROVE  /\ \A f \in ActorFacts : f.sure = f.may
           /\ \A f \in PairFacts : f.sure = f.may
           /\ OpenTiles(at).sure = OpenTiles(at).may
           /\ \/ SightedHostiles.sure = SightedHostiles.may
              \/ \E h \in Hostiles : \E t \in Where(h) : OffMap[<<at, t>>] # {}
<1>1. /\ at \in Tiles /\ Neighbors[at] \subseteq Tiles /\ origin \in Tiles
      /\ Friends \subseteq Others /\ Hostiles \subseteq Others /\ Alive \subseteq Others
  BY MapFacts DEF TypeOK, Friends, Hostiles
<1>2. \A a \in Others : \E t \in Tiles : Known(a) /\ Where(a) = {t} /\ position[a] = {t}
  BY DEF FullyKnown
<1>3. \A f \in ActorFacts : f.sure = f.may
  <2>1. AdjacentFriends(at).sure = AdjacentFriends(at).may
    BY <1>1, <1>2 DEF AdjacentFriends, Definite, Possible
  <2>2. AdjacentHostiles(at).sure = AdjacentHostiles(at).may
    BY <1>1, <1>2 DEF AdjacentHostiles, Definite, Possible
  <2>3. LowerHostiles(at).sure = LowerHostiles(at).may
    BY <1>1, <1>2 DEF LowerHostiles, Definite, Possible
  <2>4. HigherHostiles(at).sure = HigherHostiles(at).may
    BY <1>1, <1>2 DEF HigherHostiles, Definite, Possible
  <2>5. FlankedHostiles(at).sure = FlankedHostiles(at).may
    <3>1. \A f \in Friends : \A t \in Tiles :
             Known(f) /\ (Where(f) \subseteq Neighbors[t] <=> Where(f) \cap Neighbors[t] # {})
      BY <1>1, <1>2
    <3> QED
      BY <1>1, <1>2, <3>1 DEF FlankedHostiles, Definite, Possible
  <2> QED
    BY <2>1, <2>2, <2>3, <2>4, <2>5 DEF ActorFacts
<1>4. \A f \in PairFacts : f.sure = f.may
  <2>1. \A x \in Tiles : ScreenPairs(x).sure = ScreenPairs(x).may
    <3> DEFINE places(p) == Where(p[1]) \X Where(p[2])
    <3>1. ASSUME NEW p \in Friends \X Hostiles
          PROVE  /\ Known(p[1]) /\ Known(p[2])
                 /\ \A S : places(p) \subseteq S <=> places(p) \cap S # {}
      <4>1. p[1] \in Others /\ p[2] \in Others
        BY <1>1
      <4>2. PICK s : Known(p[1]) /\ Where(p[1]) = {s}
        BY <1>2, <4>1
      <4>3. PICK t : Known(p[2]) /\ Where(p[2]) = {t}
        BY <1>2, <4>1
      <4>4. places(p) = {<<s, t>>}
        BY <4>2, <4>3
      <4>5. \A S, x : {x} \subseteq S <=> {x} \cap S # {}
        OBVIOUS
      <4> QED
        BY <4>2, <4>3, <4>4, <4>5
    <3> HIDE DEF places
    <3> QED
      BY <3>1 DEF ScreenPairs, places
  <2>2. \A f, g : f.sure = f.may /\ g.sure = g.may => Minus(f, g).sure = Minus(f, g).may
    BY DEF Minus
  <2>3. Nothing.sure = Nothing.may
    BY DEF Nothing
  <2>4. /\ Minus(ScreenPairs(origin), ScreenPairs(at)).sure
             = Minus(ScreenPairs(origin), ScreenPairs(at)).may
        /\ Minus(ScreenPairs(at), ScreenPairs(origin)).sure
             = Minus(ScreenPairs(at), ScreenPairs(origin)).may
    BY <1>1, <2>1, <2>2
  <2> QED
    BY <1>1, <2>1, <2>3, <2>4 DEF PairFacts, Screens, ScreensLost, ScreensCreated, ScreensGained
<1>5. OpenTiles(at).sure = OpenTiles(at).may
  <2>1. \A t \in Neighbors[at] :
           /\ Perhaps(tile[t].pass) <=> Surely(tile[t].pass)
           /\ Perhaps(tile[t].block) <=> Surely(tile[t].block)
           /\ Occupied(t) <=> MayBeOccupied(t)
    BY <1>1, <1>2 DEF FullyKnown, Occupied, MayBeOccupied
  <2> QED
    BY <2>1 DEF OpenTiles
<1>6. ASSUME \A h \in Hostiles : \A t \in Where(h) : OffMap[<<at, t>>] = {}
      PROVE  SightedHostiles.sure = SightedHostiles.may
  <2>1. \A s, t \in Tiles : Between[<<s, t>>] \subseteq Tiles
    BY DEF Between
  <2>2. \A h \in Hostiles : \A t \in Where(h) : t \in Tiles /\ (Sees(at, t) <=> MaySee(at, t))
    BY <1>1, <1>2, <1>6, <2>1 DEF Sees, MaySee, FullyKnown
  <2> QED
    BY <1>1, <1>2, <2>2 DEF SightedHostiles, SightedFrom, Definite, Possible
<1> QED
  BY <1>3, <1>4, <1>5, <1>6

\* Uncertainty comes from what is unknown and from nowhere else: on any map, once
\* all is known the two bounds of every fact meet.
THEOREM KnowledgeIsExact == Spec => []FullKnowledgeIsExact
<1>1. TypeOK => FullKnowledgeIsExact
  <2> SUFFICES ASSUME TypeOK,
                      \A a \in Others : Known(a) /\ Cardinality(position[a]) = 1,
                      \A t \in Tiles : \A field \in DOMAIN tile[t] : tile[t][field] # BOOLEAN
               PROVE  /\ \A f \in ActorFacts : f.sure = f.may
                      /\ \A f \in PairFacts : f.sure = f.may
                      /\ OpenTiles(at).sure = OpenTiles(at).may
                      /\ \/ SightedHostiles.sure = SightedHostiles.may
                         \/ \E h \in Hostiles : \E t \in Where(h) : OffMap[<<at, t>>] # {}
    BY DEF FullKnowledgeIsExact
  <2> QED
    BY ExactlyKnown, ExactFacts
<1> QED
  BY <1>1, PositionTypeCorrect, PTL

-----------------------------------------------------------------------------
(* Lines of sight, on any map *)

\* The distance of two hexes is the largest of their three cube differences.
Longest(a, b, n) ==
    /\ Abs(a) <= n /\ Abs(b) <= n /\ Abs(a + b) <= n
    /\ Abs(a) = n \/ Abs(b) = n \/ Abs(a + b) = n

\* Distance is the longest of three differences,
LEMMA LongestIs ==
    ASSUME NEW a \in Int, NEW b \in Int
    PROVE  LET n == (Abs(a) + Abs(b) + Abs(a + b)) \div 2
           IN n \in Nat /\ Longest(a, b, n)
BY DEF Abs, Longest

\* the only number that is.
LEMMA LongestIsOne ==
    ASSUME NEW a \in Int, NEW b \in Int, NEW n \in Nat, Longest(a, b, n)
    PROVE  (Abs(a) + Abs(b) + Abs(a + b)) \div 2 = n
BY DEF Abs, Longest

Hexes == Int \X Int

\* Distances of hexes are such numbers,
LEMMA DistanceIs ==
    ASSUME NEW c \in Hexes, NEW d \in Hexes, NEW n
    PROVE  Distance(c, d) = n <=> n \in Nat /\ Longest(c[1] - d[1], c[2] - d[2], n)
<1>1. c[1] - d[1] \in Int /\ c[2] - d[2] \in Int
  BY DEF Hexes
<1>2. PICK a \in Int, b \in Int : a = c[1] - d[1] /\ b = c[2] - d[2]
  BY <1>1
<1>3. Distance(c, d) = (Abs(a) + Abs(b) + Abs(a + b)) \div 2
  BY <1>2 DEF Distance
<1>4. PICK m : m = (Abs(a) + Abs(b) + Abs(a + b)) \div 2
  OBVIOUS
<1>5. m \in Nat /\ Longest(a, b, m)
  BY <1>4, LongestIs
<1> QED BY <1>2, <1>3, <1>4, <1>5, LongestIsOne

\* the same both ways.
LEMMA DistanceIsMutual ==
    ASSUME NEW c \in Hexes, NEW d \in Hexes
    PROVE  Distance(c, d) = Distance(d, c)
<1>1. PICK n : n = Distance(c, d)
  OBVIOUS
<1>2. n \in Nat /\ Longest(c[1] - d[1], c[2] - d[2], n)
  BY <1>1, DistanceIs
<1>3. c[1] \in Int /\ c[2] \in Int /\ d[1] \in Int /\ d[2] \in Int
  BY DEF Hexes
<1>4. Longest(d[1] - c[1], d[2] - c[2], n)
  BY <1>2, <1>3 DEF Longest, Abs
<1> QED BY <1>1, <1>2, <1>4, DistanceIs

\* Rounding to a multiple of unit goes at most half of it astray,
LEMMA NearestIs ==
    ASSUME NEW q \in Int, NEW unit \in Nat, unit > 0
    PROVE  LET x == (2 * q + unit) \div (2 * unit)
           IN x \in Int /\ 2 * Abs(x * unit - q) <= unit
<1>1. PICK a \in Int, b \in Nat : a = 2 * q + unit /\ b = 2 * unit /\ b > 0
  OBVIOUS
<1>2. PICK x \in Int : x = a \div b
  BY <1>1
<1>3. b * x <= a /\ a < b * x + b
  BY <1>1, <1>2
<1>4. PICK xu \in Int : xu = x * unit /\ b * x = 2 * xu
  BY <1>1
<1>5. 2 * Abs(xu - q) <= unit
  BY <1>1, <1>3, <1>4 DEF Abs
<1> QED BY <1>1, <1>2, <1>4, <1>5

\* and mending the one of three coordinates that went furthest, for their sum to
\* be zero again, at most two thirds.
LEMMA Mended ==
    ASSUME NEW a \in Int, NEW b \in Int, NEW g \in Int, NEW unit \in Nat,
           2 * Abs(a) <= unit, 2 * Abs(b) <= unit, 2 * Abs(g) <= unit,
           a + b + g = 0 \/ a + b + g = unit \/ a + b + g = -unit
    PROVE  /\ 3 * Abs(a) <= 2 * unit /\ 3 * Abs(b) <= 2 * unit /\ 3 * Abs(g) <= 2 * unit
           /\ Abs(a) > Abs(b) /\ Abs(a) > Abs(g) => 3 * Abs(b + g) <= 2 * unit
           /\ ~(Abs(a) > Abs(b) /\ Abs(a) > Abs(g)) /\ Abs(b) > Abs(g)
                 => 3 * Abs(a + g) <= 2 * unit
           /\ ~(Abs(a) > Abs(b) /\ Abs(a) > Abs(g)) /\ ~(Abs(b) > Abs(g))
                 => 3 * Abs(a + b) <= 2 * unit
BY DEF Abs

\* What is at most two thirds of unit from q, and from <<q, r>> in all three
\* coordinates
Beside(u, q, unit) == 3 * Abs(u * unit - q) <= 2 * unit
Close(u, q, r, unit) ==
    /\ Beside(u[1], q, unit) /\ Beside(u[2], r, unit)
    /\ Beside(u[1] + u[2], q + r, unit)

\* _cube_round gives a hex close to the point it rounds.
LEMMA RoundIsClose ==
    ASSUME NEW q \in Int, NEW r \in Int, NEW unit \in Nat, unit > 0
    PROVE  CubeRound(q, r, unit) \in Hexes /\ Close(CubeRound(q, r, unit), q, r, unit)
<1> DEFINE nearest(n) == (2 * n + unit) \div (2 * unit)
<1>1. PICK x \in Int, z \in Int, y \in Int :
         x = nearest(q) /\ z = nearest(r) /\ y = nearest(-q - r)
  BY NearestIs, -q - r \in Int
<1>2. /\ 2 * Abs(x * unit - q) <= unit /\ 2 * Abs(z * unit - r) <= unit
      /\ 2 * Abs(y * unit - (-q - r)) <= unit
  BY <1>1, NearestIs, -q - r \in Int
<1>3. PICK a \in Int, b \in Int, g \in Int :
         a = x * unit - q /\ b = y * unit + q + r /\ g = z * unit - r
  OBVIOUS
<1>4. /\ 2 * Abs(a) <= unit /\ 2 * Abs(b) <= unit /\ 2 * Abs(g) <= unit
  BY <1>2, <1>3
<1>5. a + b + g = (x + y + z) * unit
  BY <1>3
<1>6. a + b + g = 0 \/ a + b + g = unit \/ a + b + g = -unit
  <2>1. PICK s \in Int : s = x + y + z /\ a + b + g = s * unit
    BY <1>5
  <2>2. 2 * (s * unit) <= 3 * unit /\ -3 * unit <= 2 * (s * unit)
    BY <1>4, <2>1 DEF Abs
  <2>3. ASSUME s >= 2 PROVE FALSE
    <3>1. s * unit >= 2 * unit
      BY <2>3
    <3> QED BY <2>2, <3>1
  <2>4. ASSUME s <= -2 PROVE FALSE
    <3>1. s * unit <= -2 * unit
      BY <2>4
    <3> QED BY <2>2, <3>1
  <2>5. s = 0 \/ s = 1 \/ s = -1
    BY <2>3, <2>4
  <2> QED BY <2>1, <2>5
<1>7. CubeRound(q, r, unit) =
         IF Abs(a) > Abs(b) /\ Abs(a) > Abs(g) THEN <<-y - z, z>>
         ELSE IF Abs(b) > Abs(g) THEN <<x, z>> ELSE <<x, -x - y>>
  <2>1. CubeRound(q, r, unit) =
         CASE Abs(a) > Abs(b) /\ Abs(a) > Abs(g) -> <<-y - z, z>>
           [] ~(Abs(a) > Abs(b) /\ Abs(a) > Abs(g)) /\ Abs(b) > Abs(g) -> <<x, z>>
           [] OTHER -> <<x, -x - y>>
    BY <1>1, <1>3, Zenon DEF CubeRound
  <2> HIDE DEF nearest
  <2> QED BY <2>1
<1> HIDE DEF nearest
<1>8. CASE Abs(a) > Abs(b) /\ Abs(a) > Abs(g)
  <2>0. <<-y - z, z>> \in Hexes /\ <<-y - z, z>>[1] = -y - z /\ <<-y - z, z>>[2] = z
    BY DEF Hexes
  <2>1. PICK u \in Hexes : u = <<-y - z, z>> /\ u[1] = -y - z /\ u[2] = z
    BY <2>0, Zenon
  <2>2. /\ u[1] * unit - q = -(b + g) /\ u[2] * unit - r = g
        /\ (u[1] + u[2]) * unit - (q + r) = -b
    BY <1>3, <2>1
  <2>3. Close(u, q, r, unit)
    <3>1. 3 * Abs(b + g) <= 2 * unit /\ 3 * Abs(b) <= 2 * unit /\ 3 * Abs(g) <= 2 * unit
      BY <1>4, <1>6, <1>8, Mended
    <3>2. Abs(-(b + g)) = Abs(b + g) /\ Abs(-b) = Abs(b)
      BY DEF Abs
    <3> QED BY <2>2, <3>1, <3>2 DEF Close, Beside
  <2>4. CubeRound(q, r, unit) = u
    BY <1>7, <1>8, <2>1
  <2> QED BY <2>3, <2>4, Zenon
<1>9. CASE ~(Abs(a) > Abs(b) /\ Abs(a) > Abs(g)) /\ Abs(b) > Abs(g)
  <2>0. <<x, z>> \in Hexes /\ <<x, z>>[1] = x /\ <<x, z>>[2] = z
    BY DEF Hexes
  <2>1. PICK u \in Hexes : u = <<x, z>> /\ u[1] = x /\ u[2] = z
    BY <2>0, Zenon
  <2>2. /\ u[1] * unit - q = a /\ u[2] * unit - r = g
        /\ (u[1] + u[2]) * unit - (q + r) = a + g
    BY <1>3, <2>1
  <2>3. Close(u, q, r, unit)
    <3>1. 3 * Abs(a + g) <= 2 * unit /\ 3 * Abs(a) <= 2 * unit /\ 3 * Abs(g) <= 2 * unit
      BY <1>4, <1>6, <1>9, Mended
    <3> QED BY <2>2, <3>1 DEF Close, Beside
  <2>4. CubeRound(q, r, unit) = u
    BY <1>7, <1>9, <2>1
  <2> QED BY <2>3, <2>4, Zenon
<1>10. CASE ~(Abs(a) > Abs(b) /\ Abs(a) > Abs(g)) /\ ~(Abs(b) > Abs(g))
  <2>0. <<x, -x - y>> \in Hexes /\ <<x, -x - y>>[1] = x /\ <<x, -x - y>>[2] = -x - y
    BY DEF Hexes
  <2>1. PICK u \in Hexes : u = <<x, -x - y>> /\ u[1] = x /\ u[2] = -x - y
    BY <2>0, Zenon
  <2>2. /\ u[1] * unit - q = a /\ u[2] * unit - r = -(a + b)
        /\ (u[1] + u[2]) * unit - (q + r) = -b
    BY <1>3, <2>1
  <2>3. Close(u, q, r, unit)
    <3>1. 3 * Abs(a + b) <= 2 * unit /\ 3 * Abs(a) <= 2 * unit /\ 3 * Abs(b) <= 2 * unit
      BY <1>4, <1>6, <1>10, Mended
    <3>2. Abs(-(a + b)) = Abs(a + b) /\ Abs(-b) = Abs(b)
      BY DEF Abs
    <3> QED BY <2>2, <3>1, <3>2 DEF Close, Beside
  <2>4. CubeRound(q, r, unit) = u
    BY <1>7, <1>10, <2>1
  <2> QED BY <2>3, <2>4, Zenon
<1> QED BY <1>8, <1>9, <1>10

\* What is less than one step off the k-th of n points from one end of a line is
\* no more than k steps from it, in no coordinate, and k in the longest.
Along(n, k, a, d) == Abs(n * a - k * d) < n

\* How far the k-th of n steps has come along one coordinate.
LEMMA StepsAlong ==
    ASSUME NEW n \in Nat, n > 0, NEW k \in Nat, NEW a \in Int, NEW d \in Int,
           Along(n, k, a, d), Abs(d) <= n
    PROVE  Abs(a) <= k /\ (Abs(d) = n => Abs(a) = k)
<1>1. PICK na \in Int, kd \in Int, kn \in Int : na = n * a /\ kd = k * d /\ kn = k * n
  OBVIOUS
<1>2. kd <= kn /\ -kn <= kd
  <2>1. d <= n /\ -n <= d
    BY DEF Abs
  <2>2. k * d <= k * n /\ k * (-n) <= k * d
    BY <2>1
  <2>3. k * (-n) = -(k * n)
    OBVIOUS
  <2> QED BY <1>1, <2>2, <2>3
<1>3. Abs(na - kd) < n
  BY <1>1 DEF Along
<1>4. ASSUME a >= k + 1 PROVE FALSE
  <2>1. n * a >= n * (k + 1) /\ n * (k + 1) = k * n + n
    BY <1>4
  <2> QED BY <1>1, <1>2, <1>3, <2>1 DEF Abs
<1>5. ASSUME -a >= k + 1 PROVE FALSE
  <2>1. n * (-a) >= n * (k + 1) /\ n * (k + 1) = k * n + n /\ n * (-a) = -(n * a)
    BY <1>5
  <2> QED BY <1>1, <1>2, <1>3, <2>1 DEF Abs
<1>6. ASSUME d = n, a <= k - 1 PROVE FALSE
  <2>1. n * a <= n * (k - 1) /\ n * (k - 1) = k * n - n /\ kd = kn
    BY <1>1, <1>6
  <2> QED BY <1>1, <1>3, <2>1 DEF Abs
<1>7. ASSUME d = -n, -a <= k - 1 PROVE FALSE
  <2>1. n * (-a) <= n * (k - 1) /\ n * (k - 1) = k * n - n /\ n * (-a) = -(n * a)
    BY <1>7
  <2>2. kd = -kn
    BY <1>1, <1>7
  <2> QED BY <1>1, <1>3, <2>1, <2>2 DEF Abs
<1> QED BY <1>4, <1>5, <1>6, <1>7 DEF Abs

\* One coordinate of the k-th of n points from c to d, nudged by j, in thousandths of n
Point(c, d, j, n, k) == (c * 1000 + j) * n + (d - c) * 1000 * k

\* In one coordinate: what is close to a nudged point is close to the point.
LEMMA CloseToPoint ==
    ASSUME NEW n \in Nat, n > 0, NEW k \in Nat, NEW c \in Int, NEW d \in Int, NEW u \in Int,
           NEW j \in Nat, j <= 3, NEW q \in Int, q = Point(c, d, j, n, k),
           NEW unit \in Nat, unit = n * 1000, Beside(u, q, unit)
    PROVE  Along(n, k, u - c, d - c)
<1>1. PICK e \in Int : e = n * (u - c) - k * (d - c)
  OBVIOUS
<1>2. u * unit - q = 1000 * e - j * n
  BY <1>1 DEF Point
<1>3. 3 * Abs(1000 * e - j * n) <= 2000 * n
  BY <1>2 DEF Beside
<1>4. PICK jn \in Int : jn = j * n /\ 0 <= jn /\ jn <= 3 * n
  <2>1. 0 * n <= j * n /\ j * n <= 3 * n
    OBVIOUS
  <2> QED BY <2>1
<1>5. Abs(e) < n
  BY <1>3, <1>4 DEF Abs
<1> QED BY <1>1, <1>5 DEF Along

\* The k-th coordinate between c and d
Nudged(c, d, n, k) ==
    CubeRound((c[1] * Nudge + 1) * n + (d[1] - c[1]) * Nudge * k,
              (c[2] * Nudge + 2) * n + (d[2] - c[2]) * Nudge * k,
              n * Nudge)

\* A line is its nudged points,
LEMMA HexLineIs ==
    ASSUME NEW c, NEW d
    PROVE  HexLine(c, d) = { Nudged(c, d, Distance(c, d), k) : k \in 1..(Distance(c, d) - 1) }
BY Zenon DEF HexLine, Nudged

\* each of them k steps from one end and n - k from the other.
LEMMA OnTheWay ==
    ASSUME NEW c \in Hexes, NEW d \in Hexes, NEW n \in Nat, n = Distance(c, d),
           NEW k \in 1..(n - 1)
    PROVE  /\ Distance(c, Nudged(c, d, n, k)) = k
           /\ Distance(Nudged(c, d, n, k), d) = n - k
<1>1. PICK c1 \in Int, c2 \in Int, d1 \in Int, d2 \in Int :
         c[1] = c1 /\ c[2] = c2 /\ d[1] = d1 /\ d[2] = d2
  BY DEF Hexes
<1>2. n > 0 /\ k \in Nat /\ n - k \in Nat
  OBVIOUS
<1>3. PICK q \in Int, r \in Int, unit \in Nat :
         /\ q = Point(c1, d1, 1, n, k) /\ r = Point(c2, d2, 2, n, k) /\ unit = n * 1000
  BY <1>2 DEF Point
<1>4. PICK u \in Hexes : u = Nudged(c, d, n, k) /\ Close(u, q, r, unit)
  <2>1. Nudged(c, d, n, k) = CubeRound(q, r, unit)
    BY <1>1, <1>3 DEF Nudged, Nudge, Point
  <2>2. unit > 0
    BY <1>2, <1>3
  <2> QED BY <2>1, <2>2, RoundIsClose
<1>5. PICK u1 \in Int, u2 \in Int : u[1] = u1 /\ u[2] = u2
  BY DEF Hexes
<1>6. PICK a1 \in Int, a2 \in Int, b1 \in Int, b2 \in Int :
         a1 = u1 - c1 /\ a2 = u2 - c2 /\ b1 = d1 - c1 /\ b2 = d2 - c2
  OBVIOUS
<1>7. Along(n, k, a1, b1)
  <2>1. Beside(u1, q, unit)
    BY <1>4, <1>5 DEF Close
  <2>2. Along(n, k, u1 - c1, d1 - c1)
    BY <1>2, <1>3, <2>1, CloseToPoint
  <2> QED BY <1>6, <2>2
<1>8. Along(n, k, a2, b2)
  <2>1. Beside(u2, r, unit)
    BY <1>4, <1>5 DEF Close
  <2>2. Along(n, k, u2 - c2, d2 - c2)
    BY <1>2, <1>3, <2>1, CloseToPoint
  <2> QED BY <1>6, <2>2
<1>9. Along(n, k, a1 + a2, b1 + b2)
  <2>2. Along(n, k, (u1 + u2) - (c1 + c2), (d1 + d2) - (c1 + c2))
    <3>1. PICK cc \in Int, dd \in Int, uu \in Int : cc = c1 + c2 /\ dd = d1 + d2 /\ uu = u1 + u2
      OBVIOUS
    <3>2. PICK qr \in Int : qr = q + r
      OBVIOUS
    <3>3. qr = Point(cc, dd, 3, n, k)
      BY <1>3, <3>1, <3>2 DEF Point
    <3>4. Beside(uu, qr, unit)
      BY <1>4, <1>5, <3>1, <3>2 DEF Close
    <3>5. Along(n, k, uu - cc, dd - cc)
      BY <1>2, <1>3, <3>3, <3>4, CloseToPoint
    <3> QED BY <3>1, <3>5
  <2>3. (u1 + u2) - (c1 + c2) = a1 + a2 /\ (d1 + d2) - (c1 + c2) = b1 + b2
    BY <1>6
  <2> QED BY <2>2, <2>3
<1>10. Longest(b1, b2, n)
  <2>1. Longest(c1 - d1, c2 - d2, n)
    BY <1>1, DistanceIs
  <2> QED BY <1>6, <2>1 DEF Longest, Abs
<1>11. Longest(a1, a2, k)
  <2>1. Abs(a1) <= k /\ (Abs(b1) = n => Abs(a1) = k)
    BY <1>2, <1>7, <1>10, StepsAlong DEF Longest
  <2>2. Abs(a2) <= k /\ (Abs(b2) = n => Abs(a2) = k)
    BY <1>2, <1>8, <1>10, StepsAlong DEF Longest
  <2>3. Abs(a1 + a2) <= k /\ (Abs(b1 + b2) = n => Abs(a1 + a2) = k)
    <3>1. PICK a \in Int, b \in Int : a = a1 + a2 /\ b = b1 + b2
      OBVIOUS
    <3>2. Along(n, k, a, b) /\ Abs(b) <= n
      BY <1>9, <1>10, <3>1 DEF Longest
    <3>3. Abs(a) <= k /\ (Abs(b) = n => Abs(a) = k)
      BY <1>2, <3>2, StepsAlong
    <3> QED BY <3>1, <3>3
  <2> QED BY <1>10, <2>1, <2>2, <2>3 DEF Longest
<1>12. Longest(b1 - a1, b2 - a2, n - k)
  <2>1. ASSUME NEW a \in Int, NEW b \in Int, Along(n, k, a, b), Abs(b) <= n
        PROVE  Abs(b - a) <= n - k /\ (Abs(b) = n => Abs(b - a) = n - k)
    <3>1. n * (b - a) - (n - k) * b = -(n * a - k * b)
      OBVIOUS
    <3>2. n * (b - a) - (n - k) * b \in Int /\ Abs(n * (b - a) - (n - k) * b) < n
      <4>1. PICK x \in Int : x = n * a - k * b
        OBVIOUS
      <4>2. Abs(-x) = Abs(x)
        BY DEF Abs
      <4> QED BY <2>1, <3>1, <4>1, <4>2 DEF Along
    <3>3. PICK m \in Nat, e \in Int : m = n - k /\ e = b - a
      BY <1>2
    <3>4. Along(n, m, e, b)
      BY <3>2, <3>3 DEF Along
    <3>5. Abs(e) <= m /\ (Abs(b) = n => Abs(e) = m)
      BY <1>2, <2>1, <3>4, StepsAlong
    <3> QED BY <3>3, <3>5
  <2>2. /\ Abs(b1 - a1) <= n - k /\ (Abs(b1) = n => Abs(b1 - a1) = n - k)
        /\ Abs(b2 - a2) <= n - k /\ (Abs(b2) = n => Abs(b2 - a2) = n - k)
    BY <1>7, <1>8, <1>10, <2>1 DEF Longest
  <2>3. /\ Abs((b1 + b2) - (a1 + a2)) <= n - k
        /\ (Abs(b1 + b2) = n => Abs((b1 + b2) - (a1 + a2)) = n - k)
    BY <1>9, <1>10, <2>1, a1 + a2 \in Int, b1 + b2 \in Int DEF Longest
  <2>4. (b1 + b2) - (a1 + a2) = (b1 - a1) + (b2 - a2)
    OBVIOUS
  <2> QED BY <1>10, <2>2, <2>3, <2>4 DEF Longest
<1>13. Distance(c, u) = k
  <2>1. Longest(c1 - u1, c2 - u2, k)
    BY <1>6, <1>11 DEF Longest, Abs
  <2> QED BY <1>1, <1>2, <1>5, <2>1, DistanceIs
<1>14. Distance(u, d) = n - k
  <2>1. Longest(u1 - d1, u2 - d2, n - k)
    BY <1>6, <1>12 DEF Longest, Abs
  <2> QED BY <1>1, <1>2, <1>5, <2>1, DistanceIs
<1> QED BY <1>4, <1>13, <1>14

\* Both ends nudged alike, the line back is the line there.
LEMMA LineIsMutual ==
    ASSUME NEW c \in Hexes, NEW d \in Hexes
    PROVE  HexLine(c, d) = HexLine(d, c)
<1>1. PICK n \in Nat : n = Distance(c, d) /\ n = Distance(d, c)
  BY DistanceIsMutual, DistanceIs
<1>2. ASSUME NEW e \in Hexes, NEW f \in Hexes, NEW k \in 1..(n - 1)
      PROVE  Nudged(e, f, n, k) = Nudged(f, e, n, n - k) /\ n - k \in 1..(n - 1)
  <2>1. PICK e1 \in Int, e2 \in Int, f1 \in Int, f2 \in Int :
           e[1] = e1 /\ e[2] = e2 /\ f[1] = f1 /\ f[2] = f2
    BY DEF Hexes
  <2>2. /\ (e1 * 1000 + 1) * n + (f1 - e1) * 1000 * k
              = (f1 * 1000 + 1) * n + (e1 - f1) * 1000 * (n - k)
        /\ (e2 * 1000 + 2) * n + (f2 - e2) * 1000 * k
              = (f2 * 1000 + 2) * n + (e2 - f2) * 1000 * (n - k)
    OBVIOUS
  <2> QED BY <2>1, <2>2 DEF Nudged, Nudge
<1>3. HexLine(c, d) = { Nudged(c, d, n, k) : k \in 1..(n - 1) }
  BY <1>1, HexLineIs
<1>4. HexLine(d, c) = { Nudged(d, c, n, k) : k \in 1..(n - 1) }
  BY <1>1, HexLineIs
<1> QED BY <1>2, <1>3, <1>4

\* Whatever the map and however much of it is known: who may be seen may see, and
\* what lies between lies on a shortest way.
THEOREM SightKnowsNoSides == Spec => []SightIsMutual
<1>1. SightIsMutual
  <2>0. Coord \in [Tiles -> Hexes]
    BY MapAssumption DEF Hexes
  <2> SUFFICES ASSUME NEW s \in Tiles, NEW t \in Tiles
               PROVE  /\ MaySee(s, t) <=> MaySee(t, s)
                      /\ Sees(s, t) <=> Sees(t, s)
                      /\ \A u \in Between[<<s, t>>] :
                            Apart[<<s, u>>] + Apart[<<u, t>>] = Apart[<<s, t>>]
    BY DEF SightIsMutual
  <2>1. \A p, o \in Tiles : Apart[<<p, o>>] = Distance(Coord[p], Coord[o])
    BY DEF Apart
  <2>2. \A p, o \in Tiles : Line[<<p, o>>] = HexLine(Coord[p], Coord[o])
    BY DEF Line
  <2>3. Apart[<<s, t>>] = Apart[<<t, s>>] /\ Line[<<s, t>>] = Line[<<t, s>>]
    BY <2>0, <2>1, <2>2, DistanceIsMutual, LineIsMutual
  <2>4. Between[<<s, t>>] = Between[<<t, s>>] /\ OffMap[<<s, t>>] = OffMap[<<t, s>>]
    BY <2>3 DEF Between, OffMap
  <2>5. ASSUME NEW u \in Between[<<s, t>>]
        PROVE  Apart[<<s, u>>] + Apart[<<u, t>>] = Apart[<<s, t>>]
    <3>1. u \in Tiles /\ Coord[u] \in HexLine(Coord[s], Coord[t])
      BY <2>2, <2>5 DEF Between
    <3>2. PICK c \in Hexes, d \in Hexes : c = Coord[s] /\ d = Coord[t]
      BY <2>0
    <3>3. PICK n \in Nat : n = Distance(c, d)
      BY DistanceIs
    <3>4. PICK k \in 1..(n - 1) : Coord[u] = Nudged(c, d, n, k)
      BY <3>1, <3>2, <3>3, HexLineIs
    <3>5. Distance(c, Coord[u]) = k /\ Distance(Coord[u], d) = n - k
      BY <3>3, <3>4, OnTheWay
    <3>6. k + (n - k) = n
      OBVIOUS
    <3> QED BY <2>1, <3>1, <3>2, <3>3, <3>5, <3>6
  <2> QED BY <2>3, <2>4, <2>5 DEF MaySee, Sees
<1> QED BY <1>1, PTL

-----------------------------------------------------------------------------
(* The regression gate (Decision) *)

\* A failed decision is scored nowhere.
Unscored(t) == t.status # OK => DOMAIN t.scores = {}

\* What one acceptance hands on to the next
Keeps(t) ==
    /\ Meets(t)
    /\ DOMAIN first.scores \subseteq DOMAIN t.scores
    /\ (DOMAIN first.scores # {} /\ ~expect.allow) =>
          first.engine.components \subseteq t.engine.components

\* The inductive invariant
DInv ==
    /\ stage = "traced" => Unscored(trace)
    /\ baseline # None => Unscored(baseline) /\ Keeps(baseline)

\* The gate has lost nothing at first,
LEMMA StartHolds == DInit => DInv
BY DEF DInit, DInv

\* A decision fails with no scores, whichever way it fails.
LEMMA FailureIsUnscored ==
    ASSUME NEW status, Fail(status)
    PROVE  Unscored(trace)'
BY DEF Fail, Trace, Unscored

\* Only Accept touches the accepted traces while the fixture stays.
LEMMA AcceptKeeps ==
    ASSUME DInv, Accept
    PROVE  DInv'
<1> USE DEF Accept
<1>1. Unscored(trace) /\ trace' = trace /\ expect' = expect /\ stage' = stage
  BY DEF DInv, fixture
<1>2. CASE baseline = None
  <2>1. first' = trace /\ baseline' = trace /\ Meets(trace)
    BY <1>2 DEF DInv
  <2> QED
    BY <1>1, <2>1 DEF DInv, Keeps, Meets, Orders, Unscored
<1>3. CASE baseline # None
  <2>1. first' = first /\ baseline' = trace
    BY <1>3 DEF DInv
  <2>2. ~Hard(baseline, trace) /\ Unscored(baseline) /\ Keeps(baseline)
    BY <1>3 DEF DInv, Kind
  <2>3. Meets(trace) /\ trace.status = baseline.status
    BY <2>2, <1>3 DEF Hard, Keeps, Meets
  <2>4. DOMAIN baseline.scores \subseteq DOMAIN trace.scores
    BY <2>2, <2>3 DEF Hard, Unscored
  <2>5. ASSUME DOMAIN first.scores # {}, ~expect.allow
        PROVE  baseline.engine.components \subseteq trace.engine.components
    <3>1. DOMAIN baseline.scores \cap DOMAIN trace.scores # {}
      BY <2>2, <2>4, <2>5 DEF Keeps
    <3> QED
      BY <2>2, <2>5, <3>1 DEF Hard
  <2>6. Keeps(trace)
    BY <2>2, <2>3, <2>4, <2>5 DEF Keeps
  <2> QED
    <3>1. Keeps(trace)'
      BY <1>1, <2>1, <2>6 DEF Keeps, Meets, Orders
    <3> QED
      BY <1>1, <2>1, <3>1 DEF DInv, Unscored
<1> QED
  BY <1>2, <1>3

\* and no step makes it lose anything.
LEMMA StepKeeps == DInv /\ [DNext]_dvars => DInv'
<1> SUFFICES ASSUME DInv, [DNext]_dvars PROVE DInv'
  OBVIOUS
<1>1. ASSUME UNCHANGED <<expect, accepted>>, stage' = "traced" => Unscored(trace)'
      PROVE  DInv'
  BY <1>1 DEF DInv, accepted, Keeps, Meets, Orders, Unscored
<1>2. ASSUME NEW status, Fail(status) PROVE DInv'
  BY <1>1, <1>2, FailureIsUnscored DEF Fail, fixture
<1>3. CASE Begin
  BY <1>1, <1>2, <1>3 DEF Begin, fixture
<1>4. CASE ScoreNext
  <2>1. \/ \E status : Fail(status)
        \/ UNCHANGED <<vars, hp, fixture, engine, stage, trace, accepted>> /\ stage = "scoring"
    BY <1>4 DEF ScoreNext
  <2> QED
    BY <1>1, <1>2, <2>1 DEF fixture
<1>5. CASE Select
  <2>1. trace'.status = OK
    BY <1>5 DEF Select, Trace
  <2> QED
    BY <1>1, <1>5, <2>1 DEF Select, fixture, Unscored
<1>6. CASE Accept
  BY <1>6, AcceptKeeps
<1>7. CASE Upgrade
  BY <1>1, <1>7 DEF Upgrade, fixture
<1>8. CASE Learn
  BY <1>8 DEF Learn, DInv
<1>9. CASE UNCHANGED dvars
  BY <1>1, <1>9 DEF dvars, fixture, DInv, Unscored
<1> QED
  BY <1>3, <1>4, <1>5, <1>6, <1>7, <1>8, <1>9 DEF DNext

\* However many engines came and went, what was accepted first is still met,
\* scored and modelled by what is accepted now (classify_trace_change).
THEOREM UpgradesKeepAll == DSpec => []UpgradesLoseNothing
<1>1. DInv => UpgradesLoseNothing
  BY DEF DInv, Keeps, UpgradesLoseNothing
<1> QED
  BY <1>1, StartHolds, StepKeeps, PTL DEF DSpec

-----------------------------------------------------------------------------
(* Orders and rankings *)

\* A strict order of the members of a set.
StrictOrder(R, C) ==
    /\ \A a \in C : <<a, a>> \notin R
    /\ \A a, b \in C : a # b => <<a, b>> \in R \/ <<b, a>> \in R
    /\ \A a, b, c \in C : <<a, b>> \in R /\ <<b, c>> \in R => <<a, c>> \in R

Preceding(R, C, a) == { b \in C : <<b, a>> \in R }
Rank(R, C) == [a \in C |-> Cardinality(Preceding(R, C, a))]

\* The number of those before it tells the members of a finite set apart, and
\* leaves no gap.
LEMMA RanksAre ==
    ASSUME NEW C, IsFiniteSet(C), NEW R, StrictOrder(R, C)
    PROVE  /\ Cardinality(C) \in Nat
           /\ Rank(R, C) \in [C -> 0..(Cardinality(C) - 1)]
           /\ \A i \in 0..(Cardinality(C) - 1) : \E a \in C : Rank(R, C)[a] = i
           /\ \A a, b \in C : <<a, b>> \in R => Rank(R, C)[a] < Rank(R, C)[b]
           /\ \A a, b \in C : Rank(R, C)[a] = Rank(R, C)[b] => a = b
<1> DEFINE n == Cardinality(C)
           r == Rank(R, C)
<1>1. n \in Nat
  BY FS_CardinalityType
<1>2. ASSUME NEW a \in C
      PROVE  /\ IsFiniteSet(Preceding(R, C, a)) /\ r[a] = Cardinality(Preceding(R, C, a))
             /\ r[a] \in Nat /\ r[a] < n
  <2>1. Preceding(R, C, a) \subseteq C /\ a \notin Preceding(R, C, a)
    BY DEF Preceding, StrictOrder
  <2>2. IsFiniteSet(Preceding(R, C, a)) /\ Cardinality(Preceding(R, C, a)) <= n
        /\ (n = Cardinality(Preceding(R, C, a)) => C = Preceding(R, C, a))
    BY <2>1, FS_Subset
  <2>3. Cardinality(Preceding(R, C, a)) \in Nat
    BY <2>2, FS_CardinalityType
  <2>4. r[a] = Cardinality(Preceding(R, C, a))
    BY DEF Rank
  <2>5. Cardinality(Preceding(R, C, a)) # n
    BY <2>1, <2>2
  <2> QED BY <1>1, <2>2, <2>3, <2>4, <2>5
<1>3. r \in [C -> 0..(n - 1)]
  <2>1. r = [a \in C |-> r[a]]
    BY DEF Rank
  <2>2. \A a \in C : r[a] \in 0..(n - 1)
    BY <1>1, <1>2
  <2> HIDE DEF r, n
  <2> QED BY <2>1, <2>2
<1>4. ASSUME NEW a \in C, NEW b \in C, <<a, b>> \in R PROVE r[a] < r[b]
  <2>1. Preceding(R, C, a) \subseteq Preceding(R, C, b)
    BY <1>4 DEF Preceding, StrictOrder
  <2>2. a \in Preceding(R, C, b) /\ a \notin Preceding(R, C, a)
    BY <1>4 DEF Preceding, StrictOrder
  <2>3. Cardinality(Preceding(R, C, a)) <= Cardinality(Preceding(R, C, b))
        /\ (Cardinality(Preceding(R, C, b)) = Cardinality(Preceding(R, C, a))
              => Preceding(R, C, b) = Preceding(R, C, a))
    BY <1>2, <2>1, FS_Subset
  <2> HIDE DEF r
  <2> QED BY <1>2, <2>2, <2>3
<1>5. ASSUME NEW a \in C, NEW b \in C, r[a] = r[b] PROVE a = b
  <2> SUFFICES ASSUME a # b PROVE FALSE
    OBVIOUS
  <2>1. r[a] < r[b] \/ r[b] < r[a]
    BY <1>4 DEF StrictOrder
  <2> HIDE DEF r, n
  <2> QED BY <1>2, <1>5, <2>1
<1>6. ASSUME NEW i \in 0..(n - 1) PROVE \E a \in C : r[a] = i
  <2> HIDE DEF r, n
  <2>1. IsFiniteSet(0..(n - 1)) /\ Cardinality(0..(n - 1)) = n
    BY <1>1, FS_Interval
  <2>2. r \in Injection(C, 0..(n - 1))
    BY <1>3, <1>5 DEF Injection, IsInjective
  <2>3. r \in Surjection(C, 0..(n - 1))
    BY <2>1, <2>2, FS_Injection DEF n
  <2> QED BY <2>3 DEF Surjection
<1> QED BY <1>1, <1>3, <1>4, <1>5, <1>6

\* q lists C in the order R.
Lists(q, C, R) ==
    /\ q \in [1..Cardinality(C) -> C] /\ Cardinality(C) \in Nat
    /\ \A a \in C : \E i \in 1..Cardinality(C) : q[i] = a
    /\ \A i, j \in 1..Cardinality(C) : i < j => <<q[i], q[j]>> \in R
    /\ \A i, j \in 1..Cardinality(C) : q[i] = q[j] => i = j

\* Listing the members by their ranks puts them in order.
LEMMA ListedByRank ==
    ASSUME NEW C, IsFiniteSet(C), NEW R, StrictOrder(R, C),
           NEW q, q = [i \in 1..Cardinality(C) |->
                         CHOOSE a \in C : <<a, i - 1>> \in { <<b, Rank(R, C)[b]>> : b \in C }]
    PROVE  Lists(q, C, R)
<1> DEFINE n == Cardinality(C)
           r == Rank(R, C)
           Places == { <<b, r[b]>> : b \in C }
<1>1. /\ n \in Nat /\ r \in [C -> 0..(n - 1)]
      /\ \A i \in 0..(n - 1) : \E a \in C : r[a] = i
      /\ \A a, b \in C : <<a, b>> \in R => r[a] < r[b]
      /\ \A a, b \in C : r[a] = r[b] => a = b
  BY RanksAre
<1> HIDE DEF n, r
<1>2. ASSUME NEW i \in 1..n PROVE q[i] \in C /\ r[q[i]] = i - 1
  <2>1. q[i] = CHOOSE a \in C : <<a, i - 1>> \in Places
    BY DEF n, r
  <2>2. \A a \in C : <<a, i - 1>> \in Places <=> r[a] = i - 1
    OBVIOUS
  <2>3. i - 1 \in 0..(n - 1)
    BY <1>1
  <2>4. \E a \in C : <<a, i - 1>> \in Places
    BY <1>1, <2>2, <2>3
  <2> HIDE DEF Places
  <2>5. q[i] \in C /\ <<q[i], i - 1>> \in Places
    BY <2>1, <2>4
  <2> QED BY <2>2, <2>5
<1>3. q \in [1..n -> C]
  <2>1. q = [i \in 1..n |-> q[i]]
    BY DEF n
  <2> QED BY <1>2, <2>1
<1>4. ASSUME NEW a \in C PROVE \E i \in 1..n : q[i] = a
  <2>1. r[a] \in 0..(n - 1)
    BY <1>1
  <2>2. PICK i \in 1..n : i - 1 = r[a]
    BY <1>1, <2>1, r[a] + 1 \in 1..n
  <2>3. r[q[i]] = r[a] /\ q[i] \in C
    BY <1>2, <2>2
  <2> QED BY <1>1, <2>3
<1>5. ASSUME NEW i \in 1..n, NEW j \in 1..n, q[i] = q[j] PROVE i = j
  <2>1. i - 1 = j - 1
    BY <1>2, <1>5
  <2> QED BY <2>1
<1>6. ASSUME NEW i \in 1..n, NEW j \in 1..n, i < j PROVE <<q[i], q[j]>> \in R
  <2>1. q[i] # q[j] /\ q[i] \in C /\ q[j] \in C
    BY <1>2, <1>5, <1>6
  <2>2. r[q[i]] = i - 1 /\ r[q[j]] = j - 1
    BY <1>2
  <2>3. ~(r[q[j]] < r[q[i]])
    BY <1>6, <2>2
  <2>4. <<q[j], q[i]>> \notin R
    BY <1>1, <2>1, <2>3
  <2> QED BY <2>1, <2>4 DEF StrictOrder
<1> QED BY <1>1, <1>3, <1>4, <1>5, <1>6 DEF Lists, n

\* A set of natural numbers has a least element, because 0..n shrinks with n.
LEMMA LeastNatural ==
    ASSUME NEW S \in SUBSET Nat, S # {}
    PROVE  \E x \in S : \A y \in S : x <= y
<1> DEFINE Below == { 0..n : n \in S }
<1>1. Below \subseteq FiniteSubsetsOf(Nat)
  <2>1. ASSUME NEW n \in S PROVE 0..n \in FiniteSubsetsOf(Nat)
    <3>1. IsFiniteSet(0..n) /\ 0..n \in SUBSET Nat
      BY FS_Interval
    <3> QED BY <3>1 DEF FiniteSubsetsOf
  <2> QED BY <2>1
<1>2. Below # {}
  OBVIOUS
<1>3. PICK b \in Below : \A c \in Below : ~ (<<c, b>> \in StrictSubsetOrdering(Nat))
  <2> HIDE DEF Below
  <2> QED BY <1>1, <1>2, FS_StrictSubsetOrderingWellFounded, WFMin
<1>4. PICK x \in S : b = 0..x
  OBVIOUS
<1>5. ASSUME NEW y \in S, y < x PROVE FALSE
  <2>1. x \in Nat /\ y \in Nat /\ y < x
    BY <1>5
  <2>2. x \in 0..x /\ x \notin 0..y /\ \A i \in 0..y : i \in 0..x
    BY <2>1
  <2>3. 0..y # 0..x
    BY <2>2, Zenon
  <2>4. 0..y \in Below
    BY Zenon
  <2>5. 0..y \in SUBSET Nat /\ 0..x \in SUBSET Nat
    OBVIOUS
  <2>6. <<0..y, 0..x>> \in StrictSubsetOrdering(Nat)
    BY <2>2, <2>3, <2>5, Zenon DEF StrictSubsetOrdering
  <2> QED BY <1>3, <1>4, <2>4, <2>6
<1> QED BY <1>5

\* Induction, of a set rather than of a predicate.
LEMMA SetInduction ==
    ASSUME NEW S \in SUBSET Nat, 0 \in S, \A n \in S : n + 1 \in S
    PROVE  S = Nat
<1> SUFFICES ASSUME Nat \ S # {} PROVE FALSE
  OBVIOUS
<1>1. PICK x \in Nat \ S : \A y \in Nat \ S : x <= y
  BY LeastNatural
<1>2. x - 1 \in S /\ x - 1 \in Nat
  BY <1>1
<1> QED BY <1>1, <1>2

-----------------------------------------------------------------------------
(* Selection *)

\* The numbers a candidate is compared by.
Comparable(s, C) ==
    /\ C \in SUBSET Nat /\ IsFiniteSet(C)
    /\ \A a \in C : /\ s[a].value \in Int /\ s[a].tail \in Int
                    /\ s[a].span \in Int /\ s[a].spent \in Int

AheadOf(s, C) == { p \in C \X C : Ahead(s, p[1], p[2]) }

\* Higher scores first, and ties by id, is a strict order.
LEMMA AheadOrders ==
    ASSUME NEW s, NEW C, Comparable(s, C)
    PROVE  StrictOrder(AheadOf(s, C), C)
<1>1. \A a, b \in C : <<a, b>> \in AheadOf(s, C) <=> Ahead(s, a, b)
  BY DEF AheadOf
<1>2. ASSUME NEW a \in C PROVE ~Ahead(s, a, a)
  BY DEF Ahead, Comparable
<1>3. ASSUME NEW a \in C, NEW b \in C, a # b PROVE Ahead(s, a, b) \/ Ahead(s, b, a)
  <2>1. a \in Nat /\ b \in Nat /\ s[a].value \in Int /\ s[b].value \in Int
    BY DEF Comparable
  <2>2. a < b \/ b < a
    BY <1>3, <2>1
  <2> QED BY <2>1, <2>2 DEF Ahead
<1>4. ASSUME NEW a \in C, NEW b \in C, NEW c \in C, Ahead(s, a, b), Ahead(s, b, c)
      PROVE  Ahead(s, a, c)
  BY <1>4 DEF Ahead, Comparable
<1> QED BY <1>1, <1>2, <1>3, <1>4 DEF StrictOrder

\* Who is ahead scores no less.
LEMMA AheadIsNoWorse ==
    ASSUME NEW s, NEW C, Comparable(s, C), NEW a \in C, NEW b \in C,
           Ahead(s, a, b) \/ a = b
    PROVE  s[a].value >= s[b].value
<1>1. s[a].value \in Int /\ s[b].value \in Int
  BY DEF Comparable
<1> QED BY <1>1 DEF Ahead

\* The tie key compares four numbers, one after the other.
LEMMA TieIs ==
    ASSUME NEW s, NEW x, NEW y
    PROVE  TieBefore(s, x, y) <=>
              \/ s[x].tail < s[y].tail
              \/ s[x].tail = s[y].tail /\ s[x].span < s[y].span
              \/ s[x].tail = s[y].tail /\ s[x].span = s[y].span /\ s[x].spent < s[y].spent
              \/ /\ s[x].tail = s[y].tail /\ s[x].span = s[y].span
                 /\ s[x].spent = s[y].spent /\ x < y
<1> DEFINE kx == <<s[x].tail, s[x].span, s[x].spent, x>>
           ky == <<s[y].tail, s[y].span, s[y].spent, y>>
           First(i) == /\ kx[i] < ky[i]
                       /\ \A j \in 1..(i - 1) : kx[j] = ky[j]
<1>1. TieBefore(s, x, y) <=> \E i \in 1..4 : First(i)
  BY DEF TieBefore
<1>2. /\ kx[1] = s[x].tail /\ kx[2] = s[x].span /\ kx[3] = s[x].spent /\ kx[4] = x
      /\ ky[1] = s[y].tail /\ ky[2] = s[y].span /\ ky[3] = s[y].spent /\ ky[4] = y
  OBVIOUS
<1> HIDE DEF kx, ky
<1>3. /\ 1..4 = {1, 2, 3, 4} /\ 1..(1 - 1) = {} /\ 1..(2 - 1) = {1} /\ 1..(3 - 1) = {1, 2}
      /\ 1..(4 - 1) = {1, 2, 3}
  OBVIOUS
<1>4. TieBefore(s, x, y) <=> First(1) \/ First(2) \/ First(3) \/ First(4)
  <2> HIDE DEF First
  <2> QED BY <1>1, <1>3, Zenon
<1>5. TieBefore(s, x, y) <=>
         \/ kx[1] < ky[1]
         \/ kx[1] = ky[1] /\ kx[2] < ky[2]
         \/ kx[1] = ky[1] /\ kx[2] = ky[2] /\ kx[3] < ky[3]
         \/ kx[1] = ky[1] /\ kx[2] = ky[2] /\ kx[3] = ky[3] /\ kx[4] < ky[4]
  BY <1>3, <1>4
<1> QED BY <1>2, <1>5

-----------------------------------------------------------------------------
\* What the groups are led by, for a list of candidates: a member of the list so
\* far, no more than the margin better.
Leads(s, order, margin, found) ==
    \A i \in DOMAIN order :
        /\ \E j \in 1..i : found[i] = order[j]
        /\ s[found[i]].value - s[order[i]].value <= margin

\* The recursive function behind Anchors, on the first n candidates.
Anchored(s, order, margin, n, f) == f = [i \in 1..n |-> Anchor(s, order, f, margin, i)]

\* The best candidates of the groups can be found in order.
LEMMA AnchoredExists ==
    ASSUME NEW s, NEW order, NEW margin
    PROVE  \A n \in Nat : \E f : Anchored(s, order, margin, n, f)
<1> DEFINE S == { n \in Nat : \E f : Anchored(s, order, margin, n, f) }
<1>1. 0 \in S
  <2> DEFINE f == [i \in 1..0 |-> 0]
  <2>1. 1..0 = {}
    OBVIOUS
  <2>2. f = [i \in 1..0 |-> Anchor(s, order, f, margin, i)]
    BY <2>1
  <2>3. Anchored(s, order, margin, 0, f)
    BY <2>2 DEF Anchored
  <2> HIDE DEF f
  <2> QED BY <2>3
<1>2. ASSUME NEW n \in S PROVE n + 1 \in S
  <2>1. PICK f : Anchored(s, order, margin, n, f)
    OBVIOUS
  <2> DEFINE g == [i \in 1..(n + 1) |->
                     IF i = n + 1 THEN Anchor(s, order, f, margin, i) ELSE f[i]]
  <2>2. \A i \in 1..n : f[i] = Anchor(s, order, f, margin, i)
    BY <2>1, Zenon DEF Anchored
  <2>3. ASSUME NEW i \in 1..(n + 1)
        PROVE  Anchor(s, order, f, margin, i) = Anchor(s, order, g, margin, i)
    <3>1. CASE i > 1
      <4>1. i - 1 \in 1..(n + 1) /\ i - 1 # n + 1
        BY <3>1
      <4>2. g[i - 1] = f[i - 1]
        BY <4>1
      <4> HIDE DEF g
      <4> QED BY <4>2, Zenon DEF Anchor
    <3>2. CASE ~(i > 1)
      BY <3>2, Zenon DEF Anchor
    <3> QED BY <3>1, <3>2
  <2>4. ASSUME NEW i \in 1..(n + 1) PROVE g[i] = Anchor(s, order, g, margin, i)
    <3>1. g[i] = IF i = n + 1 THEN Anchor(s, order, f, margin, i) ELSE f[i]
      BY Zenon
    <3>2. i # n + 1 => i \in 1..n
      OBVIOUS
    <3> HIDE DEF g
    <3> QED BY <2>2, <2>3, <3>1, <3>2
  <2>5. g = [i \in 1..(n + 1) |-> Anchor(s, order, g, margin, i)]
    <3>1. g = [i \in 1..(n + 1) |-> g[i]]
      BY Zenon
    <3> HIDE DEF g
    <3> QED BY <2>4, <3>1, Zenon
  <2>6. Anchored(s, order, margin, n + 1, g)
    BY <2>5, Zenon DEF Anchored
  <2> HIDE DEF g
  <2> QED BY <2>6
<1> HIDE DEF S
<1>3. S = Nat
  BY <1>1, <1>2, SetInduction DEF S
<1> QED BY <1>3 DEF S

\* Every candidate has a best one no more than the margin above it.
LEMMA AnchorsLead ==
    ASSUME NEW s, NEW C, Comparable(s, C), NEW n \in Nat, NEW order \in [1..n -> C],
           NEW margin \in Nat
    PROVE  Leads(s, order, margin, Anchors(s, order, margin))
<1> DEFINE f == Anchors(s, order, margin)
<1>1. f = CHOOSE g : Anchored(s, order, margin, n, g)
  <2>1. DOMAIN order = 1..n
    OBVIOUS
  <2> QED BY <2>1, Zenon DEF Anchored, Anchors
<1>2. Anchored(s, order, margin, n, f)
  BY <1>1, AnchoredExists
<1> HIDE DEF f
<1>3. \A i \in 1..n : f[i] = Anchor(s, order, f, margin, i)
  BY <1>2, Zenon DEF Anchored
<1> DEFINE Good(i) == /\ \E j \in 1..i : f[i] = order[j]
                      /\ s[f[i]].value - s[order[i]].value <= margin
           S == { i \in Nat : i \in 1..n => Good(i) }
<1>4. 0 \in S
  OBVIOUS
<1>5. ASSUME NEW i \in Nat, f[i] = order[i], i \in 1..n PROVE Good(i)
  <2>1. order[i] \in C /\ s[order[i]].value \in Int
    BY <1>5 DEF Comparable
  <2> QED BY <1>5, <2>1
<1>6. ASSUME NEW i \in S PROVE i + 1 \in S
  <2> SUFFICES ASSUME i + 1 \in 1..n PROVE Good(i + 1)
    OBVIOUS
  <2>1. f[i + 1] = Anchor(s, order, f, margin, i + 1) /\ i + 1 - 1 = i
    BY <1>3
  <2>2. CASE i + 1 > 1 /\ s[f[i]].value - s[order[i + 1]].value <= margin
    <3>1. f[i + 1] = f[i]
      BY <2>1, <2>2 DEF Anchor
    <3>2. PICK j \in 1..i : f[i] = order[j]
      BY <2>2
    <3> QED BY <2>2, <3>1, <3>2
  <2>3. CASE ~(i + 1 > 1 /\ s[f[i]].value - s[order[i + 1]].value <= margin)
    <3>1. f[i + 1] = order[i + 1]
      BY <2>1, <2>3 DEF Anchor
    <3> QED BY <1>5, <3>1
  <2> QED BY <2>2, <2>3
<1> HIDE DEF S
<1>7. S = Nat
  BY <1>4, <1>6, SetInduction DEF S
<1>8. \A i \in 1..n : Good(i)
  BY <1>7 DEF S
<1> QED BY <1>8 DEF Leads, f

\* The members of C in the order of their groups, and within a group of their ties.
GroupedBy(s, C, best) ==
    { p \in C \X C : \/ Ahead(s, best[p[1]], best[p[2]])
                     \/ best[p[1]] = best[p[2]] /\ TieBefore(s, p[1], p[2]) }

\* Group by group, and ties broken within, is a strict order too.
LEMMA GroupsOrder ==
    ASSUME NEW s, NEW C, Comparable(s, C), NEW best \in [C -> C]
    PROVE  StrictOrder(GroupedBy(s, C, best), C)
<1> DEFINE R == GroupedBy(s, C, best)
           G(a, b) == \/ Ahead(s, best[a], best[b])
                      \/ best[a] = best[b] /\ TieBefore(s, a, b)
<1>1. \A a, b \in C : <<a, b>> \in R <=> G(a, b)
  BY DEF GroupedBy
<1>2. /\ \A a \in C : ~Ahead(s, a, a)
      /\ \A a, b \in C : a # b => Ahead(s, a, b) \/ Ahead(s, b, a)
      /\ \A a, b, c \in C : Ahead(s, a, b) /\ Ahead(s, b, c) => Ahead(s, a, c)
  <2>1. \A a, b \in C : <<a, b>> \in AheadOf(s, C) <=> Ahead(s, a, b)
    BY DEF AheadOf
  <2> QED BY <2>1, AheadOrders DEF StrictOrder
<1>3. ASSUME NEW a \in C PROVE ~TieBefore(s, a, a)
  BY TieIs DEF Comparable
<1>4. ASSUME NEW a \in C, NEW b \in C, a # b PROVE TieBefore(s, a, b) \/ TieBefore(s, b, a)
  <2>1. a < b \/ b < a
    BY <1>4 DEF Comparable
  <2> QED BY <2>1, TieIs DEF Comparable
<1>5. ASSUME NEW a \in C, NEW b \in C, NEW c \in C, TieBefore(s, a, b), TieBefore(s, b, c)
      PROVE  TieBefore(s, a, c)
  <2>1. a < b /\ b < c => a < c
    BY DEF Comparable
  <2> QED BY <1>5, <2>1, TieIs DEF Comparable
<1>6. \A a \in C : best[a] \in C
  OBVIOUS
<1>7. \A a \in C : ~G(a, a)
  BY <1>2, <1>3, <1>6
<1>8. \A a, b \in C : a # b => G(a, b) \/ G(b, a)
  BY <1>2, <1>4, <1>6
<1>9. \A a, b, c \in C : G(a, b) /\ G(b, c) => G(a, c)
  BY <1>2, <1>5, <1>6
<1> HIDE DEF R, G
<1> QED BY <1>1, <1>7, <1>8, <1>9 DEF StrictOrder, R

\* What a list of C promises of the values: nothing is ranked ahead of what is
\* better by more than the margin.
Margined(q, s, C, margin) ==
    /\ q \in [1..Cardinality(C) -> C] /\ Cardinality(C) \in Nat
    /\ \A a \in C : \E i \in 1..Cardinality(C) : q[i] = a
    /\ \A i, j \in 1..Cardinality(C) : i < j => s[q[i]].value >= s[q[j]].value - margin

\* _score_groups: everyone is listed, and the margin is kept.
LEMMA GroupedIs ==
    ASSUME NEW s, NEW C, Comparable(s, C), NEW margin \in Nat
    PROVE  Margined(Grouped(s, C, margin), s, C, margin)
<1> DEFINE n == Cardinality(C)
           order == InOrder(C, LAMBDA x, y : Ahead(s, x, y))
           found == Anchors(s, order, margin)
           best(a) == found[CHOOSE i \in DOMAIN order : order[i] = a]
           b == [a \in C |-> best(a)]
           q == Grouped(s, C, margin)
<1>1. Lists(order, C, AheadOf(s, C))
  <2> DEFINE R == AheadOf(s, C)
             Before(x, y) == Ahead(s, x, y)
  <2>1. order = InOrder(C, Before)
    BY Zenon
  <2>2. \A a, c \in C : Before(c, a) <=> <<c, a>> \in R
    BY DEF AheadOf
  <2> HIDE DEF Before, R
  <2>3. \A a \in C : { c \in C : Before(c, a) } = Preceding(R, C, a)
    BY <2>2 DEF Preceding
  <2>4. \A a \in C : Cardinality({ c \in C : Before(c, a) }) = Rank(R, C)[a]
    BY <2>3 DEF Rank
  <2>5. { <<a, Cardinality({ c \in C : Before(c, a) })>> : a \in C }
           = { <<a, Rank(R, C)[a]>> : a \in C }
    BY <2>4
  <2>6. order = [i \in 1..n |-> CHOOSE a \in C : <<a, i - 1>> \in { <<c, Rank(R, C)[c]>> : c \in C }]
    BY <2>1, <2>5, Zenon DEF InOrder
  <2>7. IsFiniteSet(C) /\ StrictOrder(R, C)
    BY AheadOrders DEF Comparable, R
  <2> HIDE DEF order, n
  <2> QED BY <2>6, <2>7, ListedByRank DEF n, R
<1> HIDE DEF order
<1>2. /\ n \in Nat /\ order \in [1..n -> C] /\ DOMAIN order = 1..n
      /\ \A a \in C : \E i \in 1..n : order[i] = a
  BY <1>1 DEF Lists
<1>3. Leads(s, order, margin, found)
  BY <1>2, AnchorsLead
<1> HIDE DEF found
<1>4. ASSUME NEW a \in C
      PROVE  /\ best(a) \in C /\ s[best(a)].value - s[a].value <= margin
             /\ s[a].value <= s[best(a)].value
  <2>1. PICK i \in 1..n : i = CHOOSE k \in DOMAIN order : order[k] = a
    BY <1>2
  <2>2. order[i] = a /\ best(a) = found[i]
    BY <1>2, <2>1
  <2>3. PICK j \in 1..i : found[i] = order[j]
    BY <1>2, <1>3 DEF Leads
  <2>4. j \in 1..n /\ order[j] \in C
    BY <1>2
  <2>5. s[best(a)].value - s[a].value <= margin
    BY <1>2, <1>3, <2>2 DEF Leads
  <2>6. s[order[i]].value <= s[order[j]].value
    <3>1. CASE j = i
      BY <2>2, <3>1 DEF Comparable
    <3>2. CASE j < i
      <4>1. Ahead(s, order[j], order[i])
        BY <1>1, <2>4, <3>2 DEF Lists, AheadOf
      <4> QED BY <1>2, <2>4, <4>1, AheadIsNoWorse
    <3> QED BY <3>1, <3>2
  <2> QED BY <2>2, <2>3, <2>4, <2>5, <2>6
<1>5. b \in [C -> C] /\ \A a \in C : b[a] = best(a)
  BY <1>4
<1> HIDE DEF b, best
<1>6. Lists(q, C, GroupedBy(s, C, b))
  <2> DEFINE R == GroupedBy(s, C, b)
             Before(x, y) == \/ Ahead(s, best(x), best(y))
                             \/ best(x) = best(y) /\ TieBefore(s, x, y)
  <2>1. q = InOrder(C, Before)
    BY Zenon DEF Grouped, best, found, order
  <2>2. \A a, c \in C : Before(c, a) <=> <<c, a>> \in R
    BY <1>5 DEF GroupedBy
  <2> HIDE DEF Before, R
  <2>3. \A a \in C : { c \in C : Before(c, a) } = Preceding(R, C, a)
    BY <2>2 DEF Preceding
  <2>4. \A a \in C : Cardinality({ c \in C : Before(c, a) }) = Rank(R, C)[a]
    BY <2>3 DEF Rank
  <2>5. { <<a, Cardinality({ c \in C : Before(c, a) })>> : a \in C }
           = { <<a, Rank(R, C)[a]>> : a \in C }
    BY <2>4
  <2>6. q = [i \in 1..n |-> CHOOSE a \in C : <<a, i - 1>> \in { <<c, Rank(R, C)[c]>> : c \in C }]
    BY <2>1, <2>5, Zenon DEF InOrder
  <2>7. IsFiniteSet(C) /\ StrictOrder(R, C)
    BY <1>5, GroupsOrder DEF Comparable, R
  <2> HIDE DEF q, n
  <2> QED BY <2>6, <2>7, ListedByRank DEF n, R
<1>7. ASSUME NEW i \in 1..n, NEW j \in 1..n, i < j
      PROVE  s[q[i]].value >= s[q[j]].value - margin
  <2>1. q[i] \in C /\ q[j] \in C /\ <<q[i], q[j]>> \in GroupedBy(s, C, b)
    BY <1>6, <1>7 DEF Lists
  <2>2. PICK x \in C, y \in C : x = q[i] /\ y = q[j]
    BY <2>1
  <2>3. b[x] \in C /\ b[y] \in C
    BY <1>5
  <2>4. s[b[x]].value >= s[b[y]].value
    <3>1. Ahead(s, b[x], b[y]) \/ b[x] = b[y]
      BY <2>1, <2>2 DEF GroupedBy
    <3> QED BY <2>3, <3>1, AheadIsNoWorse DEF Comparable
  <2>5. s[b[x]].value - s[x].value <= margin /\ s[y].value <= s[b[y]].value
    BY <1>4, <1>5
  <2>6. /\ s[x].value \in Int /\ s[y].value \in Int /\ s[b[x]].value \in Int
        /\ s[b[y]].value \in Int
    BY <2>3 DEF Comparable
  <2>7. s[x].value >= s[y].value - margin
    BY <2>4, <2>5, <2>6
  <2> QED BY <2>2, <2>7
<1> QED BY <1>6, <1>7 DEF Lists, Margined, n

\* What a ranking of the scores s promises.
WellRanked(q, s, margin) ==
    /\ q \in Seq(DOMAIN s) /\ Range(q) = DOMAIN s
    /\ \A i, j \in DOMAIN q : i < j =>
          /\ s[q[i]].excluded => s[q[j]].excluded
          /\ s[q[i]].excluded = s[q[j]].excluded =>
                s[q[i]].value >= s[q[j]].value - margin

\* select_candidate_evaluations: the guardrail first, then the margin.
LEMMA RankingIs ==
    ASSUME NEW s, Comparable(s, DOMAIN s), NEW margin \in Nat
    PROVE  WellRanked(Ranking(s, margin), s, margin)
<1> DEFINE D == DOMAIN s
           out == { a \in D : s[a].excluded }
           in == D \ out
           q1 == Grouped(s, in, margin)
           q2 == Grouped(s, out, margin)
           m == Cardinality(in)
           n == Cardinality(out)
           q == q1 \o q2
<1>1. Ranking(s, margin) = q
  BY Zenon DEF Ranking
<1>2. Comparable(s, in) /\ Comparable(s, out)
  <2>1. IsFiniteSet(in) /\ IsFiniteSet(out)
    BY FS_Subset DEF Comparable
  <2> QED BY <2>1 DEF Comparable
<1>3. Margined(q1, s, in, margin) /\ Margined(q2, s, out, margin)
  BY <1>2, GroupedIs
<1> HIDE DEF q1, q2
<1>4. /\ m \in Nat /\ n \in Nat /\ q1 \in [1..m -> in] /\ q2 \in [1..n -> out]
      /\ \A a \in in : \E i \in 1..m : q1[i] = a
      /\ \A a \in out : \E i \in 1..n : q2[i] = a
      /\ \A i, j \in 1..m : i < j => s[q1[i]].value >= s[q1[j]].value - margin
      /\ \A i, j \in 1..n : i < j => s[q2[i]].value >= s[q2[j]].value - margin
  BY <1>3 DEF Margined
<1> HIDE DEF m, n
<1>5. /\ in \subseteq D /\ out \subseteq D /\ D = in \cup out
      /\ \A a \in in : a \in D /\ ~s[a].excluded
      /\ \A a \in out : a \in D /\ s[a].excluded
  OBVIOUS
<1> HIDE DEF in, out, D
<1>6. /\ q1 \in Seq(D) /\ q2 \in Seq(D) /\ Len(q1) = m /\ Len(q2) = n
      /\ DOMAIN q1 = 1..m /\ DOMAIN q2 = 1..n
  BY <1>4, <1>5
<1>7. /\ q \in Seq(D) /\ Len(q) = m + n /\ DOMAIN q = 1..(m + n)
      /\ \A i \in 1..m : q[i] = q1[i]
      /\ \A i \in 1..n : q[m + i] = q2[i]
  <2>1. q \in Seq(D) /\ Len(q) = m + n
    BY <1>6
  <2>2. DOMAIN q = 1..(m + n)
    BY <2>1
  <2>3. ASSUME NEW i \in 1..m PROVE q[i] = q1[i]
    BY <1>4, <1>6
  <2>4. ASSUME NEW i \in 1..n PROVE q[m + i] = q2[i]
    <3>1. PICK k \in 1..(m + n) : k = m + i
      BY <1>4, m + i \in 1..(m + n)
    <3>2. q[k] = q2[k - m]
      BY <1>4, <1>6, <3>1, ~(k <= m)
    <3>3. k - m = i
      BY <1>4, <3>1
    <3> QED BY <3>1, <3>2, <3>3
  <2> HIDE DEF q
  <2> QED BY <2>1, <2>2, <2>3, <2>4
<1> HIDE DEF q
<1>8. \A i \in 1..(m + n) : i \in 1..m \/ \E k \in 1..n : i = m + k
  <2>1. ASSUME NEW i \in 1..(m + n), ~(i \in 1..m) PROVE i - m \in 1..n /\ i = m + (i - m)
    BY <1>4, <2>1
  <2> QED BY <2>1
<1>9. Range(q) = D
  <2>1. ASSUME NEW a \in D PROVE \E i \in DOMAIN q : q[i] = a
    <3>1. CASE a \in in
      <4>1. PICK i \in 1..m : q1[i] = a
        BY <1>4, <3>1
      <4>2. i \in 1..(m + n)
        BY <1>4
      <4> QED BY <1>7, <4>1, <4>2
    <3>2. CASE a \in out
      <4>1. PICK i \in 1..n : q2[i] = a
        BY <1>4, <3>2
      <4>2. m + i \in 1..(m + n)
        BY <1>4
      <4> QED BY <1>7, <4>1, <4>2
    <3> QED BY <1>5, <3>1, <3>2
  <2>2. \A i \in DOMAIN q : q[i] \in D
    BY <1>7
  <2> QED BY <2>1, <2>2 DEF Range
<1>10. ASSUME NEW i \in DOMAIN q, NEW j \in DOMAIN q, i < j
       PROVE  /\ s[q[i]].excluded => s[q[j]].excluded
              /\ s[q[i]].excluded = s[q[j]].excluded =>
                    s[q[i]].value >= s[q[j]].value - margin
  <2>1. CASE i \in 1..m /\ j \in 1..m
    <3>1. q[i] = q1[i] /\ q[j] = q1[j] /\ q1[i] \in in /\ q1[j] \in in
      BY <1>4, <1>7, <2>1
    <3> QED BY <1>4, <1>5, <1>10, <2>1, <3>1
  <2>2. CASE i \in 1..m /\ \E k \in 1..n : j = m + k
    <3>1. PICK k \in 1..n : j = m + k
      BY <2>2
    <3>2. q[i] = q1[i] /\ q[j] = q2[k] /\ q1[i] \in in /\ q2[k] \in out
      BY <1>4, <1>7, <2>2, <3>1
    <3> QED BY <1>5, <3>2
  <2>3. CASE (\E k \in 1..n : i = m + k) /\ (\E k \in 1..n : j = m + k)
    <3>1. PICK k \in 1..n, l \in 1..n : i = m + k /\ j = m + l
      BY <2>3
    <3>2. q[i] = q2[k] /\ q[j] = q2[l] /\ q2[k] \in out /\ q2[l] \in out
      BY <1>4, <1>7, <3>1
    <3>3. k < l
      BY <1>4, <1>10, <3>1
    <3> QED BY <1>4, <1>5, <3>2, <3>3
  <2>4. ~(j \in 1..m /\ \E k \in 1..n : i = m + k)
    BY <1>4, <1>10
  <2>5. i \in 1..(m + n) /\ j \in 1..(m + n)
    BY <1>7
  <2> QED BY <1>8, <2>1, <2>2, <2>3, <2>4, <2>5
<1> QED BY <1>1, <1>7, <1>9, <1>10 DEF WellRanked, D

-----------------------------------------------------------------------------
(* Sums over finite sets *)

\* The recursive function behind MapThenSumSet, for what g gives the members.
Summing(S, g, it) ==
    it = [t \in SUBSET S |->
            IF t = {} THEN 0
            ELSE g[CHOOSE x \in t : TRUE] + it[t \ {CHOOSE x \in t : TRUE}]]

SumOver(S, g) == (CHOOSE it : Summing(S, g, it))[S]

\* There is a function that sums over every part of a finite set.
LEMMA SummingExists ==
    ASSUME NEW S, IsFiniteSet(S), NEW g
    PROVE  \E it : Summing(S, g, it)
<1> DEFINE c(t) == CHOOSE x \in t : TRUE
           Right(it, t) == it[t] = IF t = {} THEN 0 ELSE g[c(t)] + it[t \ {c(t)}]
           Works(n, it) == /\ it = [t \in SUBSET S |-> it[t]]
                           /\ \A t \in SUBSET S : Cardinality(t) <= n => Right(it, t)
           N == { n \in Nat : \E it : Works(n, it) }
<1>1. ASSUME NEW t \in SUBSET S
      PROVE  /\ IsFiniteSet(t) /\ Cardinality(t) \in Nat /\ Cardinality(t) <= Cardinality(S)
             /\ t # {} => /\ c(t) \in t /\ t \ {c(t)} \in SUBSET S
                          /\ Cardinality(t \ {c(t)}) = Cardinality(t) - 1
             /\ Cardinality(t) = 0 <=> t = {}
  <2>1. IsFiniteSet(t) /\ Cardinality(t) <= Cardinality(S)
    BY FS_Subset
  <2>2. Cardinality(t) \in Nat /\ (Cardinality(t) = 0 <=> t = {})
    BY <2>1, FS_CardinalityType, FS_EmptySet
  <2>3. t # {} => c(t) \in t
    OBVIOUS
  <2>4. t # {} => Cardinality(t \ {c(t)}) = Cardinality(t) - 1
    BY <2>1, <2>3, FS_RemoveElement
  <2> HIDE DEF c
  <2> QED BY <2>1, <2>2, <2>3, <2>4
<1> HIDE DEF c
<1>2. 0 \in N
  <2> DEFINE it == [t \in SUBSET S |-> 0]
  <2>1. it = [t \in SUBSET S |-> it[t]]
    OBVIOUS
  <2>2. ASSUME NEW t \in SUBSET S, Cardinality(t) <= 0 PROVE Right(it, t)
    <3>1. Cardinality(t) \in Nat /\ (Cardinality(t) = 0 <=> t = {})
      BY <1>1
    <3>2. t = {}
      BY <2>2, <3>1
    <3> QED BY <3>2
  <2> HIDE DEF it, Right
  <2>3. Works(0, it)
    BY <2>1, <2>2
  <2> HIDE DEF Works
  <2> QED BY <2>3
<1>3. ASSUME NEW n \in N PROVE n + 1 \in N
  <2> n \in Nat
    OBVIOUS
  <2>1. PICK h : Works(n, h)
    BY Zenon
  <2> HIDE DEF N
  <2> DEFINE it == [t \in SUBSET S |->
                      IF Cardinality(t) = n + 1 THEN g[c(t)] + h[t \ {c(t)}] ELSE h[t]]
  <2>2. it = [t \in SUBSET S |-> it[t]]
    BY Zenon
  <2>3. \A t \in SUBSET S : it[t] = IF Cardinality(t) = n + 1 THEN g[c(t)] + h[t \ {c(t)}]
                                    ELSE h[t]
    OBVIOUS
  <2> HIDE DEF it
  <2>4. ASSUME NEW t \in SUBSET S, Cardinality(t) <= n + 1 PROVE Right(it, t)
    <3>1. CASE t = {}
      <4>0. Cardinality(t) = 0
        BY <1>1, <3>1
      <4>1. Cardinality(t) <= n /\ Cardinality(t) # n + 1
        BY <4>0
      <4>2. Right(h, t) /\ it[t] = h[t]
        BY <2>1, <2>3, <4>1
      <4> QED BY <3>1, <4>2
    <3>2. CASE t # {}
      <4>1. /\ t \ {c(t)} \in SUBSET S /\ Cardinality(t \ {c(t)}) = Cardinality(t) - 1
            /\ Cardinality(t) \in Nat
        BY <1>1, <3>2
      <4>5. Cardinality(t \ {c(t)}) # n + 1
        BY <2>4, <4>1
      <4>2. it[t \ {c(t)}] = h[t \ {c(t)}]
        BY <2>3, <4>1, <4>5
      <4>3. CASE Cardinality(t) = n + 1
        BY <2>3, <3>2, <4>2, <4>3
      <4>4. CASE Cardinality(t) # n + 1
        <5>2. Cardinality(t) <= n
          BY <2>4, <4>1, <4>4
        <5>1. Right(h, t) /\ it[t] = h[t]
          BY <2>1, <2>3, <4>4, <5>2
        <5> QED BY <3>2, <4>2, <5>1
      <4> QED BY <4>3, <4>4
    <3> QED BY <3>1, <3>2
  <2>5. Works(n + 1, it)
    BY <2>2, <2>4, Zenon
  <2> HIDE DEF Works
  <2> QED BY <2>5 DEF N
<1> HIDE DEF N
<1>4. N = Nat
  BY <1>2, <1>3, SetInduction DEF N
<1>5. Cardinality(S) \in N
  BY <1>4, FS_CardinalityType
<1>6. PICK it : Works(Cardinality(S), it)
  BY <1>5 DEF N
<1>7. \A t \in SUBSET S : Right(it, t)
  BY <1>1, <1>6
<1>8. it = [t \in SUBSET S |-> IF t = {} THEN 0 ELSE g[c(t)] + it[t \ {c(t)}]]
  BY <1>6, <1>7, Zenon
<1> QED BY <1>8, Zenon DEF Summing, c

\* In whichever order the members are taken.
LEMMA AnyOrder ==
    ASSUME NEW S, IsFiniteSet(S), NEW g, \A x \in S : g[x] \in Int,
           NEW it, Summing(S, g, it)
    PROVE  /\ it[{}] = 0
           /\ \A t \in SUBSET S : /\ it[t] \in Int
                                  /\ \A x \in t : it[t] = g[x] + it[t \ {x}]
<1> DEFINE c(t) == CHOOSE x \in t : TRUE
           Good(t) == it[t] \in Int /\ \A x \in t : it[t] = g[x] + it[t \ {x}]
           N == { n \in Nat : \A t \in SUBSET S : Cardinality(t) = n => Good(t) }
<1>1. \A t \in SUBSET S : it[t] = IF t = {} THEN 0 ELSE g[c(t)] + it[t \ {c(t)}]
  BY Zenon DEF Summing
<1>2. \A t \in SUBSET S : t # {} => c(t) \in t
  OBVIOUS
<1> HIDE DEF c
<1>3. ASSUME NEW t \in SUBSET S, NEW x \in t
      PROVE  /\ t \ {x} \in SUBSET S /\ IsFiniteSet(t) /\ Cardinality(t) \in Nat
             /\ Cardinality(t \ {x}) = Cardinality(t) - 1
  <2>1. IsFiniteSet(t)
    BY FS_Subset
  <2> QED BY <2>1, FS_CardinalityType, FS_RemoveElement
<1>4. \A t \in SUBSET S : IsFiniteSet(t) /\ Cardinality(t) \in Nat
                          /\ (Cardinality(t) = 0 => t = {})
  BY FS_Subset, FS_CardinalityType, FS_EmptySet
<1>5. it[{}] = 0
  BY <1>1
<1>6. \A t \in SUBSET S : it[t] \in Int
  <2> DEFINE M == { n \in Nat : \A t \in SUBSET S : Cardinality(t) = n => it[t] \in Int }
  <2>1. 0 \in M
    BY <1>4, <1>5
  <2>2. ASSUME NEW n \in M PROVE n + 1 \in M
    <3> SUFFICES ASSUME NEW t \in SUBSET S, Cardinality(t) = n + 1 PROVE it[t] \in Int
      OBVIOUS
    <3>1. t # {}
      BY FS_EmptySet
    <3>2. PICK a \in t : a = c(t)
      BY <1>2, <3>1
    <3>3. it[t] = g[a] + it[t \ {a}] /\ g[a] \in Int
      BY <1>1, <3>1, <3>2
    <3>4. t \ {a} \in SUBSET S /\ Cardinality(t \ {a}) = n
      BY <1>3
    <3>5. it[t \ {a}] \in Int
      BY <3>4
    <3> QED BY <3>3, <3>5
  <2> HIDE DEF M
  <2>3. M = Nat
    BY <2>1, <2>2, SetInduction DEF M
  <2> QED BY <1>4, <2>3 DEF M
<1>7. 0 \in N
  BY <1>4, <1>6
<1>8. ASSUME NEW n \in N PROVE n + 1 \in N
  <2> SUFFICES ASSUME NEW t \in SUBSET S, Cardinality(t) = n + 1 PROVE Good(t)
    OBVIOUS
  <2> n \in Nat
    OBVIOUS
  <2>0. Cardinality({}) = 0
    BY FS_EmptySet
  <2>1. t # {}
    BY <2>0
  <2>2. PICK a \in t : a = c(t)
    BY <1>2, <2>1
  <2>3. it[t] = g[a] + it[t \ {a}]
    BY <1>1, <2>1, <2>2
  <2>4. ASSUME NEW x \in t, x # a PROVE it[t] = g[x] + it[t \ {x}]
    <3>1. /\ t \ {x} \in SUBSET S /\ Cardinality(t \ {x}) = n /\ a \in t \ {x}
          /\ t \ {a} \in SUBSET S /\ Cardinality(t \ {a}) = n /\ x \in t \ {a}
      BY <1>3, <2>4
    <3>2. /\ it[t \ {a}] = g[x] + it[(t \ {a}) \ {x}]
          /\ it[t \ {x}] = g[a] + it[(t \ {x}) \ {a}]
      BY <3>1
    <3>3. (t \ {a}) \ {x} = (t \ {x}) \ {a} /\ (t \ {x}) \ {a} \in SUBSET S
      OBVIOUS
    <3>4. it[(t \ {x}) \ {a}] \in Int /\ g[a] \in Int /\ g[x] \in Int
      BY <1>6, <3>3
    <3>5. PICK w \in Int : w = it[(t \ {x}) \ {a}]
      BY <3>4
    <3>6. it[t \ {a}] = g[x] + w /\ it[t \ {x}] = g[a] + w
      BY <3>2, <3>3, <3>5
    <3> QED BY <2>3, <3>4, <3>6
  <2> QED BY <1>6, <2>3, <2>4
<1> HIDE DEF N
<1>9. N = Nat
  BY <1>7, <1>8, SetInduction DEF N
<1>10. \A t \in SUBSET S : Good(t)
  BY <1>4, <1>9 DEF N
<1> QED BY <1>5, <1>10

\* The same in short, for a finite set whose members g gives numbers.
Addends(S, g) == IsFiniteSet(S) /\ \A x \in S : g[x] \in Int
Unordered(S, g, it) ==
    /\ it[{}] = 0
    /\ \A t \in SUBSET S : it[t] \in Int /\ \A x \in t : it[t] = g[x] + it[t \ {x}]

\* The same, with its premises and conclusion named.
LEMMA AnyOrderIs ==
    ASSUME NEW S, NEW g, Addends(S, g), NEW it, Summing(S, g, it)
    PROVE  Unordered(S, g, it)
BY AnyOrder DEF Addends, Unordered

\* The library's fold over a function is this sum.
LEMMA SumIs ==
    ASSUME NEW g
    PROVE  SumFunction(g) = SumOver(DOMAIN g, g)
BY Zenon DEF SumFunction, SumFunctionOnSet, FoldFunctionOnSet, MapThenFoldSet, Summing, SumOver
\* Induction over the parts of a finite set.
LEMMA PartInduction ==
    ASSUME NEW S, IsFiniteSet(S), NEW G, {} \in G,
           \A t \in SUBSET S : \A x \in t : t \ {x} \in G => t \in G
    PROVE  \A t \in SUBSET S : t \in G
<1> DEFINE N == { n \in Nat : \A t \in SUBSET S : Cardinality(t) = n => t \in G }
<1>1. ASSUME NEW t \in SUBSET S
      PROVE  /\ Cardinality(t) \in Nat /\ (Cardinality(t) = 0 <=> t = {})
             /\ \A x \in t : t \ {x} \in SUBSET S /\ Cardinality(t \ {x}) = Cardinality(t) - 1
  <2>1. IsFiniteSet(t)
    BY FS_Subset
  <2> QED BY <2>1, FS_CardinalityType, FS_EmptySet, FS_RemoveElement
<1>2. 0 \in N
  BY <1>1
<1>3. ASSUME NEW n \in N PROVE n + 1 \in N
  <2> SUFFICES ASSUME NEW t \in SUBSET S, Cardinality(t) = n + 1 PROVE t \in G
    OBVIOUS
  <2>1. Cardinality(t) # 0
    OBVIOUS
  <2>2. PICK x \in t : TRUE
    BY <1>1, <2>1
  <2>3. t \ {x} \in SUBSET S /\ Cardinality(t \ {x}) = n
    BY <1>1
  <2> QED BY <2>3
<1> HIDE DEF N
<1>4. N = Nat
  BY <1>2, <1>3, SetInduction DEF N
<1> QED BY <1>1, <1>4 DEF N

\* A sum of integers is one, and positive when they are.
LEMMA SumFacts ==
    ASSUME NEW g, IsFiniteSet(DOMAIN g), \A x \in DOMAIN g : g[x] \in Int
    PROVE  /\ SumFunction(g) \in Int
           /\ (DOMAIN g # {} /\ \A x \in DOMAIN g : g[x] > 0) => SumFunction(g) > 0
<1> DEFINE S == DOMAIN g
<1>1. PICK it : Summing(S, g, it) /\ SumFunction(g) = it[S]
  <2>1. Summing(S, g, CHOOSE it : Summing(S, g, it))
    BY SummingExists
  <2> QED BY <2>1, SumIs DEF SumOver
<1>2. /\ it[{}] = 0
      /\ \A t \in SUBSET S : it[t] \in Int /\ \A x \in t : it[t] = g[x] + it[t \ {x}]
  BY <1>1, AnyOrder
<1>3. ASSUME S # {}, \A x \in S : g[x] > 0 PROVE it[S] > 0
  <2> DEFINE G == { t \in SUBSET S : it[t] >= 0 }
  <2>1. {} \in G
    BY <1>2
  <2>2. ASSUME NEW t \in SUBSET S, NEW x \in t, t \ {x} \in G PROVE t \in G
    <3>1. it[t] = g[x] + it[t \ {x}] /\ g[x] \in Int /\ g[x] > 0 /\ it[t \ {x}] \in Int
          /\ it[t \ {x}] >= 0
      BY <1>2, <1>3, <2>2
    <3> QED BY <3>1
  <2>3. \A t \in SUBSET S : t \in G
    <3> HIDE DEF G
    <3> QED BY <2>1, <2>2, PartInduction
  <2>4. PICK x \in S : TRUE
    BY <1>3
  <2>5. it[S] = g[x] + it[S \ {x}] /\ g[x] \in Int /\ g[x] > 0 /\ it[S \ {x}] \in Int
        /\ it[S \ {x}] >= 0
    BY <1>2, <1>3, <2>3
  <2> QED BY <2>5
<1> QED BY <1>1, <1>2, <1>3
\* One recursion for every part: any member may be taken out of a sum.
LEMMA SumSteps ==
    ASSUME NEW S, IsFiniteSet(S), NEW g, \A x \in S : g[x] \in Int
    PROVE  /\ SumOver({}, g) = 0
           /\ \A t \in SUBSET S :
                 /\ SumOver(t, g) \in Int
                 /\ \A x \in t : SumOver(t, g) = g[x] + SumOver(t \ {x}, g)
<1>1. PICK it : Summing(S, g, it)
  BY SummingExists
<1>2. /\ it[{}] = 0
      /\ \A t \in SUBSET S : it[t] \in Int /\ \A x \in t : it[t] = g[x] + it[t \ {x}]
  BY <1>1, AnyOrder
<1>3. ASSUME NEW t \in SUBSET S PROVE SumOver(t, g) = it[t]
  <2>1. IsFiniteSet(t) /\ \A x \in t : g[x] \in Int
    BY FS_Subset
  <2>2. PICK h : Summing(t, g, h) /\ SumOver(t, g) = h[t]
    <3>1. Summing(t, g, CHOOSE h : Summing(t, g, h))
      BY <2>1, SummingExists
    <3> QED BY <3>1 DEF SumOver
  <2>3. /\ h[{}] = 0
        /\ \A u \in SUBSET t : h[u] \in Int /\ \A x \in u : h[u] = g[x] + h[u \ {x}]
    <3>1. Addends(t, g)
      BY <2>1 DEF Addends
    <3>2. Unordered(t, g, h)
      BY <2>2, <3>1, AnyOrderIs
    <3> QED BY <3>2 DEF Unordered
  <2> DEFINE G == { u \in SUBSET t : h[u] = it[u] }
  <2>4. {} \in G
    BY <1>2, <2>3
  <2>5. ASSUME NEW u \in SUBSET t, NEW x \in u, u \ {x} \in G PROVE u \in G
    <3>1. u \in SUBSET S
      OBVIOUS
    <3>2. h[u] = g[x] + h[u \ {x}] /\ it[u] = g[x] + it[u \ {x}] /\ h[u \ {x}] = it[u \ {x}]
      BY <1>2, <2>3, <2>5, <3>1
    <3> QED BY <3>2
  <2>6. \A u \in SUBSET t : u \in G
    <3> HIDE DEF G
    <3> QED BY <2>1, <2>4, <2>5, PartInduction
  <2> QED BY <2>2, <2>6
<1>4. {} \in SUBSET S /\ \A t \in SUBSET S : \A x \in t : t \ {x} \in SUBSET S
  OBVIOUS
<1> QED BY <1>2, <1>3, <1>4

Stepping(S, g) ==
    /\ SumOver({}, g) = 0
    /\ \A t \in SUBSET S : /\ SumOver(t, g) \in Int
                           /\ \A x \in t : SumOver(t, g) = g[x] + SumOver(t \ {x}, g)

\* The same, with its premises and conclusion named.
LEMMA SumStepsIs ==
    ASSUME NEW S, NEW g, Addends(S, g)
    PROVE  Stepping(S, g)
BY SumSteps DEF Addends, Stepping

\* The sum over a single member.
LEMMA SingleSum ==
    ASSUME NEW x, NEW g, g[x] \in Int
    PROVE  SumOver({x}, g) = g[x]
<1>1. Addends({x}, g)
  BY FS_Singleton DEF Addends
<1>2. Stepping({x}, g)
  BY <1>1, SumStepsIs
<1>3. {x} \ {x} = {} /\ {x} \in SUBSET {x}
  OBVIOUS
<1>4. SumOver({x}, g) = g[x] + SumOver({x} \ {x}, g) /\ SumOver({}, g) = 0
  BY <1>2, <1>3 DEF Stepping
<1> QED BY <1>3, <1>4

\* Only the members count.
LEMMA SameSum ==
    ASSUME NEW S, IsFiniteSet(S), NEW g, NEW h, \A x \in S : g[x] \in Int /\ h[x] = g[x]
    PROVE  SumOver(S, h) = SumOver(S, g)
<1> DEFINE G == { t \in SUBSET S : SumOver(t, h) = SumOver(t, g) }
<1>1. /\ SumOver({}, g) = 0 /\ SumOver({}, h) = 0
      /\ \A t \in SUBSET S : \A x \in t : /\ SumOver(t, g) = g[x] + SumOver(t \ {x}, g)
                                          /\ SumOver(t, h) = h[x] + SumOver(t \ {x}, h)
  <2>1. \A x \in S : g[x] \in Int
    OBVIOUS
  <2>2. \A x \in S : h[x] \in Int
    OBVIOUS
  <2> QED BY <2>1, <2>2, SumSteps
<1>2. {} \in G
  BY <1>1
<1>3. ASSUME NEW t \in SUBSET S, NEW x \in t, t \ {x} \in G PROVE t \in G
  BY <1>1, <1>3
<1> HIDE DEF G
<1>4. \A t \in SUBSET S : t \in G
  BY <1>2, <1>3, PartInduction
<1>5. S \in G
  BY <1>4
<1> QED BY <1>5 DEF G

\* A common factor comes out.
LEMMA ScaledSum ==
    ASSUME NEW S, IsFiniteSet(S), NEW g, \A x \in S : g[x] \in Int, NEW c \in Int,
           NEW h, \A x \in S : h[x] = c * g[x]
    PROVE  SumOver(S, h) = c * SumOver(S, g)
<1> DEFINE G == { t \in SUBSET S : SumOver(t, h) = c * SumOver(t, g) }
<1>1. /\ SumOver({}, g) = 0 /\ SumOver({}, h) = 0
      /\ \A t \in SUBSET S : /\ SumOver(t, g) \in Int
                             /\ \A x \in t : /\ SumOver(t, g) = g[x] + SumOver(t \ {x}, g)
                                             /\ SumOver(t, h) = h[x] + SumOver(t \ {x}, h)
  <2>1. \A x \in S : h[x] \in Int
    OBVIOUS
  <2> QED BY <2>1, SumSteps
<1>2. {} \in G
  BY <1>1
<1>3. ASSUME NEW t \in SUBSET S, NEW x \in t, t \ {x} \in G PROVE t \in G
  <2>1. PICK p \in Int, q \in Int : p = SumOver(t \ {x}, g) /\ q = g[x]
    BY <1>1
  <2>2. SumOver(t, g) = q + p /\ SumOver(t, h) = c * q + c * p
    BY <1>1, <1>3, <2>1
  <2>3. c * (q + p) = c * q + c * p
    OBVIOUS
  <2> QED BY <2>2, <2>3
<1> HIDE DEF G
<1>4. \A t \in SUBSET S : t \in G
  BY <1>2, <1>3, PartInduction
<1>5. S \in G
  BY <1>4
<1> QED BY <1>5 DEF G

\* Equal terms.
LEMMA EqualSum ==
    ASSUME NEW S, IsFiniteSet(S), NEW c \in Int, NEW g, \A x \in S : g[x] = c
    PROVE  SumOver(S, g) = c * Cardinality(S)
<1> DEFINE G == { t \in SUBSET S : SumOver(t, g) = c * Cardinality(t) }
<1>1. /\ SumOver({}, g) = 0
      /\ \A t \in SUBSET S : \A x \in t : SumOver(t, g) = g[x] + SumOver(t \ {x}, g)
  BY SumSteps
<1>2. {} \in G
  BY <1>1, FS_EmptySet
<1>3. ASSUME NEW t \in SUBSET S, NEW x \in t, t \ {x} \in G PROVE t \in G
  <2>1. IsFiniteSet(t)
    BY FS_Subset
  <2>2. PICK n \in Nat : n = Cardinality(t \ {x}) /\ Cardinality(t) = n + 1
    <3>1. Cardinality(t) \in Nat /\ Cardinality(t \ {x}) = Cardinality(t) - 1
      BY <2>1, FS_CardinalityType, FS_RemoveElement
    <3>2. Cardinality(t \ {x}) \in Nat
      BY <2>1, FS_CardinalityType, FS_RemoveElement
    <3> QED BY <3>1, <3>2
  <2>3. SumOver(t, g) = c + c * n
    BY <1>1, <1>3, <2>2
  <2>4. c + c * n = c * (n + 1)
    OBVIOUS
  <2> QED BY <2>2, <2>3, <2>4
<1> HIDE DEF G
<1>4. \A t \in SUBSET S : t \in G
  BY <1>2, <1>3, PartInduction
<1>5. S \in G
  BY <1>4
<1> QED BY <1>5 DEF G

\* A set in two parts.
LEMMA JointSum ==
    ASSUME NEW S, IsFiniteSet(S), NEW T, IsFiniteSet(T), S \cap T = {},
           NEW g, \A x \in S \cup T : g[x] \in Int
    PROVE  SumOver(S \cup T, g) = SumOver(S, g) + SumOver(T, g)
<1> DEFINE G == { t \in SUBSET S : SumOver(t \cup T, g) = SumOver(t, g) + SumOver(T, g) }
<1>1. /\ SumOver({}, g) = 0
      /\ \A t \in SUBSET (S \cup T) :
            /\ SumOver(t, g) \in Int
            /\ \A x \in t : SumOver(t, g) = g[x] + SumOver(t \ {x}, g)
  BY FS_Union, SumSteps
<1>2. {} \in G
  <2>1. {} \cup T = T /\ T \in SUBSET (S \cup T)
    OBVIOUS
  <2> QED BY <1>1, <2>1
<1>3. ASSUME NEW t \in SUBSET S, NEW x \in t, t \ {x} \in G PROVE t \in G
  <2>1. /\ (t \cup T) \ {x} = (t \ {x}) \cup T
        /\ t \cup T \in SUBSET (S \cup T) /\ t \in SUBSET (S \cup T)
        /\ t \ {x} \in SUBSET (S \cup T) /\ T \in SUBSET (S \cup T) /\ x \in t \cup T
    OBVIOUS
  <2>2. PICK p \in Int, q \in Int, r \in Int :
           p = SumOver(t \ {x}, g) /\ q = g[x] /\ r = SumOver(T, g)
    BY <1>1, <2>1
  <2>3. SumOver(t \cup T, g) = q + SumOver((t \ {x}) \cup T, g) /\ SumOver(t, g) = q + p
    BY <1>1, <2>1, <2>2
  <2>4. SumOver((t \ {x}) \cup T, g) = p + r
    BY <1>3, <2>2
  <2> QED BY <2>2, <2>3, <2>4
<1> HIDE DEF G
<1>4. \A t \in SUBSET S : t \in G
  BY <1>2, <1>3, PartInduction
<1>5. S \in G
  BY <1>4
<1> QED BY <1>5 DEF G

\* The members under other names.
LEMMA RenamedSum ==
    ASSUME NEW S, IsFiniteSet(S), NEW f, \A x, y \in S : f[x] = f[y] => x = y,
           NEW g, \A x \in S : g[f[x]] \in Int, NEW h, \A x \in S : h[x] = g[f[x]]
    PROVE  SumOver({ f[x] : x \in S }, g) = SumOver(S, h)
<1> DEFINE I(t) == { f[x] : x \in t }
           G == { t \in SUBSET S : IsFiniteSet(I(t)) /\ SumOver(I(t), g) = SumOver(t, h) }
<1>1. /\ SumOver({}, h) = 0
      /\ \A t \in SUBSET S : \A x \in t : SumOver(t, h) = h[x] + SumOver(t \ {x}, h)
  <2>1. \A x \in S : h[x] \in Int
    OBVIOUS
  <2> QED BY <2>1, SumSteps
<1>2. {} \in G
  <2>1. I({}) = {}
    OBVIOUS
  <2>2. SumOver({}, g) = 0
    BY FS_EmptySet, SumSteps
  <2> QED BY <1>1, <2>1, <2>2, FS_EmptySet
<1>3. ASSUME NEW t \in SUBSET S, NEW x \in t, t \ {x} \in G PROVE t \in G
  <2>1. /\ I(t) = I(t \ {x}) \cup {f[x]} /\ f[x] \in I(t)
        /\ I(t) \ {f[x]} = I(t \ {x})
        /\ \A y \in I(t) : g[y] \in Int
    OBVIOUS
  <2>2. IsFiniteSet(I(t \ {x})) /\ SumOver(I(t \ {x}), g) = SumOver(t \ {x}, h)
    BY <1>3
  <2>6. SumOver(t, h) = h[x] + SumOver(t \ {x}, h) /\ h[x] = g[f[x]]
    BY <1>1
  <2> HIDE DEF I
  <2>7. PICK J, K, a : J = I(t \ {x}) /\ K = I(t) /\ a = f[x]
    OBVIOUS
  <2>8. IsFiniteSet(J) /\ K = J \cup {a} /\ a \in K /\ \A y \in K : g[y] \in Int
    BY <2>1, <2>2, <2>7
  <2>9. IsFiniteSet(K)
    BY <2>8, FS_AddElement
  <2>3. IsFiniteSet(I(t))
    BY <2>7, <2>9
  <2>10. K \in SUBSET K
    OBVIOUS
  <2>11. SumOver(K, g) = g[a] + SumOver(K \ {a}, g)
    <3>1. Addends(K, g)
      BY <2>8, <2>9 DEF Addends
    <3>2. Stepping(K, g)
      BY <3>1, SumStepsIs
    <3> QED BY <2>8, <2>10, <3>2 DEF Stepping
  <2>4. SumOver(I(t), g) = g[f[x]] + SumOver(I(t) \ {f[x]}, g)
    BY <2>7, <2>11
  <2>5. SumOver(I(t), g) = SumOver(t, h)
    BY <2>1, <2>2, <2>4, <2>6
  <2> QED BY <2>3, <2>5
<1> HIDE DEF G
<1>4. \A t \in SUBSET S : t \in G
  BY <1>2, <1>3, PartInduction
<1>5. S \in G
  BY <1>4
<1> QED BY <1>5 DEF G

\* A sum over disjoint parts, one for each member of S.
LEMMA NestedSum ==
    ASSUME NEW S, IsFiniteSet(S), NEW B, \A x \in S : IsFiniteSet(B[x]),
           \A x, y \in S : x # y => B[x] \cap B[y] = {},
           NEW g, \A x \in S : \A z \in B[x] : g[z] \in Int,
           NEW h, \A x \in S : h[x] = SumOver(B[x], g)
    PROVE  SumOver(UNION { B[x] : x \in S }, g) = SumOver(S, h)
<1> DEFINE U(t) == UNION { B[x] : x \in t }
           G == { t \in SUBSET S : IsFiniteSet(U(t)) /\ SumOver(U(t), g) = SumOver(t, h) }
<1>0. ASSUME NEW x \in S PROVE SumOver(B[x], g) \in Int
  <2>1. B[x] \in SUBSET B[x]
    OBVIOUS
  <2> QED BY <2>1, SumSteps
<1>1. /\ SumOver({}, h) = 0
      /\ \A t \in SUBSET S : /\ SumOver(t, h) \in Int
                             /\ \A x \in t : SumOver(t, h) = h[x] + SumOver(t \ {x}, h)
  <2>1. \A x \in S : h[x] \in Int
    BY <1>0
  <2> QED BY <2>1, SumSteps
<1>2. {} \in G
  <2>1. U({}) = {}
    OBVIOUS
  <2>2. SumOver({}, g) = 0
    BY FS_EmptySet, SumSteps
  <2> QED BY <1>1, <2>1, <2>2, FS_EmptySet
<1>3. ASSUME NEW t \in SUBSET S, NEW x \in t, t \ {x} \in G PROVE t \in G
  <2>1. /\ U(t) = B[x] \cup U(t \ {x}) /\ B[x] \cap U(t \ {x}) = {}
        /\ \A z \in B[x] \cup U(t \ {x}) : g[z] \in Int
    OBVIOUS
  <2>2. IsFiniteSet(U(t \ {x})) /\ SumOver(U(t \ {x}), g) = SumOver(t \ {x}, h)
    BY <1>3
  <2>3. IsFiniteSet(B[x]) /\ h[x] = SumOver(B[x], g) /\ h[x] \in Int
    BY <1>0
  <2> HIDE DEF U
  <2>8. PICK J, K : J = B[x] /\ K = U(t \ {x})
    OBVIOUS
  <2>9. /\ IsFiniteSet(J) /\ IsFiniteSet(K) /\ J \cap K = {}
        /\ \A z \in J \cup K : g[z] \in Int
    BY <2>1, <2>2, <2>3, <2>8
  <2>10. IsFiniteSet(J \cup K)
    BY <2>9, FS_Union
  <2>11. SumOver(J \cup K, g) = SumOver(J, g) + SumOver(K, g)
    BY <2>9, JointSum
  <2>4. IsFiniteSet(U(t))
    BY <2>1, <2>8, <2>10
  <2>5. SumOver(B[x] \cup U(t \ {x}), g) = SumOver(B[x], g) + SumOver(U(t \ {x}), g)
    BY <2>8, <2>11
  <2>6. SumOver(t, h) = h[x] + SumOver(t \ {x}, h)
    BY <1>1
  <2>7. SumOver(U(t), g) = SumOver(t, h)
    BY <2>1, <2>2, <2>3, <2>5, <2>6
  <2> QED BY <2>4, <2>7
<1> HIDE DEF G
<1>4. \A t \in SUBSET S : t \in G
  BY <1>2, <1>3, PartInduction
<1>5. S \in G
  BY <1>4
<1> QED BY <1>5 DEF G

-----------------------------------------------------------------------------
(* Measures *)

Views == {"support", "robust", "epistemic"}

\* A measure is a pair of whole numbers in each view.
IsMeasure(m) == \A v \in Views : m[v][1] \in Int /\ m[v][2] \in Int

\* The bounds of a finite set of numbers.
LEMMA MinIsLeast ==
    ASSUME NEW S \in SUBSET Int, IsFiniteSet(S), S # {}
    PROVE  /\ Min(S) \in S /\ \A x \in S : Min(S) <= x
           /\ Max(S) \in S /\ \A x \in S : x <= Max(S)
<1> DEFINE G == { t \in SUBSET S : t # {} => /\ \E x \in t : \A y \in t : x <= y
                                             /\ \E x \in t : \A y \in t : y <= x }
<1>1. {} \in G
  OBVIOUS
<1>2. ASSUME NEW t \in SUBSET S, NEW a \in t, t \ {a} \in G PROVE t \in G
  <2>1. CASE t \ {a} = {}
    <3>1. \A y \in t : y = a
      BY <2>1
    <3>2. a \in Int
      OBVIOUS
    <3> QED BY <3>1, <3>2
  <2>2. CASE t \ {a} # {}
    <3>1. PICK x \in t \ {a} : \A y \in t \ {a} : x <= y
      BY <1>2, <2>2
    <3>2. PICK z \in t \ {a} : \A y \in t \ {a} : y <= z
      BY <1>2, <2>2
    <3>3. a \in Int /\ x \in Int /\ z \in Int /\ \A y \in t : y \in Int
      OBVIOUS
    <3>4. \E u \in t : \A y \in t : u <= y
      <4>1. CASE a <= x
        BY <3>1, <3>3, <4>1
      <4>2. CASE x <= a
        BY <3>1, <3>3, <4>2
      <4> QED BY <3>3, <4>1, <4>2
    <3>5. \E u \in t : \A y \in t : y <= u
      <4>1. CASE z <= a
        BY <3>2, <3>3, <4>1
      <4>2. CASE a <= z
        BY <3>2, <3>3, <4>2
      <4> QED BY <3>3, <4>1, <4>2
    <3> QED BY <3>4, <3>5
  <2> QED BY <2>1, <2>2
<1>3. S \in G
  <2> HIDE DEF G
  <2> QED BY <1>1, <1>2, PartInduction
<1>4. \E x \in S : \A y \in S : x <= y
  BY <1>3
<1>5. \E x \in S : \A y \in S : x >= y
  BY <1>3
<1> QED BY <1>4, <1>5 DEF Min, Max

\* The bounds of two numbers.
LEMMA PairBounds ==
    ASSUME NEW a \in Int, NEW b \in Int
    PROVE  /\ Min({a, b}) \in {a, b} /\ Min({a, b}) <= a /\ Min({a, b}) <= b
           /\ Max({a, b}) \in {a, b} /\ a <= Max({a, b}) /\ b <= Max({a, b})
<1>1. IsFiniteSet({a, b})
  <2>1. IsFiniteSet({a} \cup {b})
    BY FS_Singleton, FS_Union
  <2>2. {a} \cup {b} = {a, b}
    OBVIOUS
  <2> QED BY <2>1, <2>2
<1> QED BY <1>1, MinIsLeast

\* What a function makes of a finite set is finite.
LEMMA ImageIsFinite ==
    ASSUME NEW S, IsFiniteSet(S), NEW f
    PROVE  IsFiniteSet({ f[x] : x \in S })
<1> DEFINE G == { t \in SUBSET S : IsFiniteSet({ f[x] : x \in t }) }
<1>1. {} \in G
  <2>1. { f[x] : x \in {} } = {}
    OBVIOUS
  <2> QED BY <2>1, FS_EmptySet
<1>2. ASSUME NEW t \in SUBSET S, NEW a \in t, t \ {a} \in G PROVE t \in G
  <2> DEFINE A == { f[x] : x \in t \ {a} }
  <2>1. { f[x] : x \in t } = A \cup {f[a]}
    OBVIOUS
  <2>2. IsFiniteSet(A)
    BY <1>2
  <2> HIDE DEF A
  <2>3. IsFiniteSet(A \cup {f[a]})
    BY <2>2, FS_AddElement
  <2> QED BY <2>1, <2>3
<1> HIDE DEF G
<1>3. \A t \in SUBSET S : t \in G
  BY <1>1, <1>2, PartInduction
<1>4. S \in G
  BY <1>3
<1> QED BY <1>4 DEF G

\* A number is a measure.
LEMMA SureIs ==
    ASSUME NEW n \in Int
    PROVE  IsMeasure(Range0(n, n)) /\ IsMeasure(Sure(n))
<1>1. Unit \in Int
  BY WeaponAssumption
<1>2. n * Unit \in Int
  BY <1>1
<1> QED BY <1>2 DEF IsMeasure, Views, Sure, Range0, InViews

\* A mean of measures by positive weights is a measure.
LEMMA IntegratedIs ==
    ASSUME NEW M, IsFiniteSet(M),
           \A m \in M : m.weight \in Int /\ m.weight > 0 /\ IsMeasure(m.range)
    PROVE  IsMeasure(Integrated(M))
<1>1. CASE M = {}
  <2>1. IsMeasure(Sure(0))
    BY SureIs
  <2> QED BY <1>1, <2>1 DEF Integrated
<1>2. CASE M # {}
  <2> DEFINE T == SumFunction([b \in M |-> b.weight])
             g(v, i) == [m \in M |-> m.weight * m.range[v][i]]
             S(v, i) == SumFunction(g(v, i))
             low == { m.range["support"][1] : m \in M }
             high == { m.range["support"][2] : m \in M }
  <2>1. Integrated(M) = [support |-> <<Min(low), Max(high)>>,
                         robust |-> <<S("robust", 1) \div T, S("robust", 2) \div T>>,
                         epistemic |-> <<S("epistemic", 1) \div T, S("epistemic", 2) \div T>>]
    BY <1>2, Zenon DEF Integrated, InViews, Total
  <2>2. T \in Int /\ T > 0
    <3> DEFINE w == [b \in M |-> b.weight]
    <3>1. DOMAIN w = M /\ \A b \in M : w[b] \in Int /\ w[b] > 0
      OBVIOUS
    <3> HIDE DEF w
    <3>2. SumFunction(w) \in Int /\ SumFunction(w) > 0
      BY <1>2, <3>1, SumFacts
    <3> QED BY <3>2 DEF w
  <2>3. ASSUME NEW v \in Views, NEW i \in {1, 2} PROVE S(v, i) \in Int
    <3> DEFINE w == g(v, i)
    <3>1. DOMAIN w = M
      OBVIOUS
    <3>2. ASSUME NEW m \in M PROVE w[m] \in Int
      <4>1. m.weight \in Int /\ m.range[v][i] \in Int
        BY <2>3 DEF IsMeasure
      <4> QED BY <4>1
    <3> HIDE DEF w
    <3>3. SumFunction(w) \in Int
      BY <3>1, <3>2, SumFacts
    <3> QED BY <3>3 DEF w
  <2>4. Min(low) \in Int /\ Max(high) \in Int
    <3>1. low \in SUBSET Int /\ high \in SUBSET Int /\ low # {} /\ high # {}
      BY <1>2 DEF IsMeasure, Views
    <3>2. IsFiniteSet(low) /\ IsFiniteSet(high)
      <4> DEFINE f == [m \in M |-> m.range["support"][1]]
                 h == [m \in M |-> m.range["support"][2]]
      <4>1. low = { f[m] : m \in M } /\ high = { h[m] : m \in M }
        OBVIOUS
      <4> HIDE DEF f, h, low, high
      <4> QED BY <4>1, ImageIsFinite
    <3> QED BY <3>1, <3>2, MinIsLeast
  <2> HIDE DEF T, g, S, low, high
  <2>5. \A v \in Views : S(v, 1) \div T \in Int /\ S(v, 2) \div T \in Int
    BY <2>2, <2>3
  <2> QED BY <2>1, <2>4, <2>5 DEF IsMeasure, Views
<1> QED BY <1>1, <1>2
-----------------------------------------------------------------------------
(* Outcomes *)

IsTarget(t) == t.hp \in Nat /\ t.head \in Nat /\ t.body \in Nat

\* What an outcome of an attack is like.
IsOutcome(o) ==
    /\ o.weight \in Nat /\ o.weight > 0
    /\ o.wounds \in Int /\ o.torn \in Int
    /\ o.hp \in Nat /\ o.head \in Nat /\ o.body \in Nat

\* The weapon rolls something, and certainty divides among the outcomes.
LEMMA RollsAre ==
    /\ Rolls \in SUBSET Nat /\ IsFiniteSet(Rolls) /\ Rolls # {}
    /\ Weapon.armor \in Nat /\ Weapon.direct \in Nat /\ Weapon.head \in Nat
    /\ \E n \in Nat : n > 0 /\ Cardinality(Rolls) = n /\ Mass = 80 * (n * n) /\ Mass \div 20 = 4 * (n * n)
    /\ Mass \in Nat /\ Mass > 0 /\ Unit \in Nat /\ Unit > 0 /\ Unit \div Mass \in Int
<1>1. /\ Weapon.low \in Nat /\ Weapon.high \in Nat /\ Weapon.low <= Weapon.high
      /\ Weapon.armor \in Nat /\ Weapon.direct \in Nat /\ Weapon.head \in Nat
      /\ Unit \in Nat /\ Unit > 0
  BY WeaponAssumption
<1>2. Rolls \in SUBSET Nat /\ IsFiniteSet(Rolls) /\ Weapon.low \in Rolls
  <2>1. PICK low \in Nat, high \in Nat : low = Weapon.low /\ high = Weapon.high /\ low <= high
    BY <1>1
  <2>2. low..high \in SUBSET Nat /\ low \in low..high
    BY <2>1
  <2>3. low \in Int /\ high \in Int
    BY <2>1
  <2>4. IsFiniteSet(low..high)
    BY <2>3, FS_Interval
  <2>5. Rolls = low..high
    BY <2>1 DEF Rolls
  <2> QED BY <2>1, <2>2, <2>4, <2>5
<1>3. Cardinality(Rolls) \in Nat /\ Cardinality(Rolls) > 0
  <2>1. Cardinality(Rolls) \in Nat /\ Cardinality(Rolls) # 0
    BY <1>2, FS_CardinalityType, FS_EmptySet
  <2> QED BY <2>1
<1>4. PICK n \in Nat : n > 0 /\ n = Cardinality(Rolls)
  BY <1>3
<1>5. PICK s \in Nat : s = n * n /\ s > 0
  <2>1. n * n \in Nat /\ n * n > 0
    BY <1>4
  <2> QED BY <2>1
<1>6. Mass = 80 * s
  <2>1. Mass = (80 * n) * n
    BY <1>4 DEF Mass
  <2>2. (80 * n) * n = 80 * (n * n)
    BY <1>4
  <2> QED BY <1>5, <2>1, <2>2
<1>7. Mass \div 20 = 4 * s /\ Mass \in Nat /\ Mass > 0
  BY <1>5, <1>6
<1>8. Unit \div Mass \in Int
  BY <1>1, <1>7
<1> QED BY <1>1, <1>2, <1>4, <1>5, <1>6, <1>7, <1>8

\* A miss changes nothing.
LEMMA MissIs ==
    ASSUME NEW t, IsTarget(t), NEW hit \in 1..19
    PROVE  /\ IsOutcome(Miss(t, hit)) /\ Miss(t, hit).result = "MISS"
           /\ Miss(t, hit).hp = t.hp
<1>1. PICK w \in Nat : w > 0 /\ w = Mass \div 20
  <2>1. PICK n \in Nat : n > 0 /\ Mass \div 20 = 4 * (n * n)
    BY RollsAre
  <2>2. n * n \in Nat /\ n * n > 0
    BY <2>1
  <2> QED BY <2>1, <2>2
<1>2. (20 - hit) * w \in Nat /\ (20 - hit) * w > 0
  <2>1. PICK k \in Nat : k > 0 /\ k = 20 - hit
    OBVIOUS
  <2>2. k * w \in Nat /\ k * w > 0
    BY <1>1, <2>1
  <2> QED BY <2>1, <2>2
<1>3. Miss(t, hit).weight = (20 - hit) * w
  BY <1>1 DEF Miss
<1> QED BY <1>2, <1>3 DEF Miss, IsOutcome, IsTarget

\* A hit leaves whole hit points and armor.
LEMMA LandedIs ==
    ASSUME NEW t, IsTarget(t), NEW hit \in 1..19, NEW place \in {"HEAD", "BODY"},
           NEW damage \in Rolls, NEW roll \in Rolls
    PROVE  LET o == Landed(t, hit, place, damage, roll)
           IN  /\ IsOutcome(o) /\ o.result = place
               /\ o.damage = damage /\ o.roll = roll
               /\ o.weight = IF place = "HEAD" THEN hit ELSE 3 * hit
<1> DEFINE head == place = "HEAD"
           worn == 10 * (IF head THEN t.head ELSE t.body)
           torn == Min({worn, roll * Weapon.armor})
           through == Max({0, 10 * damage * Weapon.direct - (worn - torn)})
           spared == Max({0, 10 - Weapon.direct})
           rest == IF torn = worn \/ Weapon.direct >= 10
                      THEN Max({0, 10 * damage * spared - 10 * torn})
                      ELSE 0
           times == IF head THEN 10 + Weapon.head ELSE 10
           wounds == ((through + rest) * times + 500) \div 1000
<1>1. Landed(t, hit, place, damage, roll) =
        [result |-> place, damage |-> damage, roll |-> roll,
         weight |-> hit * (IF head THEN 1 ELSE 3),
         wounds |-> wounds, torn |-> torn, hp |-> Max({0, t.hp - wounds}),
         head |-> 10 * t.head - (IF head THEN torn ELSE 0),
         body |-> 10 * t.body - (IF head THEN 0 ELSE torn)]
  BY Zenon DEF Landed
<1>2. /\ damage \in Nat /\ roll \in Nat /\ t.hp \in Nat /\ t.head \in Nat /\ t.body \in Nat
      /\ Weapon.armor \in Nat /\ Weapon.direct \in Nat /\ Weapon.head \in Nat
      /\ hit \in Nat /\ hit > 0 /\ head \in BOOLEAN
  BY RollsAre DEF IsTarget
<1>3. worn \in Nat /\ worn = IF head THEN 10 * t.head ELSE 10 * t.body
  BY <1>2
<1> HIDE DEF worn
<1>4. torn \in Nat /\ torn <= worn
  <2>1. PICK x \in Nat : x = roll * Weapon.armor
    BY <1>2
  <2>2. Min({worn, x}) \in {worn, x} /\ Min({worn, x}) <= worn
    <3>1. worn \in Int /\ x \in Int
      BY <1>3, <2>1
    <3> QED BY <3>1, PairBounds, Zenon
  <2> QED BY <1>3, <2>1, <2>2
<1> HIDE DEF torn
<1>5. through \in Nat
  <2>0. PICK d \in Nat : d = 10 * damage
    BY <1>2
  <2>3. PICK e \in Nat : e = d * Weapon.direct
    BY <1>2
  <2>1. PICK x \in Int : x = 10 * damage * Weapon.direct - (worn - torn)
    BY <1>3, <1>4, <2>0, <2>3
  <2>2. Max({0, x}) \in {0, x} /\ 0 <= Max({0, x})
    BY PairBounds, 0 \in Int, Zenon
  <2> QED BY <2>1, <2>2
<1> HIDE DEF through
<1>6. spared \in Nat
  <2>1. PICK x \in Int : x = 10 - Weapon.direct
    BY <1>2
  <2>2. Max({0, x}) \in {0, x} /\ 0 <= Max({0, x})
    BY PairBounds, 0 \in Int, Zenon
  <2> QED BY <2>1, <2>2
<1> HIDE DEF spared
<1>7. rest \in Nat
  <2>0. PICK d \in Nat : d = 10 * damage
    BY <1>2
  <2>3. PICK e \in Nat : e = d * spared
    BY <1>6
  <2>1. PICK x \in Int : x = 10 * damage * spared - 10 * torn
    BY <1>4, <2>0, <2>3
  <2>2. Max({0, x}) \in {0, x} /\ 0 <= Max({0, x})
    BY PairBounds, 0 \in Int, Zenon
  <2> QED BY <2>1, <2>2
<1> HIDE DEF rest
<1>8. wounds \in Int
  <2>1. times \in Nat
    BY <1>2
  <2> HIDE DEF times
  <2>2. PICK x \in Int : x = (through + rest) * times + 500
    BY <1>5, <1>7, <2>1
  <2>3. x \div 1000 \in Int
    OBVIOUS
  <2> QED BY <2>2, <2>3
<1> HIDE DEF wounds, times
<1>9. Max({0, t.hp - wounds}) \in Nat
  <2>1. PICK x \in Int : x = t.hp - wounds
    BY <1>2, <1>8
  <2>2. Max({0, x}) \in {0, x} /\ 0 <= Max({0, x})
    BY PairBounds, 0 \in Int, Zenon
  <2> QED BY <2>1, <2>2
<1>10. /\ hit * (IF head THEN 1 ELSE 3) = IF head THEN hit ELSE 3 * hit
       /\ 10 * t.head - (IF head THEN torn ELSE 0) \in Nat
       /\ 10 * t.body - (IF head THEN 0 ELSE torn) \in Nat
  BY <1>2, <1>3, <1>4
<1>11. (IF head THEN hit ELSE 3 * hit) \in Nat /\ (IF head THEN hit ELSE 3 * hit) > 0
  BY <1>2
<1> QED BY <1>1, <1>4, <1>8, <1>9, <1>10, <1>11 DEF IsOutcome

\* The blows there are, and what each comes to.
Blows == {"HEAD", "BODY"} \X (Rolls \X Rolls)
Landing(t, hit) == [p \in Blows |-> Landed(t, hit, p[1], p[2][1], p[2][2])]

\* There are finitely many blows.
LEMMA BlowsAreFinite == IsFiniteSet(Blows)
<1>1. IsFiniteSet({"HEAD"} \cup {"BODY"})
  BY FS_Singleton, FS_Union
<1>2. {"HEAD"} \cup {"BODY"} = {"HEAD", "BODY"}
  OBVIOUS
<1>3. IsFiniteSet({"HEAD", "BODY"})
  BY <1>1, <1>2
<1>4. IsFiniteSet(Rolls \X Rolls)
  BY RollsAre, FS_Product
<1> QED BY <1>3, <1>4, FS_Product DEF Blows

\* The outcome of each of them.
LEMMA LandingIs ==
    ASSUME NEW t, IsTarget(t), NEW hit \in 1..19, NEW p \in Blows
    PROVE  LET o == Landing(t, hit)[p]
           IN  /\ IsOutcome(o) /\ o.result = p[1] /\ o.result \in {"HEAD", "BODY"}
               /\ o.damage = p[2][1] /\ o.roll = p[2][2] /\ o.damage \in Nat /\ o.roll \in Nat
               /\ o.weight = IF p[1] = "HEAD" THEN hit ELSE 3 * hit
<1>1. Landing(t, hit)[p] = Landed(t, hit, p[1], p[2][1], p[2][2])
  BY DEF Landing
<1>2. p[1] \in {"HEAD", "BODY"} /\ p[2][1] \in Rolls /\ p[2][2] \in Rolls
  BY DEF Blows
<1>3. PICK place \in {"HEAD", "BODY"}, d \in Rolls, r \in Rolls :
              place = p[1] /\ d = p[2][1] /\ r = p[2][2]
  BY <1>2
<1>4. d \in Nat /\ r \in Nat
  BY RollsAre
<1>5. LET o == Landed(t, hit, place, d, r)
      IN  /\ IsOutcome(o) /\ o.result = place
          /\ o.damage = d /\ o.roll = r
          /\ o.weight = IF place = "HEAD" THEN hit ELSE 3 * hit
  BY LandedIs
<1> QED BY <1>1, <1>3, <1>4, <1>5

\* An attack is a miss or one of the blows.
LEMMA AttackIsImage ==
    ASSUME NEW t, NEW hit
    PROVE  AttackBranches(t, hit) = {Miss(t, hit)} \cup { Landing(t, hit)[p] : p \in Blows }
<1> DEFINE f == Landing(t, hit)
<1>1. \A place \in {"HEAD", "BODY"}, d, r \in Rolls :
         /\ <<place, <<d, r>>>> \in Blows
         /\ f[<<place, <<d, r>>>>] = Landed(t, hit, place, d, r)
  BY DEF Blows, Landing
<1>2. \A p \in Blows : /\ p[1] \in {"HEAD", "BODY"} /\ p[2][1] \in Rolls /\ p[2][2] \in Rolls
                       /\ f[p] = Landed(t, hit, p[1], p[2][1], p[2][2])
  BY DEF Blows, Landing
<1> HIDE DEF f
<1> DEFINE L == { Landed(t, hit, place, d, r) : place \in {"HEAD", "BODY"}, d \in Rolls, r \in Rolls }
<1>3. ASSUME NEW o \in L PROVE o \in { f[p] : p \in Blows }
  <2>1. PICK place \in {"HEAD", "BODY"}, d \in Rolls, q \in Rolls :
                o = Landed(t, hit, place, d, q)
    OBVIOUS
  <2>2. <<place, <<d, q>>>> \in Blows /\ f[<<place, <<d, q>>>>] = o
    BY <1>1, <2>1
  <2>3. \E p \in Blows : o = f[p]
    BY <2>2
  <2> QED BY <2>3
<1>4. ASSUME NEW p \in Blows PROVE f[p] \in L
  BY <1>2
<1>5. L = { f[p] : p \in Blows }
  <2> HIDE DEF L
  <2> QED BY <1>3, <1>4
<1>6. AttackBranches(t, hit) = {Miss(t, hit)} \cup L
  BY DEF AttackBranches
<1> HIDE DEF L
<1> QED BY <1>5, <1>6 DEF f

\* What an attack may come to.
LEMMA AttackIs ==
    ASSUME NEW t, IsTarget(t), NEW hit \in 1..19
    PROVE  /\ IsFiniteSet(AttackBranches(t, hit))
           /\ \A o \in AttackBranches(t, hit) :
                 /\ IsOutcome(o)
                 /\ o.result \in {"MISS", "HEAD", "BODY"} /\ o.damage \in Nat /\ o.roll \in Nat
                 /\ o.result = "MISS" => o.hp = t.hp
           /\ \A o, u \in AttackBranches(t, hit) :
                 o.result = u.result /\ o.damage = u.damage /\ o.roll = u.roll => o = u
<1> DEFINE f == Landing(t, hit)
           L == { f[p] : p \in Blows }
           m == Miss(t, hit)
<1>1. AttackBranches(t, hit) = {m} \cup L
  BY AttackIsImage
<1>2. IsOutcome(m) /\ m.result = "MISS" /\ m.hp = t.hp
  BY MissIs
<1>3. m.damage = 0 /\ m.roll = 0
  BY DEF Miss
<1>4. \A p \in Blows : /\ IsOutcome(f[p]) /\ f[p].result = p[1] /\ f[p].result \in {"HEAD", "BODY"}
                       /\ f[p].damage = p[2][1] /\ f[p].roll = p[2][2]
                       /\ f[p].damage \in Nat /\ f[p].roll \in Nat
  BY LandingIs
<1>5. IsFiniteSet({m} \cup L)
  <2> HIDE DEF f, m
  <2>1. IsFiniteSet(L)
    BY BlowsAreFinite, ImageIsFinite
  <2> HIDE DEF L
  <2> QED BY <2>1, FS_Singleton, FS_Union
<1>6. \A p, q \in Blows : p[1] = q[1] /\ p[2][1] = q[2][1] /\ p[2][2] = q[2][2] => p = q
  BY DEF Blows
<1> HIDE DEF f, m
<1>7. ASSUME NEW o \in L, NEW u \in L,
             o.result = u.result, o.damage = u.damage, o.roll = u.roll
      PROVE  o = u
  <2>1. PICK p \in Blows, q \in Blows : o = f[p] /\ u = f[q]
    OBVIOUS
  <2>2. p = q
    BY <1>4, <1>6, <1>7, <2>1
  <2> QED BY <2>1, <2>2
<1>8. \A o \in L : /\ IsOutcome(o) /\ o.result \in {"HEAD", "BODY"}
                   /\ o.damage \in Nat /\ o.roll \in Nat
  BY <1>4
<1> HIDE DEF L
<1>9. ASSUME NEW o \in {m} \cup L
      PROVE  /\ IsOutcome(o)
             /\ o.result \in {"MISS", "HEAD", "BODY"} /\ o.damage \in Nat /\ o.roll \in Nat
             /\ o.result = "MISS" => o.hp = t.hp
  BY <1>2, <1>3, <1>8
<1>10. ASSUME NEW o \in {m} \cup L, NEW u \in {m} \cup L,
              o.result = u.result, o.damage = u.damage, o.roll = u.roll
       PROVE  o = u
  <2>1. CASE o \in L /\ u \in L
    BY <1>7, <1>10, <2>1
  <2>2. CASE o = m
    BY <1>2, <1>8, <1>10, <2>2
  <2>3. CASE u = m
    BY <1>2, <1>8, <1>10, <2>3
  <2> QED BY <2>1, <2>2, <2>3
<1> QED BY <1>1, <1>5, <1>9, <1>10

\* The outcomes share the whole of the chance.
LEMMA AttackMass ==
    ASSUME NEW t, IsTarget(t), NEW hit \in 1..19,
           NEW g, \A o \in AttackBranches(t, hit) : g[o] = o.weight
    PROVE  SumOver(AttackBranches(t, hit), g) = Mass
<1> DEFINE f == Landing(t, hit)
           L == { f[p] : p \in Blows }
           m == Miss(t, hit)
           h == [p \in Blows |-> g[f[p]]]
           H == {"HEAD"} \X (Rolls \X Rolls)
           B == {"BODY"} \X (Rolls \X Rolls)
<1>1. AttackBranches(t, hit) = {m} \cup L
  BY AttackIsImage
<1>2. PICK n \in Nat : n > 0 /\ Cardinality(Rolls) = n /\ Mass = 80 * (n * n)
                       /\ Mass \div 20 = 4 * (n * n)
  BY RollsAre
<1>3. PICK s \in Nat : s = n * n
  OBVIOUS
<1>4. m.weight = (20 - hit) * (4 * s) /\ m.result = "MISS"
  BY <1>2, <1>3 DEF Miss
<1>5. \A p \in Blows : /\ f[p].result = p[1] /\ f[p].result \in {"HEAD", "BODY"}
                       /\ f[p].damage = p[2][1] /\ f[p].roll = p[2][2]
                       /\ f[p].weight = IF p[1] = "HEAD" THEN hit ELSE 3 * hit
  BY LandingIs
<1>6. /\ Blows = H \cup B /\ H \cap B = {}
      /\ \A p \in H : p[1] = "HEAD"
      /\ \A p \in B : p[1] = "BODY"
      /\ \A p, q \in Blows : p[1] = q[1] /\ p[2][1] = q[2][1] /\ p[2][2] = q[2][2] => p = q
  BY DEF Blows
<1>7. /\ IsFiniteSet(H) /\ Cardinality(H) = s
      /\ IsFiniteSet(B) /\ Cardinality(B) = s
  <2>1. IsFiniteSet(Rolls \X Rolls) /\ Cardinality(Rolls \X Rolls) = s
    BY <1>2, <1>3, RollsAre, FS_Product
  <2>2. /\ IsFiniteSet({"HEAD"}) /\ Cardinality({"HEAD"}) = 1
        /\ IsFiniteSet({"BODY"}) /\ Cardinality({"BODY"}) = 1
    BY FS_Singleton
  <2>3. IsFiniteSet(H) /\ Cardinality(H) = 1 * s
    BY <2>1, <2>2, FS_Product
  <2>4. IsFiniteSet(B) /\ Cardinality(B) = 1 * s
    BY <2>1, <2>2, FS_Product
  <2> QED BY <1>3, <2>3, <2>4
<1>8. \A p \in Blows : f[p] \in AttackBranches(t, hit)
  BY <1>1
<1>9. \A p \in Blows : h[p] = (IF p[1] = "HEAD" THEN hit ELSE 3 * hit) /\ h[p] = g[f[p]]
  BY <1>5, <1>8
<1> HIDE DEF f, h, H, B, m
<1>10. SumOver(H, h) = hit * s
  <2>1. PICK c \in Int : c = hit
    OBVIOUS
  <2>2. \A p \in H : h[p] = c
    BY <1>6, <1>9, <2>1
  <2>3. SumOver(H, h) = c * Cardinality(H)
    BY <1>7, <2>2, EqualSum
  <2> QED BY <1>7, <2>1, <2>3
<1>11. SumOver(B, h) = (3 * hit) * s
  <2>1. PICK c \in Int : c = 3 * hit
    OBVIOUS
  <2>2. \A p \in B : h[p] = c
    BY <1>6, <1>9, <2>1
  <2>3. SumOver(B, h) = c * Cardinality(B)
    BY <1>7, <2>2, EqualSum
  <2> QED BY <1>7, <2>1, <2>3
<1>12. SumOver(Blows, h) = hit * s + (3 * hit) * s
  <2>1. \A p \in H \cup B : h[p] \in Int
    BY <1>6, <1>9
  <2>2. SumOver(H \cup B, h) = SumOver(H, h) + SumOver(B, h)
    BY <1>6, <1>7, <2>1, JointSum
  <2> QED BY <1>6, <1>10, <1>11, <2>2
<1>13. SumOver(L, g) = SumOver(Blows, h)
  <2>1. \A p, q \in Blows : f[p] = f[q] => p = q
    BY <1>5, <1>6
  <2>2. \A p \in Blows : g[f[p]] \in Int /\ h[p] = g[f[p]]
    BY <1>9
  <2> QED BY <2>1, <2>2, BlowsAreFinite, RenamedSum
<1>14. SumOver({m}, g) = (20 - hit) * (4 * s)
  <2>1. g[m] = (20 - hit) * (4 * s) /\ g[m] \in Int
    BY <1>1, <1>4
  <2> QED BY <2>1, SingleSum
<1>15. SumOver({m} \cup L, g) = SumOver({m}, g) + SumOver(L, g)
  <2>1. IsFiniteSet({m}) /\ IsFiniteSet(L)
    <3>1. IsFiniteSet({m})
      BY FS_Singleton
    <3>2. IsFiniteSet(L)
      BY BlowsAreFinite, ImageIsFinite
    <3> QED BY <3>1, <3>2
  <2>2. {m} \cap L = {}
    BY <1>4, <1>5
  <2>3. \A x \in {m} \cup L : g[x] \in Int
    <3>1. g[m] \in Int
      BY <1>1, <1>4
    <3>2. \A p \in Blows : g[f[p]] \in Int
      BY <1>9
    <3> QED BY <3>1, <3>2
  <2> HIDE DEF L
  <2> QED BY <2>1, <2>2, <2>3, JointSum
<1>16. (20 - hit) * (4 * s) + (hit * s + (3 * hit) * s) = 80 * s
  OBVIOUS
<1> HIDE DEF L
<1> QED BY <1>1, <1>2, <1>3, <1>12, <1>13, <1>14, <1>15, <1>16

IsFighter(x) ==
    \E items : x \in [hp: Nat, head: Nat, body: Nat, ap: Int, fatigue: Int, capacity: Int,
                      waited: BOOLEAN, mayWait: BOOLEAN, plain: BOOLEAN, slots: {items}]

\* A branch that has some of the shares there are.
IsBranch(b, share) ==
    /\ \E trail : b \in [weight: Nat, actor: {b.actor}, stopped: BOOLEAN, ended: BOOLEAN,
                         trail: {trail}]
    /\ IsFighter(b.actor)
    /\ \E m \in Nat : m > 0 /\ b.weight = m * share

\* Dividing undoes multiplying.
LEMMA Divides ==
    ASSUME NEW a \in Nat, NEW m \in Nat, m > 0
    PROVE  (a * m) \div m = a
OBVIOUS

\* A share is divided among the outcomes of a reaction.
LEMMA SharesOut ==
    ASSUME NEW m \in Nat, NEW share \in Nat, NEW o \in Nat
    PROVE  ((m * (Mass * share)) \div Mass) * o = (m * o) * share
<1>1. PICK k \in Nat : k > 0 /\ k = Mass
  BY RollsAre
<1>2. m * (k * share) = (m * share) * k
  OBVIOUS
<1>3. m * share \in Nat
  OBVIOUS
<1>4. ((m * share) * k) \div k = m * share
  BY <1>1, <1>3, Divides
<1>5. (m * share) * o = (m * o) * share
  OBVIOUS
<1> QED BY <1>1, <1>2, <1>4, <1>5

\* A branch after an outcome of a blow.
After(b, r, o) ==
    [b EXCEPT !.weight = (b.weight \div Mass) * o.weight,
              !.actor = [b.actor EXCEPT !.hp = o.hp, !.head = o.head \div 10,
                                        !.body = o.body \div 10],
              !.stopped = b.stopped \/ o.result # "MISS",
              !.trail = Append(b.trail, [by |-> r.by, result |-> o.result,
                                         damage |-> o.damage, roll |-> o.roll])]

\* What a reactor makes of a branch.
LEMMA StruckIs ==
    ASSUME NEW b, NEW r
    PROVE  Struck(b, r) = IF Dead(b) THEN {[b EXCEPT !.stopped = TRUE]}
                          ELSE { After(b, r, o) : o \in AttackBranches(b.actor, r.hit) }
BY Zenon DEF Struck, After

Told(r, o) == [by |-> r.by, result |-> o.result, damage |-> o.damage, roll |-> o.roll]

\* What an outcome makes of a branch.
Follows(x, b, r, o, share) ==
    /\ IsBranch(x, share)
    /\ x.actor.ap = b.actor.ap
    /\ x.actor.hp = o.hp
    /\ x.stopped = (b.stopped \/ o.result # "MISS")
    /\ x.ended = b.ended
    /\ x.weight = (b.weight \div Mass) * o.weight
    /\ x.trail = Append(b.trail, Told(r, o))

\* A living branch and an outcome give a branch of the next share.
LEMMA AfterIs ==
    ASSUME NEW share \in Nat, NEW b, IsBranch(b, Mass * share), NEW r, r.hit \in 1..19,
           NEW o \in AttackBranches(b.actor, r.hit)
    PROVE  Follows(After(b, r, o), b, r, o, share)
<1>1. PICK items : b.actor \in [hp: Nat, head: Nat, body: Nat, ap: Int, fatigue: Int,
                                capacity: Int, waited: BOOLEAN, mayWait: BOOLEAN, plain: BOOLEAN, slots: {items}]
  BY DEF IsBranch, IsFighter
<1>2. PICK trail : b \in [weight: Nat, actor: {b.actor}, stopped: BOOLEAN, ended: BOOLEAN,
                          trail: {trail}]
  BY DEF IsBranch
<1>3. PICK m \in Nat : m > 0 /\ b.weight = m * (Mass * share)
  BY DEF IsBranch
<1>4. IsTarget(b.actor)
  BY <1>1 DEF IsTarget
<1>5. IsOutcome(o)
  BY <1>4, AttackIs
<1>6. /\ ((b.weight \div Mass) * o.weight) = (m * o.weight) * share
      /\ m * o.weight \in Nat /\ m * o.weight > 0
  <2>1. PICK k \in Nat : k > 0 /\ k = o.weight
    BY <1>5 DEF IsOutcome
  <2>2. ((m * (Mass * share)) \div Mass) * k = (m * k) * share
    BY SharesOut
  <2>3. m * k \in Nat /\ m * k > 0
    BY <1>3, <2>1
  <2> QED BY <1>3, <2>1, <2>2, <2>3
<1>7. PICK w \in Nat : w = (b.weight \div Mass) * o.weight
  <2>1. (m * o.weight) * share \in Nat
    BY <1>6
  <2> QED BY <1>6, <2>1
<1>8. PICK head \in Nat, body \in Nat : head = o.head \div 10 /\ body = o.body \div 10
  <2>1. o.head \in Nat /\ o.body \in Nat
    BY <1>5 DEF IsOutcome
  <2>2. o.head \div 10 \in Nat /\ o.body \div 10 \in Nat
    BY <2>1
  <2> QED BY <2>2
<1>9. PICK struck : struck = [b.actor EXCEPT !.hp = o.hp, !.head = head, !.body = body]
  OBVIOUS
<1>10. /\ struck \in [hp: Nat, head: Nat, body: Nat, ap: Int, fatigue: Int, capacity: Int,
                      waited: BOOLEAN, mayWait: BOOLEAN, plain: BOOLEAN, slots: {items}]
       /\ struck.ap = b.actor.ap /\ struck.hp = o.hp
  <2>1. o.hp \in Nat
    BY <1>5 DEF IsOutcome
  <2> QED BY <1>1, <1>9, <2>1
<1>11. PICK longer : longer = Append(b.trail, Told(r, o))
  OBVIOUS
<1>12. PICK stopped \in BOOLEAN : stopped = (b.stopped \/ o.result # "MISS")
  OBVIOUS
<1>13. After(b, r, o) = [b EXCEPT !.weight = w, !.actor = struck, !.stopped = stopped,
                                  !.trail = longer]
  BY <1>7, <1>8, <1>9, <1>11, <1>12 DEF After, Told
<1>14. PICK x : x = After(b, r, o)
  OBVIOUS
<1>15. /\ x \in [weight: Nat, actor: {struck}, stopped: BOOLEAN, ended: BOOLEAN,
                 trail: {longer}]
       /\ x.weight = w /\ x.actor = struck /\ x.stopped = stopped /\ x.trail = longer
       /\ x.ended = b.ended
  BY <1>2, <1>13, <1>14
<1>16. IsBranch(x, share)
  <2>1. IsFighter(x.actor)
    BY <1>10, <1>15 DEF IsFighter
  <2>2. \E k \in Nat : k > 0 /\ x.weight = k * share
    BY <1>6, <1>7, <1>15
  <2>3. \E t : x \in [weight: Nat, actor: {x.actor}, stopped: BOOLEAN, ended: BOOLEAN,
                      trail: {t}]
    BY <1>15
  <2> QED BY <2>1, <2>2, <2>3 DEF IsBranch
<1> QED BY <1>7, <1>10, <1>11, <1>12, <1>14, <1>15, <1>16 DEF Follows

\* The recursive function behind FoldLeft, over the positions of s up to n.
Folding(m, s, n, it) ==
    it = [t \in SUBSET (1..n) |->
            IF t = {} THEN m ELSE React(it[t \ {Max(t)}], s[Max(t)])]

\* The last position of some.
LEMMA MaxOfPositions ==
  ASSUME NEW n \in Nat, NEW t \in SUBSET (1..n), t # {}
  PROVE  /\ Max(t) \in t /\ \A y \in t : Max(t) >= y
         /\ \A x \in t : (\A y \in t : x >= y) => x = Max(t)
  <1>1. \E x \in t : \A y \in t : x >= y
    <2>1. IsFiniteSet(t)
      <3>1. IsFiniteSet(1..n)
        BY n \in Int, 1 \in Int, FS_Interval
      <3> QED BY <3>1, FS_Subset
    <2>2. t \in SUBSET Int
      OBVIOUS
    <2>3. Max(t) \in t /\ \A y \in t : y <= Max(t)
      BY <2>1, <2>2, MinIsLeast
    <2> QED BY <2>2, <2>3
  <1>2. Max(t) \in t /\ \A y \in t : Max(t) >= y
    BY <1>1 DEF Max
  <1>3. ASSUME NEW x \in t, \A y \in t : x >= y PROVE x = Max(t)
    BY <1>2, <1>3, x \in 1..n, Max(t) \in 1..n
  <1> QED BY <1>2, <1>3

\* The fold over the reactions exists.
LEMMA FoldingExists ==
  ASSUME NEW m, NEW s
  PROVE  \A n \in Nat : \E it : Folding(m, s, n, it)
  <1> DEFINE S == { n \in Nat : \E it : Folding(m, s, n, it) }
  <1>1. 0 \in S
    <2> DEFINE g == [t \in SUBSET (1..0) |-> m]
    <2>1. \A t \in SUBSET (1..0) : t = {}
      OBVIOUS
    <2>2. g = [t \in SUBSET (1..0) |->
                 IF t = {} THEN m ELSE React(g[t \ {Max(t)}], s[Max(t)])]
      BY <2>1
    <2>3. Folding(m, s, 0, g)
      BY <2>2 DEF Folding
    <2> HIDE DEF g
    <2> QED BY <2>3
  <1>2. ASSUME NEW n \in S PROVE n + 1 \in S
    <2>1. PICK h : Folding(m, s, n, h)
      OBVIOUS
    <2> DEFINE g == [t \in SUBSET (1..(n + 1)) |->
                       IF n + 1 \in t THEN React(h[t \ {n + 1}], s[n + 1]) ELSE h[t]]
    <2>2. \A t \in SUBSET (1..n) :
             h[t] = IF t = {} THEN m ELSE React(h[t \ {Max(t)}], s[Max(t)])
      BY <2>1, Zenon DEF Folding
    <2>3. ASSUME NEW t \in SUBSET (1..(n + 1))
          PROVE  g[t] = IF t = {} THEN m ELSE React(g[t \ {Max(t)}], s[Max(t)])
      <3>1. CASE n + 1 \in t
        <4>1. \A y \in t : n + 1 >= y
          OBVIOUS
        <4>2. Max(t) = n + 1
          BY <3>1, <4>1, MaxOfPositions
        <4>3. /\ t \ {n + 1} \in SUBSET (1..(n + 1)) /\ n + 1 \notin t \ {n + 1}
              /\ t # {}
          BY <3>1
        <4>4. g[t \ {n + 1}] = h[t \ {n + 1}]
          BY <4>3
        <4>5. g[t] = React(h[t \ {n + 1}], s[n + 1])
          BY <3>1
        <4> QED BY <4>2, <4>3, <4>4, <4>5
      <3>2. CASE n + 1 \notin t /\ t # {}
        <4>1. t \in SUBSET (1..n)
          BY <3>2
        <4>2. /\ t \ {Max(t)} \in SUBSET (1..(n + 1))
              /\ n + 1 \notin t \ {Max(t)}
          BY <3>2
        <4>3. g[t] = h[t] /\ g[t \ {Max(t)}] = h[t \ {Max(t)}]
          BY <3>2, <4>2
        <4> HIDE DEF g
        <4> QED BY <2>2, <3>2, <4>1, <4>3
      <3>3. CASE t = {}
        <4>1. t \in SUBSET (1..n) /\ n + 1 \notin t
          BY <3>3
        <4>2. g[t] = h[t]
          BY <4>1
        <4> QED BY <2>2, <3>3, <4>1, <4>2
      <3> QED BY <3>1, <3>2, <3>3
    <2>4. g = [t \in SUBSET (1..(n + 1)) |->
                 IF t = {} THEN m ELSE React(g[t \ {Max(t)}], s[Max(t)])]
      BY <2>3
    <2>5. Folding(m, s, n + 1, g)
      BY <2>4 DEF Folding
    <2> HIDE DEF g
    <2> QED BY <2>5
  <1> HIDE DEF S
  <1>3. S = Nat
    BY <1>1, <1>2, SetInduction DEF S
  <1> QED BY <1>3 DEF S

\* What the fold has made after k reactions.
Stepwise(m, s, n, it) ==
    /\ it[1..0] = m
    /\ \A k \in 0..n : k < n => it[1..(k + 1)] = React(it[1..k], s[k + 1])

\* It goes one reaction at a time.
LEMMA FoldingStep ==
  ASSUME NEW m, NEW s, NEW n \in Nat, NEW it, Folding(m, s, n, it)
  PROVE  Stepwise(m, s, n, it)
  <1>1. \A t \in SUBSET (1..n) :
           it[t] = IF t = {} THEN m ELSE React(it[t \ {Max(t)}], s[Max(t)])
    BY Zenon DEF Folding
  <1>2. it[1..0] = m
    <2>1. 1..0 = {} /\ 1..0 \in SUBSET (1..n)
      OBVIOUS
    <2> QED BY <1>1, <2>1
  <1>3. ASSUME NEW k \in 0..n, k < n
        PROVE  it[1..(k + 1)] = React(it[1..k], s[k + 1])
    <2>1. /\ 1..(k + 1) \in SUBSET (1..n) /\ k + 1 \in 1..(k + 1)
          /\ \A y \in 1..(k + 1) : k + 1 >= y
          /\ (1..(k + 1)) \ {k + 1} = 1..k
      BY <1>3
    <2>2. 1..(k + 1) # {}
      BY <2>1
    <2>3. Max(1..(k + 1)) = k + 1
      BY <2>1, <2>2, MaxOfPositions
    <2> QED BY <1>1, <2>1, <2>2, <2>3
  <1> QED BY <1>2, <1>3 DEF Stepwise

\* And is the library's fold from the left.
LEMMA FoldIsFolding ==
  ASSUME NEW m, NEW S, NEW s \in Seq(S)
  PROVE  \E it : Folding(m, s, Len(s), it) /\ FoldLeft(React, m, s) = it[1..Len(s)]
  <1>1. DOMAIN s = 1..Len(s) /\ Len(s) \in Nat
    OBVIOUS
  <1>2. FoldLeft(React, m, s) = (CHOOSE it : Folding(m, s, Len(s), it))[1..Len(s)]
    BY <1>1, Zenon DEF Folding, FoldLeft, MapThenFoldSet
  <1>3. Folding(m, s, Len(s), CHOOSE it : Folding(m, s, Len(s), it))
    BY <1>1, FoldingExists
  <1> QED BY <1>2, <1>3
-----------------------------------------------------------------------------
(* One reaction *)

Blow == [by: Others, result: {"MISS", "HEAD", "BODY"}, damage: Nat, roll: Nat]

\* A branch after k reactions, of an actor with ap left.
IsSound(b, k, share, ap) ==
    /\ IsBranch(b, share)
    /\ b.actor.ap = ap /\ b.ended = FALSE
    /\ b.trail \in Seq(Blow) /\ Len(b.trail) <= k /\ (~Dead(b) => Len(b.trail) = k)
    /\ b.stopped <=> \E i \in DOMAIN b.trail : b.trail[i].result # "MISS"
    /\ Dead(b) => b.trail # <<>> /\ b.trail[Len(b.trail)].result # "MISS"

\* The mover can be struck at.
LEMMA BranchIsTarget ==
    ASSUME NEW b, NEW share, IsBranch(b, share)
    PROVE  IsTarget(b.actor)
BY DEF IsBranch, IsFighter, IsTarget

\* The dead are left as they are.
LEMMA DeadStay ==
    ASSUME NEW b, NEW r, NEW k \in Nat, NEW share \in Nat, NEW ap,
           IsSound(b, k, Mass * share, ap), Dead(b)
    PROVE  Struck(b, r) = {b} /\ IsSound(b, k + 1, share, ap)
<1>1. PICK n \in Nat : n = Len(b.trail) /\ n > 0 /\ n <= k /\ DOMAIN b.trail = 1..n
  BY DEF IsSound
<1>2. b.stopped = TRUE
  <2>1. n \in DOMAIN b.trail /\ b.trail[n].result # "MISS"
    BY <1>1 DEF IsSound
  <2>2. b.stopped \in BOOLEAN
    BY DEF IsSound, IsBranch
  <2> QED BY <2>1, <2>2 DEF IsSound
<1>3. PICK trail : b \in [weight: Nat, actor: {b.actor}, stopped: BOOLEAN, ended: BOOLEAN,
                          trail: {trail}]
  BY DEF IsSound, IsBranch
<1>4. [b EXCEPT !.stopped = TRUE] = b
  BY <1>2, <1>3
<1>5. Struck(b, r) = {b}
  BY <1>4, StruckIs
<1>6. IsBranch(b, share)
  <2>1. PICK m \in Nat : m > 0 /\ b.weight = m * (Mass * share)
    BY DEF IsSound, IsBranch
  <2>2. PICK w \in Nat : w = Mass /\ w > 0
    BY RollsAre
  <2>3. m * w \in Nat /\ m * w > 0 /\ m * (w * share) = (m * w) * share
    BY <2>1, <2>2
  <2>4. \E l \in Nat : l > 0 /\ b.weight = l * share
    BY <2>1, <2>2, <2>3
  <2> QED BY <1>3, <2>4 DEF IsSound, IsBranch
<1>7. Len(b.trail) <= k + 1
  BY <1>1
<1> QED BY <1>5, <1>6, <1>7 DEF IsSound

\* A blow at the living.
LEMMA AliveAreStruck ==
    ASSUME NEW b, NEW r \in Reaction, r.hit \in 1..19,
           NEW k \in Nat, NEW share \in Nat, NEW ap,
           IsSound(b, k, Mass * share, ap), ~Dead(b),
           NEW o \in AttackBranches(b.actor, r.hit)
    PROVE  /\ IsSound(After(b, r, o), k + 1, share, ap)
           /\ Len(After(b, r, o).trail) = k + 1
<1> DEFINE x == After(b, r, o)
           e == Told(r, o)
<1>1. /\ IsBranch(x, share) /\ x.actor.ap = b.actor.ap /\ x.actor.hp = o.hp
      /\ x.stopped = (b.stopped \/ o.result # "MISS") /\ x.ended = b.ended
      /\ x.trail = Append(b.trail, e)
  <2>1. IsBranch(b, Mass * share)
    BY DEF IsSound
  <2>2. Follows(x, b, r, o, share)
    BY <2>1, AfterIs
  <2> QED BY <2>2 DEF Follows
<1>2. /\ IsOutcome(o) /\ (o.result = "MISS" => o.hp = b.actor.hp)
      /\ o.result \in {"MISS", "HEAD", "BODY"} /\ o.damage \in Nat /\ o.roll \in Nat
  <2>1. IsTarget(b.actor)
    BY BranchIsTarget DEF IsSound
  <2> QED BY <2>1, AttackIs
<1>3. e \in Blow /\ e.result = o.result
  BY <1>2 DEF Blow, Told, Reaction
<1> HIDE DEF x, e
<1>4. b.trail \in Seq(Blow) /\ Len(b.trail) = k /\ DOMAIN b.trail = 1..k
  BY DEF IsSound
<1>5. /\ x.trail \in Seq(Blow) /\ Len(x.trail) = k + 1 /\ DOMAIN x.trail = 1..(k + 1)
      /\ x.trail[k + 1] = e /\ \A i \in 1..k : x.trail[i] = b.trail[i]
  BY <1>1, <1>3, <1>4
<1>6. x.stopped <=> \E i \in DOMAIN x.trail : x.trail[i].result # "MISS"
  <2>1. b.stopped <=> \E i \in 1..k : b.trail[i].result # "MISS"
    BY <1>4 DEF IsSound
  <2>2. (\E i \in 1..(k + 1) : x.trail[i].result # "MISS")
           <=> (\E i \in 1..k : x.trail[i].result # "MISS") \/ x.trail[k + 1].result # "MISS"
    <3>1. \A i \in 1..(k + 1) : i \in 1..k \/ i = k + 1
      OBVIOUS
    <3>2. k + 1 \in 1..(k + 1) /\ \A i \in 1..k : i \in 1..(k + 1)
      OBVIOUS
    <3> QED BY <3>1, <3>2
  <2>3. (\E i \in 1..k : x.trail[i].result # "MISS") <=> b.stopped
    BY <1>5, <2>1
  <2>4. x.stopped <=> (b.stopped \/ o.result # "MISS")
    BY <1>1
  <2>5. DOMAIN x.trail = 1..(k + 1) /\ x.trail[k + 1].result = o.result
    BY <1>3, <1>5
  <2> QED BY <2>2, <2>3, <2>4, <2>5
<1>7. Dead(x) => x.trail # <<>> /\ x.trail[Len(x.trail)].result # "MISS"
  <2> SUFFICES ASSUME Dead(x) PROVE x.trail # <<>> /\ x.trail[Len(x.trail)].result # "MISS"
    OBVIOUS
  <2>1. o.result # "MISS"
    BY <1>1, <1>2 DEF Dead
  <2> QED BY <1>3, <1>5, <2>1
<1>8. IsSound(x, k + 1, share, ap)
  BY <1>1, <1>5, <1>6, <1>7 DEF IsSound
<1> QED BY <1>5, <1>8 DEF x

\* Two blows at the living tell by their trails what they were.
LEMMA BlowsTell ==
    ASSUME NEW b, NEW c, NEW r \in Reaction, r.hit \in 1..19,
           NEW k \in Nat, NEW share \in Nat, NEW ap,
           IsSound(b, k, Mass * share, ap), ~Dead(b),
           IsSound(c, k, Mass * share, ap), ~Dead(c),
           b.trail = c.trail => b = c,
           NEW o \in AttackBranches(b.actor, r.hit), NEW u \in AttackBranches(c.actor, r.hit),
           After(b, r, o).trail = After(c, r, u).trail
    PROVE  b = c /\ o = u
<1> DEFINE e(v) == Told(r, v)
<1>1. IsBranch(b, Mass * share) /\ IsBranch(c, Mass * share)
  BY DEF IsSound
<1>2. Append(b.trail, e(o)) = Append(c.trail, e(u))
  <2>1. After(b, r, o).trail = Append(b.trail, e(o))
    BY <1>1, AfterIs DEF Follows
  <2>2. After(c, r, u).trail = Append(c.trail, e(u))
    BY <1>1, AfterIs DEF Follows
  <2> QED BY <2>1, <2>2
<1>3. PICK d, f : d = e(o) /\ f = e(u)
  OBVIOUS
<1>4. PICK s \in Seq(Blow), t \in Seq(Blow) : s = b.trail /\ t = c.trail /\ Len(s) = k /\ Len(t) = k
  BY DEF IsSound
<1>5. s = t /\ d = f
  <2>0. Append(s, d) = Append(t, f)
    BY <1>2, <1>3, <1>4
  <2>1. Append(s, d)[k + 1] = d /\ Append(t, f)[k + 1] = f
    BY <1>4
  <2>2. \A i \in 1..k : Append(s, d)[i] = s[i] /\ Append(t, f)[i] = t[i]
    BY <1>4
  <2>3. \A i \in 1..k : s[i] = t[i]
    BY <2>0, <2>2
  <2>4. s = t
    BY <1>4, <2>3
  <2> QED BY <2>0, <2>1, <2>4
<1>6. b = c
  BY <1>4, <1>5
<1>7. o.result = u.result /\ o.damage = u.damage /\ o.roll = u.roll
  BY <1>3, <1>5 DEF Told
<1>8. IsTarget(b.actor)
  BY <1>1, BranchIsTarget
<1>9. \A v, w \in AttackBranches(b.actor, r.hit) :
         v.result = w.result /\ v.damage = w.damage /\ v.roll = w.roll => v = w
  BY <1>8, AttackIs
<1>10. o = u
  BY <1>6, <1>7, <1>9
<1> QED BY <1>6, <1>10
\* What a reaction makes of a branch has the branch's weight.
LEMMA StruckTotal ==
    ASSUME NEW b, NEW r \in Reaction, r.hit \in 1..19,
           NEW k \in Nat, NEW share \in Nat, NEW ap, IsSound(b, k, Mass * share, ap),
           NEW g, \A x \in Struck(b, r) : g[x] = x.weight
    PROVE  SumOver(Struck(b, r), g) = b.weight
<1>1. PICK m \in Nat : b.weight = m * (Mass * share)
  BY DEF IsSound, IsBranch
<1>2. PICK w \in Nat : w = Mass /\ w > 0
  BY RollsAre
<1>3. m * (w * share) = (m * share) * w /\ m * share \in Nat
  OBVIOUS
<1>4. b.weight \in Int
  BY <1>1, <1>2, <1>3
<1>5. CASE Dead(b)
  <2>1. Struck(b, r) = {b}
    BY <1>5, DeadStay
  <2>2. g[b] = b.weight
    BY <2>1
  <2> QED BY <1>4, <2>1, <2>2, SingleSum
<1>6. CASE ~Dead(b)
  <2> DEFINE A == AttackBranches(b.actor, r.hit)
             f == [o \in A |-> After(b, r, o)]
             e == [o \in A |-> o.weight]
             c == b.weight \div Mass
             h == [o \in A |-> c * o.weight]
  <2>1. Struck(b, r) = { f[o] : o \in A }
    BY <1>6, StruckIs
  <2>2. IsTarget(b.actor) /\ IsBranch(b, Mass * share)
    BY BranchIsTarget DEF IsSound
  <2>3. IsFiniteSet(A) /\ \A o \in A : o.weight \in Nat
    BY <2>2, AttackIs DEF IsOutcome
  <2>4. ASSUME NEW o \in A, NEW u \in A, f[o] = f[u] PROVE o = u
    <3>1. After(b, r, o).trail = After(b, r, u).trail
      BY <2>4
    <3> QED BY <1>6, <3>1, BlowsTell
  <2>5. \A o \in A : f[o].weight = c * o.weight
    BY <2>2, AfterIs DEF Follows
  <2>6. c = m * share
    <3>1. ((m * share) * w) \div w = m * share
      BY <1>2, <1>3, Divides
    <3> QED BY <1>1, <1>2, <1>3, <3>1
  <2>7. c \in Int
    BY <1>3, <2>6
  <2>8. \A o \in A : e[o] = o.weight /\ e[o] \in Int /\ h[o] = c * e[o] /\ f[o] \in Struck(b, r)
    BY <2>1, <2>3
  <2>9. \A o \in A : g[f[o]] = h[o] /\ h[o] \in Int
    <3> HIDE DEF f, c, h, e, A
    <3>1. \A o \in A : c * e[o] \in Int
      BY <2>7, <2>8
    <3> QED BY <2>5, <2>8, <3>1
  <2> HIDE DEF f, c, h, e, A
  <2>10. SumOver({ f[o] : o \in A }, g) = SumOver(A, h)
    BY <2>3, <2>4, <2>9, RenamedSum
  <2>11. SumOver(A, h) = c * SumOver(A, e)
    BY <2>3, <2>7, <2>8, ScaledSum
  <2>12. SumOver(A, e) = Mass
    BY <2>2, <2>8, AttackMass DEF A
  <2> QED BY <1>1, <1>2, <1>3, <2>1, <2>6, <2>10, <2>11, <2>12
<1> QED BY <1>5, <1>6

\* The branches after k reactions: each sound, told apart by their trails, and
\* together all of the chance.
IsWhole(B, k, share, ap) ==
    /\ IsFiniteSet(B)
    /\ \A b \in B : IsSound(b, k, share, ap)
    /\ \A b, c \in B : b.trail = c.trail => b = c
    /\ Total(B) = Unit

\* The total weight is a sum.
LEMMA TotalIs ==
    ASSUME NEW B
    PROVE  Total(B) = SumOver(B, [b \in B |-> b.weight])
<1> DEFINE g == [b \in B |-> b.weight]
<1>1. Total(B) = SumFunction(g)
  BY DEF Total
<1>2. DOMAIN g = B
  OBVIOUS
<1> HIDE DEF g
<1>3. Total(B) = SumOver(B, g)
  BY <1>1, <1>2, SumIs
<1> QED BY <1>3 DEF g

\* A reaction keeps the branches whole.
LEMMA ReactionKeeps ==
    ASSUME NEW B, NEW r \in Reaction, r.hit \in 1..19,
           NEW k \in Nat, NEW share \in Nat, NEW ap, IsWhole(B, k, Mass * share, ap)
    PROVE  IsWhole(React(B, r), k + 1, share, ap)
<1> DEFINE S == [b \in B |-> Struck(b, r)]
           U == UNION { S[b] : b \in B }
           g == [x \in U |-> x.weight]
           h == [b \in B |-> b.weight]
<1>1. React(B, r) = U
  BY DEF React
<1>2. /\ IsFiniteSet(B) /\ \A b \in B : IsSound(b, k, Mass * share, ap)
      /\ \A b, c \in B : b.trail = c.trail => b = c
      /\ Total(B) = Unit
  BY DEF IsWhole
<1>3. ASSUME NEW b \in B
      PROVE  /\ IsFiniteSet(Struck(b, r))
             /\ \A x \in Struck(b, r) : IsSound(x, k + 1, share, ap)
             /\ \A x \in Struck(b, r) :
                   \/ Dead(b) /\ x = b /\ Len(x.trail) <= k
                   \/ /\ ~Dead(b) /\ Len(x.trail) = k + 1
                      /\ \E o \in AttackBranches(b.actor, r.hit) : x = After(b, r, o)
  <2>1. IsSound(b, k, Mass * share, ap)
    BY <1>2
  <2>2. CASE Dead(b)
    <3>1. Struck(b, r) = {b} /\ IsSound(b, k + 1, share, ap)
      BY <2>1, <2>2, DeadStay
    <3>2. IsFiniteSet({b})
      BY FS_Singleton
    <3>3. Len(b.trail) <= k
      BY <2>1 DEF IsSound
    <3> QED BY <2>2, <3>1, <3>2, <3>3
  <2>3. CASE ~Dead(b)
    <3> DEFINE A == AttackBranches(b.actor, r.hit)
               f == [o \in A |-> After(b, r, o)]
    <3>1. Struck(b, r) = { f[o] : o \in A }
      BY <2>3, StruckIs
    <3>2. IsTarget(b.actor)
      BY <2>1, BranchIsTarget DEF IsSound
    <3>3. IsFiniteSet(A)
      BY <3>2, AttackIs
    <3>4. \A o \in A : f[o] = After(b, r, o)
      OBVIOUS
    <3>5. ASSUME NEW o \in A
          PROVE  IsSound(After(b, r, o), k + 1, share, ap) /\ Len(After(b, r, o).trail) = k + 1
      BY <2>1, <2>3, AliveAreStruck
    <3> HIDE DEF A, f
    <3>6. IsFiniteSet(Struck(b, r))
      BY <3>1, <3>3, ImageIsFinite
    <3>7. ASSUME NEW x \in Struck(b, r) PROVE \E o \in A : x = After(b, r, o)
      BY <3>1, <3>4
    <3>8. ASSUME NEW x \in Struck(b, r)
          PROVE  /\ IsSound(x, k + 1, share, ap) /\ Len(x.trail) = k + 1
                 /\ \E o \in A : x = After(b, r, o)
      BY <3>5, <3>7
    <3> QED BY <2>3, <3>6, <3>8 DEF A
  <2> QED BY <2>2, <2>3
<1>4. ASSUME NEW b \in B, NEW c \in B, NEW x \in Struck(b, r), NEW y \in Struck(c, r),
             x.trail = y.trail
      PROVE  b = c /\ x = y
  <2>1. CASE Dead(b)
    <3>1. x = b /\ Len(y.trail) <= k
      BY <1>3, <1>4, <2>1
    <3>2. Len(y.trail) # k + 1
      BY <3>1
    <3>3. Dead(c) /\ y = c
      BY <1>3, <3>2
    <3> QED BY <1>2, <1>4, <3>1, <3>3
  <2>2. CASE Dead(c)
    <3>1. y = c /\ Len(x.trail) <= k
      BY <1>3, <1>4, <2>2
    <3>2. Len(x.trail) # k + 1
      BY <3>1
    <3>3. Dead(b) /\ x = b
      BY <1>3, <3>2
    <3> QED BY <1>2, <1>4, <3>1, <3>3
  <2>3. CASE ~Dead(b) /\ ~Dead(c)
    <3>1. PICK o \in AttackBranches(b.actor, r.hit) : x = After(b, r, o)
      BY <1>3, <2>3
    <3>2. PICK u \in AttackBranches(c.actor, r.hit) : y = After(c, r, u)
      BY <1>3, <2>3
    <3>3. After(b, r, o).trail = After(c, r, u).trail
      BY <1>4, <3>1, <3>2
    <3>4. /\ IsSound(b, k, Mass * share, ap) /\ IsSound(c, k, Mass * share, ap)
          /\ (b.trail = c.trail => b = c)
      BY <1>2
    <3>5. b = c /\ o = u
      BY <2>3, <3>3, <3>4, BlowsTell
    <3> QED BY <3>1, <3>2, <3>5
  <2> QED BY <2>1, <2>2, <2>3
<1>5. \A b \in B : S[b] = Struck(b, r)
  OBVIOUS
<1>6. \A x \in U : \E b \in B : x \in Struck(b, r)
  OBVIOUS
<1>7. \A b \in B : \A x \in Struck(b, r) : x \in U
  OBVIOUS
<1>8. \A x \in U : g[x] = x.weight
  OBVIOUS
<1>9. \A b \in B : h[b] = b.weight
  OBVIOUS
<1>10. Total(B) = SumOver(B, h)
  BY TotalIs
<1>11. Total(U) = SumOver(U, g)
  BY TotalIs
<1> HIDE DEF g, h
<1>12. IsFiniteSet(U)
  <2> HIDE DEF S
  <2>1. IsFiniteSet({ S[b] : b \in B })
    BY <1>2, ImageIsFinite
  <2>2. \A T \in { S[b] : b \in B } : IsFiniteSet(T)
    BY <1>3, <1>5
  <2> QED BY <2>1, <2>2, FS_UNION
<1>13. SumOver(U, g) = SumOver(B, h)
  <2>1. \A b \in B : IsFiniteSet(S[b])
    BY <1>3, <1>5
  <2>2. \A b, c \in B : b # c => S[b] \cap S[c] = {}
    BY <1>4, <1>5
  <2>3. \A b \in B : \A z \in S[b] : g[z] \in Int
    <3>1. ASSUME NEW b \in B, NEW z \in Struck(b, r) PROVE z.weight \in Int
      <4>1. IsBranch(z, share)
        BY <1>3 DEF IsSound
      <4> QED BY <4>1 DEF IsBranch
    <3> QED BY <1>5, <1>7, <1>8, <3>1
  <2>4. \A b \in B : h[b] = SumOver(S[b], g)
    <3> SUFFICES ASSUME NEW b \in B PROVE h[b] = SumOver(Struck(b, r), g)
      BY <1>5
    <3>1. \A x \in Struck(b, r) : g[x] = x.weight
      BY <1>7, <1>8
    <3>2. IsSound(b, k, Mass * share, ap)
      BY <1>2
    <3>3. SumOver(Struck(b, r), g) = b.weight
      BY <3>1, <3>2, StruckTotal
    <3> QED BY <1>9, <3>3
  <2> HIDE DEF S
  <2> QED BY <1>2, <2>1, <2>2, <2>3, <2>4, NestedSum
<1> HIDE DEF U, S
<1>14. \A x \in U : IsSound(x, k + 1, share, ap)
  BY <1>3, <1>6
<1>15. \A x, y \in U : x.trail = y.trail => x = y
  BY <1>4, <1>6
<1>16. IsWhole(U, k + 1, share, ap)
  BY <1>2, <1>10, <1>11, <1>12, <1>13, <1>14, <1>15 DEF IsWhole
<1> QED BY <1>1, <1>16
-----------------------------------------------------------------------------
(* Moves *)

\* The recursive function behind Share.
Sharing(n, f) == f = [i \in 0..n |-> IF i = 0 THEN Unit ELSE f[i - 1] \div Mass]

\* Shares can be computed in order.
LEMMA SharingExists == \A n \in Nat : \E f : Sharing(n, f)
<1> DEFINE S == { n \in Nat : \E f : Sharing(n, f) }
<1>1. 0 \in S
  <2> DEFINE f == [i \in 0..0 |-> Unit]
  <2>1. \A i \in 0..0 : i = 0
    OBVIOUS
  <2>2. f = [i \in 0..0 |-> IF i = 0 THEN Unit ELSE f[i - 1] \div Mass]
    BY <2>1
  <2>3. Sharing(0, f)
    BY <2>2 DEF Sharing
  <2> HIDE DEF f
  <2> QED BY <2>3
<1>2. ASSUME NEW n \in S PROVE n + 1 \in S
  <2>1. PICK f : Sharing(n, f)
    OBVIOUS
  <2> DEFINE g == [i \in 0..(n + 1) |-> IF i = n + 1 THEN f[n] \div Mass ELSE f[i]]
  <2>2. \A i \in 0..n : f[i] = IF i = 0 THEN Unit ELSE f[i - 1] \div Mass
    BY <2>1, Zenon DEF Sharing
  <2>3. ASSUME NEW i \in 0..(n + 1)
        PROVE  g[i] = IF i = 0 THEN Unit ELSE g[i - 1] \div Mass
    <3>1. CASE i = n + 1
      <4>1. i # 0 /\ i - 1 = n /\ n \in 0..(n + 1) /\ n # n + 1
        BY <3>1
      <4> QED BY <3>1, <4>1
    <3>2. CASE i # n + 1 /\ i # 0
      <4>1. i \in 0..n /\ i - 1 \in 0..(n + 1) /\ i - 1 # n + 1
        BY <3>2
      <4>2. g[i] = f[i] /\ g[i - 1] = f[i - 1]
        BY <3>2, <4>1
      <4> HIDE DEF g
      <4> QED BY <2>2, <3>2, <4>1, <4>2
    <3>3. CASE i = 0
      <4>1. i \in 0..n /\ i # n + 1
        BY <3>3
      <4>2. g[i] = f[i]
        BY <4>1
      <4> QED BY <2>2, <3>3, <4>1, <4>2
    <3> QED BY <3>1, <3>2, <3>3
  <2>4. g = [i \in 0..(n + 1) |-> IF i = 0 THEN Unit ELSE g[i - 1] \div Mass]
    BY <2>3
  <2>5. Sharing(n + 1, g)
    BY <2>4 DEF Sharing
  <2> HIDE DEF g
  <2> QED BY <2>5
<1> HIDE DEF S
<1>3. S = Nat
  BY <1>1, <1>2, SetInduction DEF S
<1> QED BY <1>3 DEF S

\* They are whole numbers.
LEMMA ShareIs ==
    ASSUME NEW n \in Nat
    PROVE  Share(n)[0] = Unit /\ \A i \in 0..n : Share(n)[i] \in Nat
<1>1. Share(n) = CHOOSE f : Sharing(n, f)
  BY Zenon DEF Share, Sharing
<1>2. Sharing(n, Share(n))
  BY <1>1, SharingExists
<1>3. \A i \in 0..n : Share(n)[i] = IF i = 0 THEN Unit ELSE Share(n)[i - 1] \div Mass
  BY <1>2, Zenon DEF Sharing
<1> DEFINE f == Share(n)
           K == { k \in Nat : k <= n => f[k] \in Nat }
<1> HIDE DEF f
<1>4. f[0] = Unit
  BY <1>3 DEF f
<1>5. 0 \in K
  BY <1>4, RollsAre
<1>6. ASSUME NEW k \in K PROVE k + 1 \in K
  <2> SUFFICES ASSUME k + 1 <= n PROVE f[k + 1] \in Nat
    OBVIOUS
  <2>1. k \in Nat /\ f[k] \in Nat
    OBVIOUS
  <2>2. k + 1 \in 0..n /\ k + 1 # 0 /\ (k + 1) - 1 = k
    BY <2>1
  <2>3. f[k + 1] = f[k] \div Mass
    BY <1>3, <2>2 DEF f
  <2>4. PICK w \in Nat, u \in Nat : w = Mass /\ w > 0 /\ u = f[k]
    BY <2>1, RollsAre
  <2>5. u \div w \in Nat
    BY <2>4
  <2> QED BY <2>3, <2>4, <2>5
<1> HIDE DEF K
<1>7. K = Nat
  BY <1>5, <1>6, SetInduction DEF K
<1>8. \A i \in 0..n : i \in K /\ i <= n
  BY <1>7
<1>9. \A i \in 0..n : f[i] \in Nat
  BY <1>8 DEF K
<1> QED BY <1>4, <1>9 DEF f

\* Certainty divides evenly among the reactions to the action.
Divided(action) ==
    /\ action.reactions \in Seq(Reaction)
    /\ LET share == Share(Len(action.reactions))
       IN \A i \in 1..Len(action.reactions) : share[i - 1] = Mass * share[i]

\* Paying leaves a fighter.
LEMMA PaidIs ==
    ASSUME NEW a, IsFighter(a), NEW action, action.ap \in Nat, action.fatigue \in Nat
    PROVE  /\ IsFighter(Paid(a, action)) /\ Paid(a, action).ap = a.ap - action.ap
           /\ Paid(a, action).hp = a.hp
<1>1. PICK items : a \in [hp: Nat, head: Nat, body: Nat, ap: Int, fatigue: Int,
                          capacity: Int, waited: BOOLEAN, mayWait: BOOLEAN, plain: BOOLEAN, slots: {items}]
  BY DEF IsFighter
<1>2. PICK m \in Int, n \in Int : m = a.ap - action.ap /\ n = a.fatigue + action.fatigue
  BY <1>1
<1>3. PICK x : x = Paid(a, action)
  OBVIOUS
<1>4. x = [a EXCEPT !.ap = m, !.fatigue = n]
  BY <1>2, <1>3 DEF Paid
<1>5. /\ x \in [hp: Nat, head: Nat, body: Nat, ap: Int, fatigue: Int,
                capacity: Int, waited: BOOLEAN, mayWait: BOOLEAN, plain: BOOLEAN, slots: {items}]
      /\ x.ap = m /\ x.hp = a.hp
  BY <1>1, <1>4
<1>6. IsFighter(x)
  BY <1>5 DEF IsFighter
<1> QED BY <1>2, <1>3, <1>5, <1>6

\* One sure branch has all of the weight.
LEMMA AloneIs ==
    ASSUME NEW a, IsFighter(a)
    PROVE  IsBranch(Alone(a), Unit) /\ Alone(a).weight = Unit
<1>1. PICK u \in Nat : u = Unit /\ u > 0
  BY RollsAre
<1>2. PICK x : x = Alone(a)
  OBVIOUS
<1>3. x = [weight |-> u, actor |-> a, stopped |-> FALSE, ended |-> FALSE, trail |-> <<>>]
  BY <1>1, <1>2 DEF Alone
<1>4. x \in [weight: Nat, actor: {a}, stopped: BOOLEAN, ended: BOOLEAN, trail: {<<>>}]
      /\ x.actor = a /\ x.weight = u
  BY <1>3
<1>5. 1 \in Nat /\ 1 > 0 /\ x.weight = 1 * Unit
  BY <1>1, <1>4
<1>6. IsBranch(x, Unit)
  <2>1. \E m \in Nat : m > 0 /\ x.weight = m * Unit
    BY <1>5
  <2>2. \E trail : x \in [weight: Nat, actor: {x.actor}, stopped: BOOLEAN, ended: BOOLEAN,
                          trail: {trail}]
    BY <1>4
  <2> QED BY <1>4, <2>1, <2>2 DEF IsBranch
<1> QED BY <1>1, <1>2, <1>4, <1>6

\* Before anyone reacts.
LEMMA StartIsWhole ==
    ASSUME NEW a, IsFighter(a), a.hp > 0
    PROVE  IsWhole({Alone(a)}, 0, Unit, a.ap)
<1> DEFINE b == Alone(a)
<1>1. IsBranch(b, Unit) /\ b.weight = Unit
  BY AloneIs
<1>2. b.actor = a /\ b.stopped = FALSE /\ b.ended = FALSE /\ b.trail = <<>>
  BY DEF Alone
<1>3. ~Dead(b)
  <2>1. a.hp # 0
    BY DEF IsFighter
  <2> QED BY <1>2, <2>1 DEF Dead
<1> HIDE DEF b
<1>4. IsSound(b, 0, Unit, a.ap)
  <2>1. <<>> \in Seq(Blow) /\ Len(<<>>) = 0 /\ DOMAIN <<>> = {}
    OBVIOUS
  <2> QED BY <1>1, <1>2, <1>3, <2>1 DEF IsSound
<1>5. Total({b}) = Unit
  <2> DEFINE g == [x \in {b} |-> x.weight]
  <2>1. g[b] = Unit /\ Unit \in Int
    BY <1>1, RollsAre
  <2>2. Total({b}) = SumOver({b}, g)
    BY TotalIs
  <2> HIDE DEF g
  <2> QED BY <2>1, <2>2, SingleSum
<1>6. IsFiniteSet({b})
  BY FS_Singleton
<1>7. IsWhole({b}, 0, Unit, a.ap)
  BY <1>4, <1>5, <1>6 DEF IsWhole
<1> QED BY <1>7 DEF b

\* A move's branches, after all the reactions.
LEMMA MovedIs ==
    ASSUME NEW a, IsFighter(a), a.hp > 0,
           NEW action, action.ap \in Nat, action.fatigue \in Nat, Divided(action),
           \A i \in DOMAIN action.reactions : action.reactions[i].hit \in 1..19
    PROVE  LET n == Len(action.reactions)
           IN  /\ IsWhole(Moved(a, action), n, Share(n)[n], a.ap - action.ap)
               /\ Share(n)[n] > 0
<1> DEFINE s == action.reactions
           n == Len(s)
           m == {Alone(Paid(a, action))}
           share == Share(n)
           ap == a.ap - action.ap
<1>1. /\ s \in Seq(Reaction) /\ n \in Nat /\ DOMAIN s = 1..n
      /\ \A i \in 1..n : s[i] \in Reaction /\ s[i].hit \in 1..19
      /\ \A i \in 1..n : share[i - 1] = Mass * share[i]
  <2>1. s \in Seq(Reaction)
    BY DEF Divided
  <2>2. \A i \in 1..n : share[i - 1] = Mass * share[i]
    BY Zenon DEF Divided
  <2>3. \A i \in DOMAIN s : s[i].hit \in 1..19
    OBVIOUS
  <2> HIDE DEF s, share
  <2>4. n \in Nat /\ DOMAIN s = 1..n /\ \A i \in 1..n : s[i] \in Reaction
    <3>1. PICK R : R = Reaction
      OBVIOUS
    <3>2. s \in Seq(R)
      BY <2>1, <3>1
    <3>3. n \in Nat /\ DOMAIN s = 1..n /\ \A i \in 1..n : s[i] \in R
      BY <3>2
    <3> QED BY <3>1, <3>3
  <2> QED BY <2>1, <2>2, <2>3, <2>4
<1>2. share[0] = Unit /\ \A i \in 0..n : share[i] \in Nat
  BY <1>1, ShareIs
<1>3. IsWhole(m, 0, Unit, ap)
  <2>1. /\ IsFighter(Paid(a, action)) /\ Paid(a, action).ap = ap /\ Paid(a, action).hp > 0
    BY PaidIs
  <2>2. IsWhole({Alone(Paid(a, action))}, 0, Unit, Paid(a, action).ap)
    BY <2>1, StartIsWhole
  <2> QED BY <2>1, <2>2
<1>4. Moved(a, action) = FoldLeft(React, m, s)
  BY DEF Moved
<1> HIDE DEF m, share, ap, s
<1>5. PICK it : Folding(m, s, Len(s), it) /\ FoldLeft(React, m, s) = it[1..Len(s)]
  BY <1>1, FoldIsFolding
<1>6. Stepwise(m, s, n, it)
  BY <1>1, <1>5, FoldingStep
<1> HIDE DEF n
<1> DEFINE K == { k \in Nat : k <= n => IsWhole(it[1..k], k, share[k], ap) /\ share[k] > 0 }
<1>7. 0 \in K
  <2>1. it[1..0] = m
    BY <1>6 DEF Stepwise
  <2> QED BY <1>2, <1>3, <2>1, RollsAre
<1>8. ASSUME NEW k \in K PROVE k + 1 \in K
  <2> SUFFICES ASSUME k + 1 <= n 
         PROVE  IsWhole(it[1..(k + 1)], k + 1, share[k + 1], ap) /\ share[k + 1] > 0
    OBVIOUS
  <2>0. k \in Nat
    OBVIOUS
  <2>1. k \in 0..n /\ k < n /\ k + 1 \in 1..n /\ k + 1 \in 0..n /\ (k + 1) - 1 = k /\ k <= n
    BY <1>1, <2>0
  <2>2. IsWhole(it[1..k], k, share[k], ap) /\ share[k] > 0
    BY <2>1
  <2>3. it[1..(k + 1)] = React(it[1..k], s[k + 1])
    BY <1>6, <2>1 DEF Stepwise
  <2>4. PICK u \in Nat : u = share[k + 1] /\ share[k] = Mass * u
    <3>1. share[k + 1] \in Nat
      BY <1>2, <2>1
    <3>2. share[(k + 1) - 1] = Mass * share[k + 1]
      BY <1>1, <2>1 DEF n
    <3> QED BY <2>1, <3>1, <3>2
  <2>5. PICK r \in Reaction : r = s[k + 1] /\ r.hit \in 1..19
    BY <1>1, <2>1 DEF n
  <2>6. IsWhole(React(it[1..k], r), k + 1, u, ap)
    BY <2>0, <2>2, <2>4, <2>5, ReactionKeeps
  <2>7. u > 0
    <3>1. u = 0 => Mass * u = 0
      BY RollsAre
    <3> QED BY <2>2, <2>4, <3>1
  <2> QED BY <2>3, <2>4, <2>5, <2>6, <2>7
<1> HIDE DEF K
<1>9. K = Nat
  BY <1>7, <1>8, SetInduction DEF K
<1>10. n \in K /\ n \in Nat
  BY <1>1, <1>9 DEF n
<1>11. n <= n
  BY <1>10
<1>12. IsWhole(it[1..n], n, share[n], ap) /\ share[n] > 0
  BY <1>10, <1>11 DEF K
<1>13. Moved(a, action) = it[1..n]
  BY <1>4, <1>5 DEF n
<1> QED BY <1>12, <1>13 DEF n, share, ap, s
-----------------------------------------------------------------------------
(* The branches of a candidate *)

\* What the measures need of a branch.
IsPossible(b) ==
    /\ b.weight \in Nat /\ b.weight > 0 /\ IsFighter(b.actor)
    /\ b.stopped \in BOOLEAN /\ b.ended \in BOOLEAN

\* A branch of a positive share is possible.
LEMMA PossibleIs ==
    ASSUME NEW b, NEW share \in Nat, share > 0, IsBranch(b, share)
    PROVE  IsPossible(b)
<1>1. PICK m \in Nat : m > 0 /\ b.weight = m * share
  BY DEF IsBranch
<1>2. m * share \in Nat /\ m * share > 0
  BY <1>1
<1> QED BY <1>1, <1>2 DEF IsBranch, IsPossible

\* A command's own effect leaves a fighter with its action points.
LEMMA EffectIs ==
    ASSUME NEW a, IsFighter(a), NEW action
    PROVE  IsFighter(Effect(a, action)) /\ Effect(a, action).ap = a.ap
<1>1. PICK items : a \in [hp: Nat, head: Nat, body: Nat, ap: Int, fatigue: Int,
                          capacity: Int, waited: BOOLEAN, mayWait: BOOLEAN, plain: BOOLEAN, slots: {items}]
  BY DEF IsFighter
<1> DEFINE items2 == [s \in DOMAIN a.slots |->
                        CASE s = action.item -> action.slot
                          [] s # action.item /\ s = action.displaced -> action.to
                          [] OTHER -> a.slots[s]]
<1>2. \/ Effect(a, action) = [a EXCEPT !.waited = TRUE, !.mayWait = FALSE]
      \/ Effect(a, action) = [a EXCEPT !.fatigue = (a.fatigue + 1) \div 2]
      \/ Effect(a, action) = [a EXCEPT !.slots = items2]
      \/ Effect(a, action) = a
  <2>1. CASE action.kind = "WAIT"
    BY <2>1 DEF Effect
  <2>2. CASE action.kind # "WAIT" /\ action.skill = "actives.recover"
    BY <2>2 DEF Effect
  <2>3. CASE action.kind = "EQUIP_ITEM" /\ action.skill # "actives.recover"
    BY <2>3 DEF Effect
  <2>4. CASE /\ action.kind # "WAIT" /\ action.skill # "actives.recover"
             /\ action.kind # "EQUIP_ITEM"
    BY <2>4 DEF Effect
  <2> QED BY <2>1, <2>2, <2>3, <2>4
<1> HIDE DEF items2
<1>3. PICK x : x = Effect(a, action)
  OBVIOUS
<1>4. CASE x = [a EXCEPT !.waited = TRUE, !.mayWait = FALSE]
  <2>1. x \in [hp: Nat, head: Nat, body: Nat, ap: Int, fatigue: Int,
               capacity: Int, waited: BOOLEAN, mayWait: BOOLEAN, plain: BOOLEAN, slots: {items}]
        /\ x.ap = a.ap
    BY <1>1, <1>4
  <2> QED BY <1>3, <2>1 DEF IsFighter
<1>5. CASE x = [a EXCEPT !.fatigue = (a.fatigue + 1) \div 2]
  <2>1. PICK n \in Int : n = (a.fatigue + 1) \div 2
    <3>1. PICK f \in Int : f = a.fatigue
      BY <1>1
    <3>2. (f + 1) \div 2 \in Int
      OBVIOUS
    <3> QED BY <3>1, <3>2
  <2>2. x \in [hp: Nat, head: Nat, body: Nat, ap: Int, fatigue: Int,
               capacity: Int, waited: BOOLEAN, mayWait: BOOLEAN, plain: BOOLEAN, slots: {items}]
        /\ x.ap = a.ap
    BY <1>1, <1>5, <2>1
  <2> QED BY <1>3, <2>2 DEF IsFighter
<1>6. CASE x = [a EXCEPT !.slots = items2]
  <2>1. x \in [hp: Nat, head: Nat, body: Nat, ap: Int, fatigue: Int,
               capacity: Int, waited: BOOLEAN, mayWait: BOOLEAN, plain: BOOLEAN, slots: {items2}]
        /\ x.ap = a.ap
    BY <1>1, <1>6
  <2> QED BY <1>3, <2>1 DEF IsFighter
<1>7. CASE x = a
  BY <1>3, <1>7
<1> QED BY <1>2, <1>3, <1>4, <1>5, <1>6, <1>7

\* _simple: one branch that is possible.
LEMMA SimpleIs ==
    ASSUME NEW a, IsFighter(a), NEW action, action.ap \in Nat, action.fatigue \in Nat
    PROVE  IsFiniteSet(Simple(a, action)) /\ \A b \in Simple(a, action) : IsPossible(b)
<1>1. PICK x : x = Effect(Paid(a, action), action) /\ IsFighter(x)
  BY PaidIs, EffectIs
<1>2. PICK b : b = Alone(x)
  OBVIOUS
<1>3. IsBranch(b, Unit)
  BY <1>1, <1>2, AloneIs
<1>4. PICK c : c = [b EXCEPT !.ended = action.kind = "END_TURN"]
  OBVIOUS
<1>5. Simple(a, action) = {c}
  BY <1>1, <1>2, <1>4 DEF Simple
<1>6. IsPossible(b)
  BY <1>3, PossibleIs, RollsAre
<1>7. PICK trail : b \in [weight: Nat, actor: {b.actor}, stopped: BOOLEAN, ended: BOOLEAN,
                          trail: {trail}]
  BY <1>3 DEF IsBranch
<1>8. c.weight = b.weight /\ c.actor = b.actor /\ c.stopped = b.stopped /\ c.ended \in BOOLEAN
  BY <1>4, <1>7
<1>9. IsPossible(c)
  BY <1>6, <1>8 DEF IsPossible
<1> QED BY <1>5, <1>9, FS_Singleton

\* The branches of a candidate: an attack leaves the actor where it is.
Branches(a, action) ==
    IF IsAttack(action) THEN {Alone(Paid(a, action))} ELSE Transition(a, action)

\* A move that can be evaluated has only reactions that can be.
LEMMA ReactionsAreJudged ==
    ASSUME NEW a, NEW action, action.reactions \in Seq(Reaction), NEW supported,
           MoveStatus(a, action, supported) = OK
    PROVE  \A i \in DOMAIN action.reactions :
              /\ ReactionStatus(a, action.reactions[i], supported) = OK
              /\ action.reactions[i].hit \in 1..19
<1> DEFINE status(i) == ReactionStatus(a, action.reactions[i], supported)
<1>1. PICK refused : /\ refused = Refused(a, action, supported)
                     /\ refused = { i \in DOMAIN action.reactions : status(i) # OK }
  BY DEF Refused
<1>2. refused \in SUBSET Int /\ IsFiniteSet(refused)
  <2>1. PICK n \in Nat : DOMAIN action.reactions = 1..n
    <3>1. PICK R : R = Reaction
      OBVIOUS
    <3>2. action.reactions \in Seq(R)
      BY <3>1
    <3> QED BY <3>2
  <2>2. IsFiniteSet(1..n)
    BY FS_Interval
  <2>3. refused \subseteq 1..n
    BY <1>1, <2>1
  <2>4. refused \in SUBSET Int
    BY <2>3
  <2> QED BY <2>2, <2>3, <2>4, FS_Subset
<1>3. refused = {}
  <2>1. ASSUME refused # {}
        PROVE  FALSE
    <3>1. Min(refused) \in refused
      BY <1>2, <2>1, MinIsLeast
    <3>2. status(Min(refused)) # OK
      BY <1>1, <3>1
    <3>3. status(Min(refused)) = OK
      BY <1>1, <2>1 DEF MoveStatus, OK, Unsupported, Invalid
    <3> QED BY <3>2, <3>3
  <2> QED BY <2>1
<1>4. \A i \in DOMAIN action.reactions : status(i) = OK
  BY <1>1, <1>3
<1>5. ASSUME NEW i \in DOMAIN action.reactions
      PROVE  action.reactions[i].hit \in 1..19
  <2>1. status(i) = OK
    BY <1>4
  <2> QED BY <2>1 DEF ReactionStatus, OK, Unsupported
<1> QED BY <1>4, <1>5

\* A candidate that can be evaluated has finitely many branches, each possible.
LEMMA BranchesAre ==
    ASSUME NEW a, IsFighter(a), a.hp > 0, NEW action, IsAction(action),
           NEW values, NEW supported, Status(a, action, values, supported) = OK
    PROVE  /\ IsFiniteSet(Branches(a, action))
           /\ \A b \in Branches(a, action) : IsPossible(b)
<1>1. action.ap \in Nat /\ action.fatigue \in Nat /\ Divided(action)
  BY DEF IsAction, Divided
<1>2. CASE IsAttack(action)
  <2>1. IsFighter(Paid(a, action))
    BY <1>1, PaidIs
  <2>2. IsPossible(Alone(Paid(a, action)))
    BY <2>1, AloneIs, PossibleIs, RollsAre
  <2> QED BY <1>2, <2>2, FS_Singleton DEF Branches
<1>3. CASE ~IsAttack(action) /\ action.kind = "MOVE_TO"
  <2>1. \A i \in DOMAIN action.reactions : action.reactions[i].hit \in 1..19
    <3>1. MoveStatus(a, action, supported) = OK
      BY <1>3 DEF Status
    <3> QED BY <3>1, ReactionsAreJudged DEF IsAction
  <2>2. PICK n \in Nat : n = Len(action.reactions)
    BY <1>1 DEF Divided
  <2>3. PICK share \in Nat : share = Share(n)[n] /\ share > 0
           /\ IsWhole(Moved(a, action), n, share, a.ap - action.ap)
    <3>1. Share(n)[n] \in Nat
      BY <2>2, ShareIs
    <3> QED BY <1>1, <2>1, <2>2, <3>1, MovedIs
  <2>4. Branches(a, action) = Moved(a, action)
    BY <1>3 DEF Branches, Transition
  <2>5. ASSUME NEW b \in Moved(a, action)
        PROVE  IsPossible(b)
    BY <2>3, PossibleIs DEF IsWhole, IsSound
  <2> QED BY <2>3, <2>4, <2>5 DEF IsWhole
<1>4. CASE ~IsAttack(action) /\ action.kind # "MOVE_TO"
  BY <1>1, <1>4, SimpleIs DEF Branches, Transition
<1> QED BY <1>2, <1>3, <1>4

\* The weights of some branches add up to a number, positive if there are any.
LEMMA TotalCounts ==
    ASSUME NEW B, IsFiniteSet(B), \A b \in B : b.weight \in Int /\ b.weight > 0
    PROVE  Total(B) \in Int /\ (B # {} => Total(B) > 0)
<1>1. PICK g : g = [b \in B |-> b.weight]
  OBVIOUS
<1>2. DOMAIN g = B /\ \A b \in B : g[b] \in Int /\ g[b] > 0
  BY <1>1
<1>3. SumFunction(g) \in Int /\ (B # {} => SumFunction(g) > 0)
  BY <1>2, SumFacts
<1> QED BY <1>1, <1>3 DEF Total

\* Where the actor may stand afterwards
IsStanding(b) ==
    /\ b.tile \in Tiles /\ b.weight \in Int /\ b.weight > 0 /\ IsFighter(b.actor)

\* Having paid, a fighter is still one.
LEMMA Relocated ==
    ASSUME NEW a, IsFighter(a), NEW n \in Int, NEW m \in Int
    PROVE  IsFighter([a EXCEPT !.ap = n, !.fatigue = m])
BY DEF IsFighter

\* The numbers of a fighter.
LEMMA FighterIs ==
    ASSUME NEW a, IsFighter(a)
    PROVE  /\ a.hp \in Nat /\ a.ap \in Int /\ a.fatigue \in Int /\ a.capacity \in Int
           /\ a.waited \in BOOLEAN /\ a.mayWait \in BOOLEAN
BY DEF IsFighter

\* _posture_branches: finitely many places, each on the map and with some weight.
LEMMA PostureIs ==
    ASSUME NEW a, IsFighter(a), NEW action, origin \in Tiles,
           action.kind = "MOVE_TO" => action.path \in Seq(Tiles) /\ action.path # <<>>,
           NEW B, IsFiniteSet(B), \A b \in B : IsPossible(b)
    PROVE  /\ IsFiniteSet(Posture(a, action, B))
           /\ \A b \in Posture(a, action, B) : IsStanding(b)
<1> DEFINE alive == { b \in B : ~Dead(b) }
           tile0(b) == IF action.kind = "MOVE_TO" /\ Completed(b)
                       THEN action.path[Len(action.path)] ELSE origin
           place(b) == <<tile0(b), b.actor.ap, b.actor.fatigue>>
           places == { place(b) : b \in alive }
           stand(p) == [tile |-> p[1], actor |-> [a EXCEPT !.ap = p[2], !.fatigue = p[3]],
                        weight |-> Total({ b \in alive : place(b) = p })]
           at0 == [b \in alive |-> place(b)]
           st == [p \in places |-> stand(p)]
<1>1. Posture(a, action, B) = { stand(p) : p \in places }
  BY Zenon DEF Posture
<1>2. IsFiniteSet(alive)
  BY FS_Subset
<1>3. places = { at0[b] : b \in alive }
  OBVIOUS
<1>4. IsFiniteSet(places)
  <2> HIDE DEF alive, at0, places
  <2> QED BY <1>2, <1>3, ImageIsFinite
<1>5. { stand(p) : p \in places } = { st[p] : p \in places }
  <2> HIDE DEF alive, places, place
  <2> QED OBVIOUS
<1>6. IsFiniteSet({ st[p] : p \in places })
  <2> HIDE DEF places, st
  <2> QED BY <1>4, ImageIsFinite
<1>7. ASSUME NEW p \in places
      PROVE  IsStanding(stand(p))
  <2>1. PICK b \in alive : p = place(b)
    OBVIOUS
  <2>2. p[1] = tile0(b) /\ p[2] = b.actor.ap /\ p[3] = b.actor.fatigue
    BY <2>1
  <2>3. tile0(b) \in Tiles
    <3>1. CASE action.kind = "MOVE_TO" /\ Completed(b)
      <4>1. PICK q \in Seq(Tiles) : q = action.path /\ q # <<>>
        BY <3>1
      <4>2. q[Len(q)] \in Tiles
        BY <4>1
      <4> QED BY <3>1, <4>1, <4>2
    <3>2. CASE ~(action.kind = "MOVE_TO" /\ Completed(b))
      BY <3>2
    <3> QED BY <3>1, <3>2
  <2>4. b.actor.ap \in Int /\ b.actor.fatigue \in Int
    <3>1. IsFighter(b.actor)
      BY DEF IsPossible
    <3> QED BY <3>1, FighterIs
  <2>5. IsFighter([a EXCEPT !.ap = p[2], !.fatigue = p[3]])
    BY <2>2, <2>4, Relocated
  <2>6. PICK here : here = { c \in alive : place(c) = p }
    OBVIOUS
  <2>7. here \subseteq alive /\ b \in here /\ IsFiniteSet(here)
    BY <1>2, <2>1, <2>6, FS_Subset
  <2>8. \A c \in here : c.weight \in Int /\ c.weight > 0
    BY <2>7 DEF IsPossible
  <2>9. Total(here) \in Int /\ Total(here) > 0
    <3>1. here # {}
      BY <2>7
    <3> HIDE DEF alive
    <3> QED BY <2>7, <2>8, <3>1, TotalCounts
  <2>10. stand(p).tile = p[1] /\ stand(p).weight = Total(here)
         /\ stand(p).actor = [a EXCEPT !.ap = p[2], !.fatigue = p[3]]
    BY <2>6
  <2> HIDE DEF stand, tile0, place
  <2> QED BY <2>2, <2>3, <2>5, <2>9, <2>10 DEF IsStanding
<1> HIDE DEF stand, st, places
<1> QED BY <1>1, <1>5, <1>6, <1>7

-----------------------------------------------------------------------------
(* Measures *)

\* Measuring every branch gives a measure.
LEMMA OverIs ==
    ASSUME NEW m, IsFiniteSet(DOMAIN m),
           \A b \in DOMAIN m : b.weight \in Int /\ b.weight > 0 /\ IsMeasure(m[b])
    PROVE  IsMeasure(OverBranches(m))
<1> DEFINE f == [b \in DOMAIN m |-> [branch |-> b, weight |-> b.weight, range |-> m[b]]]
           M == { f[b] : b \in DOMAIN m }
<1>1. OverBranches(m) = Integrated(M)
  BY DEF OverBranches
<1>2. IsFiniteSet(M)
  <2> HIDE DEF f
  <2> QED BY ImageIsFinite
<1>3. \A x \in M : x.weight \in Int /\ x.weight > 0 /\ IsMeasure(x.range)
  OBVIOUS
<1> HIDE DEF M
<1> QED BY <1>1, <1>2, <1>3, IntegratedIs

\* A fact counts finitely much.
IsFact(f) == IsFiniteSet(f.sure) /\ IsFiniteSet(f.may)

\* So does counting a fact.
LEMMA CountedIs ==
    ASSUME NEW f, IsFact(f)
    PROVE  IsMeasure(Counted(f))
<1>1. PICK m \in Nat, n \in Nat : m = Cardinality(f.sure) /\ n = Cardinality(f.may)
  BY FS_CardinalityType DEF IsFact
<1>2. PICK x \in Int, y \in Int : x = m * Unit /\ y = n * Unit
  BY RollsAre
<1>3. Counted(f) = Range0(x, y)
  BY <1>1, <1>2 DEF Counted
<1> QED BY <1>3 DEF Range0, InViews, IsMeasure, Views

\* There are finitely many actors and tiles to count.
LEMMA FactsAre ==
    ASSUME NEW t \in Tiles, origin \in Tiles
    PROVE  /\ IsFact(AdjacentHostiles(t)) /\ IsFact(LowerHostiles(t))
           /\ IsFact(HigherHostiles(t)) /\ IsFact(SightedFrom(t))
           /\ IsFact(FlankedHostiles(t)) /\ IsFact(OpenTiles(t))
           /\ IsFact(ScreensGained(origin, t)) /\ IsFact(ScreensGained(t, origin))
<1>1. IsFiniteSet(Hostiles) /\ IsFiniteSet(Friends)
  BY FS_Subset, MapAssumption DEF Hostiles, Friends
<1>2. ASSUME NEW S, S \subseteq Hostiles
      PROVE  IsFiniteSet(S)
  BY <1>1, <1>2, FS_Subset
<1>3. IsFact(AdjacentHostiles(t))
  BY <1>2, Zenon DEF IsFact, AdjacentHostiles, Definite, Possible
<1>4. IsFact(LowerHostiles(t))
  BY <1>2, Zenon DEF IsFact, LowerHostiles, Definite, Possible
<1>5. IsFact(HigherHostiles(t))
  BY <1>2, Zenon DEF IsFact, HigherHostiles, Definite, Possible
<1>6. IsFact(SightedFrom(t))
  BY <1>2, Zenon DEF IsFact, SightedFrom, Definite, Possible
<1>7. IsFact(FlankedHostiles(t))
  BY <1>2, Zenon DEF IsFact, FlankedHostiles, Definite, Possible
<1>8. IsFact(OpenTiles(t))
  <2>1. OpenTiles(t).sure \subseteq Tiles /\ OpenTiles(t).may \subseteq Tiles
    BY MapAssumption DEF OpenTiles
  <2> QED BY <2>1, FS_Subset, MapAssumption DEF IsFact
<1>9. IsFiniteSet(Friends \X Hostiles)
  BY <1>1, FS_Product
<1>10. ASSUME NEW x, NEW y
       PROVE  IsFact(ScreensGained(x, y))
  <2>1. /\ ScreensGained(x, y).sure \subseteq Friends \X Hostiles
        /\ ScreensGained(x, y).may \subseteq Friends \X Hostiles
    BY DEF ScreensGained, Nothing, Minus, ScreenPairs
  <2> QED BY <1>9, <2>1, FS_Subset DEF IsFact
<1> QED BY <1>3, <1>4, <1>5, <1>6, <1>7, <1>8, <1>10

\* And finitely many templates.
LEMMA FeasibleIs ==
    ASSUME NEW offer0, IsFiniteSet(DOMAIN offer0), NEW a
    PROVE  /\ Feasible(offer0, a) \in Nat
           /\ IsFiniteSet(Templates(offer0)) /\ Cardinality(Templates(offer0)) \in Nat
<1> DEFINE D == { x \in DOMAIN offer0 : offer0[x].kind \notin {"WAIT", "END_TURN"} }
           f == [x \in D |-> <<offer0[x].kind, offer0[x].skill, offer0[x].ap,
                               offer0[x].fatigue, offer0[x].ammo>>]
<1>1. IsFiniteSet(D)
  BY FS_Subset
<1>2. Templates(offer0) = { f[x] : x \in D }
  BY DEF Templates
<1>3. IsFiniteSet({ f[x] : x \in D })
  <2> HIDE DEF D, f
  <2> QED BY <1>1, ImageIsFinite
<1>4. IsFiniteSet(Templates(offer0))
  BY <1>2, <1>3
<1>5. PICK S : S = { t \in Templates(offer0) :
                       a.ap >= t[3] /\ a.fatigue + t[4] <= a.capacity }
  OBVIOUS
<1>6. S \subseteq Templates(offer0) /\ Feasible(offer0, a) = Cardinality(S)
  BY <1>5 DEF Feasible
<1>7. IsFiniteSet(S)
  BY <1>4, <1>6, FS_Subset
<1> QED BY <1>4, <1>6, <1>7, FS_CardinalityType

\* What is known of a target's hit points: some, finitely many
IsKnown(S) == S \in SUBSET Nat /\ IsFiniteSet(S) /\ S # {}

\* What an attack does on average is a number.
LEMMA ExpectedIs ==
    ASSUME NEW action, action.target \in Others, action.hit \in 1..19,
           NEW n \in Nat, NEW e \in {"wounds", "torn", "kill"}
    PROVE  Expected(action, n, e) \in Int
<1>1. PICK t : t = [hp |-> n, head |-> Foe[action.target].head, body |-> Foe[action.target].body]
  OBVIOUS
<1>2. IsTarget(t)
  BY <1>1, ScaleAssumption DEF IsTarget
<1>3. PICK hit \in 1..19 : hit = action.hit
  OBVIOUS
<1>4. PICK B : B = AttackBranches(t, hit) /\ IsFiniteSet(B) /\ \A o \in B : IsOutcome(o)
  BY <1>2, AttackIs
<1>5. PICK g : g = [o \in B |-> o.weight * Effects(o, e)]
  OBVIOUS
<1>6. ASSUME NEW o \in B
      PROVE  g[o] \in Int
  <2>1. Effects(o, e) \in Int
    BY <1>4 DEF Effects, IsOutcome
  <2>2. o.weight \in Int
    BY <1>4 DEF IsOutcome
  <2>3. o.weight * Effects(o, e) \in Int
    BY <2>1, <2>2
  <2> QED BY <1>5, <2>3
<1>7. SumFunction(g) \in Int
  BY <1>4, <1>5, <1>6, SumFacts
<1>8. Expected(action, n, e) = (Unit \div Mass) * SumFunction(g)
  BY <1>1, <1>3, <1>4, <1>5, Zenon DEF Expected
<1>9. PICK x \in Int, y \in Int : x = Unit \div Mass /\ y = SumFunction(g)
  BY <1>7, RollsAre
<1>10. x * y \in Int
  OBVIOUS
<1> QED BY <1>8, <1>9, <1>10

\* _attack_metric gives a measure of a known target.
LEMMA AttackMetricIs ==
    ASSUME NEW action, action.target \in Others, action.hit \in 1..19,
           NEW values, IsKnown(values[action.target]), NEW e \in {"wounds", "torn", "kill"}
    PROVE  IsMeasure(AttackMetric(action, values, e))
<1>1. PICK S : S = values[action.target] /\ IsKnown(S)
  OBVIOUS
<1>2. PICK g : g = [n \in S |-> Expected(action, n, e)]
  OBVIOUS
<1>3. \A n \in S : g[n] \in Int
  BY <1>1, <1>2, ExpectedIs DEF IsKnown
<1>4. PICK E : E = { g[n] : n \in S } /\ IsFiniteSet(E)
  BY <1>1, ImageIsFinite DEF IsKnown
<1>5. E \in SUBSET Int /\ E # {}
  BY <1>1, <1>3, <1>4 DEF IsKnown
<1>6. PICK x \in Int, y \in Int : x = Min(E) /\ y = Max(E)
  BY <1>4, <1>5, MinIsLeast
<1>7. PICK z \in Int : z = SumFunction(g) \div Cardinality(S)
  <2>1. PICK u \in Int : u = SumFunction(g)
    BY <1>1, <1>2, <1>3, SumFacts DEF IsKnown
  <2>2. PICK c \in Nat : c = Cardinality(S) /\ c > 0
    <3>1. Cardinality(S) \in Nat /\ Cardinality(S) # 0
      BY <1>1, FS_CardinalityType, FS_EmptySet DEF IsKnown
    <3> QED BY <3>1
  <2>3. u \div c \in Int
    BY <2>2
  <2> QED BY <2>1, <2>2, <2>3
<1>8. E = { Expected(action, n, e) : n \in S }
  BY <1>2, <1>4
<1>9. AttackMetric(action, values, e) =
        IF action.target \in Weighted THEN Range0(z, z) ELSE Range0(x, y)
  BY <1>1, <1>2, <1>6, <1>7, <1>8, Zenon DEF AttackMetric
<1>10. IsMeasure(Range0(z, z)) /\ IsMeasure(Range0(x, y))
  BY DEF Range0, InViews, IsMeasure, Views
<1> QED BY <1>9, <1>10

\* A candidate that is evaluated
Evaluated(a, offer0, x, values) ==
    /\ IsFighter(a) /\ a.hp > 0 /\ origin \in Tiles
    /\ IsFiniteSet(DOMAIN offer0) /\ IsAction(offer0[x])
    /\ Status(a, offer0[x], values, engine.supported) = OK
    /\ IsAttack(offer0[x]) => IsKnown(values[offer0[x].target])

Counts(b) == b.weight \in Int /\ b.weight > 0

\* So is the pressure.
LEMMA PressureIs ==
    ASSUME NEW m, IsMeasure(m)
    PROVE  IsMeasure(Pressure(m))
BY DEF Pressure, InViews, IsMeasure, Views

\* A fact counted in every place.
LEMMA OverFact ==
    ASSUME NEW S, IsFiniteSet(S), \A b \in S : Counts(b),
           NEW f, \A b \in S : IsFact(f[b])
    PROVE  IsMeasure(OverBranches([b \in S |-> Counted(f[b])]))
<1>1. PICK m : m = [b \in S |-> Counted(f[b])]
  OBVIOUS
<1>2. IsFiniteSet(DOMAIN m) /\ \A b \in DOMAIN m : Counts(b) /\ IsMeasure(m[b])
  BY <1>1, CountedIs
<1>3. IsMeasure(OverBranches(m))
  BY <1>2, OverIs DEF Counts
<1> QED BY <1>1, <1>3

\* A number taken in every branch.
LEMMA OverNumber ==
    ASSUME NEW S, IsFiniteSet(S), \A b \in S : Counts(b),
           NEW n, \A b \in S : n[b] \in Int
    PROVE  IsMeasure(OverBranches([b \in S |-> Sure(n[b])]))
<1>1. PICK m : m = [b \in S |-> Sure(n[b])]
  OBVIOUS
<1>2. IsFiniteSet(DOMAIN m) /\ \A b \in DOMAIN m : Counts(b) /\ IsMeasure(m[b])
  BY <1>1, SureIs
<1>3. IsMeasure(OverBranches(m))
  BY <1>2, OverIs DEF Counts
<1> QED BY <1>1, <1>3

Metrics == {"hp_damage", "armor", "kill", "self_damage", "ally_damage", "stopped", "death",
            "adjacent", "zoc", "ranged", "climb", "over", "under", "created", "lost",
            "flanked", "open", "ap", "headroom", "feasible", "ammo", "charges", "waited",
            "may_wait", "ended"}

\* _build_features: every metric of an evaluated candidate is a measure.
LEMMA FeaturesAre ==
    ASSUME NEW a, NEW offer0, NEW x, NEW values, Evaluated(a, offer0, x, values)
    PROVE  \A m \in Metrics : IsMeasure(Features(a, offer0, x, values)[m])
<1>1. PICK action : action = offer0[x] /\ IsAction(action)
  BY DEF Evaluated
<1>2. PICK B : B = Branches(a, action)
  OBVIOUS
<1>3. IsFiniteSet(B) /\ \A b \in B : IsPossible(b)
  BY <1>1, <1>2, BranchesAre DEF Evaluated
<1>4. PICK S : S = Posture(a, action, B)
  OBVIOUS
<1>5. IsFiniteSet(S) /\ \A b \in S : IsStanding(b)
  <2>1. action.kind = "MOVE_TO" => action.path \in Seq(Tiles) /\ action.path # <<>>
    BY <1>1 DEF IsAction
  <2> QED BY <1>3, <1>4, <2>1, PostureIs DEF Evaluated
<1>6. /\ \A b \in B : Counts(b)
      /\ \A b \in S : Counts(b)
  BY <1>3, <1>5 DEF Counts, IsPossible, IsStanding
<1>7. \A b \in B : IsFighter(b.actor) /\ b.stopped \in BOOLEAN /\ b.ended \in BOOLEAN
  BY <1>3 DEF IsPossible
<1>8. \A b \in S : b.tile \in Tiles /\ IsFighter(b.actor)
  BY <1>5 DEF IsStanding
<1> DEFINE F == Features(a, offer0, x, values)
           flag(b) == IF b THEN 1 ELSE 0
<1>b. B = IF IsAttack(offer0[x]) THEN {Alone(Paid(a, offer0[x]))} ELSE Transition(a, offer0[x])
  BY <1>1, <1>2 DEF Branches
\* The facts of the places
<1>10. F.adjacent = OverBranches([b \in S |-> Counted(AdjacentHostiles(b.tile))])
  BY <1>1, <1>b, <1>4, Zenon DEF Features
<1>11. F.ranged = OverBranches([b \in S |-> Counted(SightedFrom(b.tile))])
  BY <1>1, <1>b, <1>4, Zenon DEF Features
<1>12. F.over = OverBranches([b \in S |-> Counted(LowerHostiles(b.tile))])
  BY <1>1, <1>b, <1>4, Zenon DEF Features
<1>13. F.under = OverBranches([b \in S |-> Counted(HigherHostiles(b.tile))])
  BY <1>1, <1>b, <1>4, Zenon DEF Features
<1>14. F.created = OverBranches([b \in S |-> Counted(ScreensGained(origin, b.tile))])
  BY <1>1, <1>b, <1>4, Zenon DEF Features
<1>15. F.lost = OverBranches([b \in S |-> Counted(ScreensGained(b.tile, origin))])
  BY <1>1, <1>b, <1>4, Zenon DEF Features
<1>16. F.flanked = OverBranches([b \in S |-> Counted(FlankedHostiles(b.tile))])
  BY <1>1, <1>b, <1>4, Zenon DEF Features
<1>17. F.open = OverBranches([b \in S |-> Counted(OpenTiles(b.tile))])
  BY <1>1, <1>b, <1>4, Zenon DEF Features
<1>18. F.zoc = Pressure(OverBranches([b \in S |-> Counted(AdjacentHostiles(b.tile))]))
  BY <1>1, <1>b, <1>4, Zenon DEF Features
\* What is left of the actor, and the flags
<1>20. F.climb = OverBranches([b \in S |-> Sure(Elevation[b.tile] - Elevation[origin])])
  BY <1>1, <1>b, <1>4, Zenon DEF Features
<1>21. F.ap = OverBranches([b \in S |-> Sure(b.actor.ap)])
  BY <1>1, <1>b, <1>4, Zenon DEF Features
<1>22. F.headroom = OverBranches([b \in S |-> Sure(b.actor.capacity - b.actor.fatigue)])
  BY <1>1, <1>b, <1>4, Zenon DEF Features
<1>23. F.feasible = OverBranches([b \in S |-> Sure(Feasible(offer0, b.actor))])
  BY <1>1, <1>b, <1>4, Zenon DEF Features
<1>24. F.waited = OverBranches([b \in B |-> Sure(IF b.actor.waited THEN 1 ELSE 0)])
  BY <1>1, <1>b, Zenon DEF Features
<1>25. F.may_wait = OverBranches([b \in B |-> Sure(IF b.actor.mayWait THEN 1 ELSE 0)])
  BY <1>1, <1>b, Zenon DEF Features
<1>26. F.ended = OverBranches([b \in B |-> Sure(IF b.ended THEN 1 ELSE 0)])
  BY <1>1, <1>b, Zenon DEF Features
\* The chances, the effects and the costs
<1>30. /\ F.ammo = Sure(action.ammo) /\ F.charges = Sure(0) /\ F.ally_damage = Sure(0)
  BY <1>1, Zenon DEF Features
<1>31. F.stopped = Range0(Total({ b \in B : b.stopped }), Total({ b \in B : b.stopped }))
  BY <1>1, <1>b, Zenon DEF Features
<1>32. F.death = Range0(Total({ b \in B : Dead(b) }), Total({ b \in B : Dead(b) }))
  BY <1>1, <1>b, Zenon DEF Features
<1>33. F.self_damage = IF action.reactions = <<>> THEN Sure(0)
         ELSE OverBranches([b \in B |-> Sure(Max({0, a.hp - b.actor.hp}))])
  BY <1>1, <1>b, Zenon DEF Features
<1>34. F.hp_damage = IF IsAttack(action) THEN AttackMetric(action, values, "wounds") ELSE Sure(0)
  BY <1>1, Zenon DEF Features
<1>35. F.armor = IF IsAttack(action) THEN AttackMetric(action, values, "torn") ELSE Sure(0)
  BY <1>1, Zenon DEF Features
<1>36. F.kill = IF IsAttack(action) THEN AttackMetric(action, values, "kill") ELSE Sure(0)
  BY <1>1, Zenon DEF Features
<1> HIDE DEF F
<1>37. IsAttack(action) => action.target \in Others /\ action.hit \in 1..19
  <2>1. ASSUME IsAttack(action)
        PROVE  action.hit \in 1..19
    <3>1. AttackStatus(a, action, values, engine.supported) = OK
      BY <1>1, <2>1 DEF Evaluated, Status
    <3> QED BY <3>1 DEF AttackStatus, OK, Unsupported
  <2> QED BY <1>1, <2>1 DEF IsAction
<1>9. origin \in Tiles /\ a.hp \in Nat
  BY FighterIs DEF Evaluated
<1>40. IsMeasure(F.adjacent)
  <2>1. PICK f : f = [b \in S |-> AdjacentHostiles(b.tile)]
    OBVIOUS
  <2>2. \A b \in S : IsFact(f[b]) /\ Counted(f[b]) = Counted(AdjacentHostiles(b.tile))
    BY <1>8, <1>9, <2>1, FactsAre
  <2>3. IsMeasure(OverBranches([b \in S |-> Counted(f[b])]))
    BY <1>5, <1>6, <2>2, OverFact
  <2>4. [b \in S |-> Counted(f[b])] = [b \in S |-> Counted(AdjacentHostiles(b.tile))]
    BY <2>2
  <2> QED BY <1>10, <2>3, <2>4
<1>41. IsMeasure(F.ranged)
  <2>1. PICK f : f = [b \in S |-> SightedFrom(b.tile)]
    OBVIOUS
  <2>2. \A b \in S : IsFact(f[b]) /\ Counted(f[b]) = Counted(SightedFrom(b.tile))
    BY <1>8, <1>9, <2>1, FactsAre
  <2>3. IsMeasure(OverBranches([b \in S |-> Counted(f[b])]))
    BY <1>5, <1>6, <2>2, OverFact
  <2>4. [b \in S |-> Counted(f[b])] = [b \in S |-> Counted(SightedFrom(b.tile))]
    BY <2>2
  <2> QED BY <1>11, <2>3, <2>4
<1>42. IsMeasure(F.over)
  <2>1. PICK f : f = [b \in S |-> LowerHostiles(b.tile)]
    OBVIOUS
  <2>2. \A b \in S : IsFact(f[b]) /\ Counted(f[b]) = Counted(LowerHostiles(b.tile))
    BY <1>8, <1>9, <2>1, FactsAre
  <2>3. IsMeasure(OverBranches([b \in S |-> Counted(f[b])]))
    BY <1>5, <1>6, <2>2, OverFact
  <2>4. [b \in S |-> Counted(f[b])] = [b \in S |-> Counted(LowerHostiles(b.tile))]
    BY <2>2
  <2> QED BY <1>12, <2>3, <2>4
<1>43. IsMeasure(F.under)
  <2>1. PICK f : f = [b \in S |-> HigherHostiles(b.tile)]
    OBVIOUS
  <2>2. \A b \in S : IsFact(f[b]) /\ Counted(f[b]) = Counted(HigherHostiles(b.tile))
    BY <1>8, <1>9, <2>1, FactsAre
  <2>3. IsMeasure(OverBranches([b \in S |-> Counted(f[b])]))
    BY <1>5, <1>6, <2>2, OverFact
  <2>4. [b \in S |-> Counted(f[b])] = [b \in S |-> Counted(HigherHostiles(b.tile))]
    BY <2>2
  <2> QED BY <1>13, <2>3, <2>4
<1>44. IsMeasure(F.created)
  <2>1. PICK f : f = [b \in S |-> ScreensGained(origin, b.tile)]
    OBVIOUS
  <2>2. \A b \in S : IsFact(f[b]) /\ Counted(f[b]) = Counted(ScreensGained(origin, b.tile))
    BY <1>8, <1>9, <2>1, FactsAre
  <2>3. IsMeasure(OverBranches([b \in S |-> Counted(f[b])]))
    BY <1>5, <1>6, <2>2, OverFact
  <2>4. [b \in S |-> Counted(f[b])] = [b \in S |-> Counted(ScreensGained(origin, b.tile))]
    BY <2>2
  <2> QED BY <1>14, <2>3, <2>4
<1>45. IsMeasure(F.lost)
  <2>1. PICK f : f = [b \in S |-> ScreensGained(b.tile, origin)]
    OBVIOUS
  <2>2. \A b \in S : IsFact(f[b]) /\ Counted(f[b]) = Counted(ScreensGained(b.tile, origin))
    BY <1>8, <1>9, <2>1, FactsAre
  <2>3. IsMeasure(OverBranches([b \in S |-> Counted(f[b])]))
    BY <1>5, <1>6, <2>2, OverFact
  <2>4. [b \in S |-> Counted(f[b])] = [b \in S |-> Counted(ScreensGained(b.tile, origin))]
    BY <2>2
  <2> QED BY <1>15, <2>3, <2>4
<1>46. IsMeasure(F.flanked)
  <2>1. PICK f : f = [b \in S |-> FlankedHostiles(b.tile)]
    OBVIOUS
  <2>2. \A b \in S : IsFact(f[b]) /\ Counted(f[b]) = Counted(FlankedHostiles(b.tile))
    BY <1>8, <1>9, <2>1, FactsAre
  <2>3. IsMeasure(OverBranches([b \in S |-> Counted(f[b])]))
    BY <1>5, <1>6, <2>2, OverFact
  <2>4. [b \in S |-> Counted(f[b])] = [b \in S |-> Counted(FlankedHostiles(b.tile))]
    BY <2>2
  <2> QED BY <1>16, <2>3, <2>4
<1>47. IsMeasure(F.open)
  <2>1. PICK f : f = [b \in S |-> OpenTiles(b.tile)]
    OBVIOUS
  <2>2. \A b \in S : IsFact(f[b]) /\ Counted(f[b]) = Counted(OpenTiles(b.tile))
    BY <1>8, <1>9, <2>1, FactsAre
  <2>3. IsMeasure(OverBranches([b \in S |-> Counted(f[b])]))
    BY <1>5, <1>6, <2>2, OverFact
  <2>4. [b \in S |-> Counted(f[b])] = [b \in S |-> Counted(OpenTiles(b.tile))]
    BY <2>2
  <2> QED BY <1>17, <2>3, <2>4
<1>48. IsMeasure(F.zoc)
  BY <1>10, <1>18, <1>40, PressureIs
<1>49. IsMeasure(F.climb)
  <2>1. PICK f : f = [b \in S |-> Elevation[b.tile] - Elevation[origin]]
    OBVIOUS
  <2>2. \A b \in S : f[b] \in Int
    BY <2>1, <1>8, <1>9, MapAssumption
  <2>3. IsMeasure(OverBranches([b \in S |-> Sure(f[b])]))
    BY <1>5, <1>6, <2>2, OverNumber
  <2>4. [b \in S |-> Sure(f[b])] = [b \in S |-> Sure(Elevation[b.tile] - Elevation[origin])]
    BY <2>1
  <2> QED BY <1>20, <2>3, <2>4
<1>50. IsMeasure(F.ap)
  <2>1. PICK f : f = [b \in S |-> b.actor.ap]
    OBVIOUS
  <2>2. \A b \in S : f[b] \in Int
    BY <2>1, <1>8, FighterIs
  <2>3. IsMeasure(OverBranches([b \in S |-> Sure(f[b])]))
    BY <1>5, <1>6, <2>2, OverNumber
  <2>4. [b \in S |-> Sure(f[b])] = [b \in S |-> Sure(b.actor.ap)]
    BY <2>1
  <2> QED BY <1>21, <2>3, <2>4
<1>51. IsMeasure(F.headroom)
  <2>1. PICK f : f = [b \in S |-> b.actor.capacity - b.actor.fatigue]
    OBVIOUS
  <2>2. \A b \in S : f[b] \in Int
    BY <2>1, <1>8, FighterIs
  <2>3. IsMeasure(OverBranches([b \in S |-> Sure(f[b])]))
    BY <1>5, <1>6, <2>2, OverNumber
  <2>4. [b \in S |-> Sure(f[b])] = [b \in S |-> Sure(b.actor.capacity - b.actor.fatigue)]
    BY <2>1
  <2> QED BY <1>22, <2>3, <2>4
<1>52. IsMeasure(F.feasible)
  <2>1. PICK f : f = [b \in S |-> Feasible(offer0, b.actor)]
    OBVIOUS
  <2>2. \A b \in S : f[b] \in Int
    BY <2>1, FeasibleIs DEF Evaluated
  <2>3. IsMeasure(OverBranches([b \in S |-> Sure(f[b])]))
    BY <1>5, <1>6, <2>2, OverNumber
  <2>4. [b \in S |-> Sure(f[b])] = [b \in S |-> Sure(Feasible(offer0, b.actor))]
    BY <2>1
  <2> QED BY <1>23, <2>3, <2>4
<1>53. IsMeasure(F.waited)
  <2>1. PICK f : f = [b \in B |-> IF b.actor.waited THEN 1 ELSE 0]
    OBVIOUS
  <2>2. \A b \in B : f[b] \in Int
    BY <2>1
  <2>3. IsMeasure(OverBranches([b \in B |-> Sure(f[b])]))
    BY <1>3, <1>6, <2>2, OverNumber
  <2>4. [b \in B |-> Sure(f[b])] = [b \in B |-> Sure(IF b.actor.waited THEN 1 ELSE 0)]
    BY <2>1
  <2> QED BY <1>24, <2>3, <2>4
<1>54. IsMeasure(F.may_wait)
  <2>1. PICK f : f = [b \in B |-> IF b.actor.mayWait THEN 1 ELSE 0]
    OBVIOUS
  <2>2. \A b \in B : f[b] \in Int
    BY <2>1
  <2>3. IsMeasure(OverBranches([b \in B |-> Sure(f[b])]))
    BY <1>3, <1>6, <2>2, OverNumber
  <2>4. [b \in B |-> Sure(f[b])] = [b \in B |-> Sure(IF b.actor.mayWait THEN 1 ELSE 0)]
    BY <2>1
  <2> QED BY <1>25, <2>3, <2>4
<1>55. IsMeasure(F.ended)
  <2>1. PICK f : f = [b \in B |-> IF b.ended THEN 1 ELSE 0]
    OBVIOUS
  <2>2. \A b \in B : f[b] \in Int
    BY <2>1
  <2>3. IsMeasure(OverBranches([b \in B |-> Sure(f[b])]))
    BY <1>3, <1>6, <2>2, OverNumber
  <2>4. [b \in B |-> Sure(f[b])] = [b \in B |-> Sure(IF b.ended THEN 1 ELSE 0)]
    BY <2>1
  <2> QED BY <1>26, <2>3, <2>4
<1>56. IsMeasure(F.self_damage)
  <2>1. PICK f : f = [b \in B |-> Max({0, a.hp - b.actor.hp})]
    OBVIOUS
  <2>2. ASSUME NEW b \in B
        PROVE  f[b] \in Int
    <3>0. PICK m \in Nat, n \in Nat : m = a.hp /\ n = b.actor.hp
      BY <1>7, <1>9, FighterIs
    <3>1. PICK h \in Int : h = a.hp - b.actor.hp
      BY <3>0
    <3>2. Max({0, h}) \in {0, h}
      <4>1. 0 \in Int
        OBVIOUS
      <4> QED BY <4>1, PairBounds, Zenon
    <3> QED BY <2>1, <3>1, <3>2
  <2>3. IsMeasure(OverBranches([b \in B |-> Sure(f[b])]))
    BY <1>3, <1>6, <2>2, OverNumber
  <2>4. [b \in B |-> Sure(f[b])] = [b \in B |-> Sure(Max({0, a.hp - b.actor.hp}))]
    BY <2>1
  <2>5. IsMeasure(Sure(0))
    BY SureIs
  <2> QED BY <1>33, <2>3, <2>4, <2>5
<1>57. IsMeasure(F.ammo) /\ IsMeasure(F.charges) /\ IsMeasure(F.ally_damage)
  BY <1>1, <1>30, SureIs DEF IsAction
<1>58. IsMeasure(F.stopped)
  <2>1. PICK C : C = { b \in B : b.stopped }
    OBVIOUS
  <2>2. IsFiniteSet(C) /\ C \subseteq B
    BY <1>3, <2>1, FS_Subset
  <2>3. Total(C) \in Int
    BY <1>6, <2>2, TotalCounts DEF Counts
  <2> QED BY <1>31, <2>1, <2>3, SureIs
<1>59. IsMeasure(F.death)
  <2>1. PICK C : C = { b \in B : Dead(b) }
    OBVIOUS
  <2>2. IsFiniteSet(C) /\ C \subseteq B
    BY <1>3, <2>1, FS_Subset
  <2>3. Total(C) \in Int
    BY <1>6, <2>2, TotalCounts DEF Counts
  <2> QED BY <1>32, <2>1, <2>3, SureIs
<1>60. IsMeasure(F.hp_damage)
  <2>1. IsMeasure(Sure(0))
    BY SureIs
  <2>2. ASSUME IsAttack(action)
        PROVE  IsMeasure(AttackMetric(action, values, "wounds"))
    BY <1>1, <1>37, <2>2, AttackMetricIs DEF Evaluated
  <2> QED BY <1>34, <2>1, <2>2
<1>61. IsMeasure(F.armor)
  <2>1. IsMeasure(Sure(0))
    BY SureIs
  <2>2. ASSUME IsAttack(action)
        PROVE  IsMeasure(AttackMetric(action, values, "torn"))
    BY <1>1, <1>37, <2>2, AttackMetricIs DEF Evaluated
  <2> QED BY <1>35, <2>1, <2>2
<1>62. IsMeasure(F.kill)
  <2>1. IsMeasure(Sure(0))
    BY SureIs
  <2>2. ASSUME IsAttack(action)
        PROVE  IsMeasure(AttackMetric(action, values, "kill"))
    BY <1>1, <1>37, <2>2, AttackMetricIs DEF Evaluated
  <2> QED BY <1>36, <2>1, <2>2
<1> QED
  BY <1>40, <1>41, <1>42, <1>43, <1>44, <1>45, <1>46, <1>47, <1>48, <1>49, <1>50, <1>51, <1>52, <1>53, <1>54, <1>55, <1>56, <1>57, <1>58, <1>59, <1>60, <1>61, <1>62 DEF F, Metrics

-----------------------------------------------------------------------------
(* Scores *)

ScaleIn == ScaleNames \cup {"one", "templates"}

\* Every scale is positive.
LEMMA ScaleIs ==
    ASSUME NEW name \in ScaleIn, NEW offer0, IsFiniteSet(DOMAIN offer0)
    PROVE  ScaleOf(name, offer0) \in Int /\ ScaleOf(name, offer0) > 0
<1>1. CASE name = "one"
  BY <1>1 DEF ScaleOf
<1>2. CASE name = "templates"
  <2>1. PICK n \in Nat : n = Cardinality(Templates(offer0))
    BY FeasibleIs
  <2> QED BY <1>2, <2>1 DEF ScaleOf, Most
<1>3. CASE name \in ScaleNames /\ name # "one" /\ name # "templates"
  <2>1. Scale[name] \in Nat \ {0}
    BY <1>3, ScaleAssumption
  <2> QED BY <1>3, <2>1 DEF ScaleOf
<1> QED BY <1>1, <1>2, <1>3 DEF ScaleIn

\* Clipping gives a number.
LEMMA ClipIs ==
    ASSUME NEW n \in Int
    PROVE  Clip(n) \in Int
BY ScaleAssumption DEF Clip, Most, Least

\* A measure is divided by its scale.
LEMMA Divided0 ==
    ASSUME NEW n \in Int, NEW sign \in {1, -1}, NEW scale \in Int, scale > 0
    PROVE  (sign * n * Grain) \div (scale * Unit) \in Int
<1>1. PICK d \in Int : d = scale * Unit /\ d > 0
  <2>1. PICK u \in Nat : u = Unit /\ u > 0
    BY RollsAre
  <2>2. scale * u \in Int /\ scale * u > 0
    BY <2>1
  <2> QED BY <2>1, <2>2
<1>2. PICK x \in Int : x = sign * n * Grain
  <2>1. PICK g \in Int : g = Grain
    BY ScaleAssumption
  <2>2. PICK y \in Int : y = sign * n
    OBVIOUS
  <2>3. y * g \in Int
    OBVIOUS
  <2> QED BY <2>1, <2>2, <2>3
<1>3. x \div d \in Int
  BY <1>1
<1> QED BY <1>1, <1>2, <1>3

\* _normalized gives a measure.
LEMMA NormalizedIs ==
    ASSUME NEW r, IsMeasure(r), NEW scale \in Int, scale > 0, NEW sign \in {1, -1}
    PROVE  IsMeasure(Normalized(r, scale, sign))
<1>1. ASSUME NEW v \in Views
      PROVE  /\ Normalized(r, scale, sign)[v][1] \in Int
             /\ Normalized(r, scale, sign)[v][2] \in Int
  <2>1. PICK m \in Int, n \in Int : m = r[v][1] /\ n = r[v][2]
    BY DEF IsMeasure
  <2>2. PICK x \in Int, y \in Int :
           /\ x = Clip((sign * m * Grain) \div (scale * Unit))
           /\ y = Clip((sign * n * Grain) \div (scale * Unit))
    BY Divided0, ClipIs
  <2>3. Normalized(r, scale, sign)[v] = <<Least(x, y), Most(x, y)>>
    BY <2>1, <2>2 DEF Normalized, InViews, Views
  <2> QED BY <2>3 DEF Least, Most
<1> QED BY <1>1 DEF IsMeasure

\* One more member leaves a finite set finite.
LEMMA OneMoreIsFinite ==
    ASSUME NEW S, IsFiniteSet(S), NEW x, NEW T, T = S \cup {x}
    PROVE  IsFiniteSet(T)
BY FS_AddElement

\* Three are finite.
LEMMA ThreeAreFinite ==
    ASSUME NEW a, NEW b, NEW c
    PROVE  IsFiniteSet({a, b, c})
<1>1. {a, b} = {a} \cup {b} /\ {a, b, c} = {a, b} \cup {c}
  OBVIOUS
<1>2. IsFiniteSet({a})
  BY FS_Singleton
<1>3. IsFiniteSet({a, b})
  BY <1>1, <1>2, OneMoreIsFinite
<1> QED BY <1>1, <1>3, OneMoreIsFinite

\* Five are.
LEMMA FiveAreFinite ==
    ASSUME NEW a, NEW b, NEW c, NEW d, NEW e
    PROVE  IsFiniteSet({a, b, c, d, e})
<1>1. {a, b, c, d} = {a, b, c} \cup {d} /\ {a, b, c, d, e} = {a, b, c, d} \cup {e}
  OBVIOUS
<1>2. IsFiniteSet({a, b, c, d})
  BY <1>1, ThreeAreFinite, OneMoreIsFinite
<1> QED BY <1>1, <1>2, OneMoreIsFinite

\* Seven are.
LEMMA SevenAreFinite ==
    ASSUME NEW a, NEW b, NEW c, NEW d, NEW e, NEW f, NEW g
    PROVE  IsFiniteSet({a, b, c, d, e, f, g})
<1>1. /\ {a, b, c, d, e, f} = {a, b, c, d, e} \cup {f}
      /\ {a, b, c, d, e, f, g} = {a, b, c, d, e, f} \cup {g}
  OBVIOUS
<1>2. IsFiniteSet({a, b, c, d, e, f})
  BY <1>1, FiveAreFinite, OneMoreIsFinite
<1> QED BY <1>1, <1>2, OneMoreIsFinite

IsTerm(t) == t[1] \in Metrics /\ t[2] \in ScaleIn /\ t[3] \in {1, -1}

\* The terms of a component name metrics and scales there are.
LEMMA TermsAre ==
    ASSUME NEW c \in Component
    PROVE  /\ IsFiniteSet(Terms[c]) /\ Terms[c] # {}
           /\ \A t \in Terms[c] : IsTerm(t)
<1>1. CASE c = "enemy_effect"
  <2>1. Terms[c] = {<<"hp_damage", "hp", 1>>, <<"armor", "armor", 1>>, <<"kill", "one", 1>>}
    BY <1>1 DEF Terms
  <2>2. IsFiniteSet(Terms[c])
    <3>1. PICK p, q, r :
           /\ p = <<"hp_damage", "hp", 1>>
           /\ q = <<"armor", "armor", 1>>
           /\ r = <<"kill", "one", 1>>
      OBVIOUS
    <3>2. Terms[c] = {p, q, r}
      BY <2>1, <3>1
    <3>3. IsFiniteSet({p, q, r})
      BY ThreeAreFinite
    <3> QED BY <3>2, <3>3
  <2>3. \A t \in Terms[c] : IsTerm(t)
    BY <2>1 DEF IsTerm, Metrics, ScaleIn, ScaleNames
  <2> QED BY <2>1, <2>2, <2>3
<1>2. CASE c = "immediate_friendly_harm"
  <2>1. Terms[c] = {<<"self_damage", "hp", -1>>, <<"ally_damage", "hp", -1>>,
                    <<"stopped", "one", -1>>}
    BY <1>2 DEF Terms
  <2>2. IsFiniteSet(Terms[c])
    <3>1. PICK p, q, r :
           /\ p = <<"self_damage", "hp", -1>>
           /\ q = <<"ally_damage", "hp", -1>>
           /\ r = <<"stopped", "one", -1>>
      OBVIOUS
    <3>2. Terms[c] = {p, q, r}
      BY <2>1, <3>1
    <3>3. IsFiniteSet({p, q, r})
      BY ThreeAreFinite
    <3> QED BY <3>2, <3>3
  <2>3. \A t \in Terms[c] : IsTerm(t)
    BY <2>1 DEF IsTerm, Metrics, ScaleIn, ScaleNames
  <2> QED BY <2>1, <2>2, <2>3
<1>3. CASE c = "post_action_exposure"
  <2>1. Terms[c] = {<<"adjacent", "pressure", -1>>, <<"zoc", "pressure", -1>>,
                    <<"ranged", "ranged", -1>>}
    BY <1>3 DEF Terms
  <2>2. IsFiniteSet(Terms[c])
    <3>1. PICK p, q, r :
           /\ p = <<"adjacent", "pressure", -1>>
           /\ q = <<"zoc", "pressure", -1>>
           /\ r = <<"ranged", "ranged", -1>>
      OBVIOUS
    <3>2. Terms[c] = {p, q, r}
      BY <2>1, <3>1
    <3>3. IsFiniteSet({p, q, r})
      BY ThreeAreFinite
    <3> QED BY <3>2, <3>3
  <2>3. \A t \in Terms[c] : IsTerm(t)
    BY <2>1 DEF IsTerm, Metrics, ScaleIn, ScaleNames
  <2> QED BY <2>1, <2>2, <2>3
<1>4. CASE c = "position_control_protection"
  <2>1. Terms[c] = {<<"climb", "climb", 1>>, <<"over", "contacts", 1>>,
                    <<"under", "contacts", -1>>, <<"created", "links", 1>>,
                    <<"lost", "links", -1>>, <<"flanked", "flanked", 1>>,
                    <<"open", "open", 1>>}
    BY <1>4 DEF Terms
  <2>2. IsFiniteSet(Terms[c])
    <3>1. PICK p, q, r, s, u, w, z :
           /\ p = <<"climb", "climb", 1>>
           /\ q = <<"over", "contacts", 1>>
           /\ r = <<"under", "contacts", -1>>
           /\ s = <<"created", "links", 1>>
           /\ u = <<"lost", "links", -1>>
           /\ w = <<"flanked", "flanked", 1>>
           /\ z = <<"open", "open", 1>>
      OBVIOUS
    <3>2. Terms[c] = {p, q, r, s, u, w, z}
      BY <2>1, <3>1
    <3>3. IsFiniteSet({p, q, r, s, u, w, z})
      BY SevenAreFinite
    <3> QED BY <3>2, <3>3
  <2>3. \A t \in Terms[c] : IsTerm(t)
    BY <2>1 DEF IsTerm, Metrics, ScaleIn, ScaleNames
  <2> QED BY <2>1, <2>2, <2>3
<1>5. CASE c = "resource_future_capacity"
  <2>1. Terms[c] = {<<"ap", "ap", 1>>, <<"headroom", "headroom", 1>>,
                    <<"feasible", "templates", 1>>, <<"ammo", "units", -1>>,
                    <<"charges", "units", -1>>}
    BY <1>5 DEF Terms
  <2>2. IsFiniteSet(Terms[c])
    <3>1. PICK p, q, r, s, u :
           /\ p = <<"ap", "ap", 1>>
           /\ q = <<"headroom", "headroom", 1>>
           /\ r = <<"feasible", "templates", 1>>
           /\ s = <<"ammo", "units", -1>>
           /\ u = <<"charges", "units", -1>>
      OBVIOUS
    <3>2. Terms[c] = {p, q, r, s, u}
      BY <2>1, <3>1
    <3>3. IsFiniteSet({p, q, r, s, u})
      BY FiveAreFinite
    <3> QED BY <3>2, <3>3
  <2>3. \A t \in Terms[c] : IsTerm(t)
    BY <2>1 DEF IsTerm, Metrics, ScaleIn, ScaleNames
  <2> QED BY <2>1, <2>2, <2>3
<1>6. CASE c = "tempo"
  <2>1. Terms[c] = {<<"waited", "one", 1>>, <<"may_wait", "one", 1>>, <<"ended", "one", -1>>}
    BY <1>6 DEF Terms
  <2>2. IsFiniteSet(Terms[c])
    <3>1. PICK p, q, r :
           /\ p = <<"waited", "one", 1>>
           /\ q = <<"may_wait", "one", 1>>
           /\ r = <<"ended", "one", -1>>
      OBVIOUS
    <3>2. Terms[c] = {p, q, r}
      BY <2>1, <3>1
    <3>3. IsFiniteSet({p, q, r})
      BY ThreeAreFinite
    <3> QED BY <3>2, <3>3
  <2>3. \A t \in Terms[c] : IsTerm(t)
    BY <2>1 DEF IsTerm, Metrics, ScaleIn, ScaleNames
  <2> QED BY <2>1, <2>2, <2>3
<1> QED BY <1>1, <1>2, <1>3, <1>4, <1>5, <1>6 DEF Component

IsProfile(profile) ==
    profile \in [weight: [Component -> Nat], tail: Nat, uncertainty: Nat, margin: Nat,
                 life: Nat, deathCap: Nat]

\* Products, for the prover.
LEMMA ProductIs ==
    ASSUME NEW m \in Int, NEW n \in Int
    PROVE  m * n \in Int
OBVIOUS

\* _component gives a measure.
LEMMA ContributionIs ==
    ASSUME NEW f, \A m \in Metrics : IsMeasure(f[m]),
           NEW offer0, IsFiniteSet(DOMAIN offer0),
           NEW profile, IsProfile(profile), NEW c \in Component
    PROVE  IsMeasure(Contribution(f, offer0, profile, c))
<1>0. profile.life \in Int /\ profile.weight[c] \in Int
  BY DEF IsProfile
<1> DEFINE value(m) == IF m = "self_damage" THEN profile.life ELSE 1
           worth(m) == InViews(LAMBDA v : <<f[m][v][1] * value(m), f[m][v][2] * value(m)>>)
           put(t) == <<t[1], Normalized(worth(t[1]), ScaleOf(t[2], offer0), t[3])>>
           scaled == { put(t) : t \in Terms[c] }
           mean(v, i) == SumFunction([t \in scaled |-> t[2][v][i]])
                         * (Common \div Cardinality(Terms[c]))
           puts == [t \in Terms[c] |-> put(t)]
<1>1. Contribution(f, offer0, profile, c) =
        InViews(LAMBDA v : <<profile.weight[c] * mean(v, 1), profile.weight[c] * mean(v, 2)>>)
  BY Zenon DEF Contribution
<1>2. IsFiniteSet(scaled)
  <2>1. scaled = { puts[t] : t \in Terms[c] }
    <3> HIDE DEF put
    <3> QED OBVIOUS
  <2>2. IsFiniteSet(Terms[c])
    BY TermsAre
  <2> HIDE DEF puts, scaled
  <2> QED BY <2>1, <2>2, ImageIsFinite
<1>3. ASSUME NEW x \in scaled
      PROVE  IsMeasure(x[2])
  <2>1. PICK t \in Terms[c] : x = put(t)
    OBVIOUS
  <2>2. IsTerm(t)
    BY TermsAre
  <2>3. PICK m \in Metrics : m = t[1]
    BY <2>2 DEF IsTerm
  <2>4. IsMeasure(worth(m))
    <3>0. value(m) \in Int
      <4>1. value(m) = profile.life \/ value(m) = 1
        OBVIOUS
      <4>2. PICK k \in Int : k = profile.life
        <5> HIDE DEF value, worth, put, scaled, mean, puts
        <5> QED BY <1>0
      <4> HIDE DEF value, worth, put, scaled, mean, puts
      <4> QED BY <4>1, <4>2
    <3>1. PICK n \in Int : n = value(m)
      <4> HIDE DEF value
      <4> QED BY <3>0
    <3>2. PICK r : r = f[m] /\ IsMeasure(r)
      OBVIOUS
    <3>3. \A v \in Views : worth(m)[v] = <<r[v][1] * n, r[v][2] * n>>
      <4> HIDE DEF value
      <4> QED BY <3>1, <3>2 DEF InViews, Views
    <3>4. ASSUME NEW v \in Views
          PROVE  r[v][1] * n \in Int /\ r[v][2] * n \in Int
      <4>1. PICK x1 \in Int, x2 \in Int : x1 = r[v][1] /\ x2 = r[v][2]
        BY <3>2 DEF IsMeasure
      <4>2. x1 * n \in Int /\ x2 * n \in Int
        BY ProductIs
      <4> QED BY <4>1, <4>2
    <3> HIDE DEF worth
    <3> QED BY <3>3, <3>4 DEF IsMeasure
  <2>5. PICK scale \in Int : scale = ScaleOf(t[2], offer0) /\ scale > 0
    BY <2>2, ScaleIs DEF IsTerm
  <2>6. PICK sign \in {1, -1} : sign = t[3]
    BY <2>2 DEF IsTerm
  <2>7. IsMeasure(Normalized(worth(m), scale, sign))
    <3> HIDE DEF worth
    <3> QED BY <2>4, <2>5, NormalizedIs
  <2>8. x[2] = Normalized(worth(m), scale, sign)
    <3> HIDE DEF worth
    <3> QED BY <2>1, <2>3, <2>5, <2>6
  <2> QED BY <2>7, <2>8
<1> HIDE DEF scaled
<1>4. ASSUME NEW v \in Views, NEW i \in {1, 2}
      PROVE  mean(v, i) \in Int
  <2>1. PICK g : g = [t \in scaled |-> t[2][v][i]]
    OBVIOUS
  <2>2. \A t \in scaled : g[t] \in Int
    BY <1>3, <2>1 DEF IsMeasure
  <2>3. PICK x \in Int : x = SumFunction(g)
    BY <1>2, <2>1, <2>2, SumFacts
  <2>4. PICK y \in Int : y = Common \div Cardinality(Terms[c])
    <3>1. PICK n \in Nat : n = Cardinality(Terms[c]) /\ n > 0
      <4>1. Cardinality(Terms[c]) \in Nat /\ Cardinality(Terms[c]) # 0
        BY TermsAre, FS_CardinalityType, FS_EmptySet
      <4> QED BY <4>1
    <3>2. Common \div n \in Int
      BY <3>1 DEF Common
    <3> QED BY <3>1, <3>2
  <2>5. x * y \in Int
    OBVIOUS
  <2> QED BY <2>1, <2>3, <2>4, <2>5
<1> HIDE DEF mean
<1>5. ASSUME NEW v \in Views, NEW i \in {1, 2}
      PROVE  profile.weight[c] * mean(v, i) \in Int
  <2>1. PICK x \in Int, y \in Int : x = profile.weight[c] /\ y = mean(v, i)
    BY <1>0, <1>4
  <2>2. x * y \in Int
    OBVIOUS
  <2> QED BY <2>1, <2>2
<1> QED BY <1>1, <1>5 DEF IsMeasure, InViews, Views

\* What ranking needs of a score
IsScore(s) ==
    /\ s.value \in Int /\ s.tail \in Int /\ s.span \in Int /\ s.spent \in Int
    /\ s.excluded \in BOOLEAN

IsEngine(e) == e.components \subseteq Component /\ IsProfile(e.profile)

\* There are six components.
LEMMA ComponentsAreFinite == IsFiniteSet(Component)
<1>1. Component = {"enemy_effect", "immediate_friendly_harm", "post_action_exposure",
                   "position_control_protection", "resource_future_capacity", "tempo", "tempo"}
  BY DEF Component
<1> QED BY <1>1, SevenAreFinite

\* score_candidate_features gives numbers that can be compared.
LEMMA ScoreIs ==
    ASSUME NEW f, \A m \in Metrics : IsMeasure(f[m]),
           NEW offer0, IsFiniteSet(DOMAIN offer0), NEW x, offer0[x].ammo \in Nat,
           NEW e, IsEngine(e)
    PROVE  IsScore(Score(f, offer0, x, e))
<1> DEFINE profile == e.profile
           part(c) == <<c, Contribution(f, offer0, profile, c)>>
           parts == { part(c) : c \in e.components }
           sum(v, i) == SumFunction([p \in parts |-> p[2][v][i]])
           tactical == InViews(LAMBDA v : <<sum(v, 1), sum(v, 2)>>)
           tail == profile.tail * profile.life * Common
                   * ((f.death["robust"][1] * Grain) \div Unit)
           span == tactical["epistemic"][2] - tactical["epistemic"][1]
           price == (profile.uncertainty * span) \div 4
           s == Score(f, offer0, x, e)
<1>1. /\ s.value = Value(tactical, tail, price) /\ s.tail = tail /\ s.span = span
      /\ s.spent = offer0[x].ammo /\ s.excluded = (f.death["support"][2] > profile.deathCap)
  BY Zenon DEF Score
<1>2. IsFiniteSet(parts)
  <2> DEFINE g == [c \in e.components |-> part(c)]
  <2>1. IsFiniteSet(e.components)
    BY ComponentsAreFinite, FS_Subset DEF IsEngine
  <2>2. parts = { g[c] : c \in e.components }
    <3> HIDE DEF part
    <3> QED OBVIOUS
  <2> HIDE DEF g, parts
  <2> QED BY <2>1, <2>2, ImageIsFinite
<1>3. ASSUME NEW p \in parts
      PROVE  IsMeasure(p[2])
  <2>1. PICK c \in e.components : p = part(c)
    OBVIOUS
  <2>2. c \in Component /\ IsProfile(profile)
    BY DEF IsEngine
  <2>3. IsMeasure(Contribution(f, offer0, profile, c))
    <3> HIDE DEF profile
    <3> QED BY <2>2, ContributionIs
  <2> QED BY <2>1, <2>3
<1> HIDE DEF parts
<1>4. ASSUME NEW v \in Views, NEW i \in {1, 2}
      PROVE  sum(v, i) \in Int
  <2>1. PICK g : g = [p \in parts |-> p[2][v][i]]
    OBVIOUS
  <2>2. \A p \in parts : g[p] \in Int
    BY <1>3, <2>1 DEF IsMeasure
  <2> QED BY <1>2, <2>1, <2>2, SumFacts
<1> HIDE DEF sum
<1>5. /\ tactical["robust"][1] \in Int
      /\ tactical["epistemic"][1] \in Int /\ tactical["epistemic"][2] \in Int
  BY <1>4 DEF InViews, Views
<1> HIDE DEF tactical
<1>6. PICK n \in Int : n = span
  BY <1>5
<1>7. price \in Int
  <2>1. PICK u \in Int : u = profile.uncertainty
    BY DEF IsEngine, IsProfile
  <2>2. (u * n) \div 4 \in Int
    <3>1. PICK m \in Int : m = u * n
      OBVIOUS
    <3> QED BY <3>1
  <2> QED BY <1>6, <2>1, <2>2
<1>8. PICK d \in Int : d = f.death["robust"][1]
  BY DEF Metrics, IsMeasure, Views
<1>9. tail \in Int
  <2>1. PICK u \in Int : u = (d * Grain) \div Unit
    <3>1. PICK g \in Int, w \in Nat : g = Grain /\ w = Unit /\ w > 0
      BY ScaleAssumption, RollsAre
    <3>2. PICK m \in Int : m = d * g
      OBVIOUS
    <3>3. m \div w \in Int
      BY <3>1
    <3> QED BY <3>1, <3>2, <3>3
  <2>2. PICK y \in Int, z \in Int : y = profile.tail /\ z = profile.life
    BY DEF IsEngine, IsProfile
  <2>3. PICK yz \in Int : yz = y * z
    OBVIOUS
  <2>4. PICK yzc \in Int : yzc = yz * Common
    BY DEF Common
  <2>5. yzc * u \in Int
    OBVIOUS
  <2> HIDE DEF profile
  <2> QED BY <1>8, <2>1, <2>2, <2>3, <2>4, <2>5
<1>10. Value(tactical, tail, price) \in Int
  <2> HIDE DEF tail, price
  <2> QED BY <1>5, <1>7, <1>9 DEF Value
<1>11. (f.death["support"][2] > profile.deathCap) \in BOOLEAN
  OBVIOUS
<1> HIDE DEF s, tail, price, span, profile
<1>12. IsScore(s)
  BY <1>1, <1>6, <1>9, <1>10, <1>11 DEF IsScore
<1> QED BY <1>12 DEF s

-----------------------------------------------------------------------------
(* Decisions (Decision) *)

\* The fixture, the engine and what is known are ones there are.
Given ==
    /\ origin \in Post /\ engine \in Engines
    /\ \E f \in Fixtures : offer = f.offer /\ actor = f.actor
    /\ hp \in [Others -> SUBSET Nat] /\ \A a \in Others : IsFiniteSet(hp[a])

\* What the fixtures and the engines give a decision.
LEMMA GivenIs ==
    ASSUME Given
    PROVE  /\ IsFiniteSet(DOMAIN offer) /\ DOMAIN offer \subseteq Nat
           /\ \A a \in DOMAIN offer : IsAction(offer[a])
           /\ IsFighter(actor) /\ actor.hp > 0
           /\ origin \in Tiles /\ IsEngine(engine)
<1>1. PICK f \in Fixtures : offer = f.offer /\ actor = f.actor
  BY DEF Given
<1>2. /\ IsFiniteSet(DOMAIN offer) /\ DOMAIN offer \subseteq Nat
      /\ \A a \in DOMAIN offer : IsAction(offer[a])
      /\ actor \in Actor(actor.slots)
  BY <1>1, FixtureAssumption
<1>3. IsFighter(actor) /\ actor.hp > 0
  <2>1. /\ actor \in [hp: Nat, head: Nat, body: Nat, ap: Int, fatigue: Int, capacity: Int,
                      waited: BOOLEAN, mayWait: BOOLEAN, plain: BOOLEAN, slots: {actor.slots}]
        /\ actor.hp > 0
    BY <1>2 DEF Actor
  <2> QED BY <2>1 DEF IsFighter
<1>4. origin \in Tiles
  BY MapAssumption DEF Given
<1>5. IsEngine(engine)
  BY EngineAssumption DEF Given, IsEngine, IsProfile
<1> QED BY <1>2, <1>3, <1>4, <1>5

\* Coverage comes first, and every candidate scored could be evaluated.
Supported == \A a \in DOMAIN offer : Problems(offer[a], engine.supported) = {}
Evaluable(a) == Status(actor, offer[a], hp, engine.supported) = OK
Scored(s) ==
    /\ DOMAIN s \subseteq DOMAIN offer
    /\ \A a \in DOMAIN s : IsScore(s[a]) /\ Evaluable(a)

\* What a decision that succeeded is
Decided(t) ==
    /\ Supported
    /\ DOMAIN t.scores = DOMAIN offer /\ \A a \in DOMAIN offer : Evaluable(a)
    /\ t.engine = engine
    /\ WellRanked(t.ranking, t.scores, engine.profile.margin)

\* A trace ranks candidates just when it is a success.
Ranks(t) == t.ranking # <<>> <=> t.status = OK

\* The inductive invariant
DecisionInv ==
    /\ Given
    /\ stage \in {"idle", "scoring", "traced"}
    /\ stage # "scoring" => scored = <<>>
    /\ stage = "scoring" => DOMAIN offer # {} /\ Supported /\ Scored(scored)
    /\ stage = "traced" => Ranks(trace) /\ (trace.status = OK => Decided(trace))
    /\ \A t \in {trace, baseline} \ {None} : Ranks(t)

\* The candidates that are scored can be compared.
LEMMA ScoredCompare ==
    ASSUME Given, NEW s, Scored(s)
    PROVE  Comparable(s, DOMAIN s)
<1>1. IsFiniteSet(DOMAIN s) /\ DOMAIN s \in SUBSET Nat
  BY GivenIs, FS_Subset DEF Scored
<1> QED BY <1>1 DEF Scored, IsScore, Comparable

\* The next candidate gets a score when it can be evaluated.
LEMMA NextIsScored ==
    ASSUME Given, NEW a \in DOMAIN offer, Evaluable(a)
    PROVE  IsScore(Score(Features(actor, offer, a, hp), offer, a, engine))
<1>1. IsAction(offer[a]) /\ Status(actor, offer[a], hp, engine.supported) = OK
  BY GivenIs DEF Evaluable
<1>2. ASSUME IsAttack(offer[a])
      PROVE  IsKnown(hp[offer[a].target])
  <2>1. offer[a].target \in Others
    BY <1>1, <1>2 DEF IsAction
  <2>2. AttackStatus(actor, offer[a], hp, engine.supported) = OK
    BY <1>1, <1>2 DEF Status
  <2>3. hp[offer[a].target] # {}
    BY <2>2 DEF AttackStatus, OK, Unsupported, Invalid
  <2> QED BY <2>1, <2>3 DEF Given, IsKnown
<1>3. Evaluated(actor, offer, a, hp)
  BY <1>1, <1>2, GivenIs DEF Evaluated
<1>4. \A m \in Metrics : IsMeasure(Features(actor, offer, a, hp)[m])
  BY <1>3, FeaturesAre
<1>5. offer[a].ammo \in Nat
  BY <1>1 DEF IsAction
<1> QED BY <1>4, <1>5, GivenIs, ScoreIs

\* It holds at first.
LEMMA DecisionStarts == DInit => DecisionInv
<1> SUFFICES ASSUME DInit PROVE DecisionInv
  OBVIOUS
<1>1. PICK f \in Fixtures : offer = f.offer /\ actor = f.actor /\ hp = f.hp
  BY DEF DInit
<1>2. Given
  BY <1>1, FixtureAssumption DEF DInit, Given
<1> QED BY <1>2 DEF DInit, DecisionInv

Unmoved == UNCHANGED <<vars, hp, fixture, engine>>

\* What can be evaluated depends on the state alone.
LEMMA UnmovedKeeps ==
    ASSUME Unmoved
    PROVE  /\ Given' <=> Given
           /\ Supported' <=> Supported
           /\ \A a : Evaluable(a)' <=> Evaluable(a)
<1>1. /\ origin' = origin /\ position' = position /\ hp' = hp /\ offer' = offer
      /\ actor' = actor /\ engine' = engine
  BY DEF Unmoved, vars, fixture
<1>2. Given' <=> Given
  BY <1>1 DEF Given
<1>3. Supported' <=> Supported
  BY <1>1 DEF Supported
<1>4. \A a : Evaluable(a)' <=> Evaluable(a)
  BY <1>1 DEF Evaluable, Status, MoveStatus, ReactorsKnown
<1> QED BY <1>2, <1>3, <1>4

\* A failed decision ranks nothing.
LEMMA FailKeeps ==
    ASSUME DecisionInv, NEW status, status # OK, Fail(status)
    PROVE  DecisionInv'
<1>1. /\ stage' = "traced" /\ scored' = <<>> /\ baseline' = baseline /\ Unmoved
      /\ trace'.status = status /\ trace'.ranking = <<>>
  BY DEF Fail, Trace, accepted, Unmoved
<1>2. Ranks(trace') /\ trace'.status # OK
  BY <1>1 DEF Ranks
<1>3. Given'
  BY <1>1, UnmovedKeeps DEF DecisionInv
<1>4. \A t \in {trace', baseline'} \ {None} : Ranks(t)
  BY <1>1, <1>2 DEF DecisionInv
<1>5. Ranks(trace)' /\ (\A t \in {trace', baseline'} \ {None} : Ranks(t)')
  BY <1>2, <1>4 DEF Ranks
<1> QED BY <1>1, <1>2, <1>3, <1>5 DEF DecisionInv

\* Coverage is settled before anything is scored.
LEMMA BeginKeeps ==
    ASSUME DecisionInv, Begin
    PROVE  DecisionInv'
<1>1. CASE \E status : status # OK /\ Fail(status)
  BY <1>1, FailKeeps
<1>2. CASE /\ stage' = "scoring" /\ scored' = <<>> /\ Supported /\ DOMAIN offer # {}
           /\ UNCHANGED <<vars, hp, fixture, engine, trace, accepted>>
  <2>1. Unmoved /\ trace' = trace /\ baseline' = baseline /\ offer' = offer
    BY <1>2 DEF Unmoved, accepted, fixture
  <2>2. Given' /\ Supported'
    BY <1>2, <2>1, UnmovedKeeps DEF DecisionInv
  <2>3. Scored(scored)'
    BY <1>2 DEF Scored
  <2>4. \A t \in {trace', baseline'} \ {None} : Ranks(t)'
    BY <2>1 DEF DecisionInv, Ranks
  <2> QED BY <1>2, <2>1, <2>2, <2>3, <2>4 DEF DecisionInv
<1>3. OK # Unsupported /\ OK # Invalid
  BY DEF OK, Unsupported, Invalid
<1>4. CASE \E a \in DOMAIN offer : Problems(offer[a], engine.supported) # {}
  BY <1>1, <1>3, <1>4 DEF Begin
<1>5. CASE Supported
  <2>1. ~(\E a \in DOMAIN offer : Problems(offer[a], engine.supported) # {})
    BY <1>5 DEF Supported
  <2> QED BY <1>1, <1>2, <1>3, <1>5, <2>1 DEF Begin
<1> QED BY <1>4, <1>5 DEF Supported

\* A candidate is scored when it can be evaluated.
LEMMA ScoreKeeps ==
    ASSUME DecisionInv, ScoreNext
    PROVE  DecisionInv'
<1>1. PICK S \in SUBSET Nat : S = DOMAIN offer \ DOMAIN scored /\ S # {} /\ IsFiniteSet(S)
  <2>1. stage = "scoring" /\ DOMAIN scored # DOMAIN offer /\ Scored(scored) /\ Given
    BY DEF ScoreNext, DecisionInv
  <2>2. /\ IsFiniteSet(DOMAIN offer) /\ DOMAIN offer \subseteq Nat
        /\ DOMAIN scored \subseteq DOMAIN offer
    BY <2>1, GivenIs DEF Scored
  <2>3. PICK S : S = DOMAIN offer \ DOMAIN scored
    OBVIOUS
  <2>4. S \subseteq DOMAIN offer /\ S # {}
    BY <2>1, <2>2, <2>3
  <2>5. IsFiniteSet(S)
    BY <2>2, <2>4, FS_Subset
  <2> QED BY <2>2, <2>3, <2>4, <2>5
<1>2. PICK a : a = Min(S) /\ a \in S
  <2>1. S \in SUBSET Int
    OBVIOUS
  <2> QED BY <1>1, <2>1, MinIsLeast
<1>3. PICK status : status = Status(actor, offer[a], hp, engine.supported)
  OBVIOUS
<1>4. PICK v : v = Score(Features(actor, offer, a, hp), offer, a, engine)
  OBVIOUS
<1>5. IF status # OK THEN Fail(status)
      ELSE /\ scored' = [c \in DOMAIN scored \cup {a} |-> IF c = a THEN v ELSE scored[c]]
           /\ UNCHANGED <<vars, hp, fixture, engine, stage, trace, accepted>>
  BY <1>1, <1>2, <1>3, <1>4, Zenon DEF ScoreNext
<1>6. CASE status # OK
  BY <1>5, <1>6, FailKeeps
<1>7. CASE status = OK
  <2>1. /\ scored' = [c \in DOMAIN scored \cup {a} |-> IF c = a THEN v ELSE scored[c]]
        /\ Unmoved /\ trace' = trace /\ baseline' = baseline /\ stage' = stage
        /\ stage = "scoring" /\ offer' = offer
    BY <1>5, <1>7 DEF Unmoved, accepted, fixture, ScoreNext
  <2>2. Given' /\ Supported' /\ \A x : Evaluable(x)' <=> Evaluable(x)
    BY <2>1, UnmovedKeeps DEF DecisionInv
  <2>3. a \in DOMAIN offer /\ Evaluable(a) /\ Given /\ Scored(scored)
    BY <1>1, <1>2, <1>3, <1>7, <2>1 DEF Evaluable, DecisionInv
  <2>4. IsScore(v)
    BY <1>4, <2>3, NextIsScored
  <2>5. /\ DOMAIN scored' = DOMAIN scored \cup {a}
        /\ \A c \in DOMAIN scored' : scored'[c] = IF c = a THEN v ELSE scored[c]
    BY <2>1
  <2>6. Scored(scored)'
    <3>1. DOMAIN scored' \subseteq DOMAIN offer'
      BY <2>1, <2>3, <2>5 DEF Scored
    <3>2. ASSUME NEW c \in DOMAIN scored'
          PROVE  IsScore(scored'[c]) /\ Evaluable(c)
      BY <2>3, <2>4, <2>5 DEF Scored
    <3> QED BY <2>2, <3>1, <3>2 DEF Scored, IsScore
  <2>7. \A t \in {trace', baseline'} \ {None} : Ranks(t)'
    BY <2>1 DEF DecisionInv, Ranks
  <2>8. DOMAIN offer' # {}
    BY <2>1, <2>3
  <2> QED BY <2>1, <2>2, <2>6, <2>7, <2>8 DEF DecisionInv
<1> QED BY <1>6, <1>7

\* Everything being scored, the ranking keeps to the margin.
LEMMA SelectKeeps ==
    ASSUME DecisionInv, Select
    PROVE  DecisionInv'
<1>1. PICK margin \in Nat : margin = engine.profile.margin
  BY GivenIs DEF DecisionInv, IsEngine, IsProfile
<1>2. PICK q : q = Ranking(scored, margin)
  OBVIOUS
<1>3. PICK w : trace' = Trace(OK, scored, q, w)
  BY <1>1, <1>2, Zenon DEF Select
<1>4. /\ stage' = "traced" /\ scored' = <<>> /\ Unmoved /\ baseline' = baseline
      /\ stage = "scoring" /\ DOMAIN scored = DOMAIN offer
  BY DEF Select, accepted, Unmoved
<1>5. Given /\ Supported /\ Scored(scored) /\ DOMAIN offer # {}
  BY <1>4 DEF DecisionInv
<1>6. WellRanked(q, scored, margin)
  BY <1>2, <1>5, ScoredCompare, RankingIs
<1>7. /\ trace'.status = OK /\ trace'.scores = scored /\ trace'.ranking = q
      /\ trace'.engine = engine
  BY <1>3 DEF Trace
<1>8. q # <<>>
  <2>1. PICK a : a \in DOMAIN scored
    BY <1>4, <1>5
  <2>2. PICK i \in DOMAIN q : q[i] = a
    BY <1>6, <2>1 DEF WellRanked, Range
  <2> QED BY <2>2
<1>9. Ranks(trace') /\ Ranks(trace)'
  BY <1>7, <1>8 DEF Ranks
<1>10. Decided(trace')
  BY <1>1, <1>4, <1>5, <1>6, <1>7 DEF Decided, Scored
<1>11. /\ Given' /\ Supported' /\ (\A x : Evaluable(x)' <=> Evaluable(x))
       /\ offer' = offer /\ engine' = engine
  BY <1>4, <1>5, UnmovedKeeps DEF Unmoved, fixture
<1>12. Decided(trace)'
  BY <1>10, <1>11 DEF Decided
<1>13. \A t \in {trace', baseline'} \ {None} : Ranks(t)'
  BY <1>4, <1>9 DEF DecisionInv, Ranks
<1> QED BY <1>4, <1>9, <1>11, <1>12, <1>13 DEF DecisionInv

\* Accepting a trace changes nothing of it.
LEMMA AcceptStays ==
    ASSUME DecisionInv, Accept
    PROVE  DecisionInv'
<1>1. /\ Unmoved /\ stage' = stage /\ scored' = scored /\ trace' = trace
      /\ baseline' = trace /\ stage = "traced"
  BY DEF Accept, Unmoved
<1>2. /\ Given' /\ (Supported' <=> Supported) /\ (\A x : Evaluable(x)' <=> Evaluable(x))
      /\ offer' = offer /\ engine' = engine
  BY <1>1, UnmovedKeeps DEF Unmoved, fixture, DecisionInv
<1>3. trace.status = OK => Decided(trace)'
  BY <1>1, <1>2 DEF DecisionInv, Decided
<1>4. Ranks(trace)' /\ (\A t \in {trace', baseline'} \ {None} : Ranks(t)')
  BY <1>1 DEF DecisionInv, Ranks
<1> QED BY <1>1, <1>2, <1>3, <1>4 DEF DecisionInv

\* A new engine starts over.
LEMMA UpgradeKeeps ==
    ASSUME DecisionInv, Upgrade
    PROVE  DecisionInv'
<1>1. /\ stage' = "idle" /\ scored' = scored /\ trace' = trace /\ baseline' = baseline
      /\ engine' \in Engines /\ origin' = origin /\ hp' = hp /\ offer' = offer
      /\ actor' = actor /\ stage = "traced"
  BY DEF Upgrade, accepted, vars, fixture
<1>2. Given'
  BY <1>1 DEF DecisionInv, Given
<1>3. scored' = <<>>
  BY <1>1 DEF DecisionInv
<1>4. \A t \in {trace', baseline'} \ {None} : Ranks(t)'
  BY <1>1 DEF DecisionInv, Ranks
<1> QED BY <1>1, <1>2, <1>3, <1>4 DEF DecisionInv

\* So does a new state.
LEMMA LearnKeeps ==
    ASSUME DecisionInv, Learn
    PROVE  DecisionInv'
<1>1. /\ stage' = "idle" /\ scored' = scored /\ trace' = trace /\ baseline' = None
      /\ offer' = offer /\ actor' = actor /\ engine' = engine /\ stage = "traced"
  BY DEF Learn, fixture
<1>2. origin' = origin
  BY DEF Learn, LearnPosition, LearnTile, vars
<1>3. hp' \in [Others -> SUBSET Nat] /\ \A a \in Others : IsFiniteSet(hp'[a])
  <2>1. \/ hp' = hp
        \/ \E a \in Others : \E n \in hp[a] : hp' = [hp EXCEPT ![a] = {n}]
    BY DEF Learn
  <2>2. ASSUME NEW a \in Others, NEW n \in hp[a], hp' = [hp EXCEPT ![a] = {n}]
        PROVE  hp' \in [Others -> SUBSET Nat] /\ \A b \in Others : IsFiniteSet(hp'[b])
    <3>1. n \in Nat /\ hp \in [Others -> SUBSET Nat]
      BY DEF DecisionInv, Given
    <3>2. IsFiniteSet({n})
      BY FS_Singleton
    <3>3. \A b \in Others : hp'[b] = IF b = a THEN {n} ELSE hp[b]
      BY <2>2, <3>1
    <3> QED BY <2>2, <3>1, <3>2, <3>3 DEF DecisionInv, Given
  <2> QED BY <2>1, <2>2 DEF DecisionInv, Given
<1>4. Given'
  BY <1>1, <1>2, <1>3 DEF DecisionInv, Given
<1>5. scored' = <<>>
  BY <1>1 DEF DecisionInv
<1>6. \A t \in {trace', baseline'} \ {None} : Ranks(t)'
  BY <1>1 DEF DecisionInv, Ranks
<1> QED BY <1>1, <1>4, <1>5, <1>6 DEF DecisionInv

\* Every step keeps it.
LEMMA DecisionStep == DecisionInv /\ [DNext]_dvars => DecisionInv'
<1> SUFFICES ASSUME DecisionInv, [DNext]_dvars PROVE DecisionInv'
  OBVIOUS
<1>1. CASE UNCHANGED dvars
  <2>1. /\ Unmoved /\ stage' = stage /\ scored' = scored /\ trace' = trace
        /\ baseline' = baseline
    BY <1>1 DEF dvars, Unmoved, accepted
  <2>2. /\ Given' /\ (Supported' <=> Supported) /\ (\A x : Evaluable(x)' <=> Evaluable(x))
        /\ offer' = offer /\ engine' = engine
    BY <2>1, UnmovedKeeps DEF Unmoved, fixture, DecisionInv
  <2>3. trace.status = OK /\ stage = "traced" => Decided(trace)'
    BY <2>1, <2>2 DEF DecisionInv, Decided
  <2>4. (stage = "traced" => Ranks(trace)') /\ (\A t \in {trace', baseline'} \ {None} : Ranks(t)')
    BY <2>1 DEF DecisionInv, Ranks
  <2>5. stage = "scoring" => DOMAIN offer' # {} /\ Supported' /\ Scored(scored)'
    BY <2>1, <2>2 DEF DecisionInv, Scored, IsScore
  <2> QED BY <2>1, <2>2, <2>3, <2>4, <2>5 DEF DecisionInv
<1> QED
  BY <1>1, BeginKeeps, ScoreKeeps, SelectKeeps, AcceptStays, UpgradeKeeps, LearnKeeps DEF DNext

\* So it always holds.
LEMMA DecisionHolds == DSpec => []DecisionInv
BY DecisionStarts, DecisionStep, PTL DEF DSpec

\* Decisions are made in order and rank candidates just when they succeed
\* (evaluate_decision, run_decision_trace).
THEOREM DecisionsTypeCorrect == DSpec => []DTypeOK
<1>1. DecisionInv => DTypeOK
  BY DEF DecisionInv, DTypeOK, Given, Scored, Ranks
<1> QED BY <1>1, DecisionHolds, PTL

\* Whoever strikes in an action that can be evaluated is armed with the one known
\* weapon, and whoever is struck carries nothing.
LEMMA StrikesAreKnown ==
    ASSUME NEW action, Status(actor, action, hp, engine.supported) = OK,
           action.reactions \in Seq(Reaction), NEW strike \in Strikes(action)
    PROVE  Axed(strike[1]) /\ Bare(strike[2])
<1>0. OK # Unsupported /\ OK # Invalid
  BY DEF OK, Unsupported, Invalid
<1>1. CASE IsAttack(action)
  <2>1. AttackStatus(actor, action, hp, engine.supported) = OK
    BY <1>1 DEF Status
  <2>2. CanStrike(actor, Foe[action.target], action.skill, engine.supported)
    BY <1>0, <2>1, Zenon DEF AttackStatus
  <2>5. Axed(actor) /\ Bare(Foe[action.target])
    BY <2>2, Zenon DEF CanStrike
  <2>3. strike = <<actor, Foe[action.target]>>
    BY <1>1 DEF Strikes
  <2> QED BY <2>3, <2>5
<1>2. CASE ~IsAttack(action)
  <2>1. PICK i \in DOMAIN action.reactions :
           strike = <<Foe[action.reactions[i].by], actor>> /\ action.kind = "MOVE_TO"
    BY <1>2 DEF Strikes
  <2>2. MoveStatus(actor, action, engine.supported) = OK
    BY <1>2, <2>1 DEF Status
  <2>3. ReactionStatus(actor, action.reactions[i], engine.supported) = OK
    BY <2>2, ReactionsAreJudged
  <2>4. CanStrike(Foe[action.reactions[i].by], actor, action.reactions[i].skill,
                  engine.supported)
    BY <1>0, <2>3, Zenon DEF ReactionStatus
  <2>5. Axed(Foe[action.reactions[i].by]) /\ Bare(actor)
    BY <2>4, Zenon DEF CanStrike
  <2> QED BY <2>1, <2>5
<1> QED BY <1>1, <1>2

\* A recommendation covers the whole offer, and in all of it only strikes whose
\* outcome is known, or there is none (evaluate_decision,
\* _evaluate_ordinary_attack_context).
THEOREM DecisionsFailClosed == DSpec => []FailClosed
<1>1. ASSUME DecisionInv
      PROVE  FailClosed
  <2> SUFFICES ASSUME stage = "traced", trace.status = OK
               PROVE  /\ Range(trace.ranking) = DOMAIN offer
                      /\ \A a \in DOMAIN offer :
                            /\ \A f \in FamilyOf(offer[a]) : Needs[f] \subseteq engine.supported
                            /\ Status(actor, offer[a], hp, engine.supported) = OK
                            /\ \A strike \in Strikes(offer[a]) : Axed(strike[1]) /\ Bare(strike[2])
    BY DEF FailClosed
  <2>1. Decided(trace)
    BY <1>1 DEF DecisionInv
  <2>2. Range(trace.ranking) = DOMAIN offer
    BY <2>1 DEF Decided, WellRanked
  <2>3. \A a \in DOMAIN offer : Status(actor, offer[a], hp, engine.supported) = OK
    BY <2>1 DEF Decided, Evaluable
  <2>4. ASSUME NEW a \in DOMAIN offer, NEW f \in FamilyOf(offer[a])
        PROVE  Needs[f] \subseteq engine.supported
    <3>1. Uncovered(offer[a], engine.supported) = {}
      BY <2>1 DEF Decided, Supported, Problems
    <3>2. ASSUME NEW g \in Needs[f]
          PROVE  g \in engine.supported
      BY <3>1, <3>2 DEF Uncovered
    <3> QED BY <3>2
  <2>5. ASSUME NEW a \in DOMAIN offer, NEW strike \in Strikes(offer[a])
        PROVE  Axed(strike[1]) /\ Bare(strike[2])
    <3>1. IsAction(offer[a]) /\ Status(actor, offer[a], hp, engine.supported) = OK
      BY <1>1, <2>3, GivenIs DEF DecisionInv
    <3> QED BY <3>1, StrikesAreKnown DEF IsAction
  <2> QED BY <2>2, <2>3, <2>4, <2>5
<1> QED BY <1>1, DecisionHolds, PTL

\* So an attack is never compared with a move that provokes one: the attacker holds
\* the axe, and the mover must hold nothing (_evaluate_ordinary_attack_context).
NeverBoth ==
    stage = "traced" /\ trace.status = OK =>
        \A a, b \in DOMAIN offer :
           IsAttack(offer[a]) /\ ~IsAttack(offer[b]) => Strikes(offer[b]) = {}

THEOREM AttackerIsNotStruck == DSpec => []NeverBoth
<1>1. ASSUME FailClosed
      PROVE  NeverBoth
  <2> SUFFICES ASSUME stage = "traced", trace.status = OK,
                      NEW a \in DOMAIN offer, NEW b \in DOMAIN offer,
                      IsAttack(offer[a]), ~IsAttack(offer[b]), NEW s \in Strikes(offer[b])
               PROVE  FALSE
    BY DEF NeverBoth
  <2>1. Axed(actor)
    <3>1. <<actor, Foe[offer[a].target]>> \in Strikes(offer[a])
      BY DEF Strikes
    <3> QED BY <1>1, <3>1 DEF FailClosed
  <2>2. Bare(actor)
    <3>1. s[2] = actor
      BY DEF Strikes
    <3> QED BY <1>1, <3>1 DEF FailClosed
  <2> QED BY <2>1, <2>2 DEF Axed, Bare
<1> QED BY <1>1, DecisionsFailClosed, PTL

\* The ranking keeps to its margin, whatever was scored (select_candidate_evaluations).
THEOREM RankingsKeepTheMargin == DSpec => []RankingKeepsTheMargin
<1>1. ASSUME DecisionInv
      PROVE  RankingKeepsTheMargin
  <2> SUFFICES ASSUME stage = "traced", NEW i \in DOMAIN trace.ranking,
                      NEW j \in DOMAIN trace.ranking, i < j
               PROVE  LET s == trace.scores[trace.ranking[i]]
                          t == trace.scores[trace.ranking[j]]
                      IN /\ s.excluded => t.excluded
                         /\ s.excluded = t.excluded =>
                               s.value >= t.value - trace.engine.profile.margin
    BY DEF RankingKeepsTheMargin
  <2>1. trace.status = OK
    BY <1>1 DEF DecisionInv, Ranks
  <2>2. Decided(trace)
    BY <1>1, <2>1 DEF DecisionInv
  <2> QED BY <2>2 DEF Decided, WellRanked
<1> QED BY <1>1, DecisionHolds, PTL

\* The branches of a move account for all of the chance, whoever strikes at the
\* mover and however hard (transitions.py _move).
THEOREM MovesShareCertainty == DSpec => []MovesAreWhole
<1>1. ASSUME DecisionInv
      PROVE  MovesAreWhole
  <2> SUFFICES ASSUME NEW a \in DOMAIN offer,
                      offer[a].kind = "MOVE_TO", Status(actor, offer[a], hp, engine.supported) = OK
               PROVE  LET branches == Transition(actor, offer[a])
                      IN /\ Total(branches) = Unit
                         /\ \A b \in branches :
                               /\ Completed(b) <=> \A i \in DOMAIN b.trail :
                                                       b.trail[i].result = "MISS"
                               /\ Dead(b) => b.trail[Len(b.trail)].result # "MISS"
                               /\ b.actor.ap = actor.ap - offer[a].ap
    BY DEF MovesAreWhole
  <2>1. IsAction(offer[a]) /\ IsFighter(actor) /\ actor.hp > 0
    BY <1>1, GivenIs DEF DecisionInv
  <2>2. PICK action : action = offer[a] /\ IsAction(action)
    BY <2>1
  <2>3. action.kind = "MOVE_TO" /\ Status(actor, action, hp, engine.supported) = OK
    BY <2>2
  <2>4. ~IsAttack(action)
    <3>1. action.skill # "actives.chop"
      BY <2>2, <2>3 DEF IsAction, NoContent
    <3> QED BY <2>3, <3>1 DEF Status, AttackStatus, OK, Unsupported
  <2>5. \A i \in DOMAIN action.reactions : action.reactions[i].hit \in 1..19
    <3>1. MoveStatus(actor, action, engine.supported) = OK
      BY <2>3, <2>4 DEF Status
    <3> QED BY <2>2, <3>1, ReactionsAreJudged DEF IsAction
  <2>6. action.ap \in Nat /\ action.fatigue \in Nat /\ Divided(action)
    BY <2>2 DEF IsAction, Divided
  <2>7. PICK n \in Nat : n = Len(action.reactions)
    BY <2>6 DEF Divided
  <2>8. IsWhole(Moved(actor, action), n, Share(n)[n], actor.ap - action.ap)
    BY <2>1, <2>5, <2>6, <2>7, MovedIs
  <2>9. PICK share, ap : share = Share(n)[n] /\ ap = actor.ap - action.ap
    OBVIOUS
  <2>10. IsWhole(Transition(actor, action), n, share, ap)
    BY <2>3, <2>8, <2>9 DEF Transition
  <2>11. ASSUME NEW b \in Transition(actor, action)
         PROVE  /\ Completed(b) <=> \A i \in DOMAIN b.trail : b.trail[i].result = "MISS"
                /\ Dead(b) => b.trail[Len(b.trail)].result # "MISS"
                /\ b.actor.ap = ap
    <3>1. IsSound(b, n, share, ap)
      BY <2>10 DEF IsWhole
    <3>2. b.stopped <=> \E i \in DOMAIN b.trail : b.trail[i].result # "MISS"
      BY <3>1, Zenon DEF IsSound
    <3>3. Dead(b) => b.trail # <<>> /\ b.trail[Len(b.trail)].result # "MISS"
      BY <3>1, Zenon DEF IsSound
    <3>4. Dead(b) => Len(b.trail) \in DOMAIN b.trail
      <4>1. PICK q \in Seq(Blow) : q = b.trail
        BY <3>1 DEF IsSound
      <4>2. q # <<>> => Len(q) \in DOMAIN q
        OBVIOUS
      <4> QED BY <3>3, <4>1, <4>2
    <3> QED BY <3>1, <3>2, <3>3, <3>4 DEF Completed, IsSound
  <2>12. Total(Transition(actor, action)) = Unit
    BY <2>10 DEF IsWhole
  <2> QED BY <2>2, <2>9, <2>11, <2>12, Zenon
<1> QED BY <1>1, DecisionHolds, PTL

-----------------------------------------------------------------------------
(* Sums and means that grow *)

\* A range that lies within another, its own bounds in order
Inside(r, s) ==
    /\ r[1] \in Int /\ r[2] \in Int /\ s[1] \in Int /\ s[2] \in Int
    /\ s[1] <= r[1] /\ r[1] <= r[2] /\ r[2] <= s[2]

\* Products and quotients grow with what is multiplied and divided.
LEMMA ProductGrows ==
    ASSUME NEW w \in Int, w >= 0, NEW x \in Int, NEW y \in Int, x <= y
    PROVE  w * x <= w * y
<1>1. PICK d \in Nat : y = x + d
  <2>1. y - x \in Nat /\ y = x + (y - x)
    OBVIOUS
  <2> QED BY <2>1
<1>2. w * (x + d) = w * x + w * d
  OBVIOUS
<1>3. w * d >= 0
  OBVIOUS
<1>4. w * x \in Int /\ w * d \in Int
  OBVIOUS
<1> QED BY <1>1, <1>2, <1>3, <1>4

\* A quotient grows with its dividend,
LEMMA QuotientGrows ==
    ASSUME NEW d \in Int, d > 0, NEW x \in Int, NEW y \in Int, x <= y
    PROVE  x \div d <= y \div d
<1>1. PICK p \in Int, q \in Int : p = x \div d /\ q = y \div d
  OBVIOUS
<1>2. d * p <= x /\ y < d * (q + 1)
  BY <1>1
<1>3. SUFFICES ASSUME p > q PROVE FALSE
  BY <1>1
<1>4. d * (q + 1) <= d * p
  BY <1>3, ProductGrows
<1>5. d * (q + 1) \in Int /\ d * p \in Int
  OBVIOUS
<1> QED BY <1>2, <1>4, <1>5

\* and keeps within the bounds its dividend has.
LEMMA QuotientBounds ==
    ASSUME NEW d \in Int, d > 0, NEW lo \in Int, NEW hi \in Int, NEW x \in Int,
           d * lo <= x, x <= d * hi
    PROVE  lo <= x \div d /\ x \div d <= hi
<1>1. (d * lo) \div d = lo /\ (d * hi) \div d = hi
  OBVIOUS
<1>2. d * lo \in Int /\ d * hi \in Int
  OBVIOUS
<1> QED BY <1>1, <1>2, QuotientGrows

\* A sum grows with its addends.
LEMMA SumGrows ==
    ASSUME NEW S, IsFiniteSet(S), NEW g, NEW h,
           \A x \in S : g[x] \in Int /\ h[x] \in Int /\ g[x] <= h[x]
    PROVE  SumOver(S, g) <= SumOver(S, h)
<1>1. Stepping(S, g) /\ Stepping(S, h)
  BY SumStepsIs DEF Addends
<1> DEFINE G == { t \in SUBSET S : SumOver(t, g) <= SumOver(t, h) }
<1>2. {} \in G
  BY <1>1 DEF Stepping
<1>3. ASSUME NEW t \in SUBSET S, NEW x \in t, t \ {x} \in G
      PROVE  t \in G
  <2>1. /\ SumOver(t, g) = g[x] + SumOver(t \ {x}, g)
        /\ SumOver(t, h) = h[x] + SumOver(t \ {x}, h)
        /\ SumOver(t \ {x}, g) \in Int /\ SumOver(t \ {x}, h) \in Int
    BY <1>1 DEF Stepping
  <2>2. SumOver(t \ {x}, g) <= SumOver(t \ {x}, h)
    BY <1>3
  <2>3. g[x] \in Int /\ h[x] \in Int /\ g[x] <= h[x]
    OBVIOUS
  <2>4. SumOver(t, g) <= SumOver(t, h)
    BY <2>1, <2>2, <2>3
  <2> QED BY <2>4
<1> HIDE DEF G
<1>4. \A t \in SUBSET S : t \in G
  BY <1>2, <1>3, PartInduction
<1>5. S \in G
  BY <1>4
<1> QED BY <1>5 DEF G

\* The weighted mean of some numbers, rounded down
Weighed(M, w, x) == SumOver(M, [m \in M |-> w[m] * x[m]]) \div SumOver(M, w)
Weights(M, w) == IsFiniteSet(M) /\ M # {} /\ \A m \in M : w[m] \in Int /\ w[m] > 0

\* Weights sum to something.
LEMMA WeightsSum ==
    ASSUME NEW M, NEW w, Weights(M, w)
    PROVE  SumOver(M, w) \in Int /\ SumOver(M, w) > 0
<1>1. PICK g : g = [m \in M |-> w[m]]
  OBVIOUS
<1>2. SumFunction(g) \in Int /\ SumFunction(g) > 0
  BY <1>1, SumFacts DEF Weights
<1>3. SumFunction(g) = SumOver(M, g)
  BY <1>1, SumIs
<1>4. SumOver(M, g) = SumOver(M, w)
  BY <1>1, SameSum DEF Weights
<1> QED BY <1>2, <1>3, <1>4

\* It grows with them.
LEMMA MeanGrows ==
    ASSUME NEW M, NEW w, Weights(M, w), NEW x, NEW y,
           \A m \in M : x[m] \in Int /\ y[m] \in Int /\ x[m] <= y[m]
    PROVE  /\ Weighed(M, w, x) \in Int /\ Weighed(M, w, y) \in Int
           /\ Weighed(M, w, x) <= Weighed(M, w, y)
<1>1. PICK g, h : g = [m \in M |-> w[m] * x[m]] /\ h = [m \in M |-> w[m] * y[m]]
  OBVIOUS
<1>2. ASSUME NEW m \in M
      PROVE  g[m] \in Int /\ h[m] \in Int /\ g[m] <= h[m]
  <2>1. PICK a \in Int, b \in Int, c \in Int : a = w[m] /\ b = x[m] /\ c = y[m] /\ a > 0 /\ b <= c
    BY DEF Weights
  <2>2. a * b \in Int /\ a * c \in Int /\ a * b <= a * c
    BY <2>1, ProductGrows
  <2> QED BY <1>1, <2>1, <2>2
<1>3. SumOver(M, g) <= SumOver(M, h)
  BY <1>2, SumGrows DEF Weights
<1>4. SumOver(M, g) \in Int /\ SumOver(M, h) \in Int
  BY <1>2, SumSteps DEF Weights
<1>5. PICK d \in Int : d = SumOver(M, w) /\ d > 0
  BY WeightsSum
<1>6. SumOver(M, g) \div d <= SumOver(M, h) \div d
  BY <1>3, <1>4, <1>5, QuotientGrows
<1>7. SumOver(M, g) \div d \in Int /\ SumOver(M, h) \div d \in Int
  BY <1>4, <1>5
<1> QED BY <1>1, <1>5, <1>6, <1>7 DEF Weighed

\* It lies between the least and the greatest.
LEMMA MeanBetween ==
    ASSUME NEW M, NEW w, Weights(M, w), NEW x, NEW lo \in Int, NEW hi \in Int,
           \A m \in M : x[m] \in Int /\ lo <= x[m] /\ x[m] <= hi
    PROVE  lo <= Weighed(M, w, x) /\ Weighed(M, w, x) <= hi
<1>1. PICK g : g = [m \in M |-> w[m] * x[m]]
  OBVIOUS
<1>2. PICK l, h : l = [m \in M |-> lo * w[m]] /\ h = [m \in M |-> hi * w[m]]
  OBVIOUS
<1>3. ASSUME NEW m \in M
      PROVE  /\ g[m] \in Int /\ h[m] \in Int /\ l[m] \in Int
             /\ l[m] <= g[m] /\ g[m] <= h[m]
  <2>1. PICK a \in Int, b \in Int : a = w[m] /\ b = x[m] /\ a > 0 /\ lo <= b /\ b <= hi
    BY DEF Weights
  <2>2. a * b \in Int /\ a * lo \in Int /\ a * hi \in Int /\ a * lo <= a * b /\ a * b <= a * hi
    BY <2>1, ProductGrows
  <2>3. a * lo = lo * a /\ a * hi = hi * a
    OBVIOUS
  <2> QED BY <1>1, <1>2, <2>1, <2>2, <2>3
<1>4. SumOver(M, l) <= SumOver(M, g) /\ SumOver(M, g) <= SumOver(M, h)
  BY <1>3, SumGrows DEF Weights
<1>5. SumOver(M, g) \in Int
  BY <1>3, SumSteps DEF Weights
<1>6. PICK d \in Int : d = SumOver(M, w) /\ d > 0
  BY WeightsSum
<1>7. SumOver(M, l) = lo * d /\ SumOver(M, h) = hi * d
  BY <1>2, <1>6, ScaledSum DEF Weights
<1>8. d * lo <= SumOver(M, g) /\ SumOver(M, g) <= d * hi
  BY <1>4, <1>7
<1>9. PICK y \in Int : y = SumOver(M, g)
  BY <1>5
<1>10. lo <= y \div d /\ y \div d <= hi
  BY <1>6, <1>8, <1>9, QuotientBounds
<1> QED BY <1>1, <1>6, <1>9, <1>10 DEF Weighed

-----------------------------------------------------------------------------
(* Measures that nest and narrow *)

\* A measure whose views are in order, the robust one within its support
Nests(m) ==
    /\ Inside(m["robust"], m["support"])
    /\ Inside(m["epistemic"], m["epistemic"])

\* A measure that says more than another, in every view
Narrower(m, n) == \A v \in Views : Inside(m[v], n[v])

\* The least and the greatest of some numbers.
Spans(S, f, lo, hi) ==
    /\ lo \in Int /\ hi \in Int
    /\ \A b \in S : lo <= f[b] /\ f[b] <= hi
    /\ \E b \in S : f[b] = lo
    /\ \E b \in S : f[b] = hi

\* There are both.
LEMMA SpanIs ==
    ASSUME NEW S, IsFiniteSet(S), S # {}, NEW f, \A b \in S : f[b] \in Int
    PROVE  Spans(S, f, Min({ f[b] : b \in S }), Max({ f[b] : b \in S }))
<1>1. PICK E : E = { f[b] : b \in S }
  OBVIOUS
<1>2. E \in SUBSET Int /\ E # {} /\ IsFiniteSet(E)
  BY <1>1, ImageIsFinite
<1>3. /\ Min(E) \in E /\ \A x \in E : Min(E) <= x
      /\ Max(E) \in E /\ \A x \in E : x <= Max(E)
  BY <1>2, MinIsLeast
<1>4. PICK lo \in E, hi \in E : lo = Min(E) /\ hi = Max(E)
  BY <1>3
<1>5. Spans(S, f, lo, hi)
  BY <1>1, <1>2, <1>3, <1>4 DEF Spans
<1> QED BY <1>1, <1>4, <1>5, Zenon

\* The weights of branches, and a bound of what is measured of them
WeightOf(S) == [b \in S |-> b.weight]
Bound(m, v, i) == [b \in DOMAIN m |-> m[b][v][i]]
Measured(m) ==
    /\ IsFiniteSet(DOMAIN m) /\ DOMAIN m # {}
    /\ \A b \in DOMAIN m : b.weight \in Int /\ b.weight > 0 /\ IsMeasure(m[b])

\* _weighted_range over branches: the support spans theirs, the rest are means.
LEMMA OverMeans ==
    ASSUME NEW m, Measured(m)
    PROVE  LET S == DOMAIN m
               o == OverBranches(m)
           IN  /\ o["support"] = <<Min({ m[b]["support"][1] : b \in S }),
                                   Max({ m[b]["support"][2] : b \in S })>>
               /\ \A v \in {"robust", "epistemic"} :
                     o[v] = <<Weighed(S, WeightOf(S), Bound(m, v, 1)),
                              Weighed(S, WeightOf(S), Bound(m, v, 2))>>
<1> DEFINE S == DOMAIN m
           f == [b \in S |-> [branch |-> b, weight |-> b.weight, range |-> m[b]]]
           M == { f[b] : b \in S }
           T == Total(M)
           g(v, i) == [r \in M |-> r.weight * r.range[v][i]]
           mean(v, i) == SumFunction(g(v, i)) \div T
<1>1. OverBranches(m) = Integrated(M)
  BY DEF OverBranches
<1>2. M # {} /\ IsFiniteSet(M) /\ IsFiniteSet(S)
  <2>1. IsFiniteSet(S) /\ S # {}
    BY DEF Measured
  <2> HIDE DEF f
  <2> QED BY <2>1, ImageIsFinite
<1>3. Integrated(M) = [support |-> <<Min({ r.range["support"][1] : r \in M }),
                                      Max({ r.range["support"][2] : r \in M })>>,
                        robust |-> <<mean("robust", 1), mean("robust", 2)>>,
                        epistemic |-> <<mean("epistemic", 1), mean("epistemic", 2)>>]
  <2> HIDE DEF M
  <2> QED BY <1>2, Zenon DEF Integrated, InViews
<1>4. \A b \in S : f[b].branch = b /\ f[b].weight = b.weight /\ f[b].range = m[b]
  OBVIOUS
<1>5. \A x, y \in S : f[x] = f[y] => x = y
  BY <1>4
<1>0. \A b \in S : f[b] \in M
  OBVIOUS
<1>6. /\ { r.range["support"][1] : r \in M } = { m[b]["support"][1] : b \in S }
      /\ { r.range["support"][2] : r \in M } = { m[b]["support"][2] : b \in S }
  <2>1. PICK E, F : E = { r.range["support"][1] : r \in M } /\ F = { r.range["support"][2] : r \in M }
    OBVIOUS
  <2>2. E = { f[b].range["support"][1] : b \in S } /\ F = { f[b].range["support"][2] : b \in S }
    <3> HIDE DEF f, S
    <3> QED BY <2>1
  <2>3. \A b \in S : f[b].range = m[b]
    BY <1>4
  <2> HIDE DEF f, S
  <2> QED BY <2>1, <2>2, <2>3
<1>7. T = SumOver(S, WeightOf(S))
  <2>1. PICK w : w = [r \in M |-> r.weight]
    OBVIOUS
  <2>2. T = SumOver(M, w)
    BY <2>1, SumIs DEF Total
  <2>3. \A b \in S : b.weight \in Int
    BY DEF Measured
  <2>4. \A b \in S : w[f[b]] = b.weight /\ b.weight \in Int
    <3>1. \A b \in S : w[f[b]] = f[b].weight
      <4> HIDE DEF f, M, S
      <4> QED BY <1>0, <2>1
    <3> HIDE DEF f, M, S
    <3> QED BY <1>4, <2>3, <3>1
  <2>5. PICK h : h = WeightOf(S)
    OBVIOUS
  <2>6. \A b \in S : h[b] = w[f[b]] /\ w[f[b]] \in Int
    <3> HIDE DEF f, M, S
    <3> QED BY <2>4, <2>5 DEF WeightOf
  <2>7. SumOver({ f[b] : b \in S }, w) = SumOver(S, h)
    <3> HIDE DEF f, S
    <3> QED BY <1>2, <1>5, <2>6, RenamedSum
  <2> QED BY <2>2, <2>5, <2>7
<1>8. ASSUME NEW v \in Views, NEW i \in {1, 2}
      PROVE  mean(v, i) = Weighed(S, WeightOf(S), Bound(m, v, i))
  <2>1. PICK w : w = g(v, i)
    OBVIOUS
  <2>2. SumFunction(w) = SumOver(M, w)
    BY <2>1, SumIs
  <2>4. PICK h : h = [b \in S |-> WeightOf(S)[b] * Bound(m, v, i)[b]]
    OBVIOUS
  <2>5. \A b \in S : h[b] = b.weight * m[b][v][i]
    BY <2>4 DEF WeightOf, Bound
  <2>6. \A b \in S : w[f[b]] = b.weight * m[b][v][i]
    <3>1. \A b \in S : w[f[b]] = f[b].weight * f[b].range[v][i]
      <4> HIDE DEF f, M, S
      <4> QED BY <1>0, <2>1
    <3> HIDE DEF f, M, S
    <3> QED BY <1>4, <3>1
  <2>7. \A b \in S : w[f[b]] \in Int
    <3>1. ASSUME NEW b \in S
          PROVE  b.weight * m[b][v][i] \in Int
      <4>1. PICK x \in Int, y \in Int : x = b.weight /\ y = m[b][v][i]
        BY DEF Measured, IsMeasure
      <4> QED BY <4>1, ProductIs
    <3> HIDE DEF f, M, S
    <3> QED BY <2>6, <3>1
  <2>8. \A b \in S : h[b] = w[f[b]]
    <3> HIDE DEF f, M, S
    <3> QED BY <2>5, <2>6
  <2>9. SumOver({ f[b] : b \in S }, w) = SumOver(S, h)
    <3> HIDE DEF f, S
    <3> QED BY <1>2, <1>5, <2>7, <2>8, RenamedSum
  <2>10. SumOver(M, w) = SumOver(S, h)
    BY <2>9
  <2>11. mean(v, i) = SumFunction(w) \div T
    BY <2>1
  <2> HIDE DEF T, M, g, S, f, mean
  <2> QED BY <1>7, <2>2, <2>4, <2>10, <2>11 DEF Weighed
<1> HIDE DEF T, M, g, S, mean
<1>9. /\ OverBranches(m)["support"] = <<Min({ m[b]["support"][1] : b \in S }),
                                        Max({ m[b]["support"][2] : b \in S })>>
      /\ \A v \in {"robust", "epistemic"} : OverBranches(m)[v] = <<mean(v, 1), mean(v, 2)>>
  <2>1. PICK lo, hi : /\ lo = Min({ r.range["support"][1] : r \in M })
                      /\ hi = Max({ r.range["support"][2] : r \in M })
    OBVIOUS
  <2>2. /\ lo = Min({ m[b]["support"][1] : b \in S })
        /\ hi = Max({ m[b]["support"][2] : b \in S })
    BY <1>6, <2>1, Zenon
  <2>3. PICK p, q : /\ p = <<mean("robust", 1), mean("robust", 2)>>
                    /\ q = <<mean("epistemic", 1), mean("epistemic", 2)>>
    OBVIOUS
  <2>4. OverBranches(m) = [support |-> <<lo, hi>>, robust |-> p, epistemic |-> q]
    BY <1>1, <1>3, <2>1, <2>3, Zenon
  <2>5. OverBranches(m)["support"] = <<lo, hi>>
    BY <2>4
  <2>6. \A v \in {"robust", "epistemic"} : OverBranches(m)[v] = <<mean(v, 1), mean(v, 2)>>
    BY <2>3, <2>4
  <2> QED BY <2>2, <2>5, <2>6, Zenon
<1>10. ASSUME NEW v \in {"robust", "epistemic"}
       PROVE  OverBranches(m)[v] = <<Weighed(S, WeightOf(S), Bound(m, v, 1)),
                                     Weighed(S, WeightOf(S), Bound(m, v, 2))>>
  <2>1. v \in Views
    BY DEF Views
  <2>2. /\ mean(v, 1) = Weighed(S, WeightOf(S), Bound(m, v, 1))
        /\ mean(v, 2) = Weighed(S, WeightOf(S), Bound(m, v, 2))
    BY <1>8, <2>1
  <2> QED BY <1>9, <2>2
<1> QED BY <1>9, <1>10, Zenon DEF S

\* Branches weigh something.
LEMMA MeasuredWeighs ==
    ASSUME NEW m, Measured(m)
    PROVE  Weights(DOMAIN m, WeightOf(DOMAIN m))
BY DEF Measured, Weights, WeightOf

\* Nothing measured measures nothing, exactly.
LEMMA NothingNests ==
    ASSUME NEW n \in Int
    PROVE  Nests(Sure(n)) /\ Narrower(Sure(n), Sure(n)) /\ Nests(Range0(n, n))
           /\ Narrower(Range0(n, n), Range0(n, n))
<1>1. PICK u \in Int : u = n * Unit
  BY RollsAre, ProductIs
<1> QED BY <1>1 DEF Nests, Narrower, Inside, Sure, Range0, InViews, Views

\* Measures that nest are measured numbers.
LEMMA NestsIs ==
    ASSUME NEW m, Nests(m)
    PROVE  IsMeasure(m) /\ Narrower(m, m)
BY DEF Nests, Inside, IsMeasure, Narrower, Views

\* The measure of branches that each nest nests.
LEMMA OverNests ==
    ASSUME NEW m, IsFiniteSet(DOMAIN m),
           \A b \in DOMAIN m : Counts(b) /\ Nests(m[b])
    PROVE  Nests(OverBranches(m))
<1>1. CASE DOMAIN m = {}
  <2>1. { [branch |-> b, weight |-> b.weight, range |-> m[b]] : b \in DOMAIN m } = {}
    BY <1>1
  <2>2. OverBranches(m) = Sure(0)
    BY <2>1 DEF OverBranches, Integrated
  <2>3. Nests(Sure(0))
    BY NothingNests
  <2> QED BY <2>2, <2>3, Zenon
<1>2. CASE DOMAIN m # {}
  <2>1. Measured(m)
    BY <1>2, NestsIs DEF Measured, Counts
  <2>2. PICK S, w, o : S = DOMAIN m /\ w = WeightOf(DOMAIN m) /\ o = OverBranches(m)
    OBVIOUS
  <2>3. IsFiniteSet(S) /\ S # {} /\ Weights(S, w)
    BY <1>2, <2>1, <2>2, MeasuredWeighs
  <2>4. PICK lo, hi : lo = Min({ m[b]["support"][1] : b \in S })
                      /\ hi = Max({ m[b]["support"][2] : b \in S })
    OBVIOUS
  <2>5. /\ o["support"] = <<lo, hi>>
        /\ \A v \in {"robust", "epistemic"} :
              o[v] = <<Weighed(S, w, Bound(m, v, 1)), Weighed(S, w, Bound(m, v, 2))>>
    BY <2>1, <2>2, <2>4, OverMeans
  <2>6. PICK f, g : f = Bound(m, "support", 1) /\ g = Bound(m, "support", 2)
    OBVIOUS
  <2>7. \A b \in S : /\ f[b] = m[b]["support"][1] /\ g[b] = m[b]["support"][2]
                     /\ f[b] \in Int /\ g[b] \in Int
    BY <2>2, <2>6 DEF Bound, Nests, Inside
  <2>8. /\ { f[b] : b \in S } = { m[b]["support"][1] : b \in S }
        /\ { g[b] : b \in S } = { m[b]["support"][2] : b \in S }
    BY <2>7
  <2>9. lo \in Int /\ hi \in Int /\ \A b \in S : lo <= f[b] /\ g[b] <= hi
    <3>1. Spans(S, f, Min({ f[b] : b \in S }), Max({ f[b] : b \in S }))
      BY <2>3, <2>7, SpanIs
    <3>2. Spans(S, g, Min({ g[b] : b \in S }), Max({ g[b] : b \in S }))
      BY <2>3, <2>7, SpanIs
    <3>3. lo = Min({ f[b] : b \in S }) /\ hi = Max({ g[b] : b \in S })
      BY <2>4, <2>8, Zenon
    <3> QED BY <3>1, <3>2, <3>3 DEF Spans
  <2>10. ASSUME NEW v \in {"robust", "epistemic"}
         PROVE  /\ o[v][1] \in Int /\ o[v][2] \in Int /\ o[v][1] <= o[v][2]
    <3>1. PICK x, y : x = Bound(m, v, 1) /\ y = Bound(m, v, 2)
      OBVIOUS
    <3>2. \A b \in S : x[b] \in Int /\ y[b] \in Int /\ x[b] <= y[b]
      BY <2>2, <3>1 DEF Bound, Nests, Inside
    <3>3. Weighed(S, w, x) \in Int /\ Weighed(S, w, y) \in Int /\ Weighed(S, w, x) <= Weighed(S, w, y)
      BY <2>3, <3>2, MeanGrows
    <3> QED BY <2>5, <3>1, <3>3
  <2>11. lo <= o["robust"][1] /\ o["robust"][2] <= hi
    <3>1. PICK x, y : x = Bound(m, "robust", 1) /\ y = Bound(m, "robust", 2)
      OBVIOUS
    <3>2. \A b \in S : /\ x[b] \in Int /\ y[b] \in Int
                       /\ f[b] <= x[b] /\ x[b] <= y[b] /\ y[b] <= g[b]
      BY <2>2, <2>7, <3>1 DEF Bound, Nests, Inside
    <3>3. \A b \in S : /\ x[b] \in Int /\ lo <= x[b] /\ x[b] <= hi
                       /\ y[b] \in Int /\ lo <= y[b] /\ y[b] <= hi
      BY <2>7, <2>9, <3>2
    <3>4. lo <= Weighed(S, w, x) /\ Weighed(S, w, y) <= hi
      BY <2>3, <2>9, <3>3, MeanBetween
    <3> QED BY <2>5, <3>1, <3>4
  <2>12. Nests(o)
    BY <2>5, <2>9, <2>10, <2>11 DEF Nests, Inside
  <2> QED BY <2>2, <2>12
<1> QED BY <1>1, <1>2

\* What says more of every branch says more of all.
LEMMA OverNarrows ==
    ASSUME NEW m, NEW n, IsFiniteSet(DOMAIN m), DOMAIN n = DOMAIN m,
           \A b \in DOMAIN m : Counts(b) /\ Narrower(m[b], n[b])
    PROVE  Narrower(OverBranches(m), OverBranches(n))
<1>1. CASE DOMAIN m = {}
  <2>1. /\ { [branch |-> b, weight |-> b.weight, range |-> m[b]] : b \in DOMAIN m } = {}
        /\ { [branch |-> b, weight |-> b.weight, range |-> n[b]] : b \in DOMAIN n } = {}
    BY <1>1
  <2>2. OverBranches(m) = Sure(0) /\ OverBranches(n) = Sure(0)
    BY <2>1 DEF OverBranches, Integrated
  <2>3. Narrower(Sure(0), Sure(0))
    BY NothingNests
  <2> QED BY <2>2, <2>3, Zenon
<1>2. CASE DOMAIN m # {}
  <2>1. Measured(m) /\ Measured(n)
    BY <1>2 DEF Measured, Counts, Narrower, Inside, IsMeasure
  <2>2. PICK S, w : S = DOMAIN m /\ w = WeightOf(DOMAIN m)
    OBVIOUS
  <2>3. IsFiniteSet(S) /\ S # {} /\ Weights(S, w)
    BY <1>2, <2>1, <2>2, MeasuredWeighs
  <2>4. PICK o, q : o = OverBranches(m) /\ q = OverBranches(n)
    OBVIOUS
  <2>5. ASSUME NEW v \in {"robust", "epistemic"}
        PROVE  Inside(o[v], q[v])
    <3>1. PICK x, y : x = Bound(m, v, 1) /\ y = Bound(m, v, 2)
      OBVIOUS
    <3>2. PICK l, h : l = Bound(n, v, 1) /\ h = Bound(n, v, 2)
      OBVIOUS
    <3>3. \A b \in S : /\ x[b] \in Int /\ y[b] \in Int /\ l[b] \in Int /\ h[b] \in Int
                       /\ l[b] <= x[b] /\ x[b] <= y[b] /\ y[b] <= h[b]
      BY <2>2, <3>1, <3>2 DEF Bound, Narrower, Inside, Views
    <3>4. /\ Weighed(S, w, l) \in Int /\ Weighed(S, w, l) <= Weighed(S, w, x)
          /\ Weighed(S, w, x) \in Int /\ Weighed(S, w, x) <= Weighed(S, w, y)
          /\ Weighed(S, w, y) \in Int /\ Weighed(S, w, y) <= Weighed(S, w, h)
          /\ Weighed(S, w, h) \in Int
      BY <2>3, <3>3, MeanGrows
    <3>5. /\ o[v] = <<Weighed(S, w, x), Weighed(S, w, y)>>
          /\ q[v] = <<Weighed(S, w, l), Weighed(S, w, h)>>
      BY <2>1, <2>2, <2>4, <3>1, <3>2, OverMeans
    <3> QED BY <3>4, <3>5 DEF Inside
  <2>6. Inside(o["support"], q["support"])
    <3>1. PICK x, y : x = Bound(m, "support", 1) /\ y = Bound(m, "support", 2)
      OBVIOUS
    <3>2. PICK l, h : l = Bound(n, "support", 1) /\ h = Bound(n, "support", 2)
      OBVIOUS
    <3>3. \A b \in S : /\ x[b] \in Int /\ y[b] \in Int /\ l[b] \in Int /\ h[b] \in Int
                       /\ l[b] <= x[b] /\ x[b] <= y[b] /\ y[b] <= h[b]
      BY <2>2, <3>1, <3>2 DEF Bound, Narrower, Inside, Views
    <3>4. /\ o["support"] = <<Min({ x[b] : b \in S }), Max({ y[b] : b \in S })>>
          /\ q["support"] = <<Min({ l[b] : b \in S }), Max({ h[b] : b \in S })>>
      <4>1. \A b \in S : /\ x[b] = m[b]["support"][1] /\ y[b] = m[b]["support"][2]
                         /\ l[b] = n[b]["support"][1] /\ h[b] = n[b]["support"][2]
        BY <2>2, <3>1, <3>2 DEF Bound
      <4>2. /\ { x[b] : b \in S } = { m[b]["support"][1] : b \in S }
            /\ { y[b] : b \in S } = { m[b]["support"][2] : b \in S }
            /\ { l[b] : b \in S } = { n[b]["support"][1] : b \in S }
            /\ { h[b] : b \in S } = { n[b]["support"][2] : b \in S }
        BY <4>1
      <4>3. o["support"] = <<Min({ m[b]["support"][1] : b \in S }), Max({ m[b]["support"][2] : b \in S })>>
        BY <2>1, <2>2, <2>4, OverMeans
      <4>4. q["support"] = <<Min({ n[b]["support"][1] : b \in S }), Max({ n[b]["support"][2] : b \in S })>>
        <5>1. DOMAIN n = S
          BY <2>2
        <5> QED BY <2>1, <2>4, <5>1, OverMeans
      <4> QED BY <4>2, <4>3, <4>4, Zenon
    <3>5. PICK a, b, c, d : /\ a = Min({ l[s] : s \in S }) /\ b = Min({ x[s] : s \in S })
                            /\ c = Max({ y[s] : s \in S }) /\ d = Max({ h[s] : s \in S })
      OBVIOUS
    <3>6. /\ Spans(S, l, Min({ l[t] : t \in S }), Max({ l[t] : t \in S }))
          /\ Spans(S, x, Min({ x[t] : t \in S }), Max({ x[t] : t \in S }))
          /\ Spans(S, y, Min({ y[t] : t \in S }), Max({ y[t] : t \in S }))
          /\ Spans(S, h, Min({ h[t] : t \in S }), Max({ h[t] : t \in S }))
      BY <2>3, <3>3, SpanIs
    <3>7. PICK k, e : k = Max({ l[t] : t \in S }) /\ e = Max({ x[t] : t \in S })
      OBVIOUS
    <3>8. PICK i, j : i = Min({ y[t] : t \in S }) /\ j = Min({ h[t] : t \in S })
      OBVIOUS
    <3>9. Spans(S, l, a, k) /\ Spans(S, x, b, e) /\ Spans(S, y, i, c) /\ Spans(S, h, j, d)
      BY <3>5, <3>6, <3>7, <3>8, Zenon
    <3>10. a \in Int /\ b \in Int /\ c \in Int /\ d \in Int /\ a <= b /\ b <= c /\ c <= d
      BY <2>3, <3>3, <3>9 DEF Spans
    <3> QED BY <3>4, <3>5, <3>10 DEF Inside
  <2>7. Narrower(o, q)
    BY <2>5, <2>6 DEF Narrower, Views
  <2> QED BY <2>4, <2>7
<1> QED BY <1>1, <1>2

\* A fact that surely holds of no more than it may hold of
InOrder0(f) == IsFact(f) /\ f.sure \subseteq f.may

\* Counting it gives a measure that nests.
LEMMA CountedNests ==
    ASSUME NEW f, InOrder0(f)
    PROVE  Nests(Counted(f))
<1>1. PICK m \in Nat, n \in Nat : m = Cardinality(f.sure) /\ n = Cardinality(f.may)
  BY FS_CardinalityType DEF IsFact, InOrder0
<1>2. m <= n
  BY <1>1, FS_Subset DEF IsFact, InOrder0
<1>3. PICK u \in Int : u = Unit /\ u >= 0
  BY RollsAre
<1>4. PICK x \in Int, y \in Int : x = m * u /\ y = n * u
  OBVIOUS
<1>5. x <= y
  <2>1. u * m <= u * n
    BY <1>2, <1>3, ProductGrows
  <2>2. u * m = m * u /\ u * n = n * u
    OBVIOUS
  <2> QED BY <1>4, <2>1, <2>2
<1>6. Counted(f) = Range0(x, y)
  BY <1>1, <1>3, <1>4 DEF Counted
<1> QED BY <1>5, <1>6 DEF Range0, InViews, Nests, Inside

\* What narrows a fact narrows its count.
LEMMA CountedNarrows ==
    ASSUME NEW f, NEW g, InOrder0(f), InOrder0(g), Narrows(f, g)
    PROVE  Narrower(Counted(g), Counted(f))
<1>1. PICK m \in Nat, n \in Nat : m = Cardinality(f.sure) /\ n = Cardinality(f.may)
  BY FS_CardinalityType DEF IsFact, InOrder0
<1>2. PICK k \in Nat, l \in Nat : k = Cardinality(g.sure) /\ l = Cardinality(g.may)
  BY FS_CardinalityType DEF IsFact, InOrder0
<1>3. m <= k /\ k <= l /\ l <= n
  BY <1>1, <1>2, FS_Subset DEF IsFact, InOrder0, Narrows
<1>4. PICK u \in Int : u = Unit /\ u >= 0
  BY RollsAre
<1>5. PICK a \in Int, b \in Int, c \in Int, d \in Int :
         a = m * u /\ b = k * u /\ c = l * u /\ d = n * u
  OBVIOUS
<1>6. a <= b /\ b <= c /\ c <= d
  <2>1. u * m <= u * k /\ u * k <= u * l /\ u * l <= u * n
    BY <1>3, <1>4, ProductGrows
  <2>2. u * m = m * u /\ u * n = n * u /\ u * k = k * u /\ u * l = l * u
    OBVIOUS
  <2> QED BY <1>5, <2>1, <2>2
<1>7. Counted(f) = Range0(a, d) /\ Counted(g) = Range0(b, c)
  BY <1>1, <1>2, <1>4, <1>5 DEF Counted
<1> QED BY <1>6, <1>7 DEF Range0, InViews, Narrower, Inside, Views

-----------------------------------------------------------------------------
(* Attacks and pressure *)

\* What an attack does to a target of n hit points
Does(action, e) == [n \in Nat |-> Expected(action, n, e)]

\* _attack_metric: a number when the target is a distribution, else a span.
LEMMA AttackSpans ==
    ASSUME NEW action, action.target \in Others, action.hit \in 1..19,
           NEW values, IsKnown(values[action.target]), NEW e \in {"wounds", "torn", "kill"},
           NEW S, S = values[action.target], NEW g, g = Does(action, e)
    PROVE  /\ \A n \in S : g[n] \in Int
           /\ action.target \in Weighted =>
                 \E z \in Int : AttackMetric(action, values, e) = Range0(z, z)
           /\ action.target \notin Weighted =>
                 AttackMetric(action, values, e) =
                    Range0(Min({ g[n] : n \in S }), Max({ g[n] : n \in S }))
<1>1. IsKnown(S)
  OBVIOUS
<1>2. \A n \in S : g[n] = Expected(action, n, e) /\ g[n] \in Int
  BY <1>1, ExpectedIs DEF IsKnown, Does
<1>3. { g[n] : n \in S } = { Expected(action, n, e) : n \in S }
  BY <1>2
<1>4. PICK f : f = [n \in S |-> Expected(action, n, e)]
  OBVIOUS
<1>5. PICK z \in Int : z = SumFunction(f) \div Cardinality(S)
  <2>1. PICK u \in Int : u = SumFunction(f)
    BY <1>1, <1>2, <1>4, SumFacts DEF IsKnown
  <2>2. PICK c \in Nat : c = Cardinality(S) /\ c > 0
    <3>1. Cardinality(S) \in Nat /\ Cardinality(S) # 0
      BY <1>1, FS_CardinalityType, FS_EmptySet DEF IsKnown
    <3> QED BY <3>1
  <2>3. u \div c \in Int
    BY <2>2
  <2> QED BY <2>1, <2>2, <2>3
<1>6. AttackMetric(action, values, e) =
        IF action.target \in Weighted THEN Range0(z, z)
        ELSE Range0(Min({ g[n] : n \in S }), Max({ g[n] : n \in S }))
  BY <1>3, <1>4, <1>5, Zenon DEF AttackMetric
<1> QED BY <1>2, <1>6, Zenon

\* A span of numbers in order is a measure that nests, and lies in a wider one.
LEMMA RangeNarrows ==
    ASSUME NEW a \in Int, NEW b \in Int, NEW c \in Int, NEW d \in Int, a <= b, b <= c, c <= d
    PROVE  Nests(Range0(b, c)) /\ Narrower(Range0(b, c), Range0(a, d))
BY DEF Nests, Narrower, Inside, Range0, InViews, Views

\* Knowing more of the target narrows what the attack does.
LEMMA AttackNarrows ==
    ASSUME NEW action, action.target \in Others, action.hit \in 1..19,
           NEW v, IsKnown(v[action.target]), NEW w, IsKnown(w[action.target]),
           w[action.target] \subseteq v[action.target],
           action.target \in Weighted => w[action.target] = v[action.target],
           NEW e \in {"wounds", "torn", "kill"}
    PROVE  /\ Nests(AttackMetric(action, v, e))
           /\ Narrower(AttackMetric(action, w, e), AttackMetric(action, v, e))
<1>1. PICK S, T, g : S = v[action.target] /\ T = w[action.target] /\ g = Does(action, e)
  OBVIOUS
<1>2. IsKnown(S) /\ IsKnown(T) /\ T \subseteq S
  BY <1>1
<1>3. CASE action.target \in Weighted
  <2>1. PICK z \in Int : AttackMetric(action, v, e) = Range0(z, z)
    BY <1>1, <1>3, AttackSpans
  <2>2. AttackMetric(action, w, e) = AttackMetric(action, v, e)
    <3>1. w[action.target] = v[action.target]
      BY <1>3
    <3> QED BY <3>1, Zenon DEF AttackMetric
  <2>3. Nests(Range0(z, z)) /\ Narrower(Range0(z, z), Range0(z, z))
    BY RangeNarrows
  <2> QED BY <2>1, <2>2, <2>3, Zenon
<1>4. CASE action.target \notin Weighted
  <2>1. PICK a, d : a = Min({ g[n] : n \in S }) /\ d = Max({ g[n] : n \in S })
    OBVIOUS
  <2>2. PICK b, c : b = Min({ g[n] : n \in T }) /\ c = Max({ g[n] : n \in T })
    OBVIOUS
  <2>3. \A n \in S : g[n] \in Int
    BY <1>1, AttackSpans
  <2>4. AttackMetric(action, v, e) = Range0(a, d)
    BY <1>1, <1>4, <2>1, AttackSpans
  <2>5. AttackMetric(action, w, e) = Range0(b, c)
    BY <1>1, <1>4, <2>2, AttackSpans
  <2>6. Spans(S, g, a, d)
    <3>1. Spans(S, g, Min({ g[n] : n \in S }), Max({ g[n] : n \in S }))
      BY <1>2, <2>3, SpanIs DEF IsKnown
    <3> QED BY <2>1, <3>1, Zenon
  <2>7. Spans(T, g, b, c)
    <3>1. Spans(T, g, Min({ g[n] : n \in T }), Max({ g[n] : n \in T }))
      BY <1>2, <2>3, SpanIs DEF IsKnown
    <3> QED BY <2>2, <3>1, Zenon
  <2>8. /\ a \in Int /\ b \in Int /\ c \in Int /\ d \in Int
        /\ a <= b /\ b <= c /\ c <= d
    BY <1>2, <2>6, <2>7 DEF Spans
  <2>9. Nests(Range0(a, d)) /\ Narrower(Range0(b, c), Range0(a, d))
    BY <2>8, RangeNarrows
  <2> QED BY <2>4, <2>5, <2>9, Zenon
<1> QED BY <1>3, <1>4

\* The pressure of a number of adjacent hostiles, and of fewer
LEMMA PressureNarrows ==
    ASSUME NEW m, NEW n, Nests(m), Narrower(n, m), n["support"][1] >= 0
    PROVE  /\ Nests(Pressure(n))
           /\ Narrower(Pressure(n), Pressure(m))
<1>1. PICK a \in Int, b \in Int : a = n["support"][2] /\ b = m["support"][2] /\ 0 <= a /\ a <= b
  BY DEF Narrower, Inside, Views
<1>2. /\ Pressure(n)["support"] = <<0, a>> /\ Pressure(n)["robust"] = <<0, a>>
      /\ Pressure(n)["epistemic"] = <<0, 0>>
  BY <1>1 DEF Pressure, InViews
<1>3. /\ Pressure(m)["support"] = <<0, b>> /\ Pressure(m)["robust"] = <<0, b>>
      /\ Pressure(m)["epistemic"] = <<0, 0>>
  BY <1>1 DEF Pressure, InViews
<1> QED BY <1>1, <1>2, <1>3 DEF Nests, Narrower, Inside, Views

-----------------------------------------------------------------------------
(* Features, metric by metric *)

\* The metrics, by what they are made of
PlaceMetrics == {"adjacent", "ranged", "over", "under", "created", "lost", "flanked", "open"}
StandMetrics == {"climb", "ap", "headroom", "feasible"}
FlagMetrics == {"waited", "may_wait", "ended"}
EffectMetrics == {"hp_damage", "armor", "kill"}

\* The fact about a place that a metric counts, and the number it takes
PlaceFact(m, t) ==
    CASE m = "adjacent" -> AdjacentHostiles(t) [] m = "ranged" -> SightedFrom(t)
      [] m = "over" -> LowerHostiles(t)        [] m = "under" -> HigherHostiles(t)
      [] m = "created" -> ScreensGained(origin, t)
      [] m = "lost" -> ScreensGained(t, origin)
      [] m = "flanked" -> FlankedHostiles(t)   [] m = "open" -> OpenTiles(t)
StandNumber(m, offer0, b) ==
    CASE m = "climb" -> Elevation[b.tile] - Elevation[origin] [] m = "ap" -> b.actor.ap
      [] m = "headroom" -> b.actor.capacity - b.actor.fatigue
      [] m = "feasible" -> Feasible(offer0, b.actor)
FlagNumber(m, b) ==
    LET flag == CASE m = "waited" -> b.actor.waited [] m = "may_wait" -> b.actor.mayWait
                  [] m = "ended" -> b.ended
    IN IF flag THEN 1 ELSE 0
EffectOf(m) == CASE m = "hp_damage" -> "wounds" [] m = "armor" -> "torn" [] m = "kill" -> "kill"

\* _build_features, metric by metric
Composed(a, offer0, x, values) ==
    LET action == offer0[x]
        B == Branches(a, action)
        S == Posture(a, action, B)
        F == Features(a, offer0, x, values)
    IN /\ \A m \in PlaceMetrics :
             F[m] = OverBranches([b \in S |-> Counted(PlaceFact(m, b.tile))])
       /\ F["zoc"] = Pressure(F["adjacent"])
       /\ \A m \in StandMetrics :
             F[m] = OverBranches([b \in S |-> Sure(StandNumber(m, offer0, b))])
       /\ \A m \in FlagMetrics : F[m] = OverBranches([b \in B |-> Sure(FlagNumber(m, b))])
       /\ \A m \in EffectMetrics :
             F[m] = IF IsAttack(action) THEN AttackMetric(action, values, EffectOf(m)) ELSE Sure(0)
       /\ F["ammo"] = Sure(action.ammo) /\ F["charges"] = Sure(0) /\ F["ally_damage"] = Sure(0)
       /\ F["stopped"] = Range0(Total({ b \in B : b.stopped }), Total({ b \in B : b.stopped }))
       /\ F["death"] = Range0(Total({ b \in B : Dead(b) }), Total({ b \in B : Dead(b) }))
       /\ F["self_damage"] = IF action.reactions = <<>> THEN Sure(0)
             ELSE OverBranches([b \in B |-> Sure(Max({0, a.hp - b.actor.hp}))])

\* So every metric is composed,
LEMMA FeaturesOf == \A a, offer0, x, values : Composed(a, offer0, x, values)
<1> TAKE a, offer0, x, values
<1> DEFINE action == offer0[x]
           B == Branches(a, action)
           S == Posture(a, action, B)
           F == Features(a, offer0, x, values)
<1>1. B = IF IsAttack(action) THEN {Alone(Paid(a, action))} ELSE Transition(a, action)
  BY DEF Branches
<1> HIDE DEF B
<1>2. ASSUME NEW m \in PlaceMetrics
      PROVE  F[m] = OverBranches([b \in S |-> Counted(PlaceFact(m, b.tile))])
  <2>1. CASE m = "adjacent"
    <3>1. F["adjacent"] = OverBranches([b \in S |-> Counted(AdjacentHostiles(b.tile))])
      BY <1>1, Zenon DEF Features
    <3>2. \A t : PlaceFact(m, t) = AdjacentHostiles(t)
      BY <2>1 DEF PlaceFact
    <3> HIDE DEF F, S
    <3> QED BY <2>1, <3>1, <3>2, Zenon
  <2>2. CASE m = "ranged"
    <3>1. F["ranged"] = OverBranches([b \in S |-> Counted(SightedFrom(b.tile))])
      BY <1>1, Zenon DEF Features
    <3>2. \A t : PlaceFact(m, t) = SightedFrom(t)
      BY <2>2 DEF PlaceFact
    <3> HIDE DEF F, S
    <3> QED BY <2>2, <3>1, <3>2, Zenon
  <2>3. CASE m = "over"
    <3>1. F["over"] = OverBranches([b \in S |-> Counted(LowerHostiles(b.tile))])
      BY <1>1, Zenon DEF Features
    <3>2. \A t : PlaceFact(m, t) = LowerHostiles(t)
      BY <2>3 DEF PlaceFact
    <3> HIDE DEF F, S
    <3> QED BY <2>3, <3>1, <3>2, Zenon
  <2>4. CASE m = "under"
    <3>1. F["under"] = OverBranches([b \in S |-> Counted(HigherHostiles(b.tile))])
      BY <1>1, Zenon DEF Features
    <3>2. \A t : PlaceFact(m, t) = HigherHostiles(t)
      BY <2>4 DEF PlaceFact
    <3> HIDE DEF F, S
    <3> QED BY <2>4, <3>1, <3>2, Zenon
  <2>5. CASE m = "created"
    <3>1. F["created"] = OverBranches([b \in S |-> Counted(ScreensGained(origin, b.tile))])
      BY <1>1, Zenon DEF Features
    <3>2. \A t : PlaceFact(m, t) = ScreensGained(origin, t)
      BY <2>5 DEF PlaceFact
    <3> HIDE DEF F, S
    <3> QED BY <2>5, <3>1, <3>2, Zenon
  <2>6. CASE m = "lost"
    <3>1. F["lost"] = OverBranches([b \in S |-> Counted(ScreensGained(b.tile, origin))])
      BY <1>1, Zenon DEF Features
    <3>2. \A t : PlaceFact(m, t) = ScreensGained(t, origin)
      BY <2>6 DEF PlaceFact
    <3> HIDE DEF F, S
    <3> QED BY <2>6, <3>1, <3>2, Zenon
  <2>7. CASE m = "flanked"
    <3>1. F["flanked"] = OverBranches([b \in S |-> Counted(FlankedHostiles(b.tile))])
      BY <1>1, Zenon DEF Features
    <3>2. \A t : PlaceFact(m, t) = FlankedHostiles(t)
      BY <2>7 DEF PlaceFact
    <3> HIDE DEF F, S
    <3> QED BY <2>7, <3>1, <3>2, Zenon
  <2>8. CASE m = "open"
    <3>1. F["open"] = OverBranches([b \in S |-> Counted(OpenTiles(b.tile))])
      BY <1>1, Zenon DEF Features
    <3>2. \A t : PlaceFact(m, t) = OpenTiles(t)
      BY <2>8 DEF PlaceFact
    <3> HIDE DEF F, S
    <3> QED BY <2>8, <3>1, <3>2, Zenon
  <2> QED BY <2>1, <2>2, <2>3, <2>4, <2>5, <2>6, <2>7, <2>8 DEF PlaceMetrics
<1>3. F["zoc"] = Pressure(F["adjacent"])
  BY <1>1, Zenon DEF Features
<1>4. ASSUME NEW m \in StandMetrics
      PROVE  F[m] = OverBranches([b \in S |-> Sure(StandNumber(m, offer0, b))])
  <2>1. CASE m = "climb"
    <3>1. F["climb"] = OverBranches([b \in S |-> Sure(Elevation[b.tile] - Elevation[origin])])
      BY <1>1, Zenon DEF Features
    <3>2. \A b : StandNumber(m, offer0, b) = Elevation[b.tile] - Elevation[origin]
      BY <2>1 DEF StandNumber
    <3> HIDE DEF F, S
    <3> QED BY <2>1, <3>1, <3>2, Zenon
  <2>2. CASE m = "ap"
    <3>1. F["ap"] = OverBranches([b \in S |-> Sure(b.actor.ap)])
      BY <1>1, Zenon DEF Features
    <3>2. \A b : StandNumber(m, offer0, b) = b.actor.ap
      BY <2>2 DEF StandNumber
    <3> HIDE DEF F, S
    <3> QED BY <2>2, <3>1, <3>2, Zenon
  <2>3. CASE m = "headroom"
    <3>1. F["headroom"] = OverBranches([b \in S |-> Sure(b.actor.capacity - b.actor.fatigue)])
      BY <1>1, Zenon DEF Features
    <3>2. \A b : StandNumber(m, offer0, b) = b.actor.capacity - b.actor.fatigue
      BY <2>3 DEF StandNumber
    <3> HIDE DEF F, S
    <3> QED BY <2>3, <3>1, <3>2, Zenon
  <2>4. CASE m = "feasible"
    <3>1. F["feasible"] = OverBranches([b \in S |-> Sure(Feasible(offer0, b.actor))])
      BY <1>1, Zenon DEF Features
    <3>2. \A b : StandNumber(m, offer0, b) = Feasible(offer0, b.actor)
      BY <2>4 DEF StandNumber
    <3> HIDE DEF F, S
    <3> QED BY <2>4, <3>1, <3>2, Zenon
  <2> QED BY <2>1, <2>2, <2>3, <2>4 DEF StandMetrics
<1>5. ASSUME NEW m \in FlagMetrics
      PROVE  F[m] = OverBranches([b \in B |-> Sure(FlagNumber(m, b))])
  <2>1. CASE m = "waited"
    <3>1. F["waited"] = OverBranches([b \in B |-> Sure(IF b.actor.waited THEN 1 ELSE 0)])
      BY <1>1, Zenon DEF Features
    <3>2. \A b : FlagNumber(m, b) = IF b.actor.waited THEN 1 ELSE 0
      BY <2>1 DEF FlagNumber
    <3> HIDE DEF F
    <3> QED BY <2>1, <3>1, <3>2, Zenon
  <2>2. CASE m = "may_wait"
    <3>1. F["may_wait"] = OverBranches([b \in B |-> Sure(IF b.actor.mayWait THEN 1 ELSE 0)])
      BY <1>1, Zenon DEF Features
    <3>2. \A b : FlagNumber(m, b) = IF b.actor.mayWait THEN 1 ELSE 0
      BY <2>2 DEF FlagNumber
    <3> HIDE DEF F
    <3> QED BY <2>2, <3>1, <3>2, Zenon
  <2>3. CASE m = "ended"
    <3>1. F["ended"] = OverBranches([b \in B |-> Sure(IF b.ended THEN 1 ELSE 0)])
      BY <1>1, Zenon DEF Features
    <3>2. \A b : FlagNumber(m, b) = IF b.ended THEN 1 ELSE 0
      BY <2>3 DEF FlagNumber
    <3> HIDE DEF F
    <3> QED BY <2>3, <3>1, <3>2, Zenon
  <2> QED BY <2>1, <2>2, <2>3 DEF FlagMetrics
<1>6. ASSUME NEW m \in EffectMetrics
      PROVE  F[m] = IF IsAttack(action) THEN AttackMetric(action, values, EffectOf(m)) ELSE Sure(0)
  <2>1. /\ F["hp_damage"] = IF IsAttack(action) THEN AttackMetric(action, values, "wounds") ELSE Sure(0)
        /\ F["armor"] = IF IsAttack(action) THEN AttackMetric(action, values, "torn") ELSE Sure(0)
        /\ F["kill"] = IF IsAttack(action) THEN AttackMetric(action, values, "kill") ELSE Sure(0)
    BY Zenon DEF Features
  <2>2. /\ EffectOf("hp_damage") = "wounds" /\ EffectOf("armor") = "torn"
        /\ EffectOf("kill") = "kill"
    BY DEF EffectOf
  <2> HIDE DEF F, action
  <2> QED BY <2>1, <2>2 DEF EffectMetrics
<1>7. /\ F["ammo"] = Sure(action.ammo) /\ F["charges"] = Sure(0) /\ F["ally_damage"] = Sure(0)
  BY Zenon DEF Features
<1>8. /\ F["stopped"] = Range0(Total({ b \in B : b.stopped }), Total({ b \in B : b.stopped }))
      /\ F["death"] = Range0(Total({ b \in B : Dead(b) }), Total({ b \in B : Dead(b) }))
  BY <1>1, Zenon DEF Features
<1>9. F["self_damage"] = IF action.reactions = <<>> THEN Sure(0)
        ELSE OverBranches([b \in B |-> Sure(Max({0, a.hp - b.actor.hp}))])
  BY <1>1, Zenon DEF Features
<1> HIDE DEF F, S, action
<1> QED BY <1>2, <1>3, <1>4, <1>5, <1>6, <1>7, <1>8, <1>9, Zenon DEF Composed, F, S, B, action

\* in the next state as well.
LEMMA FeaturesNext == (\A a, offer0, x, values : Composed(a, offer0, x, values))'
BY FeaturesOf, PTL

\* No branch measured below nothing, none is integrated below it.
LEMMA OverCounts ==
    ASSUME NEW m, IsFiniteSet(DOMAIN m),
           \A b \in DOMAIN m : Counts(b) /\ Nests(m[b]) /\ m[b]["support"][1] >= 0
    PROVE  OverBranches(m)["support"][1] >= 0
<1>1. CASE DOMAIN m = {}
  <2>1. { [branch |-> b, weight |-> b.weight, range |-> m[b]] : b \in DOMAIN m } = {}
    BY <1>1
  <2>2. OverBranches(m) = Sure(0)
    BY <2>1 DEF OverBranches, Integrated
  <2>3. Sure(0)["support"][1] = 0
    BY RollsAre DEF Sure, Range0, InViews
  <2> QED BY <2>2, <2>3
<1>2. CASE DOMAIN m # {}
  <2>1. Measured(m)
    BY <1>2, NestsIs DEF Measured, Counts
  <2>2. PICK S, f : S = DOMAIN m /\ f = [b \in S |-> m[b]["support"][1]]
    OBVIOUS
  <2>3. \A b \in S : f[b] = m[b]["support"][1] /\ f[b] \in Int /\ f[b] >= 0
    BY <2>2 DEF Nests, Inside
  <2>4. { f[b] : b \in S } = { m[b]["support"][1] : b \in S }
    BY <2>3
  <2>5. PICK lo, hi : lo = Min({ f[b] : b \in S }) /\ hi = Max({ f[b] : b \in S })
    OBVIOUS
  <2>6. Spans(S, f, Min({ f[b] : b \in S }), Max({ f[b] : b \in S }))
    BY <1>2, <2>2, <2>3, SpanIs
  <2>7. Spans(S, f, lo, hi)
    BY <2>5, <2>6, Zenon
  <2>8. lo >= 0
    BY <2>3, <2>7 DEF Spans
  <2>9. PICK top : top = Max({ m[b]["support"][2] : b \in S })
    OBVIOUS
  <2>10. OverBranches(m)["support"] = <<lo, top>>
    <3>1. OverBranches(m)["support"] = <<Min({ m[b]["support"][1] : b \in S }),
                                         Max({ m[b]["support"][2] : b \in S })>>
      BY <2>1, <2>2, OverMeans
    <3> QED BY <2>4, <2>5, <2>9, <3>1, Zenon
  <2> QED BY <2>8, <2>10
<1> QED BY <1>1, <1>2

\* A fact counted in every place.
LEMMA FactNests ==
    ASSUME NEW S, IsFiniteSet(S), \A b \in S : Counts(b),
           NEW f, \A b \in S : InOrder0(f[b])
    PROVE  /\ Nests(OverBranches([b \in S |-> Counted(f[b])]))
           /\ OverBranches([b \in S |-> Counted(f[b])])["support"][1] >= 0
<1>1. PICK m : m = [b \in S |-> Counted(f[b])]
  OBVIOUS
<1>2. ASSUME NEW b \in S
      PROVE  Nests(m[b]) /\ m[b]["support"][1] >= 0
  <2>1. PICK g : g = f[b] /\ InOrder0(g) /\ m[b] = Counted(g)
    BY <1>1
  <2>2. PICK n \in Nat : n = Cardinality(g.sure)
    BY <2>1, FS_CardinalityType DEF InOrder0, IsFact
  <2>3. PICK u \in Nat : u = Unit
    BY RollsAre
  <2>4. n * u >= 0
    OBVIOUS
  <2>5. Counted(g)["support"][1] = n * u
    BY <2>2, <2>3 DEF Counted, Range0, InViews
  <2>6. Nests(Counted(g))
    BY <2>1, CountedNests
  <2> QED BY <2>1, <2>4, <2>5, <2>6
<1>3. DOMAIN m = S
  BY <1>1
<1>4. Nests(OverBranches(m)) /\ OverBranches(m)["support"][1] >= 0
  BY <1>2, <1>3, OverNests, OverCounts
<1> QED BY <1>1, <1>4

\* It narrows with the facts.
LEMMA FactNarrows ==
    ASSUME NEW S, IsFiniteSet(S), \A b \in S : Counts(b),
           NEW f, NEW g, \A b \in S : InOrder0(f[b]) /\ InOrder0(g[b]) /\ Narrows(f[b], g[b])
    PROVE  Narrower(OverBranches([b \in S |-> Counted(g[b])]),
                    OverBranches([b \in S |-> Counted(f[b])]))
<1>1. PICK m, n : m = [b \in S |-> Counted(g[b])] /\ n = [b \in S |-> Counted(f[b])]
  OBVIOUS
<1>2. \A b \in S : Narrower(m[b], n[b])
  BY <1>1, CountedNarrows
<1>3. DOMAIN m = S /\ DOMAIN n = S
  BY <1>1
<1>4. Narrower(OverBranches(m), OverBranches(n))
  BY <1>2, <1>3, OverNarrows
<1> QED BY <1>1, <1>4

\* A number taken in every branch.
LEMMA NumberNests ==
    ASSUME NEW S, IsFiniteSet(S), \A b \in S : Counts(b),
           NEW n, \A b \in S : n[b] \in Int
    PROVE  Nests(OverBranches([b \in S |-> Sure(n[b])]))
<1>1. PICK m : m = [b \in S |-> Sure(n[b])]
  OBVIOUS
<1>2. IsFiniteSet(DOMAIN m) /\ \A b \in DOMAIN m : Counts(b) /\ Nests(m[b])
  BY <1>1, NothingNests
<1>3. Nests(OverBranches(m))
  BY <1>2, OverNests
<1> QED BY <1>1, <1>3

\* The facts about a place are in order.
LEMMA FactsOrdered ==
    ASSUME TypeOK, origin \in Tiles, NEW m \in PlaceMetrics, NEW t \in Tiles
    PROVE  InOrder0(PlaceFact(m, t))
<1>1. /\ InOrder0(AdjacentHostiles(t)) /\ InOrder0(LowerHostiles(t))
      /\ InOrder0(HigherHostiles(t)) /\ InOrder0(SightedFrom(t))
      /\ InOrder0(FlankedHostiles(t)) /\ InOrder0(OpenTiles(t))
      /\ InOrder0(ScreensGained(origin, t)) /\ InOrder0(ScreensGained(t, origin))
  BY FactsAre, PlaceOrder, GainsOrder DEF InOrder0
<1> QED BY <1>1 DEF PlaceFact, PlaceMetrics

\* Knowing more narrows them.
LEMMA FactsNarrow ==
    ASSUME TypeOK, TypeOK', Learns, origin \in Tiles, NEW m \in PlaceMetrics, NEW t \in Tiles
    PROVE  Narrows(PlaceFact(m, t), PlaceFact(m, t)')
<1>1. /\ Narrows(AdjacentHostiles(t), AdjacentHostiles(t)')
      /\ Narrows(LowerHostiles(t), LowerHostiles(t)')
      /\ Narrows(HigherHostiles(t), HigherHostiles(t)')
      /\ Narrows(SightedFrom(t), SightedFrom(t)')
      /\ Narrows(FlankedHostiles(t), FlankedHostiles(t)')
      /\ Narrows(OpenTiles(t), OpenTiles(t)')
  BY TouchNarrows, SightNarrows, FlanksNarrow, OpenTilesNarrow
<1>2. PICK o \in Tiles : o = origin /\ o = origin'
  BY DEF Learns
<1>3. /\ Narrows(ScreensGained(o, t), ScreensGained(o, t)')
      /\ Narrows(ScreensGained(t, o), ScreensGained(t, o)')
  BY GainsNarrow
<1>4. CASE m = "adjacent"
  BY <1>1, <1>4 DEF PlaceFact
<1>5. CASE m = "ranged"
  BY <1>1, <1>5 DEF PlaceFact
<1>6. CASE m = "over"
  BY <1>1, <1>6 DEF PlaceFact
<1>7. CASE m = "under"
  BY <1>1, <1>7 DEF PlaceFact
<1>8. CASE m = "created"
  BY <1>2, <1>3, <1>8 DEF PlaceFact
<1>9. CASE m = "lost"
  BY <1>2, <1>3, <1>9 DEF PlaceFact
<1>10. CASE m = "flanked"
  BY <1>1, <1>10 DEF PlaceFact
<1>11. CASE m = "open"
  BY <1>1, <1>11 DEF PlaceFact
<1> QED BY <1>4, <1>5, <1>6, <1>7, <1>8, <1>9, <1>10, <1>11 DEF PlaceMetrics

\* An evaluated candidate: its branches and the places they leave the actor at.
LEMMA CandidateIs ==
    ASSUME NEW a, NEW offer0, NEW x, NEW values, Evaluated(a, offer0, x, values),
           NEW action, action = offer0[x], NEW B, B = Branches(a, action),
           NEW S, S = Posture(a, action, B)
    PROVE  /\ IsFiniteSet(B)
           /\ \A b \in B : Counts(b) /\ IsFighter(b.actor) /\ b.stopped \in BOOLEAN
                           /\ b.ended \in BOOLEAN
           /\ IsFiniteSet(S)
           /\ \A b \in S : Counts(b) /\ b.tile \in Tiles /\ IsFighter(b.actor)
           /\ IsAttack(action) => action.target \in Others /\ action.hit \in 1..19
           /\ a.hp \in Nat /\ action.ammo \in Nat
<1>1. IsAction(action)
  BY DEF Evaluated
<1>2. IsFiniteSet(B) /\ \A b \in B : IsPossible(b)
  BY <1>1, BranchesAre DEF Evaluated
<1>3. IsFiniteSet(S) /\ \A b \in S : IsStanding(b)
  <2>1. action.kind = "MOVE_TO" => action.path \in Seq(Tiles) /\ action.path # <<>>
    BY <1>1 DEF IsAction
  <2> QED BY <1>2, <2>1, PostureIs DEF Evaluated
<1>4. ASSUME IsAttack(action)
      PROVE  action.hit \in 1..19
  <2>1. AttackStatus(a, action, values, engine.supported) = OK
    BY <1>4 DEF Evaluated, Status
  <2> QED BY <2>1 DEF AttackStatus, OK, Unsupported
<1>5. \A b \in B : Counts(b) /\ IsFighter(b.actor) /\ b.stopped \in BOOLEAN
                   /\ b.ended \in BOOLEAN
  BY <1>2 DEF IsPossible, Counts
<1>6. \A b \in S : Counts(b) /\ b.tile \in Tiles /\ IsFighter(b.actor)
  BY <1>3 DEF IsStanding, Counts
<1>7. a.hp \in Nat
  BY FighterIs DEF Evaluated
<1> QED BY <1>1, <1>2, <1>3, <1>4, <1>5, <1>6, <1>7 DEF IsAction

\* _build_features: every metric of an evaluated candidate nests.
LEMMA FeaturesNest ==
    ASSUME TypeOK, NEW a, NEW offer0, NEW x, NEW values, Evaluated(a, offer0, x, values)
    PROVE  \A m \in Metrics : Nests(Features(a, offer0, x, values)[m])
<1>1. PICK action, B, F :
         /\ action = offer0[x] /\ B = Branches(a, action)
         /\ F = Features(a, offer0, x, values)
  OBVIOUS
<1>2. PICK S : S = Posture(a, action, B)
  OBVIOUS
<1>3. /\ IsFiniteSet(B)
      /\ \A b \in B : Counts(b) /\ IsFighter(b.actor) /\ b.stopped \in BOOLEAN
                      /\ b.ended \in BOOLEAN
      /\ IsFiniteSet(S)
      /\ \A b \in S : Counts(b) /\ b.tile \in Tiles /\ IsFighter(b.actor)
      /\ IsAttack(action) => action.target \in Others /\ action.hit \in 1..19
      /\ a.hp \in Nat /\ action.ammo \in Nat
  BY <1>1, <1>2, CandidateIs
<1>4. origin \in Tiles
  BY DEF Evaluated
<1>5. Composed(a, offer0, x, values)
  BY FeaturesOf
<1>6. ASSUME NEW m \in PlaceMetrics
      PROVE  Nests(F[m]) /\ F[m]["support"][1] >= 0
  <2>1. PICK f : f = [b \in S |-> PlaceFact(m, b.tile)]
    OBVIOUS
  <2>2. \A b \in S : InOrder0(f[b]) /\ Counted(f[b]) = Counted(PlaceFact(m, b.tile))
    BY <1>3, <1>4, <2>1, FactsOrdered
  <2>3. PICK g : g = [b \in S |-> Counted(f[b])]
    OBVIOUS
  <2>4. Nests(OverBranches(g)) /\ OverBranches(g)["support"][1] >= 0
    BY <1>3, <2>2, <2>3, FactNests
  <2>5. g = [b \in S |-> Counted(PlaceFact(m, b.tile))]
    BY <2>2, <2>3
  <2>6. F[m] = OverBranches(g)
    BY <1>1, <1>2, <1>5, <2>5, Zenon DEF Composed
  <2> QED BY <2>4, <2>6
<1>7. ASSUME NEW m \in StandMetrics
      PROVE  Nests(F[m])
  <2>1. PICK f : f = [b \in S |-> StandNumber(m, offer0, b)]
    OBVIOUS
  <2>2. ASSUME NEW b \in S
        PROVE  f[b] \in Int
    <3>1. Feasible(offer0, b.actor) \in Nat
      BY FeasibleIs DEF Evaluated
    <3>2. Elevation[b.tile] - Elevation[origin] \in Int
      BY <1>3, <1>4, MapAssumption
    <3>3. b.actor.ap \in Int /\ b.actor.capacity - b.actor.fatigue \in Int
      BY <1>3, FighterIs
    <3> QED BY <2>1, <3>1, <3>2, <3>3 DEF StandNumber, StandMetrics
  <2>3. PICK g : g = [b \in S |-> Sure(f[b])]
    OBVIOUS
  <2>4. Nests(OverBranches(g))
    BY <1>3, <2>2, <2>3, NumberNests
  <2>5. g = [b \in S |-> Sure(StandNumber(m, offer0, b))]
    BY <2>1, <2>3
  <2>6. F[m] = OverBranches(g)
    BY <1>1, <1>2, <1>5, <2>5, Zenon DEF Composed
  <2> QED BY <2>4, <2>6
<1>8. ASSUME NEW m \in FlagMetrics
      PROVE  Nests(F[m])
  <2>1. PICK f : f = [b \in B |-> FlagNumber(m, b)]
    OBVIOUS
  <2>2. \A b \in B : f[b] \in Int
    BY <2>1 DEF FlagNumber
  <2>3. PICK g : g = [b \in B |-> Sure(f[b])]
    OBVIOUS
  <2>4. Nests(OverBranches(g))
    BY <1>3, <2>2, <2>3, NumberNests
  <2>5. g = [b \in B |-> Sure(FlagNumber(m, b))]
    BY <2>1, <2>3
  <2>6. F[m] = OverBranches(g)
    BY <1>1, <1>5, <2>5, Zenon DEF Composed
  <2> QED BY <2>4, <2>6
<1>9. ASSUME NEW m \in EffectMetrics
      PROVE  Nests(F[m])
  <2>1. Nests(Sure(0))
    BY NothingNests
  <2>2. ASSUME IsAttack(action)
        PROVE  Nests(AttackMetric(action, values, EffectOf(m)))
    <3>1. EffectOf(m) \in {"wounds", "torn", "kill"}
      BY DEF EffectMetrics, EffectOf
    <3> QED BY <1>1, <1>3, <2>2, <3>1, AttackNarrows DEF Evaluated
  <2>3. F[m] = IF IsAttack(action) THEN AttackMetric(action, values, EffectOf(m)) ELSE Sure(0)
    BY <1>1, <1>5, Zenon DEF Composed
  <2> QED BY <2>1, <2>2, <2>3
<1>10. Nests(F["zoc"])
  <2>1. PICK n : n = F["adjacent"]
    OBVIOUS
  <2>2. Nests(n) /\ n["support"][1] >= 0
    BY <1>6, <2>1 DEF PlaceMetrics
  <2>3. Narrower(n, n)
    BY <2>2, NestsIs
  <2>4. Nests(Pressure(n))
    BY <2>2, <2>3, PressureNarrows
  <2>5. F["zoc"] = Pressure(n)
    BY <1>1, <1>5, <2>1, Zenon DEF Composed
  <2> QED BY <2>4, <2>5
<1>11. Nests(F["ammo"]) /\ Nests(F["charges"]) /\ Nests(F["ally_damage"])
  <2>1. Nests(Sure(0)) /\ Nests(Sure(action.ammo))
    BY <1>3, NothingNests
  <2>2. F["ammo"] = Sure(action.ammo) /\ F["charges"] = Sure(0) /\ F["ally_damage"] = Sure(0)
    BY <1>1, <1>5, Zenon DEF Composed
  <2> QED BY <2>1, <2>2
<1>12. Nests(F["stopped"]) /\ Nests(F["death"])
  <2>1. PICK C, D : C = { b \in B : b.stopped } /\ D = { b \in B : Dead(b) }
    OBVIOUS
  <2>2. IsFiniteSet(C) /\ C \subseteq B /\ IsFiniteSet(D) /\ D \subseteq B
    BY <1>3, <2>1, FS_Subset
  <2>3. Total(C) \in Int /\ Total(D) \in Int
    BY <1>3, <2>2, TotalCounts DEF Counts
  <2>4. Nests(Range0(Total(C), Total(C))) /\ Nests(Range0(Total(D), Total(D)))
    BY <2>3, NothingNests
  <2>5. F["stopped"] = Range0(Total(C), Total(C)) /\ F["death"] = Range0(Total(D), Total(D))
    BY <1>1, <1>5, <2>1, Zenon DEF Composed
  <2> QED BY <2>4, <2>5
<1>13. Nests(F["self_damage"])
  <2>1. PICK f : f = [b \in B |-> Max({0, a.hp - b.actor.hp})]
    OBVIOUS
  <2>2. ASSUME NEW b \in B
        PROVE  f[b] \in Int
    <3>1. PICK m \in Nat, n \in Nat : m = a.hp /\ n = b.actor.hp
      BY <1>3, FighterIs
    <3>2. PICK h \in Int : h = a.hp - b.actor.hp
      BY <3>1
    <3>3. Max({0, h}) \in {0, h}
      <4>1. 0 \in Int
        OBVIOUS
      <4> QED BY <4>1, PairBounds, Zenon
    <3> QED BY <2>1, <3>2, <3>3
  <2>3. PICK g : g = [b \in B |-> Sure(f[b])]
    OBVIOUS
  <2>4. Nests(OverBranches(g))
    BY <1>3, <2>2, <2>3, NumberNests
  <2>5. g = [b \in B |-> Sure(Max({0, a.hp - b.actor.hp}))]
    BY <2>1, <2>3
  <2>6. F["self_damage"] = IF action.reactions = <<>> THEN Sure(0) ELSE OverBranches(g)
    BY <1>1, <1>5, <2>5, Zenon DEF Composed
  <2>7. Nests(Sure(0))
    BY NothingNests
  <2> QED BY <2>4, <2>6, <2>7
<1>14. \A m \in Metrics : Nests(F[m])
  BY <1>6, <1>7, <1>8, <1>9, <1>10, <1>11, <1>12, <1>13
     DEF Metrics, PlaceMetrics, StandMetrics, FlagMetrics, EffectMetrics
<1> QED BY <1>1, <1>14

\* What is learned of a target narrows what an attack on it promises, and changes
\* no other metric.
LEMMA ValuesNarrow ==
    ASSUME TypeOK, NEW a, NEW offer0, NEW x, NEW v, Evaluated(a, offer0, x, v),
           NEW w, IsAttack(offer0[x]) =>
                     /\ IsKnown(w[offer0[x].target])
                     /\ w[offer0[x].target] \subseteq v[offer0[x].target]
                     /\ offer0[x].target \in Weighted =>
                           w[offer0[x].target] = v[offer0[x].target]
    PROVE  /\ \A m \in Metrics : Narrower(Features(a, offer0, x, w)[m],
                                          Features(a, offer0, x, v)[m])
           /\ Features(a, offer0, x, w)["death"] = Features(a, offer0, x, v)["death"]
<1>1. PICK F, G : F = Features(a, offer0, x, v) /\ G = Features(a, offer0, x, w)
  OBVIOUS
<1>2. Composed(a, offer0, x, v) /\ Composed(a, offer0, x, w)
  BY FeaturesOf
<1>3. \A m \in Metrics : Nests(F[m])
  BY <1>1, FeaturesNest
<1>4. \A m \in Metrics : Narrower(F[m], F[m])
  BY <1>3, NestsIs
<1>5. PICK action, B : action = offer0[x] /\ B = Branches(a, action)
  OBVIOUS
<1>6. PICK S : S = Posture(a, action, B)
  OBVIOUS
<1>7. /\ \A m \in PlaceMetrics \cup StandMetrics \cup FlagMetrics : G[m] = F[m]
      /\ G["zoc"] = F["zoc"]
  <2>1. \A m \in PlaceMetrics : G[m] = F[m]
    BY <1>1, <1>2, <1>5, <1>6, Zenon DEF Composed
  <2>2. \A m \in StandMetrics : G[m] = F[m]
    BY <1>1, <1>2, <1>5, <1>6, Zenon DEF Composed
  <2>3. \A m \in FlagMetrics : G[m] = F[m]
    BY <1>1, <1>2, <1>5, <1>6, Zenon DEF Composed
  <2>4. G["zoc"] = Pressure(G["adjacent"]) /\ F["zoc"] = Pressure(F["adjacent"])
    BY <1>1, <1>2, Zenon DEF Composed
  <2>5. G["adjacent"] = F["adjacent"]
    BY <2>1 DEF PlaceMetrics
  <2>6. G["zoc"] = F["zoc"]
    BY <2>4, <2>5, Zenon
  <2> QED BY <2>1, <2>2, <2>3, <2>6
<1>8. /\ G["ammo"] = F["ammo"] /\ G["charges"] = F["charges"]
      /\ G["ally_damage"] = F["ally_damage"] /\ G["stopped"] = F["stopped"]
      /\ G["death"] = F["death"] /\ G["self_damage"] = F["self_damage"]
  BY <1>1, <1>2, <1>5, <1>6, Zenon DEF Composed
<1>9. ASSUME NEW m \in EffectMetrics
      PROVE  Narrower(G[m], F[m])
  <2>1. /\ F[m] = IF IsAttack(action) THEN AttackMetric(action, v, EffectOf(m)) ELSE Sure(0)
        /\ G[m] = IF IsAttack(action) THEN AttackMetric(action, w, EffectOf(m)) ELSE Sure(0)
    BY <1>1, <1>2, <1>5, Zenon DEF Composed
  <2>2. Narrower(Sure(0), Sure(0))
    BY NothingNests
  <2>3. ASSUME IsAttack(action)
        PROVE  Narrower(AttackMetric(action, w, EffectOf(m)), AttackMetric(action, v, EffectOf(m)))
    <3>1. EffectOf(m) \in {"wounds", "torn", "kill"}
      BY DEF EffectMetrics, EffectOf
    <3>2. action.target \in Others /\ action.hit \in 1..19
      BY <1>5, <1>6, <2>3, CandidateIs
    <3>3. IsKnown(v[action.target])
      BY <1>5, <2>3 DEF Evaluated
    <3> QED BY <1>5, <2>3, <3>1, <3>2, <3>3, AttackNarrows
  <2> QED BY <2>1, <2>2, <2>3
<1>10. \A m \in Metrics : Narrower(G[m], F[m])
  <2>1. \A m \in Metrics : m \in EffectMetrics \/ G[m] = F[m]
    BY <1>7, <1>8 DEF Metrics, PlaceMetrics, StandMetrics, FlagMetrics, EffectMetrics
  <2> HIDE DEF Metrics
  <2> QED BY <1>4, <1>9, <2>1
<1> QED BY <1>1, <1>8, <1>10

-----------------------------------------------------------------------------
(* What is learned narrows the features *)

\* Learning keeps the facts about a place in order.
LEMMA FactsStayOrdered ==
    (TypeOK /\ origin \in Tiles =>
        \A m \in PlaceMetrics : \A t \in Tiles : InOrder0(PlaceFact(m, t)))'
<1>1. TypeOK /\ origin \in Tiles =>
         \A m \in PlaceMetrics : \A t \in Tiles : InOrder0(PlaceFact(m, t))
  BY FactsOrdered
<1> QED BY <1>1, PTL

\* What is learned of the places narrows what is counted there, and changes no
\* other metric.
LEMMA PlacesNarrow ==
    ASSUME TypeOK, TypeOK', Learns,
           NEW a, NEW offer0, NEW x, NEW v, Evaluated(a, offer0, x, v)
    PROVE  /\ \A m \in Metrics : Narrower(Features(a, offer0, x, v)'[m],
                                          Features(a, offer0, x, v)[m])
           /\ Features(a, offer0, x, v)'["death"] = Features(a, offer0, x, v)["death"]
<1>1. PICK F, G : F = Features(a, offer0, x, v) /\ G = Features(a, offer0, x, v)'
  OBVIOUS
<1>2. Composed(a, offer0, x, v) /\ Composed(a, offer0, x, v)'
  BY FeaturesOf, FeaturesNext
<1>3. \A m \in Metrics : Nests(F[m])
  BY <1>1, FeaturesNest
<1>4. \A m \in Metrics : Narrower(F[m], F[m])
  BY <1>3, NestsIs
<1>5. PICK action, B : action = offer0[x] /\ B = Branches(a, action)
  OBVIOUS
<1>6. PICK S : S = Posture(a, action, B)
  OBVIOUS
<1>7. PICK o \in Tiles : o = origin /\ o = origin'
  BY DEF Learns, Evaluated
<1>8. Posture(a, action, B)' = S
  BY <1>6, <1>7, Zenon DEF Posture
<1>9. Composed(a, offer0, x, v)' =>
         /\ \A m \in PlaceMetrics :
               G[m] = OverBranches([b \in S |-> Counted(PlaceFact(m, b.tile)')])
         /\ G["zoc"] = Pressure(G["adjacent"])
         /\ \A m \in StandMetrics :
               G[m] = OverBranches([b \in S |-> Sure(StandNumber(m, offer0, b)')])
         /\ \A m \in FlagMetrics : G[m] = OverBranches([b \in B |-> Sure(FlagNumber(m, b))])
         /\ \A m \in EffectMetrics :
               G[m] = IF IsAttack(action) THEN AttackMetric(action, v, EffectOf(m)) ELSE Sure(0)
         /\ G["ammo"] = Sure(action.ammo) /\ G["charges"] = Sure(0) /\ G["ally_damage"] = Sure(0)
         /\ G["stopped"] = Range0(Total({ b \in B : b.stopped }), Total({ b \in B : b.stopped }))
         /\ G["death"] = Range0(Total({ b \in B : Dead(b) }), Total({ b \in B : Dead(b) }))
         /\ G["self_damage"] = IF action.reactions = <<>> THEN Sure(0)
               ELSE OverBranches([b \in B |-> Sure(Max({0, a.hp - b.actor.hp}))])
  BY <1>1, <1>5, <1>8, Zenon DEF Composed
<1>10. /\ IsFiniteSet(B) /\ \A b \in B : Counts(b)
       /\ IsFiniteSet(S) /\ \A b \in S : Counts(b) /\ b.tile \in Tiles
  BY <1>5, <1>6, CandidateIs
<1>11. /\ \A m \in PlaceMetrics :
             F[m] = OverBranches([b \in S |-> Counted(PlaceFact(m, b.tile))])
       /\ F["zoc"] = Pressure(F["adjacent"])
       /\ \A m \in StandMetrics :
             F[m] = OverBranches([b \in S |-> Sure(StandNumber(m, offer0, b))])
       /\ \A m \in FlagMetrics : F[m] = OverBranches([b \in B |-> Sure(FlagNumber(m, b))])
       /\ \A m \in EffectMetrics :
             F[m] = IF IsAttack(action) THEN AttackMetric(action, v, EffectOf(m)) ELSE Sure(0)
  BY <1>1, <1>2, <1>5, <1>6, Zenon DEF Composed
<1>12. ASSUME NEW m \in PlaceMetrics
       PROVE  Narrower(G[m], F[m]) /\ G[m]["support"][1] >= 0
  <2>1. PICK f, g : f = [b \in S |-> PlaceFact(m, b.tile)] /\ g = [b \in S |-> PlaceFact(m, b.tile)']
    OBVIOUS
  <2>2. ASSUME NEW b \in S
        PROVE  InOrder0(f[b]) /\ InOrder0(g[b]) /\ Narrows(f[b], g[b])
    <3>1. PICK t \in Tiles : t = b.tile
      BY <1>10
    <3>2. PICK p, q : p = PlaceFact(m, t) /\ q = PlaceFact(m, t)'
      OBVIOUS
    <3>3. InOrder0(p)
      BY <1>7, <3>2, FactsOrdered
    <3>4. InOrder0(q)
      BY <1>7, <3>2, FactsStayOrdered
    <3>5. Narrows(p, q)
      BY <1>7, <3>2, FactsNarrow
    <3> QED BY <2>1, <3>1, <3>2, <3>3, <3>4, <3>5
  <2>3. PICK h, k : h = [b \in S |-> Counted(f[b])] /\ k = [b \in S |-> Counted(g[b])]
    OBVIOUS
  <2>4. Narrower(OverBranches(k), OverBranches(h)) /\ OverBranches(k)["support"][1] >= 0
    BY <1>10, <2>2, <2>3, FactNarrows, FactNests
  <2>5. /\ h = [b \in S |-> Counted(PlaceFact(m, b.tile))]
        /\ k = [b \in S |-> Counted(PlaceFact(m, b.tile)')]
    BY <2>1, <2>3
  <2>6. F[m] = OverBranches(h) /\ G[m] = OverBranches(k)
    BY <1>2, <1>9, <1>11, <2>5, Zenon
  <2> QED BY <2>4, <2>6
<1>13. Narrower(G["zoc"], F["zoc"])
  <2>1. PICK m, n : m = F["adjacent"] /\ n = G["adjacent"]
    OBVIOUS
  <2>2. Narrower(n, m) /\ n["support"][1] >= 0 /\ Nests(m)
    BY <1>3, <1>12, <2>1 DEF PlaceMetrics, Metrics
  <2>3. Narrower(Pressure(n), Pressure(m))
    BY <2>2, PressureNarrows
  <2>4. F["zoc"] = Pressure(m) /\ G["zoc"] = Pressure(n)
    BY <1>2, <1>9, <1>11, <2>1, Zenon
  <2> QED BY <2>3, <2>4
<1>14. ASSUME NEW m \in StandMetrics
       PROVE  G[m] = F[m]
  <2>1. \A b : StandNumber(m, offer0, b)' = StandNumber(m, offer0, b)
    BY <1>7 DEF StandNumber
  <2>2. PICK h, k : /\ h = [b \in S |-> Sure(StandNumber(m, offer0, b))]
                    /\ k = [b \in S |-> Sure(StandNumber(m, offer0, b)')]
    OBVIOUS
  <2>3. h = k
    BY <2>1, <2>2
  <2>4. F[m] = OverBranches(h) /\ G[m] = OverBranches(k)
    BY <1>2, <1>9, <1>11, <2>2, Zenon
  <2> QED BY <2>3, <2>4
<1>15. \A m \in FlagMetrics \cup EffectMetrics : G[m] = F[m]
  <2>1. \A m \in FlagMetrics : G[m] = F[m]
    BY <1>2, <1>9, <1>11, Zenon
  <2>2. \A m \in EffectMetrics : G[m] = F[m]
    BY <1>2, <1>9, <1>11, Zenon
  <2> QED BY <2>1, <2>2
<1>16. /\ G["ammo"] = F["ammo"] /\ G["charges"] = F["charges"]
       /\ G["ally_damage"] = F["ally_damage"] /\ G["stopped"] = F["stopped"]
       /\ G["death"] = F["death"] /\ G["self_damage"] = F["self_damage"]
  <2>1. /\ F["ammo"] = Sure(action.ammo) /\ F["charges"] = Sure(0) /\ F["ally_damage"] = Sure(0)
        /\ F["stopped"] = Range0(Total({ b \in B : b.stopped }), Total({ b \in B : b.stopped }))
        /\ F["death"] = Range0(Total({ b \in B : Dead(b) }), Total({ b \in B : Dead(b) }))
        /\ F["self_damage"] = IF action.reactions = <<>> THEN Sure(0)
              ELSE OverBranches([b \in B |-> Sure(Max({0, a.hp - b.actor.hp}))])
    BY <1>1, <1>2, <1>5, <1>6, Zenon DEF Composed
  <2> QED BY <1>2, <1>9, <2>1, Zenon
<1>17. \A m \in Metrics : Narrower(G[m], F[m])
  <2>1. \A m \in Metrics : m \in PlaceMetrics \/ m = "zoc" \/ G[m] = F[m]
    BY <1>14, <1>15, <1>16 DEF Metrics, PlaceMetrics, StandMetrics, FlagMetrics, EffectMetrics
  <2> HIDE DEF Metrics
  <2> QED BY <1>4, <1>12, <1>13, <2>1
<1> QED BY <1>1, <1>16, <1>17

-----------------------------------------------------------------------------
(* Terms, components and scores *)

\* What is measured of a term, and the term itself
Worth(f, profile, m) ==
    LET n == IF m = "self_damage" THEN profile.life ELSE 1
    IN InViews(LAMBDA v : <<f[m][v][1] * n, f[m][v][2] * n>>)
TermOf(f, offer0, profile, t) ==
    Normalized(Worth(f, profile, t[1]), ScaleOf(t[2], offer0), t[3])

\* A number in grains of its scale, turned round or not
Scaled(n, scale, sign) == (sign * n * Grain) \div (scale * Unit)

\* A measure divided by its scale grows with it, or falls when it is turned round.
LEMMA DividedGrows ==
    ASSUME NEW m \in Int, NEW n \in Int, m <= n, NEW scale \in Int, scale > 0,
           NEW sign \in {1, -1}
    PROVE  /\ Scaled(m, scale, sign) \in Int /\ Scaled(n, scale, sign) \in Int
           /\ sign = 1 => Scaled(m, scale, sign) <= Scaled(n, scale, sign)
           /\ sign = -1 => Scaled(n, scale, sign) <= Scaled(m, scale, sign)
<1>1. PICK d \in Int : d = scale * Unit /\ d > 0
  <2>1. PICK u \in Nat : u = Unit /\ u > 0
    BY RollsAre
  <2>2. scale * u \in Int /\ scale * u > 0
    BY <2>1
  <2> QED BY <2>1, <2>2
<1>2. PICK g \in Int : g = Grain /\ g >= 0
  BY ScaleAssumption
<1>3. PICK p \in Int, q \in Int : p = sign * m /\ q = sign * n
  OBVIOUS
<1>4. (sign = 1 => p <= q) /\ (sign = -1 => q <= p)
  BY <1>3
<1>5. PICK h \in Int, k \in Int : h = p * g /\ k = q * g
  OBVIOUS
<1>6. (sign = 1 => h <= k) /\ (sign = -1 => k <= h)
  <2>1. h = g * p /\ k = g * q
    BY <1>5
  <2> QED BY <1>2, <1>4, <2>1, ProductGrows
<1>7. Scaled(m, scale, sign) = h \div d /\ Scaled(n, scale, sign) = k \div d
  BY <1>1, <1>2, <1>3, <1>5 DEF Scaled
<1>8. h \div d \in Int /\ k \div d \in Int
  BY <1>1
<1>9. (sign = 1 => h \div d <= k \div d) /\ (sign = -1 => k \div d <= h \div d)
  BY <1>1, <1>6, QuotientGrows
<1> QED BY <1>7, <1>8, <1>9

\* So does its clipping.
LEMMA ClipGrows ==
    ASSUME NEW m \in Int, NEW n \in Int, m <= n
    PROVE  Clip(m) \in Int /\ Clip(n) \in Int /\ Clip(m) <= Clip(n)
BY ScaleAssumption DEF Clip, Most, Least

\* _normalized keeps a range within another.
LEMMA NormalizedWithin ==
    ASSUME NEW r, NEW s, NEW v \in Views, NEW w \in Views, Inside(r[v], s[w]),
           NEW scale \in Int, scale > 0, NEW sign \in {1, -1}
    PROVE  Inside(Normalized(r, scale, sign)[v], Normalized(s, scale, sign)[w])
<1>1. PICK a \in Int, b \in Int, c \in Int, d \in Int :
         /\ a = s[w][1] /\ b = r[v][1] /\ c = r[v][2] /\ d = s[w][2]
         /\ a <= b /\ b <= c /\ c <= d
  BY DEF Inside
<1>2. PICK i, j, k, l : /\ i = Scaled(a, scale, sign) /\ j = Scaled(b, scale, sign)
                        /\ k = Scaled(c, scale, sign) /\ l = Scaled(d, scale, sign)
  OBVIOUS
<1>3. /\ i \in Int /\ j \in Int /\ k \in Int /\ l \in Int
      /\ sign = 1 => i <= j /\ j <= k /\ k <= l
      /\ sign = -1 => l <= k /\ k <= j /\ j <= i
  <2>1. i \in Int /\ j \in Int /\ (sign = 1 => i <= j) /\ (sign = -1 => j <= i)
    BY <1>1, <1>2, DividedGrows
  <2>2. k \in Int /\ (sign = 1 => j <= k) /\ (sign = -1 => k <= j)
    BY <1>1, <1>2, DividedGrows
  <2>3. l \in Int /\ (sign = 1 => k <= l) /\ (sign = -1 => l <= k)
    BY <1>1, <1>2, DividedGrows
  <2> QED BY <2>1, <2>2, <2>3
<1>4. PICK p \in Int, q \in Int, x \in Int, y \in Int :
         /\ p = Clip(i) /\ q = Clip(j) /\ x = Clip(k) /\ y = Clip(l)
         /\ sign = 1 => p <= q /\ q <= x /\ x <= y
         /\ sign = -1 => y <= x /\ x <= q /\ q <= p
  <2>1. Clip(i) \in Int /\ Clip(j) \in Int /\ Clip(k) \in Int /\ Clip(l) \in Int
    BY <1>3, ClipGrows
  <2>2. sign = 1 => Clip(i) <= Clip(j) /\ Clip(j) <= Clip(k) /\ Clip(k) <= Clip(l)
    BY <1>3, ClipGrows
  <2>3. sign = -1 => Clip(l) <= Clip(k) /\ Clip(k) <= Clip(j) /\ Clip(j) <= Clip(i)
    BY <1>3, ClipGrows
  <2> QED BY <2>1, <2>2, <2>3
<1>5. Normalized(r, scale, sign)[v] = <<Least(q, x), Most(q, x)>>
  BY <1>1, <1>2, <1>4 DEF Normalized, Scaled, InViews, Views
<1>6. Normalized(s, scale, sign)[w] = <<Least(p, y), Most(p, y)>>
  BY <1>1, <1>2, <1>4 DEF Normalized, Scaled, InViews, Views
<1> QED BY <1>4, <1>5, <1>6 DEF Inside, Least, Most

\* A range times a natural number keeps within another.
LEMMA WorthWithin ==
    ASSUME NEW f, NEW g, NEW m, NEW v \in Views, NEW w \in Views, Inside(f[m][v], g[m][w]),
           NEW profile, IsProfile(profile)
    PROVE  Inside(Worth(f, profile, m)[v], Worth(g, profile, m)[w])
<1>1. PICK n \in Int : n = (IF m = "self_damage" THEN profile.life ELSE 1) /\ n >= 0
  <2>1. profile.life \in Nat
    BY DEF IsProfile
  <2> QED BY <2>1
<1>2. PICK a \in Int, b \in Int, c \in Int, d \in Int :
         /\ a = g[m][w][1] /\ b = f[m][v][1] /\ c = f[m][v][2] /\ d = g[m][w][2]
         /\ a <= b /\ b <= c /\ c <= d
  BY DEF Inside
<1>3. PICK p \in Int, q \in Int, x \in Int, y \in Int :
         p = a * n /\ q = b * n /\ x = c * n /\ y = d * n
  OBVIOUS
<1>4. p <= q /\ q <= x /\ x <= y
  <2>1. n * a <= n * b /\ n * b <= n * c /\ n * c <= n * d
    BY <1>1, <1>2, ProductGrows
  <2>2. p = n * a /\ q = n * b /\ x = n * c /\ y = n * d
    BY <1>3
  <2> QED BY <2>1, <2>2
<1>5. Worth(f, profile, m)[v] = <<q, x>> /\ Worth(g, profile, m)[w] = <<p, y>>
  BY <1>1, <1>2, <1>3 DEF Worth, InViews, Views
<1> QED BY <1>4, <1>5 DEF Inside

\* A term keeps within another when what it measures does.
LEMMA TermWithin ==
    ASSUME NEW f, NEW g, NEW t, IsTerm(t), NEW v \in Views, NEW w \in Views,
           Inside(f[t[1]][v], g[t[1]][w]),
           NEW offer0, IsFiniteSet(DOMAIN offer0), NEW profile, IsProfile(profile)
    PROVE  Inside(TermOf(f, offer0, profile, t)[v], TermOf(g, offer0, profile, t)[w])
<1>1. PICK scale \in Int : scale = ScaleOf(t[2], offer0) /\ scale > 0
  BY ScaleIs DEF IsTerm
<1>2. PICK sign \in {1, -1} : sign = t[3]
  BY DEF IsTerm
<1>3. PICK r, s : r = Worth(f, profile, t[1]) /\ s = Worth(g, profile, t[1])
  OBVIOUS
<1>4. Inside(r[v], s[w])
  BY <1>3, WorthWithin
<1>5. Inside(Normalized(r, scale, sign)[v], Normalized(s, scale, sign)[w])
  BY <1>1, <1>4, NormalizedWithin
<1> QED BY <1>1, <1>2, <1>3, <1>5 DEF TermOf

\* Terms are told apart by their metrics.
LEMMA TermsDiffer ==
    ASSUME NEW c \in Component
    PROVE  \A t, u \in Terms[c] : t[1] = u[1] => t = u
<1>1. CASE c = "enemy_effect"
  BY <1>1 DEF Terms
<1>2. CASE c = "immediate_friendly_harm"
  BY <1>2 DEF Terms
<1>3. CASE c = "post_action_exposure"
  BY <1>3 DEF Terms
<1>4. CASE c = "position_control_protection"
  BY <1>4 DEF Terms
<1>5. CASE c = "resource_future_capacity"
  BY <1>5 DEF Terms
<1>6. CASE c = "tempo"
  BY <1>6 DEF Terms
<1> QED BY <1>1, <1>2, <1>3, <1>4, <1>5, <1>6 DEF Component

\* _component: a bound of the contribution is a weighted sum over its terms.
TermBounds(f, offer0, profile, c, v, i) ==
    [t \in Terms[c] |-> TermOf(f, offer0, profile, t)[v][i]]

\* The sum of the terms, bound by bound.
LEMMA ContributionSums ==
    ASSUME NEW f, NEW offer0, NEW profile, NEW c \in Component, NEW v \in Views,
           NEW i \in {1, 2},
           \A t \in Terms[c] : TermOf(f, offer0, profile, t)[v][i] \in Int
    PROVE  Contribution(f, offer0, profile, c)[v][i] =
              profile.weight[c] * (SumOver(Terms[c], TermBounds(f, offer0, profile, c, v, i))
                                   * (Common \div Cardinality(Terms[c])))
<1>0. PICK g : g = TermBounds(f, offer0, profile, c, v, i)
  OBVIOUS
<1>a. \A t \in Terms[c] : g[t] = TermOf(f, offer0, profile, t)[v][i] /\ g[t] \in Int
  BY <1>0 DEF TermBounds
<1> DEFINE put(t) == <<t[1], TermOf(f, offer0, profile, t)>>
           scaled == { put(t) : t \in Terms[c] }
           puts == [t \in Terms[c] |-> put(t)]
           mean(u, j) == SumFunction([t \in scaled |-> t[2][u][j]])
                         * (Common \div Cardinality(Terms[c]))
<1>1. Contribution(f, offer0, profile, c) =
        InViews(LAMBDA u : <<profile.weight[c] * mean(u, 1), profile.weight[c] * mean(u, 2)>>)
  BY Zenon DEF Contribution, TermOf, Worth
<1>2. PICK h : h = [t \in scaled |-> t[2][v][i]]
  OBVIOUS
<1>3. SumFunction(h) = SumOver(scaled, h)
  BY <1>2, SumIs
<1>4. IsFiniteSet(Terms[c]) /\ \A t, u \in Terms[c] : t[1] = u[1] => t = u
  BY TermsAre, TermsDiffer
<1>5. \A t \in Terms[c] : puts[t] = put(t) /\ puts[t] \in scaled
  OBVIOUS
<1>6. \A t, u \in Terms[c] : puts[t] = puts[u] => t = u
  BY <1>4
<1>7. \A t \in Terms[c] : g[t] = h[puts[t]] /\ h[puts[t]] \in Int
  <2>1. \A t \in Terms[c] : h[puts[t]] = puts[t][2][v][i]
    <3> HIDE DEF puts, scaled
    <3> QED BY <1>2, <1>5
  <2>2. \A t \in Terms[c] : puts[t][2] = TermOf(f, offer0, profile, t)
    OBVIOUS
  <2> HIDE DEF puts, scaled
  <2> QED BY <1>a, <2>1, <2>2
<1>8. scaled = { puts[t] : t \in Terms[c] }
  <2> HIDE DEF put
  <2> QED OBVIOUS
<1>9. SumOver({ puts[t] : t \in Terms[c] }, h) = SumOver(Terms[c], g)
  <2>1. PICK T : T = Terms[c]
    OBVIOUS
  <2>2. PICK r : r = puts
    OBVIOUS
  <2> HIDE DEF puts, scaled
  <2>3. IsFiniteSet(T) /\ \A t, u \in T : r[t] = r[u] => t = u
    BY <1>4, <1>6, <2>1, <2>2
  <2>4. \A t \in T : g[t] = h[r[t]] /\ h[r[t]] \in Int
    BY <1>7, <2>1, <2>2
  <2>5. SumOver({ r[t] : t \in T }, h) = SumOver(T, g)
    BY <2>3, <2>4, RenamedSum
  <2> QED BY <2>1, <2>2, <2>5, Zenon
<1>10. mean(v, i) = SumOver(Terms[c], g) * (Common \div Cardinality(Terms[c]))
  <2>1. mean(v, i) = SumFunction(h) * (Common \div Cardinality(Terms[c]))
    BY <1>2
  <2> HIDE DEF mean, puts, scaled
  <2> QED BY <1>3, <1>8, <1>9, <2>1
<1> HIDE DEF mean
<1>11. Contribution(f, offer0, profile, c)[v][i] = profile.weight[c] * mean(v, i)
  BY <1>1 DEF InViews, Views
<1> QED BY <1>0, <1>10, <1>11

\* _component keeps within what its terms do.
LEMMA ContributionWithin ==
    ASSUME NEW f, NEW g, NEW v \in Views, NEW w \in Views,
           \A m \in Metrics : Inside(f[m][v], g[m][w]),
           NEW offer0, IsFiniteSet(DOMAIN offer0), NEW profile, IsProfile(profile),
           NEW c \in Component
    PROVE  Inside(Contribution(f, offer0, profile, c)[v], Contribution(g, offer0, profile, c)[w])
<1>1. PICK T : T = Terms[c] /\ IsFiniteSet(T) /\ T # {} /\ \A t \in T : IsTerm(t)
  BY TermsAre
<1>2. PICK p, q, x, y :
         /\ p = TermBounds(g, offer0, profile, c, w, 1)
         /\ q = TermBounds(f, offer0, profile, c, v, 1)
         /\ x = TermBounds(f, offer0, profile, c, v, 2)
         /\ y = TermBounds(g, offer0, profile, c, w, 2)
  OBVIOUS
<1>3. ASSUME NEW t \in T
      PROVE  /\ p[t] \in Int /\ q[t] \in Int /\ x[t] \in Int /\ y[t] \in Int
             /\ p[t] <= q[t] /\ q[t] <= x[t] /\ x[t] <= y[t]
  <2>1. Inside(f[t[1]][v], g[t[1]][w])
    BY <1>1 DEF IsTerm
  <2>2. Inside(TermOf(f, offer0, profile, t)[v], TermOf(g, offer0, profile, t)[w])
    BY <1>1, <2>1, TermWithin
  <2>3. /\ p[t] = TermOf(g, offer0, profile, t)[w][1] /\ q[t] = TermOf(f, offer0, profile, t)[v][1]
        /\ x[t] = TermOf(f, offer0, profile, t)[v][2] /\ y[t] = TermOf(g, offer0, profile, t)[w][2]
    BY <1>1, <1>2 DEF TermBounds
  <2> QED BY <2>2, <2>3 DEF Inside
<1>4. PICK k \in Int : k = Common \div Cardinality(T) /\ k >= 0
  <2>1. PICK n \in Nat : n = Cardinality(T) /\ n > 0
    <3>1. Cardinality(T) \in Nat /\ Cardinality(T) # 0
      BY <1>1, FS_CardinalityType, FS_EmptySet
    <3> QED BY <3>1
  <2>2. 420 \div n \in Int /\ 420 \div n >= 0
    BY <2>1
  <2> QED BY <2>1, <2>2 DEF Common
<1>5. PICK z \in Int : z = profile.weight[c] /\ z >= 0
  <2>1. profile.weight[c] \in Nat
    BY DEF IsProfile
  <2> QED BY <2>1
<1>6. PICK a \in Int, b \in Int, d \in Int, e \in Int :
         /\ a = SumOver(T, p) /\ b = SumOver(T, q) /\ d = SumOver(T, x) /\ e = SumOver(T, y)
         /\ a <= b /\ b <= d /\ d <= e
  <2>1. /\ SumOver(T, p) \in Int /\ SumOver(T, q) \in Int
        /\ SumOver(T, x) \in Int /\ SumOver(T, y) \in Int
    BY <1>1, <1>3, SumSteps
  <2>2. /\ SumOver(T, p) <= SumOver(T, q) /\ SumOver(T, q) <= SumOver(T, x)
        /\ SumOver(T, x) <= SumOver(T, y)
    BY <1>1, <1>3, SumGrows
  <2> QED BY <2>1, <2>2
<1>7. PICK a1 \in Int, b1 \in Int, d1 \in Int, e1 \in Int :
         /\ a1 = k * a /\ b1 = k * b /\ d1 = k * d /\ e1 = k * e
         /\ a1 <= b1 /\ b1 <= d1 /\ d1 <= e1
  <2>1. k * a \in Int /\ k * b \in Int /\ k * d \in Int /\ k * e \in Int
    OBVIOUS
  <2>2. k * a <= k * b /\ k * b <= k * d /\ k * d <= k * e
    BY <1>4, <1>6, ProductGrows
  <2> QED BY <2>1, <2>2
<1>8. /\ z * a1 \in Int /\ z * b1 \in Int /\ z * d1 \in Int /\ z * e1 \in Int
      /\ z * a1 <= z * b1 /\ z * b1 <= z * d1 /\ z * d1 <= z * e1
  BY <1>5, <1>7, ProductGrows, ProductIs
<1>9. /\ Contribution(g, offer0, profile, c)[w][1] = z * (a * k)
      /\ Contribution(f, offer0, profile, c)[v][1] = z * (b * k)
      /\ Contribution(f, offer0, profile, c)[v][2] = z * (d * k)
      /\ Contribution(g, offer0, profile, c)[w][2] = z * (e * k)
  <2>1. \A t \in Terms[c] :
           /\ TermOf(g, offer0, profile, t)[w][1] \in Int
           /\ TermOf(f, offer0, profile, t)[v][1] \in Int
           /\ TermOf(f, offer0, profile, t)[v][2] \in Int
           /\ TermOf(g, offer0, profile, t)[w][2] \in Int
    BY <1>1, <1>2, <1>3 DEF TermBounds
  <2>2. Contribution(g, offer0, profile, c)[w][1] = z * (a * k)
    BY <1>1, <1>2, <1>4, <1>5, <1>6, <2>1, ContributionSums
  <2>3. Contribution(f, offer0, profile, c)[v][1] = z * (b * k)
    BY <1>1, <1>2, <1>4, <1>5, <1>6, <2>1, ContributionSums
  <2>4. Contribution(f, offer0, profile, c)[v][2] = z * (d * k)
    BY <1>1, <1>2, <1>4, <1>5, <1>6, <2>1, ContributionSums
  <2>5. Contribution(g, offer0, profile, c)[w][2] = z * (e * k)
    BY <1>1, <1>2, <1>4, <1>5, <1>6, <2>1, ContributionSums
  <2> QED BY <2>2, <2>3, <2>4, <2>5
<1>10. a * k = a1 /\ b * k = b1 /\ d * k = d1 /\ e * k = e1
  BY <1>7
<1> QED BY <1>8, <1>9, <1>10 DEF Inside

\* score_candidate_features: a bound of a score is a sum over its components.
PartBounds(f, offer0, e, v, i) ==
    [c \in e.components |-> Contribution(f, offer0, e.profile, c)[v][i]]

\* The sum of the components, bound by bound, is the score.
LEMMA ScoreSums ==
    ASSUME NEW f, NEW offer0, NEW x, NEW e, IsEngine(e), NEW v \in Views, NEW i \in {1, 2},
           \A c \in e.components : Contribution(f, offer0, e.profile, c)[v][i] \in Int
    PROVE  Score(f, offer0, x, e).tactical[v][i] =
              SumOver(e.components, PartBounds(f, offer0, e, v, i))
<1>0. PICK g : g = PartBounds(f, offer0, e, v, i)
  OBVIOUS
<1>a. \A c \in e.components :
         g[c] = Contribution(f, offer0, e.profile, c)[v][i] /\ g[c] \in Int
  BY <1>0 DEF PartBounds
<1> DEFINE part(c) == <<c, Contribution(f, offer0, e.profile, c)>>
           parts == { part(c) : c \in e.components }
           puts == [c \in e.components |-> part(c)]
           sum(u, j) == SumFunction([p \in parts |-> p[2][u][j]])
<1>1. Score(f, offer0, x, e).tactical = InViews(LAMBDA u : <<sum(u, 1), sum(u, 2)>>)
  BY Zenon DEF Score
<1>2. PICK h : h = [p \in parts |-> p[2][v][i]]
  OBVIOUS
<1>3. SumFunction(h) = SumOver(parts, h)
  BY <1>2, SumIs
<1>4. IsFiniteSet(e.components)
  BY ComponentsAreFinite, FS_Subset DEF IsEngine
<1>5. \A c \in e.components : puts[c] = part(c) /\ puts[c] \in parts
  OBVIOUS
<1>6. \A c, d \in e.components : puts[c] = puts[d] => c = d
  OBVIOUS
<1>7. \A c \in e.components : g[c] = h[puts[c]] /\ h[puts[c]] \in Int
  <2>1. \A c \in e.components : h[puts[c]] = puts[c][2][v][i]
    <3> HIDE DEF puts, parts
    <3> QED BY <1>2, <1>5
  <2>2. \A c \in e.components : puts[c][2] = Contribution(f, offer0, e.profile, c)
    OBVIOUS
  <2> HIDE DEF puts, parts
  <2> QED BY <1>a, <2>1, <2>2
<1>8. parts = { puts[c] : c \in e.components }
  <2> HIDE DEF part
  <2> QED OBVIOUS
<1>9. SumOver({ puts[c] : c \in e.components }, h) = SumOver(e.components, g)
  <2>1. PICK T : T = e.components
    OBVIOUS
  <2>2. PICK r : r = puts
    OBVIOUS
  <2> HIDE DEF puts, parts
  <2>3. IsFiniteSet(T) /\ \A c, d \in T : r[c] = r[d] => c = d
    BY <1>4, <1>6, <2>1, <2>2
  <2>4. \A c \in T : g[c] = h[r[c]] /\ h[r[c]] \in Int
    BY <1>7, <2>1, <2>2
  <2>5. SumOver({ r[c] : c \in T }, h) = SumOver(T, g)
    BY <2>3, <2>4, RenamedSum
  <2> QED BY <2>1, <2>2, <2>5, Zenon
<1>10. sum(v, i) = SumOver(e.components, g)
  <2>1. sum(v, i) = SumFunction(h)
    BY <1>2
  <2> HIDE DEF sum, puts, parts
  <2> QED BY <1>3, <1>8, <1>9, <2>1
<1> HIDE DEF sum
<1>11. Score(f, offer0, x, e).tactical[v][i] = sum(v, i)
  BY <1>1 DEF InViews, Views
<1> QED BY <1>0, <1>10, <1>11

\* The score keeps within what its measures do.
LEMMA TacticalWithin ==
    ASSUME NEW f, NEW g, NEW v \in Views, NEW w \in Views,
           \A m \in Metrics : Inside(f[m][v], g[m][w]),
           NEW offer0, IsFiniteSet(DOMAIN offer0), NEW x, NEW e, IsEngine(e)
    PROVE  Inside(Score(f, offer0, x, e).tactical[v], Score(g, offer0, x, e).tactical[w])
<1>1. PICK T : T = e.components /\ IsFiniteSet(T) /\ T \subseteq Component
  BY ComponentsAreFinite, FS_Subset DEF IsEngine
<1>2. PICK p, q, y, z :
         /\ p = PartBounds(g, offer0, e, w, 1) /\ q = PartBounds(f, offer0, e, v, 1)
         /\ y = PartBounds(f, offer0, e, v, 2) /\ z = PartBounds(g, offer0, e, w, 2)
  OBVIOUS
<1>3. ASSUME NEW c \in T
      PROVE  /\ p[c] = Contribution(g, offer0, e.profile, c)[w][1]
             /\ q[c] = Contribution(f, offer0, e.profile, c)[v][1]
             /\ y[c] = Contribution(f, offer0, e.profile, c)[v][2]
             /\ z[c] = Contribution(g, offer0, e.profile, c)[w][2]
             /\ p[c] \in Int /\ q[c] \in Int /\ y[c] \in Int /\ z[c] \in Int
             /\ p[c] <= q[c] /\ q[c] <= y[c] /\ y[c] <= z[c]
  <2>1. PICK profile : profile = e.profile /\ IsProfile(profile)
    BY DEF IsEngine
  <2>2. Inside(Contribution(f, offer0, profile, c)[v], Contribution(g, offer0, profile, c)[w])
    BY <1>1, <2>1, ContributionWithin
  <2>3. /\ p[c] = Contribution(g, offer0, profile, c)[w][1]
        /\ q[c] = Contribution(f, offer0, profile, c)[v][1]
        /\ y[c] = Contribution(f, offer0, profile, c)[v][2]
        /\ z[c] = Contribution(g, offer0, profile, c)[w][2]
    BY <1>1, <1>2, <2>1 DEF PartBounds
  <2> QED BY <2>1, <2>2, <2>3 DEF Inside
<1>4. /\ SumOver(T, p) \in Int /\ SumOver(T, q) \in Int
      /\ SumOver(T, y) \in Int /\ SumOver(T, z) \in Int
  BY <1>1, <1>3, SumSteps
<1>5. /\ SumOver(T, p) <= SumOver(T, q) /\ SumOver(T, q) <= SumOver(T, y)
      /\ SumOver(T, y) <= SumOver(T, z)
  BY <1>1, <1>3, SumGrows
<1>6. /\ Score(g, offer0, x, e).tactical[w][1] = SumOver(T, p)
      /\ Score(f, offer0, x, e).tactical[v][1] = SumOver(T, q)
      /\ Score(f, offer0, x, e).tactical[v][2] = SumOver(T, y)
      /\ Score(g, offer0, x, e).tactical[w][2] = SumOver(T, z)
  <2>1. \A c \in e.components :
           /\ Contribution(g, offer0, e.profile, c)[w][1] \in Int
           /\ Contribution(f, offer0, e.profile, c)[v][1] \in Int
           /\ Contribution(f, offer0, e.profile, c)[v][2] \in Int
           /\ Contribution(g, offer0, e.profile, c)[w][2] \in Int
    BY <1>1, <1>3
  <2>2. Score(g, offer0, x, e).tactical[w][1] = SumOver(T, p)
    BY <1>1, <1>2, <2>1, ScoreSums
  <2>3. Score(f, offer0, x, e).tactical[v][1] = SumOver(T, q)
    BY <1>1, <1>2, <2>1, ScoreSums
  <2>4. Score(f, offer0, x, e).tactical[v][2] = SumOver(T, y)
    BY <1>1, <1>2, <2>1, ScoreSums
  <2>5. Score(g, offer0, x, e).tactical[w][2] = SumOver(T, z)
    BY <1>1, <1>2, <2>1, ScoreSums
  <2> QED BY <2>2, <2>3, <2>4, <2>5
<1> QED BY <1>4, <1>5, <1>6 DEF Inside

\* What is narrower is worth no less for sure, and death costs the same.
LEMMA ScoreNarrows ==
    ASSUME NEW f, \A m \in Metrics : Nests(f[m]),
           NEW g, \A m \in Metrics : Narrower(g[m], f[m]), g["death"] = f["death"],
           NEW offer0, IsFiniteSet(DOMAIN offer0), NEW x, offer0[x].ammo \in Nat,
           NEW e, IsEngine(e)
    PROVE  LET s == Score(f, offer0, x, e)
               t == Score(g, offer0, x, e)
           IN  /\ Inside(s.tactical["robust"], s.tactical["support"])
               /\ Inside(t.tactical["robust"], s.tactical["robust"])
               /\ t.tail = s.tail /\ s.tail \in Int
               /\ s.value \in Int /\ t.value \in Int /\ t.value >= s.value
<1>1. PICK s, t : s = Score(f, offer0, x, e) /\ t = Score(g, offer0, x, e)
  OBVIOUS
<1>2. Inside(s.tactical["robust"], s.tactical["support"])
  <2>1. "robust" \in Views /\ "support" \in Views
    BY DEF Views
  <2>2. \A m \in Metrics : Inside(f[m]["robust"], f[m]["support"])
    BY DEF Nests
  <2> QED BY <1>1, <2>1, <2>2, TacticalWithin
<1>3. ASSUME NEW v \in Views
      PROVE  Inside(t.tactical[v], s.tactical[v])
  <2>1. \A m \in Metrics : Inside(g[m][v], f[m][v])
    BY DEF Narrower
  <2> QED BY <1>1, <2>1, TacticalWithin
<1>4. /\ Inside(t.tactical["robust"], s.tactical["robust"])
      /\ Inside(t.tactical["epistemic"], s.tactical["epistemic"])
  BY <1>3 DEF Views
<1>5. \A m \in Metrics : IsMeasure(f[m])
  BY NestsIs
<1>6. IsScore(s)
  BY <1>1, <1>5, ScoreIs
<1>7. PICK u \in Int : u = e.profile.uncertainty /\ u >= 0
  BY DEF IsEngine, IsProfile
<1>8. /\ s.tail = e.profile.tail * e.profile.life * Common
                  * ((f.death["robust"][1] * Grain) \div Unit)
      /\ t.tail = e.profile.tail * e.profile.life * Common
                  * ((g.death["robust"][1] * Grain) \div Unit)
  BY <1>1, Zenon DEF Score
<1>9. t.tail = s.tail
  BY <1>8
<1>10. /\ s.span = s.tactical["epistemic"][2] - s.tactical["epistemic"][1]
       /\ t.span = t.tactical["epistemic"][2] - t.tactical["epistemic"][1]
       /\ s.value = s.tactical["robust"][1] - s.tail - (u * s.span) \div 4
       /\ t.value = t.tactical["robust"][1] - t.tail - (u * t.span) \div 4
  BY <1>1, <1>7, Zenon DEF Score, Value
<1>11. PICK m \in Int, n \in Int : m = t.span /\ n = s.span /\ m <= n
  BY <1>4, <1>10 DEF Inside
<1>12. PICK p \in Int, q \in Int : p = (u * m) \div 4 /\ q = (u * n) \div 4 /\ p <= q
  <2>1. PICK y \in Int, z \in Int : y = u * m /\ z = u * n
    OBVIOUS
  <2>2. y <= z
    BY <1>7, <1>11, <2>1, ProductGrows
  <2>3. y \div 4 \in Int /\ z \div 4 \in Int /\ y \div 4 <= z \div 4
    BY <2>2, QuotientGrows
  <2> QED BY <2>1, <2>3
<1>13. PICK a \in Int, b \in Int, c \in Int :
          a = t.tactical["robust"][1] /\ b = s.tactical["robust"][1] /\ c = s.tail /\ b <= a
  BY <1>4, <1>6 DEF Inside, IsScore
<1>14. s.value = b - c - q /\ t.value = a - c - p
  BY <1>9, <1>10, <1>11, <1>12, <1>13
<1>15. s.value \in Int /\ t.value \in Int /\ t.value >= s.value
  BY <1>12, <1>13, <1>14
<1> QED BY <1>1, <1>2, <1>4, <1>6, <1>9, <1>15, Zenon DEF IsScore

-----------------------------------------------------------------------------
(* What a score depends on *)

\* The facts about a place depend on what is known of the places alone.
LEMMA FactsStay ==
    ASSUME position' = position, tile' = tile, origin' = origin
    PROVE  /\ \A t : /\ AdjacentHostiles(t)' = AdjacentHostiles(t)
                     /\ SightedFrom(t)' = SightedFrom(t)
                     /\ LowerHostiles(t)' = LowerHostiles(t)
                     /\ HigherHostiles(t)' = HigherHostiles(t)
                     /\ FlankedHostiles(t)' = FlankedHostiles(t)
                     /\ OpenTiles(t)' = OpenTiles(t)
           /\ \A s, t : ScreensGained(s, t)' = ScreensGained(s, t)
<1>1. ASSUME NEW t PROVE AdjacentHostiles(t)' = AdjacentHostiles(t)
  BY Zenon DEF AdjacentHostiles, Definite, Possible, Known, Where
<1>2. ASSUME NEW t PROVE SightedFrom(t)' = SightedFrom(t)
  BY Zenon DEF SightedFrom, Definite, Possible, Known, Where, Sees, MaySee
<1>3. ASSUME NEW t PROVE LowerHostiles(t)' = LowerHostiles(t)
  BY Zenon DEF LowerHostiles, Definite, Possible, Known, Where
<1>4. ASSUME NEW t PROVE HigherHostiles(t)' = HigherHostiles(t)
  BY Zenon DEF HigherHostiles, Definite, Possible, Known, Where
<1>5. ASSUME NEW t PROVE FlankedHostiles(t)' = FlankedHostiles(t)
  <2>1. \A a : Where(a)' = Where(a) /\ (Known(a)' <=> Known(a))
    BY DEF Where, Known
  <2> QED BY <2>1, Zenon DEF FlankedHostiles, Definite, Possible
<1>6. ASSUME NEW t PROVE OpenTiles(t)' = OpenTiles(t)
  <2>1. \A a : Where(a)' = Where(a)
    BY DEF Where, Known
  <2>2. ASSUME NEW u PROVE (Occupied(u)' <=> Occupied(u)) /\ (MayBeOccupied(u)' <=> MayBeOccupied(u))
    BY <2>1 DEF Occupied, MayBeOccupied
  <2> QED BY <2>2 DEF OpenTiles
<1>7. ASSUME NEW s PROVE ScreenPairs(s)' = ScreenPairs(s)
  BY Zenon DEF ScreenPairs, Known, Where
<1>8. \A s, t : ScreensGained(s, t)' = ScreensGained(s, t)
  BY <1>7, Zenon DEF ScreensGained
<1> QED BY <1>1, <1>2, <1>3, <1>4, <1>5, <1>6, <1>8

\* So does what is measured, metric by metric.
LEMMA FeaturesStay ==
    ASSUME position' = position, tile' = tile, origin' = origin,
           NEW a, NEW offer0, NEW x, NEW v
    PROVE  \A m \in Metrics : Features(a, offer0, x, v)'[m] = Features(a, offer0, x, v)[m]
<1>1. PICK F, G : F = Features(a, offer0, x, v) /\ G = Features(a, offer0, x, v)'
  OBVIOUS
<1>2. Composed(a, offer0, x, v) /\ Composed(a, offer0, x, v)'
  BY FeaturesOf, FeaturesNext
<1>3. PICK action, B : action = offer0[x] /\ B = Branches(a, action)
  OBVIOUS
<1>4. PICK S : S = Posture(a, action, B)
  OBVIOUS
<1>5. Posture(a, action, B)' = S
  BY <1>4, Zenon DEF Posture
<1>6. \A m, t : PlaceFact(m, t)' = PlaceFact(m, t)
  BY FactsStay, Zenon DEF PlaceFact
<1>7. \A m, b : StandNumber(m, offer0, b)' = StandNumber(m, offer0, b)
  BY Zenon DEF StandNumber
<1>8. Composed(a, offer0, x, v)' =>
         /\ \A m \in PlaceMetrics :
               G[m] = OverBranches([b \in S |-> Counted(PlaceFact(m, b.tile)')])
         /\ G["zoc"] = Pressure(G["adjacent"])
         /\ \A m \in StandMetrics :
               G[m] = OverBranches([b \in S |-> Sure(StandNumber(m, offer0, b)')])
         /\ \A m \in FlagMetrics : G[m] = OverBranches([b \in B |-> Sure(FlagNumber(m, b))])
         /\ \A m \in EffectMetrics :
               G[m] = IF IsAttack(action) THEN AttackMetric(action, v, EffectOf(m)) ELSE Sure(0)
         /\ G["ammo"] = Sure(action.ammo) /\ G["charges"] = Sure(0) /\ G["ally_damage"] = Sure(0)
         /\ G["stopped"] = Range0(Total({ b \in B : b.stopped }), Total({ b \in B : b.stopped }))
         /\ G["death"] = Range0(Total({ b \in B : Dead(b) }), Total({ b \in B : Dead(b) }))
         /\ G["self_damage"] = IF action.reactions = <<>> THEN Sure(0)
               ELSE OverBranches([b \in B |-> Sure(Max({0, a.hp - b.actor.hp}))])
  BY <1>1, <1>3, <1>5, Zenon DEF Composed
<1>9. ASSUME NEW m \in PlaceMetrics
      PROVE  G[m] = F[m]
  <2>1. PICK h : h = [b \in S |-> Counted(PlaceFact(m, b.tile))]
    OBVIOUS
  <2>2. h = [b \in S |-> Counted(PlaceFact(m, b.tile)')]
    BY <1>6, <2>1, Zenon
  <2>3. F[m] = OverBranches(h) /\ G[m] = OverBranches(h)
    <3>1. G[m] = OverBranches(h)
      BY <1>2, <1>8, <2>2, Zenon
    <3>2. F[m] = OverBranches(h)
      BY <1>1, <1>2, <1>3, <1>4, <2>1, Zenon DEF Composed
    <3> QED BY <3>1, <3>2
  <2> QED BY <2>3
<1>10. ASSUME NEW m \in StandMetrics
       PROVE  G[m] = F[m]
  <2>1. PICK h : h = [b \in S |-> Sure(StandNumber(m, offer0, b))]
    OBVIOUS
  <2>2. h = [b \in S |-> Sure(StandNumber(m, offer0, b)')]
    BY <1>7, <2>1, Zenon
  <2>3. G[m] = OverBranches(h)
    BY <1>2, <1>8, <2>2, Zenon
  <2>4. F[m] = OverBranches(h)
    BY <1>1, <1>2, <1>3, <1>4, <2>1, Zenon DEF Composed
  <2> QED BY <2>3, <2>4
<1>11. /\ \A m \in FlagMetrics : F[m] = OverBranches([b \in B |-> Sure(FlagNumber(m, b))])
       /\ \A m \in EffectMetrics :
             F[m] = IF IsAttack(action) THEN AttackMetric(action, v, EffectOf(m)) ELSE Sure(0)
       /\ F["zoc"] = Pressure(F["adjacent"])
  BY <1>1, <1>2, <1>3, Zenon DEF Composed
<1>12. \A m \in FlagMetrics \cup EffectMetrics : G[m] = F[m]
  <2>1. \A m \in FlagMetrics : G[m] = F[m]
    BY <1>2, <1>8, <1>11, Zenon
  <2>2. \A m \in EffectMetrics : G[m] = F[m]
    BY <1>2, <1>8, <1>11, Zenon
  <2> QED BY <2>1, <2>2
<1>13. /\ F["ammo"] = Sure(action.ammo) /\ F["charges"] = Sure(0) /\ F["ally_damage"] = Sure(0)
       /\ F["stopped"] = Range0(Total({ b \in B : b.stopped }), Total({ b \in B : b.stopped }))
       /\ F["death"] = Range0(Total({ b \in B : Dead(b) }), Total({ b \in B : Dead(b) }))
       /\ F["self_damage"] = IF action.reactions = <<>> THEN Sure(0)
             ELSE OverBranches([b \in B |-> Sure(Max({0, a.hp - b.actor.hp}))])
  BY <1>1, <1>2, <1>3, Zenon DEF Composed
<1>14. /\ G["ammo"] = F["ammo"] /\ G["charges"] = F["charges"]
       /\ G["ally_damage"] = F["ally_damage"] /\ G["stopped"] = F["stopped"]
       /\ G["death"] = F["death"] /\ G["self_damage"] = F["self_damage"]
  BY <1>2, <1>8, <1>13, Zenon
<1>15. G["zoc"] = F["zoc"]
  <2>1. G["adjacent"] = F["adjacent"]
    BY <1>9 DEF PlaceMetrics
  <2> QED BY <1>2, <1>8, <1>11, <2>1, Zenon
<1>16. \A m \in Metrics : G[m] = F[m]
  <2>1. \A m \in Metrics :
           \/ m \in PlaceMetrics \/ m \in StandMetrics \/ m \in FlagMetrics \cup EffectMetrics
           \/ m \in {"ammo", "charges", "ally_damage", "stopped", "death", "self_damage", "zoc"}
    BY DEF Metrics, PlaceMetrics, StandMetrics, FlagMetrics, EffectMetrics
  <2> HIDE DEF Metrics
  <2> QED BY <1>9, <1>10, <1>12, <1>14, <1>15, <2>1
<1> QED BY <1>1, <1>16

\* A component from its terms, and a score from its components
FromTerms(T, profile, c) ==
    LET mean(v, i) == SumFunction([t \in T |-> t[2][v][i]]) * (Common \div Cardinality(Terms[c]))
    IN InViews(LAMBDA v : <<profile.weight[c] * mean(v, 1), profile.weight[c] * mean(v, 2)>>)
FromParts(parts, death, offer0, a, e) ==
    LET profile == e.profile
        sum(v, i) == SumFunction([p \in parts |-> p[2][v][i]])
        tactical == InViews(LAMBDA v : <<sum(v, 1), sum(v, 2)>>)
        tail == profile.tail * profile.life * Common * ((death["robust"][1] * Grain) \div Unit)
        span == tactical["epistemic"][2] - tactical["epistemic"][1]
        price == (profile.uncertainty * span) \div 4
    IN [tactical |-> tactical, tail |-> tail, span |-> span,
        spent |-> offer0[a].ammo,
        value |-> Value(tactical, tail, price),
        excluded |-> death["support"][2] > profile.deathCap]

\* A score is one of the metrics alone.
LEMMA ScoreAgrees ==
    ASSUME NEW f, NEW g, \A m \in Metrics : g[m] = f[m],
           NEW offer0, NEW x, NEW e, IsEngine(e)
    PROVE  Score(g, offer0, x, e) = Score(f, offer0, x, e)
<1>1. ASSUME NEW profile, NEW c \in Component
      PROVE  Contribution(g, offer0, profile, c) = Contribution(f, offer0, profile, c)
  <2>1. \A t \in Terms[c] : g[t[1]] = f[t[1]]
    BY TermsAre DEF IsTerm
  <2>2. ASSUME NEW t \in Terms[c]
        PROVE  TermOf(g, offer0, profile, t) = TermOf(f, offer0, profile, t)
    <3>1. PICK m : m = t[1] /\ g[m] = f[m]
      BY <2>1
    <3>2. Worth(g, profile, m) = Worth(f, profile, m)
      BY <3>1 DEF Worth, InViews
    <3> QED BY <3>1, <3>2 DEF TermOf
  <2>3. { <<t[1], TermOf(g, offer0, profile, t)>> : t \in Terms[c] } =
           { <<t[1], TermOf(f, offer0, profile, t)>> : t \in Terms[c] }
    BY <2>2
  <2>4. \A h : Contribution(h, offer0, profile, c) =
                  FromTerms({ <<t[1], TermOf(h, offer0, profile, t)>> : t \in Terms[c] }, profile, c)
    BY Zenon DEF Contribution, TermOf, Worth, FromTerms
  <2> QED BY <2>3, <2>4
<1>2. { <<c, Contribution(g, offer0, e.profile, c)>> : c \in e.components } =
         { <<c, Contribution(f, offer0, e.profile, c)>> : c \in e.components }
  <2>1. \A c \in e.components :
           Contribution(g, offer0, e.profile, c) = Contribution(f, offer0, e.profile, c)
    BY <1>1 DEF IsEngine
  <2> QED BY <2>1
<1>3. g["death"] = f["death"]
  BY DEF Metrics
<1>4. \A h : Score(h, offer0, x, e) =
                FromParts({ <<c, Contribution(h, offer0, e.profile, c)>> : c \in e.components },
                          h["death"], offer0, x, e)
  BY Zenon DEF Score, FromParts
<1> QED BY <1>2, <1>3, <1>4

\* What a candidate scores with given hit points, and what is chosen then
ScoreOf(V, a) == Score(Features(actor, offer, a, V), offer, a, engine)
ScoredWith(V) == [a \in DOMAIN offer |-> ScoreOf(V, a)]
BestOf(V) == Ranking(ScoredWith(V), engine.profile.margin)[1]
Wins == { BestOf(Supposing(h)) : h \in HiddenStates(offer) }

\* A score t that is firmer than s
Firmer(t, s) ==
    /\ Inside(s.tactical["robust"], s.tactical["support"])
    /\ Inside(t.tactical["robust"], s.tactical["robust"])
    /\ t.tail = s.tail /\ s.tail \in Int
    /\ s.value \in Int /\ t.value \in Int /\ t.value >= s.value

\* Values that refine others, as far as attack x cares
Refines(w, v, x) ==
    IsAttack(offer[x]) =>
        LET t == offer[x].target
        IN  IsKnown(w[t]) /\ w[t] \subseteq v[t] /\ (t \in Weighted => w[t] = v[t])

\* A candidate fit to be evaluated is evaluated.
LEMMA CanScore ==
    ASSUME Given, NEW a \in DOMAIN offer, Evaluable(a)
    PROVE  Evaluated(actor, offer, a, hp)
<1>1. IsAction(offer[a]) /\ Status(actor, offer[a], hp, engine.supported) = OK
  BY GivenIs DEF Evaluable
<1>2. ASSUME IsAttack(offer[a])
      PROVE  IsKnown(hp[offer[a].target])
  <2>1. offer[a].target \in Others
    BY <1>1, <1>2 DEF IsAction
  <2>2. AttackStatus(actor, offer[a], hp, engine.supported) = OK
    BY <1>1, <1>2 DEF Status
  <2>3. hp[offer[a].target] # {}
    BY <2>2 DEF AttackStatus, OK, Unsupported, Invalid
  <2> QED BY <2>1, <2>3 DEF Given, IsKnown
<1> QED BY <1>1, <1>2, GivenIs DEF Evaluated

\* Only what is known of its target tells the scores of an attack apart.
LEMMA SameValues ==
    ASSUME Given, NEW V, NEW W, NEW a,
           IsAttack(offer[a]) => V[offer[a].target] = W[offer[a].target]
    PROVE  ScoreOf(V, a) = ScoreOf(W, a)
<1>1. PICK F, G, action, B :
         /\ F = Features(actor, offer, a, W) /\ G = Features(actor, offer, a, V)
         /\ action = offer[a] /\ B = Branches(actor, action)
  OBVIOUS
<1>2. PICK S : S = Posture(actor, action, B)
  OBVIOUS
<1>3. Composed(actor, offer, a, W) /\ Composed(actor, offer, a, V)
  BY FeaturesOf
<1>4. \A m \in PlaceMetrics : G[m] = F[m]
  BY <1>1, <1>3, Zenon DEF Composed
<1>5. \A m \in StandMetrics \cup FlagMetrics : G[m] = F[m]
  <2>1. \A m \in StandMetrics : G[m] = F[m]
    BY <1>1, <1>3, Zenon DEF Composed
  <2>2. \A m \in FlagMetrics : G[m] = F[m]
    BY <1>1, <1>3, Zenon DEF Composed
  <2> QED BY <2>1, <2>2
<1>6. G["zoc"] = F["zoc"]
  <2>1. G["zoc"] = Pressure(G["adjacent"]) /\ F["zoc"] = Pressure(F["adjacent"])
    BY <1>1, <1>3, Zenon DEF Composed
  <2>2. G["adjacent"] = F["adjacent"]
    BY <1>4 DEF PlaceMetrics
  <2> QED BY <2>1, <2>2, Zenon
<1>7. /\ G["ammo"] = F["ammo"] /\ G["charges"] = F["charges"]
      /\ G["ally_damage"] = F["ally_damage"] /\ G["stopped"] = F["stopped"]
      /\ G["death"] = F["death"] /\ G["self_damage"] = F["self_damage"]
  BY <1>1, <1>3, Zenon DEF Composed
<1>8. ASSUME NEW m \in EffectMetrics
      PROVE  G[m] = F[m]
  <2>1. /\ F[m] = IF IsAttack(action) THEN AttackMetric(action, W, EffectOf(m)) ELSE Sure(0)
        /\ G[m] = IF IsAttack(action) THEN AttackMetric(action, V, EffectOf(m)) ELSE Sure(0)
    BY <1>1, <1>3, Zenon DEF Composed
  <2>2. IsAttack(action) =>
           AttackMetric(action, V, EffectOf(m)) = AttackMetric(action, W, EffectOf(m))
    BY <1>1, Zenon DEF AttackMetric
  <2> QED BY <2>1, <2>2
<1>9. \A m \in Metrics : G[m] = F[m]
  <2>1. \A m \in Metrics :
           \/ m \in PlaceMetrics \/ m \in StandMetrics \cup FlagMetrics \/ m \in EffectMetrics
           \/ m \in {"ammo", "charges", "ally_damage", "stopped", "death", "self_damage", "zoc"}
    BY DEF Metrics, PlaceMetrics, StandMetrics, FlagMetrics, EffectMetrics
  <2> HIDE DEF Metrics
  <2> QED BY <1>4, <1>5, <1>6, <1>7, <1>8, <2>1
<1>10. IsEngine(engine)
  BY GivenIs
<1>11. Score(G, offer, a, engine) = Score(F, offer, a, engine)
  BY <1>9, <1>10, ScoreAgrees
<1> QED BY <1>1, <1>11 DEF ScoreOf

\* A score depends on the state, the fixture and the engine alone.
LEMMA ScoresStay ==
    ASSUME Given, UNCHANGED <<vars, fixture, engine>>, NEW V, NEW a
    PROVE  ScoreOf(V, a)' = ScoreOf(V, a)
<1>1. /\ position' = position /\ tile' = tile /\ origin' = origin
      /\ offer' = offer /\ actor' = actor /\ engine' = engine
  BY DEF vars, fixture
<1>2. PICK a0, o, e : a0 = actor /\ o = offer /\ e = engine
  OBVIOUS
<1>3. PICK F, G : F = Features(a0, o, a, V) /\ G = Features(a0, o, a, V)'
  OBVIOUS
<1>4. \A m \in Metrics : G[m] = F[m]
  BY <1>1, <1>3, FeaturesStay
<1>5. IsEngine(e)
  BY <1>2, GivenIs
<1>6. Score(G, o, a, e) = Score(F, o, a, e)
  BY <1>4, <1>5, ScoreAgrees
<1>7. ScoreOf(V, a) = Score(F, o, a, e)
  BY <1>2, <1>3 DEF ScoreOf
<1>8. ScoreOf(V, a)' = Score(G, o, a, e)
  BY <1>1, <1>2, <1>3 DEF ScoreOf
<1> QED BY <1>6, <1>7, <1>8

\* Refined values make a score firmer.
LEMMA ValuesFirm ==
    ASSUME TypeOK, Given, NEW a \in DOMAIN offer, Evaluable(a), NEW w, Refines(w, hp, a)
    PROVE  Firmer(ScoreOf(w, a), ScoreOf(hp, a))
<1>1. PICK a0, o, e, v : a0 = actor /\ o = offer /\ e = engine /\ v = hp
  OBVIOUS
<1>2. Evaluated(a0, o, a, v)
  BY <1>1, CanScore
<1>3. PICK F, G : F = Features(a0, o, a, v) /\ G = Features(a0, o, a, w)
  OBVIOUS
<1>4. \A m \in Metrics : Nests(F[m])
  BY <1>2, <1>3, FeaturesNest
<1>5. /\ \A m \in Metrics : Narrower(G[m], F[m])
      /\ G["death"] = F["death"]
  BY <1>1, <1>2, <1>3, ValuesNarrow DEF Refines
<1>6. IsFiniteSet(DOMAIN o) /\ o[a].ammo \in Nat /\ IsEngine(e)
  BY <1>1, GivenIs DEF IsAction
<1>7. PICK s, t : s = Score(F, o, a, e) /\ t = Score(G, o, a, e)
  OBVIOUS
<1>8. Firmer(t, s)
  BY <1>4, <1>5, <1>6, <1>7, ScoreNarrows DEF Firmer
<1> QED BY <1>1, <1>3, <1>7, <1>8 DEF ScoreOf

\* So does what is learned of the places.
LEMMA PlacesFirm ==
    ASSUME TypeOK, TypeOK', Learns, Given, NEW a \in DOMAIN offer, Evaluable(a),
           UNCHANGED <<hp, fixture, engine>>
    PROVE  Firmer(ScoreOf(hp, a)', ScoreOf(hp, a))
<1>1. PICK a0, o, e, v : a0 = actor /\ o = offer /\ e = engine /\ v = hp
  OBVIOUS
<1>2. Evaluated(a0, o, a, v)
  BY <1>1, CanScore
<1>3. PICK F, G : F = Features(a0, o, a, v) /\ G = Features(a0, o, a, v)'
  OBVIOUS
<1>4. \A m \in Metrics : Nests(F[m])
  BY <1>2, <1>3, FeaturesNest
<1>5. /\ \A m \in Metrics : Narrower(G[m], F[m])
      /\ G["death"] = F["death"]
  BY <1>2, <1>3, PlacesNarrow
<1>6. IsFiniteSet(DOMAIN o) /\ o[a].ammo \in Nat /\ IsEngine(e)
  BY <1>1, GivenIs DEF IsAction
<1>7. PICK s, t : s = Score(F, o, a, e) /\ t = Score(G, o, a, e)
  OBVIOUS
<1>8. Firmer(t, s)
  BY <1>4, <1>5, <1>6, <1>7, ScoreNarrows DEF Firmer
<1>9. a0 = actor' /\ o = offer' /\ e = engine' /\ v = hp'
  BY <1>1 DEF fixture
<1>10. ScoreOf(hp, a) = s
  BY <1>1, <1>3, <1>7 DEF ScoreOf
<1>11. ScoreOf(hp, a)' = t
  BY <1>3, <1>7, <1>9 DEF ScoreOf
<1> QED BY <1>8, <1>10, <1>11

-----------------------------------------------------------------------------
(* Hidden states *)

\* A hidden state picks one value for each target whose hit points are a set.
LEMMA HiddenAre ==
    ASSUME Given
    PROVE  /\ Hidden(offer) \subseteq Others /\ Hidden(offer) \cap Weighted = {}
           /\ \A t \in Hidden(offer) : hp[t] # {} /\ hp[t] \in SUBSET Nat
           /\ \A h \in HiddenStates(offer) :
                 DOMAIN h = Hidden(offer) /\ \A t \in Hidden(offer) : h[t] \in hp[t]
           /\ \A a \in DOMAIN offer :
                 IsAttack(offer[a]) /\ offer[a].target \notin Weighted
                 /\ Cardinality(hp[offer[a].target]) > 1 => offer[a].target \in Hidden(offer)
<1>1. \A a \in DOMAIN offer : IsAttack(offer[a]) => offer[a].target \in Others
  BY GivenIs DEF IsAction
<1>2. ASSUME NEW t \in Hidden(offer)
      PROVE  t \in Others /\ t \notin Weighted /\ hp[t] # {} /\ hp[t] \in SUBSET Nat
  <2>1. PICK a \in DOMAIN offer : /\ IsAttack(offer[a]) /\ t = offer[a].target
                                  /\ t \notin Weighted /\ Cardinality(hp[t]) > 1
    BY DEF Hidden
  <2>2. t \in Others
    BY <1>1, <2>1
  <2>3. hp[t] # {}
    <3>1. Cardinality({}) = 0
      BY FS_EmptySet
    <3> QED BY <2>1, <3>1
  <2> QED BY <2>1, <2>2, <2>3 DEF Given
<1>3. \A h \in HiddenStates(offer) :
         DOMAIN h = Hidden(offer) /\ \A t \in Hidden(offer) : h[t] \in hp[t]
  BY DEF HiddenStates
<1>4. \A a \in DOMAIN offer :
         IsAttack(offer[a]) /\ offer[a].target \notin Weighted
         /\ Cardinality(hp[offer[a].target]) > 1 => offer[a].target \in Hidden(offer)
  BY Zenon DEF Hidden
<1> QED BY <1>2, <1>3, <1>4

\* There is always one.
LEMMA HiddenExist ==
    ASSUME Given
    PROVE  HiddenStates(offer) # {}
<1> DEFINE h == [t \in Hidden(offer) |-> CHOOSE n \in hp[t] : TRUE]
<1>1. \A t \in Hidden(offer) : h[t] \in hp[t]
  BY HiddenAre
<1>2. h \in [Hidden(offer) -> UNION { hp[t] : t \in Hidden(offer) }]
  BY <1>1
<1> HIDE DEF h
<1>3. h \in HiddenStates(offer)
  BY <1>1, <1>2 DEF HiddenStates
<1> QED BY <1>3

\* What is known of a target in a hidden state
LEMMA SupposingIs ==
    ASSUME Given, NEW h \in HiddenStates(offer), NEW t \in Others
    PROVE  /\ t \in Hidden(offer) => Supposing(h)[t] = {h[t]} /\ h[t] \in hp[t] /\ t \notin Weighted
           /\ t \notin Hidden(offer) => Supposing(h)[t] = hp[t]
BY HiddenAre DEF Supposing

\* The scores in a hidden state, once every candidate has one
LEMMA ScoresInState ==
    ASSUME Given, DOMAIN scored = DOMAIN offer,
           \A a \in DOMAIN scored : scored[a] = ScoreOf(hp, a),
           NEW h \in HiddenStates(offer)
    PROVE  ScoresIn(h) = ScoredWith(Supposing(h))
<1>1. PICK V : V = Supposing(h)
  OBVIOUS
<1>5. ASSUME NEW a \in DOMAIN offer, a \notin Touched(h)
      PROVE  scored[a] = ScoreOf(V, a)
  <2>1. ASSUME IsAttack(offer[a])
        PROVE  V[offer[a].target] = hp[offer[a].target]
    <3>1. offer[a].target \in Others
      BY <2>1, GivenIs DEF IsAction
    <3>2. offer[a].target \notin Hidden(offer)
      BY <1>5, <2>1, HiddenAre DEF Touched
    <3> QED BY <1>1, <3>1, <3>2, SupposingIs
  <2>2. ScoreOf(V, a) = ScoreOf(hp, a)
    BY <2>1, SameValues
  <2> QED BY <2>2
<1>6. ScoresIn(h) = [a \in DOMAIN offer |-> IF a \in Touched(h) THEN ScoreOf(V, a) ELSE scored[a]]
  BY <1>1, Zenon DEF ScoresIn, ScoreOf
<1> QED BY <1>1, <1>5, <1>6 DEF ScoredWith

\* A hidden state refines what is known.
LEMMA SupposingRefines ==
    ASSUME Given, NEW h \in HiddenStates(offer), NEW a \in DOMAIN offer, Evaluable(a)
    PROVE  Refines(Supposing(h), hp, a)
<1> SUFFICES ASSUME IsAttack(offer[a])
             PROVE  LET t == offer[a].target
                    IN  /\ IsKnown(Supposing(h)[t]) /\ Supposing(h)[t] \subseteq hp[t]
                        /\ (t \in Weighted => Supposing(h)[t] = hp[t])
  BY DEF Refines
<1>1. PICK t \in Others : t = offer[a].target
  BY GivenIs DEF IsAction
<1>2. IsKnown(hp[t])
  BY <1>1, CanScore DEF Evaluated
<1>3. CASE t \in Hidden(offer)
  <2>1. Supposing(h)[t] = {h[t]} /\ h[t] \in hp[t] /\ t \notin Weighted
    BY <1>3, SupposingIs
  <2>2. IsFiniteSet({h[t]})
    BY FS_Singleton
  <2> QED BY <1>1, <1>2, <2>1, <2>2 DEF IsKnown
<1>4. CASE t \notin Hidden(offer)
  <2>1. Supposing(h)[t] = hp[t]
    BY <1>4, SupposingIs
  <2> QED BY <1>1, <1>2, <2>1
<1> QED BY <1>3, <1>4

\* Once the hit points of one of them are known, every hidden state was one before.
LEMMA HiddenNarrow ==
    ASSUME Given, Given', UNCHANGED fixture,
           NEW b \in Others, NEW n \in hp[b], hp' = [hp EXCEPT ![b] = {n}], hp' # hp,
           b \notin Weighted,
           NEW k \in HiddenStates(offer)'
    PROVE  \E h \in HiddenStates(offer) :
              \A a \in DOMAIN offer : IsAttack(offer[a]) =>
                 Supposing(h)[offer[a].target] = Supposing(k)'[offer[a].target]
<1>1. /\ offer' = offer /\ hp \in [Others -> SUBSET Nat]
      /\ \A t \in Others : hp'[t] = IF t = b THEN {n} ELSE hp[t]
  BY DEF fixture, Given
<1>2. PICK o, q : o = offer /\ q = hp'
  OBVIOUS
<1>3. \A t \in Others : t \in Hidden(offer)' <=>
         \E a \in DOMAIN offer : /\ IsAttack(offer[a]) /\ offer[a].target \notin Weighted
                                 /\ Cardinality(hp'[offer[a].target]) > 1
                                 /\ t = offer[a].target
  BY <1>1, Zenon DEF Hidden
<1>4. \A t \in Others : t \in Hidden(offer) <=>
         \E a \in DOMAIN offer : /\ IsAttack(offer[a]) /\ offer[a].target \notin Weighted
                                 /\ Cardinality(hp[offer[a].target]) > 1
                                 /\ t = offer[a].target
  BY Zenon DEF Hidden
<1>5. Cardinality({n}) = 1
  BY FS_Singleton
<1>6. b \notin Hidden(offer)' /\ \A t \in Others \ {b} : t \in Hidden(offer)' <=> t \in Hidden(offer)
  <2>1. b \notin Hidden(offer)'
    BY <1>1, <1>3, <1>5
  <2>2. ASSUME NEW t \in Others \ {b}
        PROVE  t \in Hidden(offer)' <=> t \in Hidden(offer)
    <3>1. hp'[t] = hp[t]
      BY <1>1
    <3> QED BY <1>3, <1>4, <3>1
  <2> QED BY <2>1, <2>2
<1>7. DOMAIN k = Hidden(offer)' /\ \A t \in Hidden(offer)' : k[t] \in hp'[t]
  <2>1. Given => \A h \in HiddenStates(offer) :
                    DOMAIN h = Hidden(offer) /\ \A t \in Hidden(offer) : h[t] \in hp[t]
    BY HiddenAre
  <2>2. (Given => \A h \in HiddenStates(offer) :
                    DOMAIN h = Hidden(offer) /\ \A t \in Hidden(offer) : h[t] \in hp[t])'
    BY DEF HiddenStates
  <2> QED BY <2>2
<1>8. Hidden(offer) \subseteq Others
  BY HiddenAre
<1> DEFINE h == [t \in Hidden(offer) |-> IF t = b THEN n ELSE k[t]]
<1>9. \A t \in Hidden(offer) : h[t] \in hp[t]
  BY <1>1, <1>6, <1>7, <1>8
<1>10. h \in HiddenStates(offer)
  <2>1. h \in [Hidden(offer) -> UNION { hp[t] : t \in Hidden(offer) }]
    BY <1>9
  <2> HIDE DEF h
  <2> QED BY <1>9, <2>1 DEF HiddenStates
<1>11. \A t \in Others : Supposing(k)'[t] = IF t \in Hidden(offer)' THEN {k[t]} ELSE hp'[t]
  BY <1>7 DEF Supposing
<1>12. ASSUME NEW a \in DOMAIN offer, IsAttack(offer[a])
       PROVE  Supposing(h)[offer[a].target] = Supposing(k)'[offer[a].target]
  <2>1. PICK t \in Others : t = offer[a].target
    BY <1>12, GivenIs DEF IsAction
  <2>2. CASE t = b
    <3>1. Supposing(k)'[t] = {n}
      BY <1>1, <1>6, <1>11, <2>2
    <3>2. CASE t \in Hidden(offer)
      <4>1. Supposing(h)[t] = {h[t]}
        BY <1>10, <3>2, SupposingIs
      <4>2. h[t] = n
        BY <2>2, <3>2
      <4> QED BY <2>1, <3>1, <4>1, <4>2
    <3>3. CASE t \notin Hidden(offer)
      <4>1. ~(Cardinality(hp[t]) > 1)
        BY <1>12, <2>1, <2>2, <3>3, HiddenAre
      <4>2. IsFiniteSet(hp[t]) /\ n \in hp[t]
        BY <2>2 DEF Given
      <4>3. hp[t] = {n}
        <5>1. Cardinality(hp[t]) \in Nat
          BY <4>2, FS_CardinalityType
        <5>2. IsFiniteSet({n}) /\ {n} \subseteq hp[t]
          BY <4>2, FS_Singleton
        <5>3. Cardinality({n}) <= Cardinality(hp[t])
          BY <4>2, <5>2, FS_Subset
        <5>4. Cardinality({n}) = Cardinality(hp[t])
          BY <1>5, <4>1, <5>1, <5>3
        <5> QED BY <4>2, <5>2, <5>4, FS_Subset
      <4>4. \A u \in Others : hp'[u] = hp[u]
        BY <1>1, <2>2, <4>3
      <4>5. hp' = hp
        BY <1>1, <4>4
      <4> QED BY <4>5
    <3> QED BY <3>2, <3>3
  <2>3. CASE t # b
    <3>1. hp'[t] = hp[t] /\ (t \in Hidden(offer)' <=> t \in Hidden(offer))
      BY <1>1, <1>6, <2>3
    <3>2. CASE t \in Hidden(offer)
      <4>1. Supposing(h)[t] = {h[t]} /\ h[t] = k[t]
        BY <1>10, <2>3, <3>2, SupposingIs
      <4> QED BY <1>11, <2>1, <3>1, <3>2, <4>1
    <3>3. CASE t \notin Hidden(offer)
      <4>1. Supposing(h)[t] = hp[t]
        BY <1>10, <3>3, SupposingIs
      <4> QED BY <1>11, <2>1, <3>1, <3>3, <4>1
    <3> QED BY <3>2, <3>3
  <2> QED BY <2>2, <2>3
<1> QED BY <1>10, <1>12

-----------------------------------------------------------------------------
(* What a trace tells and foretells *)

\* What a trace tells when it is made
Tells(t) ==
    /\ t.state = StateId /\ t.engine = engine
    /\ t.status = OK => /\ t.scores = ScoredWith(hp)
                        /\ t.winners = IF Hidden(offer) = {} THEN {} ELSE Wins
    /\ t.status # OK => t.scores = <<>> /\ t.winners = {}

\* and what it still tells once more is known: no score was too high, and no choice
\* is new as long as only hidden hit points were learned.
Foretells(t) ==
    /\ \A a \in DOMAIN t.scores :
          ~(IsAttack(offer[a]) /\ offer[a].target \in Weighted)
             => ScoreOf(hp, a).value >= t.scores[a].value
    /\ /\ t.state[1] = position /\ t.state[2] = tile
       /\ \A a \in Weighted : t.state[3][a] = hp[a]
       /\ t.winners # {}
       => Wins \subseteq t.winners

\* The inductive invariant of what is known
KnowingInv ==
    /\ DecisionInv /\ TypeOK
    /\ stage = "scoring" => scored = [a \in DOMAIN scored |-> ScoreOf(hp, a)]
    /\ stage = "traced" => Tells(trace)
    /\ stage # "traced" /\ trace # None /\ trace.engine = engine => Foretells(trace)

\* It holds at first.
LEMMA KnowingStarts == DInit => KnowingInv
<1> SUFFICES ASSUME DInit PROVE KnowingInv
  OBVIOUS
<1>1. DecisionInv
  BY DecisionStarts
<1>2. TypeOK
  <2>1. PICK f \in Fixtures : position = f.known
    BY DEF DInit
  <2>2. /\ position \in [Others -> SUBSET Tiles]
        /\ \A a, b \in Others : \A t \in Tiles :
              position[a] = {t} /\ position[b] = {t} => a = b
    BY <2>1, FixtureAssumption
  <2> QED BY <2>2, MapFacts DEF DInit, TypeOK
<1> QED BY <1>1, <1>2 DEF DInit, KnowingInv

\* It tells the same as long as the state does.
LEMMA TellingStays ==
    ASSUME Given, Unmoved
    PROVE  /\ TypeOK' <=> TypeOK
           /\ Wins' = Wins
           /\ \A a : ScoreOf(hp, a)' = ScoreOf(hp, a)
           /\ \A t : (Tells(t)' <=> Tells(t)) /\ (Foretells(t)' <=> Foretells(t))
<1>1. /\ origin' = origin /\ at' = at /\ position' = position /\ tile' = tile /\ hp' = hp
      /\ offer' = offer /\ engine' = engine
  BY DEF Unmoved, vars, fixture
<1>2. UNCHANGED <<vars, fixture, engine>>
  BY DEF Unmoved
<1>3. \A V, a : ScoreOf(V, a)' = ScoreOf(V, a)
  BY <1>2, ScoresStay
<1>4. \A a : ScoreOf(hp, a)' = ScoreOf(hp, a)
  BY <1>1, <1>3
<1>5. \A V : ScoredWith(V)' = ScoredWith(V)
  BY <1>1, <1>3 DEF ScoredWith
<1>6. \A V : BestOf(V)' = BestOf(V)
  BY <1>1, <1>5 DEF BestOf
<1>7. HiddenStates(offer)' = HiddenStates(offer) /\ Hidden(offer)' = Hidden(offer)
  <2>1. Hidden(offer)' = Hidden(offer)
    BY <1>1, Zenon DEF Hidden
  <2> QED BY <1>1, <2>1, Zenon DEF HiddenStates
<1>8. \A h : Supposing(h)' = Supposing(h)
  BY <1>1 DEF Supposing
<1>9. Wins' = Wins
  <2>1. \A h : BestOf(Supposing(h))' = BestOf(Supposing(h))
    BY <1>6, <1>8
  <2> QED BY <1>7, <2>1 DEF Wins
<1>10. ScoredWith(hp)' = ScoredWith(hp)
  BY <1>1, <1>5
<1>11. \A t : Tells(t)' <=> Tells(t)
  BY <1>1, <1>7, <1>9, <1>10 DEF Tells, StateId
<1>12. \A t : Foretells(t)' <=> Foretells(t)
  BY <1>1, <1>4, <1>9 DEF Foretells
<1>13. TypeOK' <=> TypeOK
  BY <1>1 DEF TypeOK
<1> QED BY <1>4, <1>9, <1>11, <1>12, <1>13

\* A failure tells nothing.
LEMMA FailTells ==
    ASSUME KnowingInv, NEW status, status # OK, Fail(status), DecisionInv'
    PROVE  KnowingInv'
<1>1. stage' = "traced" /\ Unmoved /\ trace' = Trace(status, <<>>, <<>>, {})
  BY DEF Fail, Unmoved
<1>2. TypeOK'
  BY <1>1, TellingStays DEF KnowingInv, DecisionInv
<1>3. /\ position' = position /\ tile' = tile /\ hp' = hp /\ engine' = engine
  BY <1>1 DEF Unmoved, vars
<1>4. /\ trace'.state = StateId /\ trace'.engine = engine /\ trace'.status # OK
      /\ trace'.scores = <<>> /\ trace'.winners = {}
  BY <1>1 DEF Trace
<1>5. Tells(trace)'
  BY <1>3, <1>4 DEF Tells, StateId
<1> QED BY <1>1, <1>2, <1>5 DEF KnowingInv

\* What is unmoved but for the scores keeps it.
LEMMA ScoringTells ==
    ASSUME KnowingInv, DecisionInv', Unmoved, trace' = trace,
           stage' = "traced" <=> stage = "traced",
           stage' = "scoring" => scored' = [a \in DOMAIN scored' |-> ScoreOf(hp, a)]
    PROVE  KnowingInv'
<1>1. /\ TypeOK' /\ \A a : ScoreOf(hp, a)' = ScoreOf(hp, a)
      /\ \A t : (Tells(t)' <=> Tells(t)) /\ (Foretells(t)' <=> Foretells(t))
  BY TellingStays DEF KnowingInv, DecisionInv
<1>2. engine' = engine
  BY DEF Unmoved
<1>3. (Tells(trace)' <=> Tells(trace)) /\ (Foretells(trace)' <=> Foretells(trace))
  BY <1>1
<1> QED BY <1>1, <1>2, <1>3 DEF KnowingInv

\* A success tells every score and, where something is hidden, every choice.
LEMMA SelectTells ==
    ASSUME KnowingInv, Select, DecisionInv'
    PROVE  /\ KnowingInv'
           /\ trace'.scores = ScoredWith(hp)
           /\ trace'.winners = IF Hidden(offer) = {} THEN {} ELSE Wins
           /\ trace'.ranking = Ranking(ScoredWith(hp), engine.profile.margin)
           /\ Unmoved
<1>1. /\ stage = "scoring" /\ DOMAIN scored = DOMAIN offer /\ stage' = "traced" /\ Unmoved
  BY DEF Select, Unmoved
<1>2. /\ Given /\ scored = [a \in DOMAIN scored |-> ScoreOf(hp, a)]
      /\ \A a \in DOMAIN scored : scored[a] = ScoreOf(hp, a)
  <2>1. Given /\ scored = [a \in DOMAIN scored |-> ScoreOf(hp, a)]
    BY <1>1 DEF KnowingInv, DecisionInv
  <2> QED BY <2>1
<1>3. scored = ScoredWith(hp)
  BY <1>1, <1>2 DEF ScoredWith
<1>4. PICK S : S = { ScoresIn(h) : h \in HiddenStates(offer) }
  OBVIOUS
<1>5. PICK margin : margin = engine.profile.margin
  OBVIOUS
<1>6. PICK W : W = IF Hidden(offer) = {} THEN {} ELSE { Ranking(s, margin)[1] : s \in S }
  OBVIOUS
<1>7. trace' = Trace(OK, scored, Ranking(scored, margin), W)
  BY <1>4, <1>5, <1>6, Zenon DEF Select
<1>8. W = IF Hidden(offer) = {} THEN {} ELSE Wins
  <2>1. \A h \in HiddenStates(offer) : ScoresIn(h) = ScoredWith(Supposing(h))
    BY <1>1, <1>2, ScoresInState
  <2>2. { Ranking(s, margin)[1] : s \in S } = Wins
    BY <1>4, <1>5, <2>1 DEF Wins, BestOf
  <2> QED BY <1>6, <2>2
<1>9. /\ trace'.state = StateId /\ trace'.engine = engine /\ trace'.status = OK
      /\ trace'.scores = scored /\ trace'.winners = W /\ trace'.ranking = Ranking(scored, margin)
  BY <1>7 DEF Trace
<1>10. PICK t : t = trace'
  OBVIOUS
<1>11. Tells(t)
  BY <1>3, <1>8, <1>9, <1>10 DEF Tells
<1>12. Tells(t)' /\ TypeOK'
  BY <1>1, <1>2, <1>11, TellingStays DEF KnowingInv
<1>13. Tells(trace)'
  BY <1>10, <1>12 DEF Tells
<1>14. KnowingInv'
  BY <1>1, <1>12, <1>13 DEF KnowingInv
<1> QED BY <1>1, <1>3, <1>5, <1>8, <1>9, <1>14

\* The scores of a success were fit to be computed.
LEMMA ToldScores ==
    ASSUME KnowingInv, stage = "traced", NEW a \in DOMAIN trace.scores
    PROVE  /\ a \in DOMAIN offer /\ Evaluable(a) /\ trace.scores[a] = ScoreOf(hp, a)
<1>1. Tells(trace) /\ DecisionInv
  BY DEF KnowingInv
<1>2. trace.status = OK
  BY <1>1 DEF Tells
<1>3. Decided(trace)
  BY <1>1, <1>2 DEF DecisionInv
<1>4. trace.scores = ScoredWith(hp)
  BY <1>1, <1>2 DEF Tells
<1> QED BY <1>3, <1>4 DEF Decided, ScoredWith

\* What is learned of a place leaves every score as high, in another state.
LEMMA PlaceForetells ==
    ASSUME KnowingInv, stage = "traced", [Next]_vars, vars' # vars,
           UNCHANGED <<hp, fixture, engine, trace>>
    PROVE  TypeOK' /\ Foretells(trace)'
<1>1. TypeOK /\ TypeOK' /\ Learns /\ Given /\ Tells(trace)
  BY TypeKeeps, StepLearns DEF KnowingInv, DecisionInv
<1>2. PICK t : t = trace
  OBVIOUS
<1>3. ASSUME NEW a \in DOMAIN t.scores
      PROVE  ScoreOf(hp, a)'.value >= t.scores[a].value
  <2>1. a \in DOMAIN offer /\ Evaluable(a) /\ t.scores[a] = ScoreOf(hp, a)
    BY <1>2, <1>3, ToldScores
  <2>2. Firmer(ScoreOf(hp, a)', ScoreOf(hp, a))
    BY <1>1, <2>1, PlacesFirm
  <2> QED BY <2>1, <2>2 DEF Firmer
<1>4. position' # position \/ tile' # tile
  BY <1>1 DEF Learns, vars
<1>5. t.state[1] = position /\ t.state[2] = tile
  BY <1>1, <1>2 DEF Tells, StateId
<1>6. Foretells(t)'
  BY <1>3, <1>4, <1>5 DEF Foretells
<1>7. Foretells(trace)'
  <2>1. t = trace'
    BY <1>2
  <2> QED BY <1>6, <2>1 DEF Foretells
<1> QED BY <1>1, <1>7

\* What is learned of hit points leaves every score as high, a distribution apart,
\* and every choice an old one.
LEMMA ValueForetells ==
    ASSUME KnowingInv, stage = "traced", DecisionInv',
           NEW b \in Others, NEW n \in hp[b], hp' = [hp EXCEPT ![b] = {n}], hp' # hp,
           UNCHANGED <<vars, fixture, engine, trace>>
    PROVE  TypeOK' /\ Foretells(trace)'
<1>1. TypeOK /\ Given /\ Given' /\ Tells(trace)
  BY DEF KnowingInv, DecisionInv
<1>2. TypeOK'
  BY <1>1 DEF TypeOK, vars
<1>3. PICK t, w : t = trace /\ w = hp'
  OBVIOUS
<1>4. UNCHANGED <<vars, fixture, engine>> /\ UNCHANGED fixture /\ offer' = offer /\ engine' = engine
  BY DEF fixture
<1>5. \A V, a : ScoreOf(V, a)' = ScoreOf(V, a)
  BY <1>1, <1>4, ScoresStay
<1>6. \A a : ScoreOf(hp, a)' = ScoreOf(w, a)
  BY <1>3, <1>5
<1>7. hp \in [Others -> SUBSET Nat] /\ \A c \in Others : w[c] = IF c = b THEN {n} ELSE hp[c]
  BY <1>1, <1>3 DEF Given
<1>8. ASSUME NEW a \in DOMAIN t.scores,
             ~(IsAttack(offer[a]) /\ offer[a].target \in Weighted)
      PROVE  ScoreOf(w, a).value >= t.scores[a].value
  <2>1. a \in DOMAIN offer /\ Evaluable(a) /\ t.scores[a] = ScoreOf(hp, a)
    BY <1>3, <1>8, ToldScores
  <2>2. Refines(w, hp, a)
    <3>1. ASSUME IsAttack(offer[a])
          PROVE  IsKnown(w[offer[a].target]) /\ w[offer[a].target] \subseteq hp[offer[a].target]
      <4>1. PICK c \in Others : c = offer[a].target
        BY <1>1, <2>1, <3>1, GivenIs DEF IsAction
      <4>2. IsKnown(hp[c])
        BY <1>1, <2>1, <3>1, <4>1, CanScore DEF Evaluated
      <4>3. IsFiniteSet({n})
        BY FS_Singleton
      <4> QED BY <1>7, <4>1, <4>2, <4>3 DEF IsKnown
    <3> QED BY <1>8, <3>1 DEF Refines
  <2>3. Firmer(ScoreOf(w, a), ScoreOf(hp, a))
    BY <1>1, <2>1, <2>2, ValuesFirm
  <2> QED BY <2>1, <2>3 DEF Firmer
<1>9. ASSUME \A a \in Weighted : t.state[3][a] = w[a], t.winners # {}
      PROVE  Wins' \subseteq t.winners
  <2>1. t.winners = Wins
    BY <1>1, <1>3, <1>9 DEF Tells
  <2>2. b \notin Weighted
    <3>1. t.state[3] = hp
      BY <1>1, <1>3 DEF Tells, StateId
    <3>2. b \in Weighted => w[b] = hp[b]
      BY <1>9, <3>1
    <3>3. w[b] = hp[b] => hp' = hp
      BY <1>7
    <3> QED BY <3>2, <3>3
  <2>3. ASSUME NEW k \in HiddenStates(offer)'
        PROVE  BestOf(Supposing(k))' \in Wins
    <3>1. PICK V : V = Supposing(k)'
      OBVIOUS
    <3>2. PICK h \in HiddenStates(offer) : \A a \in DOMAIN offer :
             IsAttack(offer[a]) => Supposing(h)[offer[a].target] = V[offer[a].target]
      BY <1>1, <1>4, <2>2, <3>1, HiddenNarrow
    <3>3. \A a \in DOMAIN offer : ScoreOf(V, a) = ScoreOf(Supposing(h), a)
      BY <1>1, <3>2, SameValues
    <3>4. ScoredWith(V) = ScoredWith(Supposing(h))
      BY <3>3 DEF ScoredWith
    <3>5. ScoredWith(V)' = ScoredWith(V)
      BY <1>4, <1>5 DEF ScoredWith
    <3>6. BestOf(V)' = BestOf(Supposing(h))
      BY <1>4, <3>4, <3>5 DEF BestOf
    <3>7. BestOf(Supposing(k))' = BestOf(V)'
      BY <3>1 DEF BestOf, ScoredWith, ScoreOf
    <3> QED BY <3>2, <3>6, <3>7 DEF Wins
  <2> QED BY <2>1, <2>3 DEF Wins
<1>10. Foretells(trace)'
  <2>1. t = trace' /\ w = hp' /\ offer' = offer
    BY <1>3, <1>4
  <2>2. ASSUME NEW a \in DOMAIN trace'.scores,
               ~(IsAttack(offer'[a]) /\ offer'[a].target \in Weighted)
        PROVE  ScoreOf(hp, a)'.value >= trace'.scores[a].value
    BY <1>6, <1>8, <2>1, <2>2
  <2>3. (\A a \in Weighted : trace'.state[3][a] = hp'[a]) /\ trace'.winners # {}
           => Wins' \subseteq trace'.winners
    BY <1>9, <2>1
  <2> QED BY <2>2, <2>3 DEF Foretells
<1> QED BY <1>2, <1>10

-----------------------------------------------------------------------------
(* Learning *)

\* Whatever is learned, the last trace foretells.
LEMMA LearnForetells ==
    ASSUME KnowingInv, Learn, DecisionInv'
    PROVE  KnowingInv'
<1>1. /\ stage = "traced" /\ stage' = "idle" /\ UNCHANGED <<fixture, engine, trace>>
      /\ TypeOK
  BY DEF Learn, KnowingInv
<1>2. ASSUME NEW a \in Others, NEW places \in Lessons, LearnPosition(a, places), UNCHANGED hp
      PROVE  TypeOK' /\ Foretells(trace)'
  <2>1. [Next]_vars
    BY <1>2 DEF Next
  <2>2. position' # position
    <3>1. position'[a] = places /\ places # position[a]
      BY <1>1, <1>2 DEF LearnPosition, TypeOK
    <3> QED BY <3>1
  <2>3. vars' # vars
    BY <2>2 DEF vars
  <2> QED BY <1>1, <1>2, <2>1, <2>3, PlaceForetells
<1>3. ASSUME NEW t \in Tiles, NEW value \in BOOLEAN, NEW field \in {"sight", "pass", "block"},
             LearnTile(t, field, value), UNCHANGED hp
      PROVE  TypeOK' /\ Foretells(trace)'
  <2>1. [Next]_vars
    BY <1>3 DEF Next
  <2>2. tile' # tile
    <3>1. tile'[t][field] = {value} /\ tile[t][field] = BOOLEAN
      BY <1>1, <1>3 DEF LearnTile, TypeOK
    <3>2. {value} # BOOLEAN
      OBVIOUS
    <3> QED BY <3>1, <3>2
  <2>3. vars' # vars
    BY <2>2 DEF vars
  <2> QED BY <1>1, <1>3, <2>1, <2>3, PlaceForetells
<1>4. ASSUME NEW a \in Others, NEW n \in hp[a], hp' = [hp EXCEPT ![a] = {n}], hp' # hp,
             UNCHANGED vars
      PROVE  TypeOK' /\ Foretells(trace)'
  BY <1>1, <1>4, ValueForetells
<1>5. TypeOK' /\ Foretells(trace)'
  BY <1>2, <1>3, <1>4 DEF Learn
<1> QED BY <1>1, <1>5 DEF KnowingInv

\* Every step keeps what is known.
LEMMA KnowingStep == KnowingInv /\ [DNext]_dvars => KnowingInv'
<1> SUFFICES ASSUME KnowingInv, [DNext]_dvars PROVE KnowingInv'
  OBVIOUS
<1>1. DecisionInv'
  BY DecisionStep DEF KnowingInv
<1>2. ASSUME UNCHANGED dvars
      PROVE  KnowingInv'
  <2>1. Unmoved /\ trace' = trace /\ stage' = stage /\ scored' = scored
    BY <1>2 DEF dvars, Unmoved
  <2>2. stage' = "scoring" => scored' = [a \in DOMAIN scored' |-> ScoreOf(hp, a)]
    BY <2>1 DEF KnowingInv
  <2> QED BY <1>1, <2>1, <2>2, ScoringTells
<1>3. ASSUME Begin
      PROVE  KnowingInv'
  <2>1. Unsupported # OK /\ Invalid # OK
    BY DEF OK, Unsupported, Invalid
  <2>2. CASE \E status : status # OK /\ Fail(status)
    BY <1>1, <2>2, FailTells
  <2>3. CASE /\ stage' = "scoring" /\ scored' = <<>>
             /\ UNCHANGED <<vars, hp, fixture, engine, trace, accepted>>
    <3>1. Unmoved /\ trace' = trace /\ stage = "idle"
      BY <1>3, <2>3 DEF Unmoved, Begin
    <3>2. scored' = [a \in DOMAIN scored' |-> ScoreOf(hp, a)]
      BY <2>3
    <3> QED BY <1>1, <2>3, <3>1, <3>2, ScoringTells
  <2> QED BY <1>3, <2>1, <2>2, <2>3 DEF Begin
<1>4. ASSUME ScoreNext
      PROVE  KnowingInv'
  <2>1. PICK b : b = Min(DOMAIN offer \ DOMAIN scored)
    OBVIOUS
  <2>2. PICK status : status = Status(actor, offer[b], hp, engine.supported)
    OBVIOUS
  <2>3. PICK v : v = ScoreOf(hp, b)
    OBVIOUS
  <2>4. IF status # OK THEN Fail(status)
        ELSE /\ scored' = [c \in DOMAIN scored \cup {b} |-> IF c = b THEN v ELSE scored[c]]
             /\ UNCHANGED <<vars, hp, fixture, engine, stage, trace, accepted>>
    BY <1>4, <2>1, <2>2, <2>3, Zenon DEF ScoreNext, ScoreOf
  <2>5. CASE status # OK
    BY <1>1, <2>4, <2>5, FailTells
  <2>6. CASE status = OK
    <3>1. /\ Unmoved /\ trace' = trace /\ stage' = stage /\ stage = "scoring"
          /\ scored' = [c \in DOMAIN scored \cup {b} |-> IF c = b THEN v ELSE scored[c]]
      BY <1>4, <2>4, <2>6 DEF Unmoved, ScoreNext
    <3>2. \A c \in DOMAIN scored : scored[c] = ScoreOf(hp, c)
      <4>1. scored = [a \in DOMAIN scored |-> ScoreOf(hp, a)]
        BY <3>1 DEF KnowingInv
      <4> QED BY <4>1
    <3>3. DOMAIN scored' = DOMAIN scored \cup {b}
      BY <3>1
    <3>4. scored' = [c \in DOMAIN scored' |-> ScoreOf(hp, c)]
      BY <2>3, <3>1, <3>2, <3>3
    <3> QED BY <1>1, <3>1, <3>4, ScoringTells
  <2> QED BY <2>5, <2>6
<1>5. ASSUME Select
      PROVE  KnowingInv'
  BY <1>1, <1>5, SelectTells
<1>6. ASSUME Accept
      PROVE  KnowingInv'
  <2>1. Unmoved /\ trace' = trace /\ stage' = stage /\ stage = "traced"
    BY <1>6 DEF Accept, Unmoved
  <2> QED BY <1>1, <2>1, ScoringTells
<1>7. ASSUME Upgrade
      PROVE  KnowingInv'
  <2>1. /\ stage = "traced" /\ stage' = "idle" /\ trace' = trace /\ engine' # engine
        /\ UNCHANGED vars
    BY <1>7 DEF Upgrade
  <2>2. trace.engine = engine /\ TypeOK
    BY <2>1 DEF KnowingInv, Tells
  <2>3. TypeOK'
    BY <2>1, <2>2 DEF TypeOK, vars
  <2> QED BY <1>1, <2>1, <2>2, <2>3 DEF KnowingInv
<1> QED BY <1>1, <1>2, <1>3, <1>4, <1>5, <1>6, <1>7, LearnForetells DEF DNext

\* So it always holds.
LEMMA KnowingHolds == DSpec => []KnowingInv
BY KnowingStarts, KnowingStep, PTL DEF DSpec

\* A candidate that is dominated is better in no hidden state, whatever engine
\* compares them (evaluator.py _dominates, _apply_epistemic_sensitivity).
THEOREM DominanceIsRobust == DSpec => []DominanceHoldsWhenKnown
<1>1. ASSUME KnowingInv
      PROVE  DominanceHoldsWhenKnown
  <2> SUFFICES ASSUME AllScored, NEW h \in HiddenStates(offer),
                      NEW a \in DOMAIN offer, NEW b \in DOMAIN offer,
                      Dominates(scored[a], scored[b])
               PROVE  ScoresIn(h)[a].tactical["robust"][1] - ScoresIn(h)[a].tail
                         >= ScoresIn(h)[b].tactical["robust"][2] - ScoresIn(h)[b].tail
    BY DEF DominanceHoldsWhenKnown
  <2>1. /\ TypeOK /\ Given /\ DOMAIN scored = DOMAIN offer /\ Scored(scored)
        /\ \A c \in DOMAIN scored : scored[c] = ScoreOf(hp, c)
    <3>1. /\ stage = "scoring" /\ DOMAIN scored = DOMAIN offer /\ DecisionInv /\ TypeOK
          /\ scored = [c \in DOMAIN scored |-> ScoreOf(hp, c)]
      BY <1>1 DEF AllScored, KnowingInv
    <3>2. \A c \in DOMAIN scored : scored[c] = ScoreOf(hp, c)
      BY <3>1
    <3> QED BY <3>1, <3>2 DEF DecisionInv
  <2>2. ScoresIn(h) = ScoredWith(Supposing(h))
    BY <2>1, ScoresInState
  <2>3. \A c \in DOMAIN offer : Firmer(ScoresIn(h)[c], scored[c])
    <3>1. ASSUME NEW c \in DOMAIN offer
          PROVE  Firmer(ScoreOf(Supposing(h), c), ScoreOf(hp, c))
      <4>1. Evaluable(c)
        BY <2>1 DEF Scored
      <4>2. Refines(Supposing(h), hp, c)
        BY <2>1, <4>1, SupposingRefines
      <4> QED BY <2>1, <4>1, <4>2, ValuesFirm
    <3> QED BY <2>1, <2>2, <3>1 DEF ScoredWith
  <2>4. PICK s, t, x, y : /\ s = scored[a] /\ t = scored[b]
                          /\ x = ScoresIn(h)[a] /\ y = ScoresIn(h)[b]
    OBVIOUS
  <2>5. Firmer(x, s) /\ Firmer(y, t) /\ Dominates(s, t)
    BY <2>3, <2>4
  <2>6. x.tactical["robust"][1] - x.tail >= y.tactical["robust"][2] - y.tail
    BY <2>5 DEF Firmer, Inside, Dominates
  <2> QED BY <2>4, <2>6
<1> QED BY <1>1, KnowingHolds, PTL

\* What a step that ends a decision leaves of it.
LEMMA DecisionEnds ==
    ASSUME KnowingInv, [DNext]_dvars, stage # "traced", stage' = "traced"
    PROVE  \/ Select
           \/ trace'.status # OK /\ trace'.scores = <<>> /\ trace'.winners = {}
<1>1. ASSUME NEW status, status # OK, Fail(status)
      PROVE  trace'.status # OK /\ trace'.scores = <<>> /\ trace'.winners = {}
  BY <1>1 DEF Fail, Trace
<1>2. Unsupported # OK /\ Invalid # OK
  BY DEF OK, Unsupported, Invalid
<1>3. ASSUME Begin
      PROVE  \E status : status # OK /\ Fail(status)
  BY <1>2, <1>3 DEF Begin
<1>4. ASSUME ScoreNext
      PROVE  \E status : status # OK /\ Fail(status)
  <2>1. PICK b : b = Min(DOMAIN offer \ DOMAIN scored)
    OBVIOUS
  <2>2. PICK status : status = Status(actor, offer[b], hp, engine.supported)
    OBVIOUS
  <2>3. status # OK => Fail(status)
    BY <1>4, <2>1, <2>2, Zenon DEF ScoreNext
  <2>4. status = OK => stage' = stage
    BY <1>4, <2>1, <2>2, Zenon DEF ScoreNext
  <2> QED BY <2>3, <2>4
<1>5. ~UNCHANGED dvars /\ ~Accept /\ ~Upgrade /\ ~Learn
  BY DEF dvars, Accept, Upgrade, Learn
<1> QED BY <1>1, <1>3, <1>4, <1>5 DEF DNext

\* Knowing more never lowers what a candidate is sure to be worth, wherever
\* something was learned (features.py, evaluator.py score_candidate_features).
THEOREM LearningIsWelcome == DSpec => LearningNeverHurts
<1>1. ASSUME KnowingInv, [DNext]_dvars, stage # "traced", stage' = "traced", trace # None,
             NEW a \in DOMAIN trace.scores \cap DOMAIN trace'.scores,
             trace.engine = engine, ~(IsAttack(offer[a]) /\ offer[a].target \in Weighted)
      PROVE  trace'.scores[a].value >= trace.scores[a].value
  <2>1. Foretells(trace)
    BY <1>1 DEF KnowingInv
  <2>2. Select
    BY <1>1, DecisionEnds
  <2>3. trace'.scores = ScoredWith(hp)
    BY <1>1, <2>2, SelectTells, DecisionStep DEF KnowingInv
  <2>4. trace'.scores[a] = ScoreOf(hp, a)
    BY <2>3 DEF ScoredWith
  <2> QED BY <1>1, <2>1, <2>4 DEF Foretells
<1>2. KnowingInv /\ [DNext]_dvars =>
         [ stage # "traced" /\ stage' = "traced" /\ trace # None =>
             \A a \in DOMAIN trace.scores \cap DOMAIN trace'.scores :
                trace.engine = engine /\ ~(IsAttack(offer[a]) /\ offer[a].target \in Weighted)
                  => trace'.scores[a].value >= trace.scores[a].value ]_dvars
  BY <1>1
<1> QED BY <1>2, KnowingHolds, PTL DEF DSpec, LearningNeverHurts

\* Finding out hidden hit points leads to no recommendation that was not one for
\* some hidden state before (evaluator.py _apply_epistemic_sensitivity).
THEOREM LearningFindsAWinner == DSpec => LearningChoosesAWinner
<1>1. ASSUME KnowingInv, [DNext]_dvars, stage = "scoring", stage' = "traced", trace # None,
             trace.engine = engine,
             trace.state[1] = position, trace.state[2] = tile,
             \A a \in Weighted : trace.state[3][a] = hp[a],
             trace.winners # {}, trace'.status = OK
      PROVE  (IF trace'.winners = {} THEN Chosen(trace') ELSE trace'.winners) \subseteq trace.winners
  <2>1. Foretells(trace) /\ Given
    BY <1>1 DEF KnowingInv, DecisionInv
  <2>2. Wins \subseteq trace.winners
    BY <1>1, <2>1 DEF Foretells
  <2>3. Select
    BY <1>1, DecisionEnds
  <2>4. /\ trace'.winners = IF Hidden(offer) = {} THEN {} ELSE Wins
        /\ trace'.ranking = Ranking(ScoredWith(hp), engine.profile.margin)
    BY <1>1, <2>3, SelectTells, DecisionStep DEF KnowingInv
  <2>5. Wins # {}
    BY <2>1, HiddenExist DEF Wins
  <2>6. CASE Hidden(offer) # {}
    BY <2>2, <2>4, <2>5, <2>6
  <2>7. CASE Hidden(offer) = {}
    <3>1. PICK h \in HiddenStates(offer) : TRUE
      BY <2>1, HiddenExist
    <3>2. Supposing(h) = hp
      <4>1. \A t \in Others : Supposing(h)[t] = hp[t]
        BY <2>1, <2>7, SupposingIs
      <4>2. Supposing(h) = [t \in Others |-> Supposing(h)[t]]
        BY DEF Supposing
      <4>3. hp = [t \in Others |-> hp[t]]
        BY <2>1 DEF Given
      <4> QED BY <4>1, <4>2, <4>3
    <3>3. BestOf(hp) \in Wins
      BY <3>1, <3>2 DEF Wins
    <3>4. Chosen(trace') \subseteq {BestOf(hp)}
      BY <2>4 DEF Chosen, BestOf
    <3> QED BY <2>2, <2>4, <2>7, <3>3, <3>4
  <2> QED BY <2>6, <2>7
<1>2. KnowingInv /\ [DNext]_dvars =>
         [ (/\ stage = "scoring" /\ stage' = "traced" /\ trace # None
            /\ trace.engine = engine
            /\ trace.state[1] = position /\ trace.state[2] = tile
            /\ \A a \in Weighted : trace.state[3][a] = hp[a]
            /\ trace.winners # {} /\ trace'.status = OK)
           => (IF trace'.winners = {} THEN Chosen(trace') ELSE trace'.winners)
                 \subseteq trace.winners ]_dvars
  BY <1>1
<1> QED BY <1>2, KnowingHolds, PTL DEF DSpec, LearningChoosesAWinner
=============================================================================
