---------------------------- MODULE MovementGraph ----------------------------
(***************************************************************************)
(* build_movement_graph of movement_graph.py: the player-known movement    *)
(* edges of one actor, and the label-correcting search that keeps, for     *)
(* every tile, the non-dominated pairs of action points left and fatigue.  *)
(* One step of the search pops a queue entry or relaxes one edge.  When    *)
(* the search has ended an actor walks the edges, and is stopped by what   *)
(* the graph could not know: a hidden occupant.                            *)
(*                                                                         *)
(* Costs that the code keeps as floats are integers in quarters (Scale).   *)
(***************************************************************************)
EXTENDS Integers, Sequences

CONSTANTS Tiles,
          Origin,
          Neighbors,   \* [Tiles -> sequence over directions of Tiles or None]
          Worlds,      \* records of the inputs: terrain and level of the tiles,
                       \* known occupants, hostile zones of control, what is
                       \* hidden, and the ActorMovement of the moving actor
          None

VARIABLES world,       \* the inputs of build_movement_graph, and the hidden truth
          labels,      \* [Tiles -> set of <<AP left, fatigue>>]
          queue,       \* FIFO of [tile, res] still to be expanded
          here,        \* the entry under expansion, or None
          dir,         \* the direction its next edge leaves in
          walker       \* [tile, res] of an actor walking the finished graph

vars == <<world, labels, queue, here, dir, walker>>

Scale == 4
Impassable == -1
Directions == 1..6

Occupants == {"HOSTILE", "BLOCKED", "ALLY"}
\* Pairs of action points left and fatigue.
Resources(w) == (0..w.ap) \X (0..w.fatigueMax)
Entries(w) == [tile: Tiles, res: Resources(w)]

ASSUME WorldsAssumption ==
    /\ Origin \in Tiles /\ None \notin Tiles
    /\ \A w \in Worlds : None \notin Entries(w)
    /\ Neighbors \in [Tiles -> [Directions -> Tiles \cup {None}]]
    /\ \A w \in Worlds :
          /\ w.known \in [Tiles -> Occupants \cup {None}] /\ w.hidden \subseteq Tiles
          /\ w.terrain \in [Tiles -> Int] /\ w.level \in [Tiles -> Int]
          /\ w.ap \in Nat /\ w.fatigueMax \in Nat /\ w.fatigue \in 0..w.fatigueMax
          /\ w.terrains \in Nat           \* the length of the actor's cost tables
          /\ w.apCosts \in [0..(w.terrains - 1) -> Int]        \* in quarters
          /\ w.fatigueCosts \in [0..(w.terrains - 1) -> Int]
          /\ w.levelAp \in Int /\ w.levelFatigue \in Int /\ w.climbFatigue \in Int
          /\ w.maxLevels \in Int
          /\ w.mult \in Nat               \* FatigueEffectMult, in quarters
          /\ w.rooted \in BOOLEAN /\ w.stunned \in BOOLEAN

Abs(n) == IF n < 0 THEN -n ELSE n
Least(a, b) == IF a <= b THEN a ELSE b

BBRound(quarters) == (quarters + 2) \div Scale

-----------------------------------------------------------------------------
(* The edges *)

Climb(w, s, d) == w.level[d] - w.level[s]

StepAp(w, s, d) ==
    w.apCosts[w.terrain[d]] + IF Climb(w, s, d) # 0 THEN w.levelAp ELSE 0

StepFatigue(w, s, d) ==
    w.fatigueCosts[w.terrain[d]]
      + (IF Climb(w, s, d) # 0 THEN w.levelFatigue ELSE 0)
      + (IF Climb(w, s, d) > 0 THEN w.climbFatigue ELSE 0)

\* The terrain is passable and listed in the actor's tables, the climb is one
\* the actor can make, and the costs are not the tables' sentinels.
Traversible(w, s, d) ==
    /\ w.terrain[d] # Impassable
    /\ w.terrain[d] \in 0..(w.terrains - 1)
    /\ Abs(Climb(w, s, d)) <= w.maxLevels
    /\ StepAp(w, s, d) >= Scale
    /\ StepFatigue(w, s, d) >= 0

ZocPenalty(w, s) == IF s \in w.zoc THEN 4 ELSE 0

StepEdge(w, s, d) ==
    [dest |-> d, kind |-> "STEP", via |-> None, ap |-> StepAp(w, s, d),
     fatigue |-> StepFatigue(w, s, d) * w.mult, penalty |-> ZocPenalty(w, s)]

JumpEdge(w, s, via, d) ==
    [dest |-> d, kind |-> "ALLY_JUMP", via |-> via, ap |-> None,
     fatigue |-> None, penalty |-> ZocPenalty(w, s)]

CanLand(w, s, d) ==
    /\ d # None /\ w.known[d] = None
    /\ w.terrain[d] # Impassable
    /\ Abs(Climb(w, s, d)) <= w.maxLevels

\* The edge that leaves tile s in direction i, if any.
EdgeAt(w, s, i) ==
    LET d == Neighbors[s][i]
        landing == Neighbors[d][i]
    IN CASE d = None -> None
         [] d # None /\ w.known[d] \in {"HOSTILE", "BLOCKED"} -> None
         [] d # None /\ w.known[d] = "ALLY" ->
               IF CanLand(w, s, landing) THEN JumpEdge(w, s, d, landing) ELSE None
         [] OTHER -> IF Traversible(w, s, d) THEN StepEdge(w, s, d) ELSE None

Resolved(e) == e # None /\ e.kind = "STEP"

-----------------------------------------------------------------------------
(* Resources *)

Dominates(l, r) == l[1] >= r[1] /\ l[2] <= r[2]

\* Mutant of Affordable: only fatigue is asked for.
AffordableTired(w, r, e) == r[2] * Scale + e.fatigue <= w.fatigueMax * Scale

Affordable(w, r, e) ==
    /\ r[1] * Scale >= e.ap
    /\ r[2] * Scale + e.fatigue <= w.fatigueMax * Scale

Spend(w, r, e) ==
    << BBRound(r[1] * Scale - e.ap),
       Least(w.fatigueMax, BBRound(r[2] * Scale + e.fatigue)) >>

\* Mutant of WithLabel: the newcomer replaces all.
WithLabelAlone(old, r) == {r}

\* The labels of a tile when resources r arrive there.
WithLabel(old, r) ==
    IF \E l \in old : Dominates(l, r) THEN old
    ELSE { l \in old : ~Dominates(r, l) } \cup {r}

-----------------------------------------------------------------------------
(* The search *)

Start(w) == [tile |-> Origin, res |-> <<w.ap, w.fatigue>>]
Held(w) == w.rooted \/ w.stunned

Init ==
    /\ world \in Worlds
    /\ labels = [t \in Tiles |-> IF t = Origin THEN {Start(world).res} ELSE {}]
    /\ queue = IF Held(world) THEN <<>> ELSE <<Start(world)>>
    /\ here = None /\ dir = 1
    /\ walker = Start(world)

Done == queue = <<>> /\ here = None

\* Mutant of Pop: the entry stays in the queue.
PopPeeks ==
    /\ here = None /\ queue # <<>>
    /\ here' = Head(queue) /\ dir' = 1
    /\ UNCHANGED <<world, labels, queue, walker>>

Pop ==
    /\ here = None /\ queue # <<>>
    /\ here' = Head(queue) /\ queue' = Tail(queue) /\ dir' = 1
    /\ UNCHANGED <<world, labels, walker>>

\* Does the edge at dir bring its destination resources no label there has?
Useful ==
    LET e == EdgeAt(world, here.tile, dir)
    IN /\ Resolved(e) /\ Affordable(world, here.res, e)
       /\ ~\E l \in labels[e.dest] : Dominates(l, Spend(world, here.res, e))

NextEdge == IF dir = 6 THEN here' = None /\ dir' = 1
                       ELSE here' = here /\ dir' = dir + 1

\* Mutant of Relax: a tile that has labels is not expanded again.
RelaxVisited ==
    LET e == EdgeAt(world, here.tile, dir)
        r == Spend(world, here.res, e)
    IN /\ here # None
       /\ IF Useful
          THEN /\ labels' = [labels EXCEPT ![e.dest] = WithLabel(@, r)]
               /\ queue' = IF labels[e.dest] # {} THEN queue
                           ELSE Append(queue, [tile |-> e.dest, res |-> r])
          ELSE UNCHANGED <<labels, queue>>
       /\ NextEdge
       /\ UNCHANGED <<world, walker>>

\* One edge of the entry: nothing when it has no resolved cost, cannot be paid
\* or brings nothing new; otherwise its destination has a label to expand.
Relax ==
    LET e == EdgeAt(world, here.tile, dir)
        r == Spend(world, here.res, e)
    IN /\ here # None
       /\ IF Useful
          THEN /\ labels' = [labels EXCEPT ![e.dest] = WithLabel(@, r)]
               /\ queue' = Append(queue, [tile |-> e.dest, res |-> r])
          ELSE UNCHANGED <<labels, queue>>
       /\ NextEdge
       /\ UNCHANGED <<world, walker>>

\* The actor follows an edge with what it has left; a hidden occupant stops it
\* before the tile, at no cost.
Walk(i) ==
    LET e == EdgeAt(world, walker.tile, i)
    IN /\ Done /\ ~Held(world)
       /\ Resolved(e) /\ Affordable(world, walker.res, e)
       /\ e.dest \notin world.hidden
       /\ walker' = [tile |-> e.dest, res |-> Spend(world, walker.res, e)]
       /\ UNCHANGED <<world, labels, queue, here, dir>>

Next == Pop \/ Relax \/ \E i \in Directions : Walk(i)

Spec == Init /\ [][Next]_vars
\* The search is a loop without waiting; the actor need not walk.
FairSpec == Spec /\ WF_vars(Pop \/ Relax)

\* MovementGraphResult
Reachable == { t \in Tiles : labels[t] # {} }
BestResources(t) ==
    CHOOSE l \in labels[t] : \A r \in labels[t] :
        l[1] > r[1] \/ (l[1] = r[1] /\ l[2] <= r[2])

-----------------------------------------------------------------------------
(* Properties *)

\* Every pair of resources the search or the walk reaches is one the actor can
\* have: AP never below zero, fatigue never above the maximum.
TypeOK ==
    /\ world \in Worlds
    /\ labels \in [Tiles -> SUBSET Resources(world)]
    /\ queue \in Seq(Entries(world))
    /\ here \in Entries(world) \cup {None}
    /\ dir \in Directions
    /\ walker \in Entries(world)

\* What one more step leads to, from any of what is known
Onward(w, known) ==
    known \cup
    UNION { LET e == EdgeAt(w, m.tile, i) IN
            IF Resolved(e) /\ Affordable(w, m.res, e)
            THEN {[tile |-> e.dest, res |-> Spend(w, m.res, e)]}
            ELSE {} : m \in known, i \in Directions }

\* Every (tile, resources) an actor can have after at most n steps; no route has
\* more steps than the actor has AP.
Routes ==
    LET routes[n \in Nat] ==
          IF n = 0 THEN {Start(world)} ELSE Onward(world, routes[n - 1])
    IN IF Held(world) THEN {Start(world)} ELSE routes[world.ap]

Front(rs) == { r \in rs : ~\E l \in rs : l # r /\ Dominates(l, r) }

\* When the search has ended the labels of every tile are exactly the best
\* trade-offs over all affordable routes: no order of expansion, no label
\* dropped before or after it was expanded, loses or invents one.
FrontIsExact ==
    Done => \A t \in Tiles :
        labels[t] = Front({ m.res : m \in { n \in Routes : n.tile = t } })

\* No walk over resolved edges, whatever hidden units stop it, gets anywhere or
\* keeps more AP or less fatigue than the finished labels of the tile say.
WalkIsForeseen ==
    Done => \E l \in labels[walker.tile] : Dominates(l, walker.res)

\* At every step of the search the labels of a tile do not dominate each other:
\* best_resources, the first in the order of AP, is never beaten by another.
LabelsAreFronts ==
    \A t \in Tiles : \A l, r \in labels[t] : Dominates(l, r) => l = r

\* Both: what the search holds at any moment is consistent in itself, and what it
\* holds at the end is a bound on every real walk.
SearchIsSound == LabelsAreFronts /\ WalkIsForeseen

\* A label is given up only for a better one, so that what a stale queue entry
\* still expands was never more than its tile has.
LabelsOnlyImprove ==
    [][\A t \in Tiles : \A l \in labels[t] :
          \E m \in labels'[t] : Dominates(m, l)]_vars

\* The search ends, rings of tiles notwithstanding: every edge costs AP.
SearchEnds == <>Done
=============================================================================
