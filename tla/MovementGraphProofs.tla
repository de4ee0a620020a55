------------------------- MODULE MovementGraphProofs -------------------------
(***************************************************************************)
(* The movement search for every map, actor and occupancy: resources stay  *)
(* within what the actor has, labels stay fronts and only improve, and a   *)
(* finished search foresees every walk.  The last rests on Closed: what a  *)
(* label's edges lead to is still queued, under expansion, or dominated.   *)
(***************************************************************************)
EXTENDS MovementGraph, FiniteSetTheorems, TLAPS

USE DEF Directions, Scale

\* What is assumed of the inputs, for the prover.
LEMMA WorldFacts ==
    ASSUME NEW w \in Worlds
    PROVE  /\ w.terrain \in [Tiles -> Int] /\ w.level \in [Tiles -> Int]
           /\ w.ap \in Nat /\ w.fatigueMax \in Nat /\ w.fatigue \in 0..w.fatigueMax
           /\ w.terrains \in Nat
           /\ w.apCosts \in [0..(w.terrains - 1) -> Int]
           /\ w.fatigueCosts \in [0..(w.terrains - 1) -> Int]
           /\ w.levelAp \in Int /\ w.levelFatigue \in Int /\ w.climbFatigue \in Int
           /\ w.mult \in Nat
BY WorldsAssumption

LEMMA NoneIsNoEntry == \A w \in Worlds : None \notin Entries(w)
BY WorldsAssumption

LEMMA MapFacts ==
    /\ Origin \in Tiles /\ None \notin Tiles
    /\ Neighbors \in [Tiles -> [Directions -> Tiles \cup {None}]]
BY WorldsAssumption

\* An edge with a resolved cost leads to a tile and costs at least one AP.
LEMMA EdgeFacts ==
    ASSUME NEW w \in Worlds, NEW t \in Tiles, NEW i \in Directions,
           Resolved(EdgeAt(w, t, i))
    PROVE  LET e == EdgeAt(w, t, i)
           IN e.dest \in Tiles /\ e.ap \in Int /\ e.ap >= Scale /\ e.fatigue \in Nat
<1> DEFINE d == Neighbors[t][i]
<1>1. /\ d \in Tiles /\ Traversible(w, t, d)
      /\ EdgeAt(w, t, i) = StepEdge(w, t, d)
  BY MapFacts DEF EdgeAt, Resolved, JumpEdge
<1>2. /\ w.apCosts[w.terrain[d]] \in Int /\ w.fatigueCosts[w.terrain[d]] \in Int
      /\ Climb(w, t, d) \in Int
  <2>1. w.terrain[d] \in 0..(w.terrains - 1)
    BY <1>1 DEF Traversible
  <2>2. w.level[d] \in Int /\ w.level[t] \in Int
    BY <1>1, WorldFacts
  <2>3. w.apCosts[w.terrain[d]] \in Int /\ w.fatigueCosts[w.terrain[d]] \in Int
    BY <2>1, WorldFacts
  <2> QED BY <2>2, <2>3 DEF Climb
<1>3. StepAp(w, t, d) \in Int /\ StepFatigue(w, t, d) \in Int
  <2> DEFINE a == w.apCosts[w.terrain[d]]
             f == w.fatigueCosts[w.terrain[d]]
             c == Climb(w, t, d)
  <2>1. /\ a \in Int /\ f \in Int /\ c \in Int /\ w.levelAp \in Int
        /\ w.levelFatigue \in Int /\ w.climbFatigue \in Int
    BY <1>2, WorldFacts
  <2>2. /\ StepAp(w, t, d) = a + IF c # 0 THEN w.levelAp ELSE 0
        /\ StepFatigue(w, t, d) = f + (IF c # 0 THEN w.levelFatigue ELSE 0)
                                    + (IF c > 0 THEN w.climbFatigue ELSE 0)
    BY DEF StepAp, StepFatigue
  <2> HIDE DEF a, f, c
  <2> QED BY <2>1, <2>2
<1>4. StepAp(w, t, d) >= Scale /\ StepFatigue(w, t, d) >= 0
  BY <1>1 DEF Traversible
<1>5. \A x, y \in Nat : x * y \in Nat
  OBVIOUS
<1>6. StepFatigue(w, t, d) * w.mult \in Nat
  BY <1>3, <1>4, <1>5, WorldFacts
<1> QED BY <1>1, <1>3, <1>4, <1>6 DEF StepEdge

\* Paying for an affordable edge leaves resources the actor can have.
LEMMA SpendType ==
    ASSUME NEW w \in Worlds, NEW r \in Resources(w), NEW e,
           e.ap \in Int, e.ap >= Scale, e.fatigue \in Nat, Affordable(w, r, e)
    PROVE  Spend(w, r, e) \in Resources(w)
<1>1. /\ r[1] \in 0..w.ap /\ r[2] \in 0..w.fatigueMax
      /\ w.ap \in Nat /\ w.fatigueMax \in Nat
  BY WorldFacts DEF Resources
<1>2. BBRound(r[1] * Scale - e.ap) \in 0..w.ap
  BY <1>1 DEF BBRound, Affordable
<1>3. Least(w.fatigueMax, BBRound(r[2] * Scale + e.fatigue)) \in 0..w.fatigueMax
  BY <1>1 DEF BBRound, Least
<1> QED BY <1>2, <1>3 DEF Spend, Resources

\* More AP and less fatigue pay for the same edges and leave no less.
LEMMA SpendMonotone ==
    ASSUME NEW w \in Worlds, NEW r \in Resources(w), NEW l \in Resources(w), NEW e,
           e.ap \in Int, e.fatigue \in Nat,
           Dominates(l, r), Affordable(w, r, e)
    PROVE  Affordable(w, l, e) /\ Dominates(Spend(w, l, e), Spend(w, r, e))
<1>1. /\ r[1] \in Nat /\ r[2] \in Nat /\ l[1] \in Nat /\ l[2] \in Nat
      /\ w.fatigueMax \in Nat /\ l[1] >= r[1] /\ l[2] <= r[2]
  BY WorldFacts DEF Resources, Dominates
<1>2. Affordable(w, l, e)
  BY <1>1 DEF Affordable
<1>3. BBRound(l[1] * Scale - e.ap) >= BBRound(r[1] * Scale - e.ap)
  BY <1>1 DEF BBRound
<1>4. BBRound(l[2] * Scale + e.fatigue) <= BBRound(r[2] * Scale + e.fatigue)
  BY <1>1 DEF BBRound
<1>5. /\ BBRound(l[2] * Scale + e.fatigue) \in Int
      /\ BBRound(r[2] * Scale + e.fatigue) \in Int
  BY <1>1 DEF BBRound
<1> QED BY <1>1, <1>2, <1>3, <1>4, <1>5 DEF Spend, Dominates, Least

LEMMA DominatesOrder ==
    ASSUME NEW w \in Worlds
    PROVE  /\ \A r \in Resources(w) : Dominates(r, r)
           /\ \A k, l, r \in Resources(w) :
                 Dominates(k, l) /\ Dominates(l, r) => Dominates(k, r)
           /\ \A l, r \in Resources(w) :
                 Dominates(l, r) /\ Dominates(r, l) => l = r
BY WorldFacts DEF Resources, Dominates

-----------------------------------------------------------------------------
(* The types *)

LEMMA InitType == Init => TypeOK
<1> SUFFICES ASSUME Init PROVE TypeOK
  OBVIOUS
<1>1. Start(world) \in Entries(world) /\ Start(world).res \in Resources(world)
  BY WorldFacts, MapFacts DEF Init, Start, Entries, Resources
<1> QED BY <1>1 DEF Init, TypeOK, Directions

\* What relaxing a useful edge adds.
LEMMA RelaxFacts ==
    ASSUME TypeOK, here # None, Useful
    PROVE  LET e == EdgeAt(world, here.tile, dir)
               r == Spend(world, here.res, e)
           IN /\ here \in Entries(world) /\ e.dest \in Tiles
              /\ r \in Resources(world)
              /\ \A l \in labels[e.dest] : ~Dominates(l, r)
              /\ WithLabel(labels[e.dest], r) =
                    { l \in labels[e.dest] : ~Dominates(r, l) } \cup {r}
              /\ [tile |-> e.dest, res |-> r] \in Entries(world)
<1> DEFINE e == EdgeAt(world, here.tile, dir)
           r == Spend(world, here.res, e)
<1>1. /\ here \in Entries(world) /\ here.tile \in Tiles
      /\ here.res \in Resources(world) /\ world \in Worlds /\ dir \in 1..6
  BY DEF TypeOK, Entries
<1>2. Resolved(e) /\ Affordable(world, here.res, e)
  BY DEF Useful
<1>3. e.dest \in Tiles /\ e.ap \in Int /\ e.ap >= Scale /\ e.fatigue \in Nat
  BY <1>1, <1>2, EdgeFacts
<1>4. r \in Resources(world)
  BY <1>1, <1>2, <1>3, SpendType
<1>5. \A l \in labels[e.dest] : ~Dominates(l, r)
  BY DEF Useful
<1> QED BY <1>1, <1>3, <1>4, <1>5 DEF WithLabel, Entries

LEMMA NextType == TypeOK /\ [Next]_vars => TypeOK'
<1> SUFFICES ASSUME TypeOK, [Next]_vars PROVE TypeOK'
  OBVIOUS
<1>1. CASE Pop
  BY <1>1 DEF Pop, TypeOK
<1>2. CASE Relax
  <2>1. CASE Useful
    <3> DEFINE e == EdgeAt(world, here.tile, dir)
               r == Spend(world, here.res, e)
    <3>1. /\ e.dest \in Tiles /\ r \in Resources(world)
          /\ [tile |-> e.dest, res |-> r] \in Entries(world)
          /\ WithLabel(labels[e.dest], r) \subseteq labels[e.dest] \cup {r}
      BY <1>2, <2>1, RelaxFacts DEF Relax
    <3>2. /\ labels' = [labels EXCEPT ![e.dest] = WithLabel(@, r)]
          /\ queue' = Append(queue, [tile |-> e.dest, res |-> r])
      BY <1>2, <2>1 DEF Relax
    <3>3. labels' \in [Tiles -> SUBSET Resources(world)]
      BY <3>1, <3>2 DEF TypeOK
    <3>4. queue' \in Seq(Entries(world))
      BY <3>1, <3>2 DEF TypeOK
    <3> QED BY <1>2, <3>3, <3>4 DEF Relax, NextEdge, TypeOK
  <2>2. CASE ~Useful
    BY <1>2, <2>2 DEF Relax, NextEdge, TypeOK
  <2> QED BY <2>1, <2>2
<1>3. ASSUME NEW i \in Directions, Walk(i) PROVE TypeOK'
  <2> DEFINE e == EdgeAt(world, walker.tile, i)
  <2>1. /\ walker.tile \in Tiles /\ walker.res \in Resources(world) /\ world \in Worlds
    BY DEF TypeOK, Entries
  <2>2. Resolved(e) /\ Affordable(world, walker.res, e)
    BY <1>3 DEF Walk
  <2>3. e.dest \in Tiles /\ e.ap \in Int /\ e.ap >= Scale /\ e.fatigue \in Nat
    BY <2>1, <2>2, EdgeFacts
  <2>4. Spend(world, walker.res, e) \in Resources(world)
    BY <2>1, <2>2, <2>3, SpendType
  <2>5. walker' \in Entries(world)
    BY <1>3, <2>3, <2>4 DEF Walk, Entries
  <2> QED BY <1>3, <2>5 DEF Walk, TypeOK
<1>4. CASE UNCHANGED vars
  BY <1>4 DEF vars, TypeOK
<1> QED BY <1>1, <1>2, <1>3, <1>4 DEF Next

\* However the search and the walk proceed, AP and fatigue stay within bounds.
THEOREM GraphTypeCorrect == Spec => []TypeOK
BY InitType, NextType, PTL DEF Spec

-----------------------------------------------------------------------------
(* Fronts *)

LEMMA NextFronts == TypeOK /\ LabelsAreFronts /\ [Next]_vars => LabelsAreFronts'
<1> SUFFICES ASSUME TypeOK, LabelsAreFronts, [Next]_vars PROVE LabelsAreFronts'
  OBVIOUS
<1>1. CASE Relax /\ Useful
  <2> DEFINE e == EdgeAt(world, here.tile, dir)
             r == Spend(world, here.res, e)
  <2>1. /\ e.dest \in Tiles
        /\ \A l \in labels[e.dest] : ~Dominates(l, r)
        /\ WithLabel(labels[e.dest], r) =
              { l \in labels[e.dest] : ~Dominates(r, l) } \cup {r}
    BY <1>1, RelaxFacts DEF Relax
  <2>2. labels' = [labels EXCEPT ![e.dest] = WithLabel(labels[e.dest], r)]
    BY <1>1 DEF Relax
  <2>3. \A t \in Tiles \ {e.dest} : labels'[t] = labels[t]
    BY <2>1, <2>2 DEF TypeOK
  <2>4. labels'[e.dest] = { l \in labels[e.dest] : ~Dominates(r, l) } \cup {r}
    BY <2>1, <2>2 DEF TypeOK
  <2> HIDE DEF e, r
  <2>5. \A k, l \in labels'[e.dest] : Dominates(k, l) => k = l
    BY <2>1, <2>4 DEF LabelsAreFronts
  <2> QED BY <2>3, <2>5 DEF LabelsAreFronts
<1>2. ASSUME labels' = labels PROVE LabelsAreFronts'
  BY <1>2 DEF LabelsAreFronts
<1>3. (Relax /\ Useful) \/ labels' = labels
  BY DEF Next, vars, Pop, Relax, Walk
<1> QED BY <1>1, <1>2, <1>3

\* At every step of every search, no label of a tile is dominated by another.
THEOREM FrontsKept == Spec => []LabelsAreFronts
<1>1. Init => LabelsAreFronts
  BY DEF Init, LabelsAreFronts
<1> QED BY <1>1, InitType, NextType, NextFronts, PTL DEF Spec

LEMMA NextImproves ==
    TypeOK /\ [Next]_vars =>
      \A t \in Tiles : \A l \in labels[t] : \E m \in labels'[t] : Dominates(m, l)
<1> SUFFICES ASSUME TypeOK, [Next]_vars, NEW t \in Tiles, NEW l \in labels[t]
             PROVE  \E m \in labels'[t] : Dominates(m, l)
  OBVIOUS
<1>0. world \in Worlds /\ l \in Resources(world)
  BY DEF TypeOK
<1>1. Dominates(l, l)
  BY <1>0, DominatesOrder
<1>2. CASE Relax /\ Useful
  <2> DEFINE e == EdgeAt(world, here.tile, dir)
             r == Spend(world, here.res, e)
  <2>1. /\ e.dest \in Tiles
        /\ WithLabel(labels[e.dest], r) =
              { m \in labels[e.dest] : ~Dominates(r, m) } \cup {r}
    BY <1>2, RelaxFacts DEF Relax
  <2>2. labels' = [labels EXCEPT ![e.dest] = WithLabel(labels[e.dest], r)]
    BY <1>2 DEF Relax
  <2> HIDE DEF e, r
  <2>3. CASE t = e.dest
    BY <1>1, <2>1, <2>2, <2>3 DEF TypeOK
  <2>4. CASE t # e.dest
    BY <1>1, <2>1, <2>2, <2>4 DEF TypeOK
  <2> QED BY <2>3, <2>4
<1>3. CASE labels' = labels
  BY <1>1, <1>3
<1>4. (Relax /\ Useful) \/ labels' = labels
  BY DEF Next, vars, Pop, Relax, Walk
<1> QED BY <1>2, <1>3, <1>4

\* No label is ever given up but for one that dominates it.
THEOREM LabelsImprove == Spec => LabelsOnlyImprove
<1>1. TypeOK /\ [Next]_vars =>
        [\A t \in Tiles : \A l \in labels[t] : \E m \in labels'[t] : Dominates(m, l)]_vars
  BY NextImproves
<1> QED BY <1>1, InitType, NextType, PTL DEF Spec, LabelsOnlyImprove

-----------------------------------------------------------------------------
(* The finished search foresees every walk *)

Queued(t, l) == \E k \in 1..Len(queue) : queue[k] = [tile |-> t, res |-> l]

\* The edge of tile t in direction i is dealt with for label l: the label is
\* still to be expanded, or what the edge leads to is dominated.
Dealt(t, l, i) ==
    LET e == EdgeAt(world, t, i)
    IN \/ Queued(t, l)
       \/ here = [tile |-> t, res |-> l] /\ i >= dir
       \/ (Resolved(e) /\ Affordable(world, l, e)) =>
            \E m \in labels[e.dest] : Dominates(m, Spend(world, l, e))

Closed ==
    ~Held(world) =>
      \A t \in Tiles : \A l \in labels[t] : \A i \in Directions : Dealt(t, l, i)

WalkCovered == \E l \in labels[walker.tile] : Dominates(l, walker.res)

GInv == TypeOK /\ Closed /\ WalkCovered

LEMMA InitClosed == Init => Closed /\ WalkCovered
<1> SUFFICES ASSUME Init PROVE Closed /\ WalkCovered
  OBVIOUS
<1>1. world \in Worlds /\ Start(world).res \in Resources(world) /\ walker = Start(world)
      /\ Start(world).tile = Origin
  BY WorldFacts DEF Init, Start, Resources
<1>2. WalkCovered
  BY <1>1, DominatesOrder, MapFacts DEF Init, WalkCovered
<1>3. ASSUME ~Held(world), NEW t \in Tiles, NEW l \in labels[t], NEW i \in Directions
      PROVE  Queued(t, l)
  <2>1. t = Origin /\ l = Start(world).res
    BY DEF Init
  <2>2. queue = << [tile |-> t, res |-> l] >>
    BY <1>1, <1>3, <2>1 DEF Init, Start
  <2> QED BY <2>2 DEF Queued
<1> QED BY <1>2, <1>3 DEF Closed, Dealt

\* An edge dealt with stays so while labels only improve.
LEMMA StillDominated ==
    ASSUME TypeOK, [Next]_vars, NEW t \in Tiles, NEW l \in Resources(world),
           NEW i \in Directions,
           LET e == EdgeAt(world, t, i)
           IN (Resolved(e) /\ Affordable(world, l, e)) =>
                 \E m \in labels[e.dest] : Dominates(m, Spend(world, l, e))
    PROVE  LET e == EdgeAt(world, t, i)
           IN (Resolved(e) /\ Affordable(world, l, e)) =>
                 \E m \in labels'[e.dest] : Dominates(m, Spend(world, l, e))
<1> DEFINE e == EdgeAt(world, t, i)
<1> SUFFICES ASSUME Resolved(e), Affordable(world, l, e)
             PROVE  \E m \in labels'[e.dest] : Dominates(m, Spend(world, l, e))
  OBVIOUS
<1>1. world \in Worlds /\ e.dest \in Tiles /\ Spend(world, l, e) \in Resources(world)
  BY EdgeFacts, SpendType DEF TypeOK
<1>2. PICK m \in labels[e.dest] : Dominates(m, Spend(world, l, e))
  OBVIOUS
<1>3. PICK n \in labels'[e.dest] : Dominates(n, m)
  BY <1>1, <1>2, NextImproves
<1>4. m \in Resources(world) /\ n \in Resources(world)
  <2>1. TypeOK' /\ world' = world
    BY NextType DEF Next, vars, Pop, Relax, Walk
  <2> QED BY <1>1, <2>1 DEF TypeOK
<1> HIDE DEF e
<1>5. Dominates(n, Spend(world, l, e))
  BY <1>1, <1>2, <1>3, <1>4, DominatesOrder
<1> QED BY <1>5

LEMMA NextClosed == GInv /\ [Next]_vars => Closed'
<1> SUFFICES ASSUME GInv, [Next]_vars, ~Held(world)',
                    NEW t \in Tiles, NEW l \in labels'[t], NEW i \in Directions
             PROVE  Dealt(t, l, i)'
  BY DEF Closed
<1> DEFINE entry == [tile |-> t, res |-> l]
           e == EdgeAt(world, t, i)
           Covered == (Resolved(e) /\ Affordable(world, l, e)) =>
                        \E m \in labels[e.dest] : Dominates(m, Spend(world, l, e))
<1>0. TypeOK /\ world' = world /\ TypeOK' /\ ~Held(world)
  BY NextType DEF GInv, Next, vars, Pop, Relax, Walk
<1>1. CASE Pop
  <2>1. Dealt(t, l, i)
    BY <1>0, <1>1 DEF GInv, Closed, Pop
  <2>2. CASE Queued(t, l)
    <3>1. PICK k \in 1..Len(queue) : queue[k] = entry
      BY <2>2 DEF Queued
    <3>2. CASE k = 1
      BY <1>0, <1>1, <3>1, <3>2 DEF Pop, Dealt, TypeOK
    <3>3. CASE k # 1
      <4>1. k - 1 \in 1..Len(queue') /\ queue'[k - 1] = entry
        BY <1>0, <1>1, <3>1, <3>3 DEF Pop, TypeOK
      <4> QED BY <4>1 DEF Dealt, Queued
    <3> QED BY <3>2, <3>3
  <2>3. CASE here = entry
    <3>1. entry \in Entries(world) /\ world \in Worlds
      BY <1>0, <1>1 DEF Pop, TypeOK, Entries
    <3> QED BY <1>1, <2>3, <3>1, NoneIsNoEntry DEF Pop
  <2>4. CASE Covered
    BY <1>0, <1>1, <2>4 DEF Pop, Dealt
  <2> QED BY <2>1, <2>2, <2>3, <2>4 DEF Dealt
<1>2. CASE Relax
  <2> DEFINE f == EdgeAt(world, here.tile, dir)
             r == Spend(world, here.res, f)
  <2>0. here \in Entries(world) /\ here # None /\ dir \in 1..6 /\ here.tile \in Tiles
        /\ here.res \in Resources(world) /\ world \in Worlds
    BY <1>0, <1>2 DEF Relax, TypeOK, Entries
  <2>1. CASE Useful /\ t = f.dest /\ l = r
    <3>1. queue' = Append(queue, entry)
      BY <1>2, <2>1 DEF Relax
    <3>2. /\ Len(queue') = Len(queue) + 1 /\ queue'[Len(queue) + 1] = entry
          /\ Len(queue) \in Nat
      BY <1>0, <3>1 DEF TypeOK
    <3> QED BY <3>2 DEF Dealt, Queued
  <2>2. CASE ~(Useful /\ t = f.dest /\ l = r)
    <3>1. l \in labels[t]
      <4>1. CASE Useful
        <5>1. /\ f.dest \in Tiles
              /\ WithLabel(labels[f.dest], r) \subseteq labels[f.dest] \cup {r}
          BY <1>0, <2>0, <4>1, RelaxFacts
        <5>2. labels' = [labels EXCEPT ![f.dest] = WithLabel(labels[f.dest], r)]
          BY <1>2, <4>1 DEF Relax
        <5> HIDE DEF f, r
        <5> QED BY <1>0, <2>2, <4>1, <5>1, <5>2 DEF TypeOK
      <4>2. CASE ~Useful
        BY <1>2, <4>2 DEF Relax
      <4> QED BY <4>1, <4>2
    <3>2. Dealt(t, l, i) /\ l \in Resources(world)
      BY <1>0, <3>1 DEF GInv, Closed, TypeOK
    <3>3. CASE Queued(t, l)
      <4>1. PICK k \in 1..Len(queue) : queue[k] = entry
        BY <3>3 DEF Queued
      <4>2. \/ queue' = queue
            \/ queue' = Append(queue, [tile |-> f.dest, res |-> r])
        BY <1>2 DEF Relax
      <4>3. Len(queue) \in Nat /\ k \in 1..Len(queue') /\ queue'[k] = entry
        BY <1>0, <4>1, <4>2 DEF TypeOK
      <4> QED BY <4>3 DEF Dealt, Queued
    <3>4. CASE here = entry /\ i >= dir
      <4>1. CASE i = dir
        <5>1. f = e /\ r = Spend(world, l, e) /\ here.res = l
          BY <3>4, <4>1
        <5>2. CASE Useful
          <6>1. /\ e.dest \in Tiles
                /\ WithLabel(labels[f.dest], r) =
                     { m \in labels[f.dest] : ~Dominates(r, m) } \cup {r}
                /\ r \in Resources(world)
            BY <1>0, <2>0, <5>1, <5>2, RelaxFacts
          <6>2. labels' = [labels EXCEPT ![f.dest] = WithLabel(labels[f.dest], r)]
            BY <1>2, <5>2 DEF Relax
          <6>3. r \in labels'[e.dest] /\ Dominates(r, r)
            BY <1>0, <2>0, <5>1, <6>1, <6>2, DominatesOrder DEF TypeOK
          <6> QED BY <1>0, <5>1, <6>3 DEF Dealt
        <5>3. CASE ~Useful
          <6>1. Covered /\ labels' = labels
            BY <1>2, <5>1, <5>3 DEF Useful, Relax
          <6> QED BY <1>0, <6>1 DEF Dealt
        <5> QED BY <5>2, <5>3
      <4>2. CASE i > dir
        <5>1. here' = here /\ i >= dir'
          BY <1>2, <2>0, <4>2 DEF Relax, NextEdge
        <5> QED BY <3>4, <5>1 DEF Dealt
      <4> QED BY <2>0, <3>4, <4>1, <4>2
    <3>5. CASE Covered
      BY <1>0, <3>2, <3>5, StillDominated DEF Dealt
    <3> QED BY <3>2, <3>3, <3>4, <3>5 DEF Dealt
  <2> QED BY <2>1, <2>2
<1>3. CASE \/ \E j \in Directions : Walk(j)
           \/ UNCHANGED vars
  BY <1>0, <1>3 DEF Walk, vars, GInv, Closed, Dealt, Queued
<1> QED BY <1>1, <1>2, <1>3 DEF Next

LEMMA NextCovered == GInv /\ [Next]_vars => WalkCovered'
<1> SUFFICES ASSUME GInv, [Next]_vars PROVE WalkCovered'
  OBVIOUS
<1>0. TypeOK /\ world \in Worlds /\ walker.tile \in Tiles
      /\ walker.res \in Resources(world) /\ WalkCovered
  BY DEF GInv, TypeOK, Entries
<1>1. CASE walker' = walker
  <2>1. PICK l \in labels[walker.tile] : Dominates(l, walker.res)
    BY <1>0 DEF WalkCovered
  <2>2. PICK m \in labels'[walker.tile] : Dominates(m, l)
    BY <1>0, NextImproves
  <2>3. l \in Resources(world) /\ m \in Resources(world)
    <3>1. TypeOK' /\ world' = world
      BY <1>0, NextType DEF Next, vars, Pop, Relax, Walk
    <3> QED BY <1>0, <3>1 DEF TypeOK
  <2>4. Dominates(m, walker.res)
    BY <1>0, <2>1, <2>2, <2>3, DominatesOrder
  <2> QED BY <1>1, <2>2, <2>4 DEF WalkCovered
<1>2. ASSUME NEW i \in Directions, Walk(i) PROVE WalkCovered'
  <2> DEFINE e == EdgeAt(world, walker.tile, i)
  <2>1. /\ ~Held(world) /\ Done /\ Resolved(e) /\ Affordable(world, walker.res, e)
        /\ walker' = [tile |-> e.dest, res |-> Spend(world, walker.res, e)]
        /\ labels' = labels
    BY <1>2 DEF Walk
  <2>2. PICK l \in labels[walker.tile] : Dominates(l, walker.res)
    BY <1>0 DEF WalkCovered
  <2>3. l \in Resources(world)
    BY <1>0 DEF TypeOK
  <2>4. /\ e.dest \in Tiles /\ e.ap \in Int /\ e.ap >= Scale /\ e.fatigue \in Nat
    BY <1>0, <2>1, EdgeFacts
  <2>5. /\ Affordable(world, l, e)
        /\ Dominates(Spend(world, l, e), Spend(world, walker.res, e))
    BY <1>0, <2>1, <2>2, <2>3, <2>4, SpendMonotone
  <2>6. Dealt(walker.tile, l, i)
    BY <1>0, <2>1 DEF GInv, Closed
  <2>7. ~Queued(walker.tile, l) /\ here = None
    BY <2>1 DEF Done, Queued
  <2>8. here # [tile |-> walker.tile, res |-> l]
    BY <1>0, <2>3, <2>7, NoneIsNoEntry DEF Entries
  <2>9. PICK m \in labels[e.dest] : Dominates(m, Spend(world, l, e))
    BY <2>1, <2>5, <2>6, <2>7, <2>8 DEF Dealt
  <2>10. m \in Resources(world) /\ Spend(world, l, e) \in Resources(world)
         /\ Spend(world, walker.res, e) \in Resources(world)
    BY <1>0, <2>1, <2>3, <2>4, <2>5, <2>9, SpendType DEF TypeOK
  <2> HIDE DEF e
  <2>11. Dominates(m, Spend(world, walker.res, e))
    BY <1>0, <2>5, <2>9, <2>10, DominatesOrder
  <2> QED BY <2>1, <2>9, <2>11 DEF WalkCovered
<1>3. walker' = walker \/ \E i \in Directions : Walk(i)
  BY DEF Next, vars, Pop, Relax
<1> QED BY <1>1, <1>2, <1>3

\* Whatever the map, the actor and the hidden truth: a walk along resolved edges
\* never leaves the tiles the finished search found, nor beats its labels.
THEOREM WalksAreForeseen == Spec => []WalkIsForeseen
<1>1. Init => GInv
  BY InitType, InitClosed DEF GInv
<1>2. GInv /\ [Next]_vars => GInv'
  BY NextType, NextClosed, NextCovered DEF GInv
<1>3. GInv => WalkIsForeseen
  BY DEF GInv, WalkCovered, WalkIsForeseen
<1> QED BY <1>1, <1>2, <1>3, PTL DEF Spec

\* The search is consistent at every step and, once ended, foresees every walk.
THEOREM SearchSound == Spec => []SearchIsSound
<1>1. LabelsAreFronts /\ WalkIsForeseen => SearchIsSound
  BY DEF SearchIsSound
<1> QED BY <1>1, FrontsKept, WalksAreForeseen, PTL

-----------------------------------------------------------------------------
(* The finished search finds every route, and nothing else *)

\* A set of natural numbers has a least element, because 0..n shrinks with n.
LEMMA LeastNatural ==
    ASSUME NEW S \in SUBSET Nat, S # {}
    PROVE  \E x \in S : \A y \in S : x <= y
<1> DEFINE Below == { 0..n : n \in S }
<1>1. Below \subseteq FiniteSubsetsOf(Nat)
  <2>1. ASSUME NEW n \in S PROVE 0..n \in FiniteSubsetsOf(Nat)
    <3>1. IsFiniteSet(0..n) /\ 0..n \in SUBSET Nat
      BY FS_Interval
    <3> QED BY <3>1 DEF FiniteSubsetsOf
  <2> QED BY <2>1
<1>2. Below # {}
  OBVIOUS
<1>3. PICK b \in Below : \A c \in Below : ~ (<<c, b>> \in StrictSubsetOrdering(Nat))
  <2> HIDE DEF Below
  <2> QED BY <1>1, <1>2, FS_StrictSubsetOrderingWellFounded, WFMin
<1>4. PICK x \in S : b = 0..x
  OBVIOUS
<1>5. ASSUME NEW y \in S, y < x PROVE FALSE
  <2>1. 0..y \in Below /\ 0..y \subseteq 0..x /\ 0..y # 0..x
    <3>1. x \in Nat /\ y \in Nat /\ y < x
      BY <1>5
    <3>2. x \in 0..x /\ x \notin 0..y /\ \A i \in 0..y : i \in 0..x
      BY <3>1
    <3>3. 0..y # 0..x
      BY <3>2, Zenon
    <3>4. 0..y \in Below
      BY Zenon
    <3> QED BY <3>2, <3>3, <3>4, Zenon
  <2>2. 0..y \in SUBSET Nat /\ 0..x \in SUBSET Nat
    OBVIOUS
  <2>3. <<0..y, 0..x>> \in StrictSubsetOrdering(Nat)
    BY <2>1, <2>2, Zenon DEF StrictSubsetOrdering
  <2> QED BY <1>3, <1>4, <2>1, <2>3
<1> QED BY <1>5

\* Induction, of a set rather than of a predicate.
LEMMA SetInduction ==
    ASSUME NEW S \in SUBSET Nat, 0 \in S, \A n \in S : n + 1 \in S
    PROVE  S = Nat
<1> SUFFICES ASSUME Nat \ S # {} PROVE FALSE
  OBVIOUS
<1>1. PICK x \in Nat \ S : \A y \in Nat \ S : x <= y
  BY LeastNatural
<1>2. x - 1 \in S /\ x - 1 \in Nat
  BY <1>1
<1> QED BY <1>1, <1>2

\* The routes of up to n steps, for the n of N
Unrolled(w, N, f) ==
    f = [n \in N |-> IF n = 0 THEN {Start(w)} ELSE Onward(w, f[n - 1])]

Values(w, N, f) ==
    /\ 0 \in N => f[0] = {Start(w)}
    /\ \A n \in N : n # 0 => f[n] = Onward(w, f[n - 1])

LEMMA UnrolledValues ==
    ASSUME NEW w, NEW N, NEW f, Unrolled(w, N, f)
    PROVE  Values(w, N, f)
<1>1. \A n \in N : f[n] = IF n = 0 THEN {Start(w)} ELSE Onward(w, f[n - 1])
  BY Zenon DEF Unrolled
<1>2. 0 \in N => f[0] = {Start(w)}
  BY <1>1, Zenon
<1>3. \A n \in N : n # 0 => f[n] = Onward(w, f[n - 1])
  BY <1>1, Zenon
<1> QED BY <1>2, <1>3, Zenon DEF Values

LEMMA UnrolledAgree ==
    ASSUME NEW w, NEW n \in Nat, NEW f, NEW g, NEW N \in SUBSET Nat, 0..n \subseteq N,
           Unrolled(w, 0..n, f), Unrolled(w, N, g)
    PROVE  \A k \in 0..n : f[k] = g[k]
<1> DEFINE S == { k \in Nat : k <= n => f[k] = g[k] }
<1>0. Values(w, 0..n, f) /\ Values(w, N, g)
  BY UnrolledValues
<1>1. 0 \in S
  <2>1. 0 \in 0..n /\ 0 \in N
    OBVIOUS
  <2>2. f[0] = {Start(w)} /\ g[0] = {Start(w)}
    BY <1>0, <2>1 DEF Values
  <2> QED BY <2>2
<1>2. ASSUME NEW k \in S PROVE k + 1 \in S
  <2>1. CASE k + 1 <= n
    <3>1. k + 1 \in 0..n /\ k + 1 \in N /\ k + 1 # 0 /\ (k + 1) - 1 = k /\ f[k] = g[k]
      BY <2>1
    <3>2. f[k + 1] = Onward(w, f[k]) /\ g[k + 1] = Onward(w, g[k])
      <4>1. f[k + 1] = Onward(w, f[(k + 1) - 1]) /\ g[k + 1] = Onward(w, g[(k + 1) - 1])
        BY <1>0, <3>1, Zenon DEF Values
      <4> QED BY <3>1, <4>1
    <3> QED BY <3>1, <3>2
  <2>2. CASE ~(k + 1 <= n)
    BY <2>2
  <2> QED BY <2>1, <2>2
<1> HIDE DEF S
<1>3. S = Nat
  BY <1>1, <1>2, SetInduction DEF S
<1> QED BY <1>3 DEF S

LEMMA RoutesExist ==
    ASSUME NEW w
    PROVE  \E f : Unrolled(w, Nat, f)
<1> DEFINE S == { n \in Nat : \E f : Unrolled(w, 0..n, f) }
<1>1. 0 \in S
  <2> DEFINE f == [n \in 0..0 |-> {Start(w)}]
  <2>1. \A n \in 0..0 : n = 0
    OBVIOUS
  <2>2. f = [n \in 0..0 |-> IF n = 0 THEN {Start(w)} ELSE Onward(w, f[n - 1])]
    BY <2>1
  <2>3. Unrolled(w, 0..0, f)
    BY <2>2 DEF Unrolled
  <2> HIDE DEF f
  <2> QED BY <2>3
<1>2. ASSUME NEW n \in S PROVE n + 1 \in S
  <2>1. PICK g : Unrolled(w, 0..n, g)
    OBVIOUS
  <2> DEFINE f == [k \in 0..(n + 1) |-> IF k = n + 1 THEN Onward(w, g[n]) ELSE g[k]]
  <2>2. ASSUME NEW k \in 0..(n + 1)
        PROVE  f[k] = IF k = 0 THEN {Start(w)} ELSE Onward(w, f[k - 1])
    <3>1. CASE k = n + 1
      <4>1. k # 0 /\ k - 1 = n /\ n \in 0..(n + 1) /\ n # n + 1
        BY <3>1
      <4>2. f[k - 1] = g[n] /\ f[k] = Onward(w, g[n])
        BY <3>1, <4>1
      <4> HIDE DEF f
      <4> QED BY <4>1, <4>2
    <3>2. CASE k # n + 1
      <4>1. k \in 0..n /\ f[k] = g[k]
        BY <3>2
      <4>2. g[k] = IF k = 0 THEN {Start(w)} ELSE Onward(w, g[k - 1])
        <5>1. Values(w, 0..n, g)
          BY <2>1, UnrolledValues
        <5> QED BY <4>1, <5>1, Zenon DEF Values
      <4>3. k # 0 => k - 1 \in 0..(n + 1) /\ k - 1 # n + 1
        BY <4>1
      <4>4. k # 0 => f[k - 1] = g[k - 1]
        BY <4>3
      <4> HIDE DEF f
      <4> QED BY <4>1, <4>2, <4>4
    <3> QED BY <3>1, <3>2
  <2>3. f = [k \in 0..(n + 1) |-> IF k = 0 THEN {Start(w)} ELSE Onward(w, f[k - 1])]
    BY <2>2
  <2>4. Unrolled(w, 0..(n + 1), f)
    BY <2>3 DEF Unrolled
  <2> HIDE DEF f
  <2> QED BY <2>4
<1> HIDE DEF S
<1>3. S = Nat
  BY <1>1, <1>2, SetInduction DEF S
<1> DEFINE upTo(n) == CHOOSE f : Unrolled(w, 0..n, f)
           r == [n \in Nat |-> upTo(n)[n]]
<1>4. \A n \in Nat : Unrolled(w, 0..n, upTo(n))
  BY <1>3 DEF S
<1> HIDE DEF upTo
<1>5. ASSUME NEW n \in Nat
      PROVE  r[n] = IF n = 0 THEN {Start(w)} ELSE Onward(w, r[n - 1])
  <2>1. upTo(n)[n] = IF n = 0 THEN {Start(w)} ELSE Onward(w, upTo(n)[n - 1])
    <3>1. n \in 0..n
      OBVIOUS
    <3>2. Values(w, 0..n, upTo(n))
      BY <1>4, UnrolledValues
    <3> QED BY <3>1, <3>2, Zenon DEF Values
  <2>2. ASSUME n # 0 PROVE r[n - 1] = upTo(n)[n - 1]
    <3>1. n - 1 \in Nat /\ n - 1 \in 0..(n - 1) /\ 0..(n - 1) \subseteq 0..n
          /\ 0..n \in SUBSET Nat
      BY <2>2
    <3>2. upTo(n - 1)[n - 1] = upTo(n)[n - 1]
      <4>1. PICK f, g : f = upTo(n - 1) /\ g = upTo(n)
        OBVIOUS
      <4>2. PICK k \in Nat : k = n - 1
        BY <3>1
      <4> PICK N \in SUBSET Nat : N = 0..n
        BY <3>1
      <4>3. Unrolled(w, 0..k, f) /\ Unrolled(w, N, g) /\ 0..k \subseteq N /\ k \in 0..k
        BY <1>4, <3>1, <4>1, <4>2
      <4>4. \A j \in 0..k : f[j] = g[j]
        BY <4>3, UnrolledAgree
      <4> QED BY <4>1, <4>2, <4>3, <4>4
    <3> QED BY <3>1, <3>2
  <2> QED BY <2>1, <2>2
<1>6. r = [n \in Nat |-> IF n = 0 THEN {Start(w)} ELSE Onward(w, r[n - 1])]
  BY <1>5
<1>7. Unrolled(w, Nat, r)
  BY <1>6 DEF Unrolled
<1> HIDE DEF r
<1> QED BY <1>7

RouteSets(w) == CHOOSE f : Unrolled(w, Nat, f)

LEMMA RouteSteps ==
    ASSUME NEW w
    PROVE  /\ RouteSets(w)[0] = {Start(w)}
           /\ \A n \in Nat : RouteSets(w)[n + 1] = Onward(w, RouteSets(w)[n])
<1>1. Unrolled(w, Nat, RouteSets(w))
  BY RoutesExist DEF RouteSets
<1>0. Values(w, Nat, RouteSets(w))
  BY <1>1, UnrolledValues
<1>2. RouteSets(w)[0] = {Start(w)}
  BY <1>0 DEF Values
<1>3. ASSUME NEW n \in Nat PROVE RouteSets(w)[n + 1] = Onward(w, RouteSets(w)[n])
  <2>1. n + 1 \in Nat /\ n + 1 # 0 /\ (n + 1) - 1 = n
    OBVIOUS
  <2>2. RouteSets(w)[n + 1] = Onward(w, RouteSets(w)[(n + 1) - 1])
    BY <1>0, <2>1, Zenon DEF Values
  <2> QED BY <2>1, <2>2
<1> QED BY <1>2, <1>3

LEMMA RoutesAreThese ==
    ~Held(world) => Routes = RouteSets(world)[world.ap]
BY Zenon DEF Routes, RouteSets, Unrolled

\* A route is still one when more steps are allowed.
LEMMA RoutesGrow ==
    ASSUME NEW w, NEW n \in Nat, NEW k \in Nat, n <= k
    PROVE  RouteSets(w)[n] \subseteq RouteSets(w)[k]
<1> DEFINE S == { d \in Nat : RouteSets(w)[n] \subseteq RouteSets(w)[n + d] }
<1>1. 0 \in S
  OBVIOUS
<1>2. ASSUME NEW d \in S PROVE d + 1 \in S
  <2>1. n + d \in Nat /\ n + (d + 1) = (n + d) + 1
    OBVIOUS
  <2>2. RouteSets(w)[n + d] \subseteq RouteSets(w)[(n + d) + 1]
    BY <2>1, RouteSteps DEF Onward
  <2> QED BY <2>1, <2>2
<1> HIDE DEF S
<1>3. S = Nat
  BY <1>1, <1>2, SetInduction DEF S
<1>4. k - n \in Nat /\ n + (k - n) = k
  OBVIOUS
<1> QED BY <1>3, <1>4 DEF S

\* One edge further, for one AP at least.
LEMMA OnwardFacts ==
    ASSUME NEW w \in Worlds, NEW known, NEW m \in known, m \in Entries(w), NEW i \in Directions,
           Resolved(EdgeAt(w, m.tile, i)), Affordable(w, m.res, EdgeAt(w, m.tile, i))
    PROVE  LET e == EdgeAt(w, m.tile, i)
               r == Spend(w, m.res, e)
           IN [tile |-> e.dest, res |-> r] \in Onward(w, known) /\ r[1] + 1 <= m.res[1]
<1> DEFINE e == EdgeAt(w, m.tile, i)
           r == Spend(w, m.res, e)
<1>1. m.tile \in Tiles /\ m.res[1] \in Nat
  BY WorldFacts DEF Entries, Resources
<1>2. e.ap \in Int /\ e.ap >= Scale
  BY <1>1, EdgeFacts
<1>3. r[1] + 1 <= m.res[1]
  BY <1>1, <1>2 DEF Spend, BBRound
<1>4. [tile |-> e.dest, res |-> r] \in Onward(w, known)
  <2> DEFINE To(n, j) == LET a == EdgeAt(w, n.tile, j) IN
                         IF Resolved(a) /\ Affordable(w, n.res, a)
                         THEN {[tile |-> a.dest, res |-> Spend(w, n.res, a)]}
                         ELSE {}
  <2>1. Onward(w, known) = known \cup UNION { To(n, j) : n \in known, j \in Directions }
    BY DEF Onward
  <2>2. [tile |-> e.dest, res |-> r] \in To(m, i)
    BY Zenon
  <2> HIDE DEF To, e, r
  <2>3. To(m, i) \in { To(n, j) : n \in known, j \in Directions }
    OBVIOUS
  <2> QED BY <2>1, <2>2, <2>3
<1> QED BY <1>3, <1>4

\* A route leads to m, with no more steps than the AP that are gone.
Found(w, m) ==
    \E n \in Nat : m \in RouteSets(w)[n] /\ n + m.res[1] <= w.ap

\* All the search holds was found on a route; an actor that is held goes nowhere.
FoundInv ==
    /\ ~Held(world) =>
          /\ \A t \in Tiles : \A l \in labels[t] : Found(world, [tile |-> t, res |-> l])
          /\ \A k \in 1..Len(queue) : Found(world, queue[k])
          /\ here # None => Found(world, here)
    /\ Held(world) =>
          /\ labels = [t \in Tiles |-> IF t = Origin THEN {Start(world).res} ELSE {}]
          /\ queue = <<>> /\ here = None
    /\ \E l \in labels[Origin] : Dominates(l, Start(world).res)

LEMMA InitFound == Init => FoundInv
<1> SUFFICES ASSUME Init PROVE FoundInv
  OBVIOUS
<1>1. /\ world \in Worlds /\ Start(world).res \in Resources(world)
      /\ Start(world).res[1] = world.ap /\ world.ap \in Nat
      /\ Start(world) = [tile |-> Origin, res |-> Start(world).res]
  BY WorldFacts DEF Init, Start, Resources
<1>2. Found(world, Start(world))
  <2>1. Start(world) \in RouteSets(world)[0] /\ 0 + world.ap <= world.ap
    BY <1>1, RouteSteps
  <2> QED BY <1>1, <2>1 DEF Found
<1>3. \A t \in Tiles : \A l \in labels[t] : [tile |-> t, res |-> l] = Start(world)
  BY <1>1 DEF Init
<1>4. ~Held(world) => queue = <<Start(world)>>
  BY DEF Init
<1>5. \E l \in labels[Origin] : Dominates(l, Start(world).res)
  BY <1>1, MapFacts, DominatesOrder DEF Init
<1>6. labels = [t \in Tiles |-> IF t = Origin THEN {Start(world).res} ELSE {}]
      /\ here = None /\ (Held(world) => queue = <<>>)
  BY DEF Init
<1>7. ~Held(world) => \A k \in 1..Len(queue) : Found(world, queue[k])
  <2> SUFFICES ASSUME ~Held(world), NEW k \in 1..Len(queue) PROVE Found(world, queue[k])
    OBVIOUS
  <2>1. PICK s : s = Start(world)
    OBVIOUS
  <2>2. queue = <<s>> /\ Found(world, s)
    BY <1>2, <1>4, <2>1
  <2>3. queue[k] = s
    BY <2>2
  <2> QED BY <2>2, <2>3
<1>8. \A t \in Tiles : \A l \in labels[t] : Found(world, [tile |-> t, res |-> l])
  BY <1>2, <1>3
<1> QED BY <1>5, <1>6, <1>7, <1>8, Zenon DEF FoundInv

LEMMA NextFound == TypeOK /\ FoundInv /\ [Next]_vars => FoundInv'
<1> SUFFICES ASSUME TypeOK, FoundInv, [Next]_vars PROVE FoundInv'
  OBVIOUS
<1>0. world' = world /\ world \in Worlds /\ TypeOK'
  BY NextType DEF Next, vars, Pop, Relax, Walk, TypeOK
<1>1. (\E l \in labels[Origin] : Dominates(l, Start(world).res))'
  <2>1. PICK l \in labels[Origin] : Dominates(l, Start(world).res)
    BY DEF FoundInv
  <2>2. PICK m \in labels'[Origin] : Dominates(m, l)
    BY MapFacts, NextImproves
  <2>3. l \in Resources(world) /\ m \in Resources(world) /\ Start(world).res \in Resources(world)
    BY <1>0, MapFacts, WorldFacts DEF TypeOK, Start, Resources
  <2>4. Dominates(m, Start(world).res)
    BY <1>0, <2>1, <2>2, <2>3, DominatesOrder
  <2> QED BY <1>0, <2>4
<1>2. CASE Held(world)
  <2>1. labels' = labels /\ queue' = queue /\ here' = here
    BY <1>2 DEF FoundInv, Next, vars, Pop, Relax, Walk
  <2> QED BY <1>0, <1>1, <1>2, <2>1 DEF FoundInv
<1>3. CASE ~Held(world)
  <2>1. /\ \A t \in Tiles : \A l \in labels[t] : Found(world, [tile |-> t, res |-> l])
        /\ \A k \in 1..Len(queue) : Found(world, queue[k])
        /\ here # None => Found(world, here)
    BY <1>3 DEF FoundInv
  <2>2. CASE Pop
    <3>1. /\ queue # <<>> /\ here' = Head(queue) /\ queue' = Tail(queue) /\ labels' = labels
          /\ queue \in Seq(Entries(world))
      BY <2>2 DEF Pop, TypeOK
    <3>2. /\ here' = queue[1] /\ 1 \in 1..Len(queue)
          /\ \A k \in 1..Len(queue') : queue'[k] = queue[k + 1] /\ k + 1 \in 1..Len(queue)
      BY <3>1
    <3> QED BY <1>0, <1>1, <1>3, <2>1, <3>1, <3>2 DEF FoundInv
  <2>3. CASE Relax /\ Useful
    <3> DEFINE e == EdgeAt(world, here.tile, dir)
               r == Spend(world, here.res, e)
               entry == [tile |-> e.dest, res |-> r]
    <3>1. /\ e.dest \in Tiles /\ here \in Entries(world) /\ entry \in Entries(world)
          /\ WithLabel(labels[e.dest], r) \subseteq labels[e.dest] \cup {r}
      BY <2>3, RelaxFacts DEF Relax
    <3>2. /\ labels' = [labels EXCEPT ![e.dest] = WithLabel(labels[e.dest], r)]
          /\ queue' = Append(queue, entry) /\ here # None
          /\ here' = None \/ here' = here
      BY <2>3 DEF Relax, NextEdge
    <3>3. Found(world, entry)
      <4>1. PICK n \in Nat : here \in RouteSets(world)[n] /\ n + here.res[1] <= world.ap
        BY <2>1, <3>2 DEF Found
      <4>2. entry \in Onward(world, RouteSets(world)[n]) /\ r[1] + 1 <= here.res[1]
        BY <1>0, <2>3, <3>1, <4>1, OnwardFacts DEF TypeOK, Useful
      <4>3. entry \in RouteSets(world)[n + 1]
        BY <4>1, <4>2, RouteSteps
      <4>4. /\ r[1] \in Nat /\ here.res[1] \in Nat /\ world.ap \in Nat
        BY <1>0, <3>1, WorldFacts DEF Entries, Resources
      <4>5. (n + 1) + r[1] <= world.ap /\ n + 1 \in Nat
        BY <4>1, <4>2, <4>4
      <4> QED BY <4>3, <4>5 DEF Found
    <3> HIDE DEF e, r
    <3>4. ASSUME NEW t \in Tiles, NEW l \in labels'[t]
          PROVE  Found(world, [tile |-> t, res |-> l])
      <4>1. l \in labels[t] \/ (t = e.dest /\ l = r)
        BY <3>1, <3>2, <3>4 DEF TypeOK
      <4> QED BY <2>1, <3>3, <3>4, <4>1
    <3>5. ASSUME NEW k \in 1..Len(queue') PROVE Found(world, queue'[k])
      <4>1. queue'[k] = entry \/ (k \in 1..Len(queue) /\ queue'[k] = queue[k])
        BY <3>1, <3>2 DEF TypeOK
      <4> HIDE DEF entry
      <4> QED BY <2>1, <3>3, <4>1
    <3> QED BY <1>0, <1>1, <1>3, <2>1, <3>2, <3>4, <3>5 DEF FoundInv
  <2>4. CASE ~Pop /\ ~(Relax /\ Useful)
    <3>1. labels' = labels /\ queue' = queue /\ (here' = None \/ here' = here)
      BY <2>4 DEF Next, vars, Relax, NextEdge, Walk
    <3> QED BY <1>0, <1>1, <1>3, <2>1, <3>1 DEF FoundInv
  <2> QED BY <2>2, <2>3, <2>4
<1> QED BY <1>2, <1>3

\* In the end a label dominates what any route leads to.
LEMMA RoutesCovered ==
    ASSUME TypeOK, Closed, FoundInv, Done, ~Held(world)
    PROVE  \A n \in Nat : \A m \in RouteSets(world)[n] :
              m \in Entries(world) /\ \E l \in labels[m.tile] : Dominates(l, m.res)
<1> DEFINE Covers(m) == m \in Entries(world) /\ \E l \in labels[m.tile] : Dominates(l, m.res)
           S == { n \in Nat : \A m \in RouteSets(world)[n] : Covers(m) }
<1>0. world \in Worlds
  BY DEF TypeOK
<1>1. 0 \in S
  <2>1. Start(world) \in Entries(world) /\ Start(world).tile = Origin
    BY <1>0, WorldFacts, MapFacts DEF Start, Entries, Resources
  <2>2. Covers(Start(world))
    BY <2>1 DEF FoundInv
  <2> QED BY <2>2, RouteSteps
<1>2. ASSUME NEW n \in S PROVE n + 1 \in S
  <2> SUFFICES ASSUME NEW m \in Onward(world, RouteSets(world)[n]) PROVE Covers(m)
    BY RouteSteps
  <2>1. CASE m \in RouteSets(world)[n]
    BY <2>1
  <2>2. CASE m \notin RouteSets(world)[n]
    <3>1. PICK k \in RouteSets(world)[n], i \in Directions :
             /\ Resolved(EdgeAt(world, k.tile, i))
             /\ Affordable(world, k.res, EdgeAt(world, k.tile, i))
             /\ m = [tile |-> EdgeAt(world, k.tile, i).dest,
                     res |-> Spend(world, k.res, EdgeAt(world, k.tile, i))]
      BY <2>2 DEF Onward
    <3> DEFINE e == EdgeAt(world, k.tile, i)
    <3>2. k \in Entries(world) /\ k.tile \in Tiles /\ k.res \in Resources(world)
      BY DEF Entries
    <3>3. PICK l \in labels[k.tile] : Dominates(l, k.res)
      OBVIOUS
    <3>4. l \in Resources(world)
      BY <3>2 DEF TypeOK
    <3>5. e.dest \in Tiles /\ e.ap \in Int /\ e.ap >= Scale /\ e.fatigue \in Nat
      BY <1>0, <3>1, <3>2, EdgeFacts
    <3>6. /\ Affordable(world, l, e)
          /\ Dominates(Spend(world, l, e), Spend(world, k.res, e))
      BY <1>0, <3>1, <3>2, <3>3, <3>4, <3>5, SpendMonotone
    <3>7. /\ Spend(world, l, e) \in Resources(world)
          /\ Spend(world, k.res, e) \in Resources(world)
      BY <1>0, <3>1, <3>2, <3>4, <3>5, <3>6, SpendType
    <3>8. PICK d \in labels[e.dest] : Dominates(d, Spend(world, l, e))
      <4>1. Dealt(k.tile, l, i) /\ ~Queued(k.tile, l) /\ here = None
        BY <3>2 DEF Closed, Done, Queued
      <4>2. here # [tile |-> k.tile, res |-> l]
        BY <1>0, <3>2, <3>4, <4>1, NoneIsNoEntry DEF Entries
      <4> QED BY <3>1, <3>6, <4>1, <4>2 DEF Dealt
    <3>9. d \in Resources(world)
      BY <3>5 DEF TypeOK
    <3> HIDE DEF e
    <3>10. Dominates(d, Spend(world, k.res, e))
      BY <1>0, <3>6, <3>7, <3>8, <3>9, DominatesOrder
    <3>11. m = [tile |-> e.dest, res |-> Spend(world, k.res, e)]
      BY <3>1 DEF e
    <3> QED BY <3>5, <3>7, <3>8, <3>10, <3>11 DEF Entries
  <2> QED BY <2>1, <2>2
<1> HIDE DEF S
<1>3. S = Nat
  BY <1>1, <1>2, SetInduction DEF S
<1> QED BY <1>3 DEF S

\* However the search went, its labels are exactly the best of what all routes
\* lead to: what every route arrives with is dominated by a label, and every label
\* is what some route arrives with.
THEOREM FrontsAreExact == Spec => []FrontIsExact
<1>1. Init => GInv /\ FoundInv /\ LabelsAreFronts
  BY InitType, InitClosed, InitFound DEF GInv, Init, LabelsAreFronts
<1>2. GInv /\ FoundInv /\ LabelsAreFronts /\ [Next]_vars
        => (GInv /\ FoundInv /\ LabelsAreFronts)'
  BY NextType, NextClosed, NextCovered, NextFound, NextFronts DEF GInv
<1>3. GInv /\ FoundInv /\ LabelsAreFronts => FrontIsExact
  <2> SUFFICES ASSUME GInv, FoundInv, LabelsAreFronts, Done, NEW t \in Tiles
               PROVE  labels[t] = Front({ m.res : m \in { n \in Routes : n.tile = t } })
    BY DEF FrontIsExact
  <2> DEFINE R == { m.res : m \in { n \in Routes : n.tile = t } }
  <2>1. world \in Worlds /\ TypeOK /\ Closed /\ labels[t] \subseteq Resources(world)
    BY DEF GInv, TypeOK
  <2>2. CASE Held(world)
    <3>1. Routes = {Start(world)}
      BY <2>2 DEF Routes
    <3>2. labels[t] = IF t = Origin THEN {Start(world).res} ELSE {}
      BY <2>2 DEF FoundInv
    <3>0. Start(world).tile = Origin
      BY DEF Start
    <3>3. PICK s : s = Start(world) /\ s.tile = Origin
      BY <3>0, Zenon
    <3>4. CASE t = Origin
      <4>1. R = {s.res} /\ labels[t] = {s.res}
        BY <3>1, <3>2, <3>3, <3>4
      <4> HIDE DEF R
      <4>2. Front(R) = R
        BY <4>1 DEF Front
      <4> QED BY <4>1, <4>2 DEF R
    <3>5. CASE t # Origin
      <4>1. R = {} /\ labels[t] = {}
        BY <3>1, <3>2, <3>3, <3>5
      <4> HIDE DEF R
      <4>2. Front(R) = R
        BY <4>1 DEF Front
      <4> QED BY <4>1, <4>2 DEF R
    <3> QED BY <3>4, <3>5
  <2>3. CASE ~Held(world)
    <3>1. Routes = RouteSets(world)[world.ap] /\ world.ap \in Nat
      BY <2>1, <2>3, RoutesAreThese, WorldFacts
    <3>2. ASSUME NEW r \in R
          PROVE  r \in Resources(world) /\ \E l \in labels[t] : Dominates(l, r)
      <4>1. PICK m \in Routes : m.tile = t /\ m.res = r
        OBVIOUS
      <4>2. m \in Entries(world) /\ \E l \in labels[m.tile] : Dominates(l, m.res)
        BY <2>1, <2>3, <3>1, <4>1, RoutesCovered
      <4> QED BY <4>1, <4>2 DEF Entries
    <3>3. labels[t] \subseteq R
      <4> SUFFICES ASSUME NEW l \in labels[t] PROVE l \in R
        OBVIOUS
      <4>1. PICK m : m = [tile |-> t, res |-> l]
        OBVIOUS
      <4>2. PICK n \in Nat : m \in RouteSets(world)[n] /\ n + l[1] <= world.ap
        BY <2>3, <4>1 DEF FoundInv, Found
      <4>3. l[1] \in Nat
        BY <2>1, WorldFacts DEF Resources
      <4>4. n <= world.ap
        BY <3>1, <4>2, <4>3
      <4>5. m \in Routes
        BY <3>1, <4>2, <4>4, RoutesGrow
      <4> QED BY <4>1, <4>5
    <3> HIDE DEF R
    <3>4. ASSUME NEW l \in labels[t], NEW r \in R, Dominates(r, l)
          PROVE  r = l
      <4>1. PICK k \in labels[t] : Dominates(k, r)
        BY <3>2
      <4>2. k \in Resources(world) /\ l \in Resources(world) /\ r \in Resources(world)
        BY <2>1, <3>2
      <4>3. k = l
        BY <2>1, <3>4, <4>1, <4>2, DominatesOrder DEF LabelsAreFronts
      <4> QED BY <2>1, <3>4, <4>1, <4>2, <4>3, DominatesOrder
    <3>5. labels[t] \subseteq Front(R)
      BY <3>3, <3>4 DEF Front
    <3>6. Front(R) \subseteq labels[t]
      BY <3>2, <3>3 DEF Front
    <3> QED BY <3>5, <3>6 DEF R
  <2> QED BY <2>2, <2>3
<1> QED BY <1>1, <1>2, <1>3, PTL DEF Spec
=============================================================================
