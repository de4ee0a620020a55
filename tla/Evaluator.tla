------------------------------ MODULE Evaluator ------------------------------
(***************************************************************************)
(* How candidates are compared (features.py, evaluator.py).  Each candidate *)
(* is measured; every measure is a range in three views: the whole support, *)
(* the robust view (chance integrated, the unknown kept) and the epistemic  *)
(* one (the unknown alone).  The measures are normalised, averaged within a *)
(* family and weighted; the sure value is the lower robust bound, less what *)
(* death risks and what is not known.                                      *)
(*                                                                         *)
(* A number n of the code is n * Unit in a measure and n * Grain once       *)
(* normalised.  The code's expected value, where it has one, is both robust *)
(* bounds, so it is not kept apart.                                        *)
(***************************************************************************)
EXTENDS PositionFeatures, Outcomes

CONSTANTS Scale,      \* [scale name -> positive number]: EvaluationScales
          Grain,      \* the fixed point of normalised numbers
          Foe,        \* [Others -> [head, body, plain, slots]]: as for the actor
          Weighted    \* those whose hit points are a distribution, not a set

VARIABLES hp          \* [Others -> set of candidate values, {} for unknown]

ScaleNames == {"hp", "armor", "pressure", "ranged", "climb", "contacts", "links", "flanked",
               "open", "ap", "headroom", "units"}

ASSUME ScaleAssumption ==
    /\ Scale \in [ScaleNames -> Nat \ {0}]
    /\ Grain \in Nat \ {0}
    /\ DOMAIN Foe = Others
    /\ \A a \in Others : Foe[a] \in [head: Nat, body: Nat, plain: BOOLEAN, slots: {Foe[a].slots}]
    /\ Weighted \subseteq Others

\* A range in each of the three views
InViews(R(_)) == [support |-> R("support"), robust |-> R("robust"), epistemic |-> R("epistemic")]
Range0(a, b) == InViews(LAMBDA v : <<a, b>>)
Sure(n) == Range0(n * Unit, n * Unit)
Counted(f) == Range0(Cardinality(f.sure) * Unit, Cardinality(f.may) * Unit)

-----------------------------------------------------------------------------
(* Why a covered candidate may still not be evaluated *)

OK == "SUCCESS"
Unsupported == "INCOMPLETE_COVERAGE"
Invalid == "VALIDATION_FAILURE"

\* The one weapon there are numbers for, alone and in hand, or nothing at all: no
\* effect, perk or trait on either side.
Axed(c) == c.plain /\ c.slots = [item \in {"weapon.hand_axe"} |-> "mainhand"]
Bare(c) == c.plain /\ DOMAIN c.slots = {}

\* Mutant of CanStrike: what the struck one carries is not looked at.
CanStrikeAnyone(attacker, target, skill, supported) ==
    /\ "ordinary_attack" \in supported
    /\ Axed(attacker) /\ target.plain
    /\ skill = "actives.chop" /\ {"weapon.hand_axe", skill} \subseteq DOMAIN Content
    /\ Content[skill].category = "skill" /\ Content[skill].family = "ordinary_attack"

\* _evaluate_ordinary_attack_context: the attacks whose outcome can be told, an
\* opportunity's as well as one's own.
CanStrike(attacker, target, skill, supported) ==
    /\ "ordinary_attack" \in supported
    /\ Axed(attacker) /\ Bare(target)
    /\ skill = "actives.chop" /\ {"weapon.hand_axe", skill} \subseteq DOMAIN Content
    /\ Content[skill].category = "skill" /\ Content[skill].family = "ordinary_attack"

\* _current_attack_context, and the attack.  The stage and the authority of an action
\* stand for those of its costs and of its chance to hit alike.
AttackStatus(actor, action, values, supported) ==
    IF action.skill # "actives.chop" \/ action.hit \notin 1..19 THEN Unsupported
    ELSE IF ~Payable(actor, action) \/ ~Resolved(action, "CURRENT_COST") THEN Invalid
    ELSE IF \/ ~CanStrike(actor, Foe[action.target], action.skill, supported)
            \/ values[action.target] = {} THEN Unsupported
    ELSE OK

\* _validate_reaction_geometry: each reactor is a living hostile known to stand
\* beside the tile left, and strikes once.
ReactorsKnown(action) ==
    /\ Len(action.path) = 1
    /\ \A i, j \in DOMAIN action.reactions :
          action.reactions[i].by = action.reactions[j].by => i = j
    /\ \A i \in DOMAIN action.reactions :
          LET r == action.reactions[i]
          IN /\ r.by \in Hostiles
             /\ \E t \in Neighbors[origin] : position[r.by] = {t}

\* _reaction_attack_context, and the attack it leads to: a reaction without a
\* skill is one of an unsupported mechanic.
ReactionStatus(actor, r, supported) ==
    IF r.skill = NoContent \/ r.hit \notin 1..19 THEN Unsupported
    ELSE IF ~Resolved(r, "CURRENT_HIT_CHANCE") THEN Invalid
    ELSE IF ~CanStrike(Foe[r.by], actor, r.skill, supported) THEN Unsupported
    ELSE OK

Refused(actor, action, supported) ==
    { i \in DOMAIN action.reactions : ReactionStatus(actor, action.reactions[i], supported) # OK }

\* _move: the first reaction refused decides; some branch is alive to meet each.
MoveStatus(actor, action, supported) ==
    IF action.reactions # <<>> /\ ~ReactorsKnown(action) THEN Unsupported
    ELSE IF ~Payable(actor, action) \/ ~Resolved(action, "CURRENT_COST") THEN Invalid
    ELSE IF Refused(actor, action, supported) = {} THEN OK
    ELSE ReactionStatus(actor, action.reactions[Min(Refused(actor, action, supported))], supported)

\* An item of the command must be on the actor, and where the command has it.
ItemStatus(actor, item, slot) ==
    IF item \notin DOMAIN actor.slots THEN Invalid
    ELSE IF actor.slots[item] # slot THEN Unsupported
    ELSE OK
EquipStatus(actor, action) ==
    LET source == ItemStatus(actor, action.item, action.from)
    IN IF source # OK \/ action.displaced = NoContent THEN source
       ELSE ItemStatus(actor, action.displaced, action.slot)

\* _simple
SimpleStatus(actor, action) ==
    IF ~Payable(actor, action) \/ ~Resolved(action, "CURRENT_COST") THEN Invalid
    ELSE IF \/ action.kind \in {"WAIT", "END_TURN"}
            \/ action.skill \in {"actives.recover", "actives.reload_bolt"} THEN OK
    ELSE IF action.kind = "EQUIP_ITEM" THEN EquipStatus(actor, action)
    ELSE Unsupported

IsAttack(action) == "ordinary_attack" \in UNION { Needs[f] : f \in FamilyOf(action) }

\* extract_candidate_features, as far as its status goes
Status(actor, action, values, supported) ==
    IF IsAttack(action) THEN AttackStatus(actor, action, values, supported)
    ELSE IF action.kind = "MOVE_TO" THEN MoveStatus(actor, action, supported)
    ELSE SimpleStatus(actor, action)

-----------------------------------------------------------------------------
(* Measures *)

\* _weighted_range over [weight, range] records: the support spans them, the other
\* views are their mean; nothing left measures nothing.
Integrated(measured) ==
    LET mean(v, i) == SumFunction([m \in measured |-> m.weight * m.range[v][i]])
                      \div Total(measured)
    IN IF measured = {} THEN Sure(0)
       ELSE InViews(LAMBDA v :
               IF v = "support" THEN <<Min({ m.range[v][1] : m \in measured }),
                                       Max({ m.range[v][2] : m \in measured })>>
               ELSE <<mean(v, 1), mean(v, 2)>>)

\* A measure of every branch, integrated
OverBranches(measure) ==
    Integrated({ [branch |-> b, weight |-> b.weight, range |-> measure[b]] : b \in DOMAIN measure })

\* _enemy_effect: what is measured of a branch
Effects(o, effect) == IF effect = "kill" THEN IF Killed(o) THEN 1 ELSE 0 ELSE o[effect]

\* What an attack does to one supposed target, in Unit parts
Expected(action, supposed, effect) ==
    LET t == [hp |-> supposed, head |-> Foe[action.target].head, body |-> Foe[action.target].body]
    IN (Unit \div Mass) *
       SumFunction([o \in AttackBranches(t, action.hit) |-> o.weight * Effects(o, effect)])

\* _attack_metric: a distribution is integrated, a set spans its scenarios.
AttackMetric(action, values, effect) ==
    LET known == values[action.target]
        each == { Expected(action, n, effect) : n \in known }
        mean == SumFunction([n \in known |-> Expected(action, n, effect)]) \div Cardinality(known)
    IN IF action.target \in Weighted THEN Range0(mean, mean) ELSE Range0(Min(each), Max(each))

\* _posture_branches: the survivors, by where they stand; an actor that attacks
\* stays and has paid, so one branch is enough.
Posture(actor, action, branches) ==
    LET alive == { b \in branches : ~Dead(b) }
        tile0(b) == IF action.kind = "MOVE_TO" /\ Completed(b) THEN action.path[Len(action.path)]
                    ELSE origin
        place(b) == <<tile0(b), b.actor.ap, b.actor.fatigue>>
    IN { LET here == { b \in alive : place(b) = p }
         IN [tile |-> p[1], actor |-> [actor EXCEPT !.ap = p[2], !.fatigue = p[3]],
             weight |-> Total(here)] : p \in { place(b) : b \in alive } }

\* _templates: the costs the current offer knows, a wait and an end apart
Templates(offer) ==
    { <<offer[a].kind, offer[a].skill, offer[a].ap, offer[a].fatigue, offer[a].ammo>> :
        a \in { x \in DOMAIN offer : offer[x].kind \notin {"WAIT", "END_TURN"} } }
Feasible(offer, actor) ==
    Cardinality({ t \in Templates(offer) :
                    actor.ap >= t[3] /\ actor.fatigue + t[4] <= actor.capacity })

\* The zone of control is at most what is adjacent: a bound of the model, not
\* something hidden.
Pressure(adjacent) ==
    LET most == adjacent["support"][2]
    IN InViews(LAMBDA v : IF v = "epistemic" \/ most = 0 THEN <<0, 0>> ELSE <<0, most>>)

\* _build_features, for the measures that are scored
Features(actor, offer, a, values) ==
    LET action == offer[a]
        attack == IsAttack(action)
        branches == IF attack THEN {Alone(Paid(actor, action))} ELSE Transition(actor, action)
        stand == Posture(actor, action, branches)
        fact(F(_)) == OverBranches([b \in stand |-> Counted(F(b.tile))])
        chance(S) == Range0(Total(S), Total(S))
        effect(e) == IF attack THEN AttackMetric(action, values, e) ELSE Sure(0)
        hurt == [b \in branches |-> Sure(Max({0, actor.hp - b.actor.hp}))]
        flag(b) == IF b THEN 1 ELSE 0
        over(P(_)) == OverBranches([b \in branches |-> Sure(flag(P(b)))])
        left(N(_)) == OverBranches([b \in stand |-> Sure(N(b))])
        adjacent == fact(AdjacentHostiles)
    IN [hp_damage   |-> effect("wounds"),
        armor       |-> effect("torn"),
        kill        |-> effect("kill"),
        self_damage |-> IF action.reactions = <<>> THEN Sure(0) ELSE OverBranches(hurt),
        ally_damage |-> Sure(0),
        stopped     |-> chance({ b \in branches : b.stopped }),
        death       |-> chance({ b \in branches : Dead(b) }),
        adjacent    |-> adjacent,
        zoc         |-> Pressure(adjacent),
        ranged      |-> fact(SightedFrom),
        climb       |-> left(LAMBDA b : Elevation[b.tile] - Elevation[origin]),
        over        |-> fact(LowerHostiles),
        under       |-> fact(HigherHostiles),
        created     |-> fact(LAMBDA t : ScreensGained(origin, t)),
        lost        |-> fact(LAMBDA t : ScreensGained(t, origin)),
        flanked     |-> fact(FlankedHostiles),
        open        |-> fact(OpenTiles),
        ap          |-> left(LAMBDA b : b.actor.ap),
        headroom    |-> left(LAMBDA b : b.actor.capacity - b.actor.fatigue),
        feasible    |-> left(LAMBDA b : Feasible(offer, b.actor)),
        ammo        |-> Sure(action.ammo),
        charges     |-> Sure(0),
        waited      |-> over(LAMBDA b : b.actor.waited),
        may_wait    |-> over(LAMBDA b : b.actor.mayWait),
        ended       |-> over(LAMBDA b : b.ended)]

-----------------------------------------------------------------------------
(* Scores *)

Least(m, n) == IF m < n THEN m ELSE n
Most(m, n) == IF m < n THEN n ELSE m

Component == {"enemy_effect", "immediate_friendly_harm", "post_action_exposure",
              "position_control_protection", "resource_future_capacity", "tempo"}

\* The measures of a component, each with its scale and whether more is better
Terms ==
    [enemy_effect |-> {<<"hp_damage", "hp", 1>>, <<"armor", "armor", 1>>, <<"kill", "one", 1>>},
     immediate_friendly_harm |-> {<<"self_damage", "hp", -1>>, <<"ally_damage", "hp", -1>>,
                                  <<"stopped", "one", -1>>},
     post_action_exposure |-> {<<"adjacent", "pressure", -1>>, <<"zoc", "pressure", -1>>,
                               <<"ranged", "ranged", -1>>},
     position_control_protection |->
        {<<"climb", "climb", 1>>, <<"over", "contacts", 1>>, <<"under", "contacts", -1>>,
         <<"created", "links", 1>>, <<"lost", "links", -1>>, <<"flanked", "flanked", 1>>,
         <<"open", "open", 1>>},
     resource_future_capacity |->
        {<<"ap", "ap", 1>>, <<"headroom", "headroom", 1>>, <<"feasible", "templates", 1>>,
         <<"ammo", "units", -1>>, <<"charges", "units", -1>>},
     tempo |-> {<<"waited", "one", 1>>, <<"may_wait", "one", 1>>, <<"ended", "one", -1>>}]

\* Families have 3, 5 or 7 terms and the uncertainty is charged in quarters: all
\* numbers below are multiplied by this, and by Grain.
Common == 420

Clip(n) == Most(-Grain, Least(Grain, n))

\* _normalized: a loss is turned round, its upper bound becoming the lower one.
Normalized(r, scale, sign) ==
    InViews(LAMBDA v :
       LET x == Clip((sign * r[v][1] * Grain) \div (scale * Unit))
           y == Clip((sign * r[v][2] * Grain) \div (scale * Unit))
       IN <<Least(x, y), Most(x, y)>>)

ScaleOf(name, offer) ==
    CASE name = "one" -> 1
      [] name = "templates" -> Most(1, Cardinality(Templates(offer)))
      [] OTHER -> Scale[name]

\* _component: the mean of its terms, weighted; the actor's own harm counts by
\* what its life is worth.
Contribution(f, offer, profile, c) ==
    LET value(m) == IF m = "self_damage" THEN profile.life ELSE 1
        worth(m) == InViews(LAMBDA v : <<f[m][v][1] * value(m), f[m][v][2] * value(m)>>)
        scaled == { <<t[1], Normalized(worth(t[1]), ScaleOf(t[2], offer), t[3])>> : t \in Terms[c] }
        mean(v, i) == SumFunction([t \in scaled |-> t[2][v][i]])
                      * (Common \div Cardinality(Terms[c]))
    IN InViews(LAMBDA v : <<profile.weight[c] * mean(v, 1), profile.weight[c] * mean(v, 2)>>)

\* Mutant of Value: the best case counts.
ValueHopeful(tactical, tail, price) == tactical["robust"][2] - tail - price

\* The lower robust bound, less the price of dying and of not knowing
Value(tactical, tail, price) == tactical["robust"][1] - tail - price

\* score_candidate_features, over the components the engine has; uncertainty is in
\* quarters.
Score(f, offer, a, engine) ==
    LET profile == engine.profile
        parts == { <<c, Contribution(f, offer, profile, c)>> : c \in engine.components }
        sum(v, i) == SumFunction([p \in parts |-> p[2][v][i]])
        tactical == InViews(LAMBDA v : <<sum(v, 1), sum(v, 2)>>)
        tail == profile.tail * profile.life * Common * ((f.death["robust"][1] * Grain) \div Unit)
        span == tactical["epistemic"][2] - tactical["epistemic"][1]
        price == (profile.uncertainty * span) \div 4
    IN [tactical |-> tactical, tail |-> tail, span |-> span,
        spent |-> offer[a].ammo,
        value |-> Value(tactical, tail, price),
        excluded |-> f.death["support"][2] > profile.deathCap]

\* Mutant of Dominates: the lower bounds are compared.
DominatesAtWorst(s, t) ==
    /\ s.tactical["support"][1] >= t.tactical["support"][1]
    /\ s.tail <= t.tail
    /\ \/ s.tactical["support"][1] > t.tactical["support"][1]
       \/ s.tail < t.tail

\* _dominates: no worse whatever holds, and better in one of the two.
Dominates(s, t) ==
    /\ s.tactical["support"][1] >= t.tactical["support"][2]
    /\ s.tail <= t.tail
    /\ \/ s.tactical["support"][1] > t.tactical["support"][2]
       \/ s.tail < t.tail

-----------------------------------------------------------------------------
(* Selection: a function from candidates to scores becomes a ranking *)

\* The members of a finite set in a strict order: the place of each is how many
\* come before it.
InOrder(candidates, Before(_, _)) ==
    LET places == { <<a, Cardinality({ b \in candidates : Before(b, a) })>> : a \in candidates }
    IN [i \in 1..Cardinality(candidates) |-> CHOOSE a \in candidates : <<a, i - 1>> \in places]

Ahead(s, x, y) == s[x].value > s[y].value \/ (s[x].value = s[y].value /\ x < y)

\* _tie_key
TieBefore(s, x, y) ==
    LET key(a) == <<s[a].tail, s[a].span, s[a].spent, a>>
    IN \E i \in 1..4 : /\ key(x)[i] < key(y)[i]
                       /\ \A j \in 1..(i - 1) : key(x)[j] = key(y)[j]

\* Mutant of Anchor: each candidate is compared with the one before it.
AnchorChained(s, order, found, margin, i) ==
    IF i > 1 /\ s[order[i - 1]].value - s[order[i]].value <= margin THEN found[i - 1]
    ELSE order[i]

\* The best candidate of the group the i-th one is in, those before it having
\* theirs: it joins the last group as long as it lies within the margin of its best.
Anchor(s, order, found, margin, i) ==
    IF i > 1 /\ s[found[i - 1]].value - s[order[i]].value <= margin THEN found[i - 1]
    ELSE order[i]
Anchors(s, order, margin) ==
    LET anchors[i \in DOMAIN order] == Anchor(s, order, anchors, margin, i) IN anchors

\* _score_groups, laid end to end: the best group first, ties broken within it
Grouped(s, candidates, margin) ==
    LET order == InOrder(candidates, LAMBDA x, y : Ahead(s, x, y))
        anchors == Anchors(s, order, margin)
        best(a) == anchors[CHOOSE i \in DOMAIN order : order[i] = a]
    IN InOrder(candidates, LAMBDA x, y :
          \/ Ahead(s, best(x), best(y))
          \/ best(x) = best(y) /\ TieBefore(s, x, y))

\* select_candidate_evaluations: those the guardrail excludes come last.
Ranking(s, margin) ==
    LET out == { a \in DOMAIN s : s[a].excluded }
    IN Grouped(s, DOMAIN s \ out, margin) \o Grouped(s, out, margin)

-----------------------------------------------------------------------------
(* Hidden states *)

\* The targets whose hit points are an unweighted set, and what they may be: a
\* joint hidden state gives each of them one value.
Hidden(offer) ==
    { offer[a].target : a \in { x \in DOMAIN offer :
        /\ IsAttack(offer[x]) /\ offer[x].target \notin Weighted
        /\ Cardinality(hp[offer[x].target]) > 1 } }
HiddenStates(offer) ==
    { h \in [Hidden(offer) -> UNION { hp[t] : t \in Hidden(offer) }] :
        \A t \in Hidden(offer) : h[t] \in hp[t] }

\* What would be known of the hit points in hidden state h
Supposing(h) == [t \in Others |-> IF t \in DOMAIN h THEN {h[t]} ELSE hp[t]]
=============================================================================
