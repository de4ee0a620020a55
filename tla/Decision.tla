------------------------------- MODULE Decision -------------------------------
(***************************************************************************)
(* One decision after another (evaluator.py, trace.py, validation.py).      *)
(* evaluate_decision covers the whole offer, measures and scores every      *)
(* candidate in turn and ranks them, or decides nothing; its trace is held  *)
(* against the accepted one of the same state when the engine has changed.  *)
(* Between decisions the player learns, or the engine is replaced.         *)
(***************************************************************************)
EXTENDS Evaluator

CONSTANTS Fixtures,     \* [offer: id -> action, actor, known: positions, hp: hit points,
                        \*  expect: [status, top1, forbidden, above, allow, gated]]
          Engines,      \* [version, profile, components, supported]
          None

Actor(slots) ==
    [hp: Nat \ {0}, head: Nat, body: Nat, ap: Nat, fatigue: Nat, capacity: Nat,
     waited: BOOLEAN, mayWait: BOOLEAN, plain: BOOLEAN, slots: {slots}]

\* Who strikes, with what skill (NoContent: an unsupported mechanic), the chance to
\* hit and where that number comes from
Reaction == [by: Others, skill: STRING, hit: Nat, stage: STRING, authority: STRING]

\* What an action has: its costs and, as its kind needs, a skill, a target, a path
\* and the reactions it provokes; certainty has a share for each of these.
IsAction(action) ==
    /\ action.ap \in Nat /\ action.fatigue \in Nat /\ action.ammo \in Nat
    /\ action.hit \in Nat
    /\ action.kind # "USE_SKILL" => action.skill = NoContent
    /\ IsAttack(action) => action.target \in Others
    /\ action.kind = "MOVE_TO" => action.path \in Seq(Tiles) /\ action.path # <<>>
    /\ action.reactions \in Seq(Reaction)
    /\ LET share == Share(Len(action.reactions))
       IN \A i \in 1..Len(action.reactions) : share[i - 1] = Mass * share[i]

ASSUME FixtureAssumption ==
    \A f \in Fixtures :
        /\ IsFiniteSet(DOMAIN f.offer) /\ DOMAIN f.offer \subseteq Nat
        /\ \A a \in DOMAIN f.offer : IsAction(f.offer[a])
        /\ f.actor \in Actor(f.actor.slots)
        /\ f.known \in [Others -> SUBSET Tiles]
        /\ \A a, b \in Others : \A t \in Tiles :
              f.known[a] = {t} /\ f.known[b] = {t} => a = b
        /\ f.hp \in [Others -> SUBSET Nat] /\ \A a \in Others : IsFiniteSet(f.hp[a])

ASSUME EngineAssumption ==
    \A e \in Engines :
        /\ e.components \subseteq Component
        /\ e.profile \in [weight: [Component -> Nat], tail: Nat, uncertainty: Nat,
                           margin: Nat, life: Nat, deathCap: Nat]

VARIABLES offer, actor, expect,     \* the fixture
          engine,                   \* the installed engine
          stage,                    \* "idle", "scoring" or "traced"
          scored,                   \* the scores so far, by candidate
          trace,                    \* the last decision, or None
          baseline,                 \* the accepted trace, or None
          first                     \* history: the first one accepted in this state

fixture == <<offer, actor, expect>>
accepted == <<baseline, first>>
dvars == <<vars, hp, fixture, engine, stage, scored, trace, accepted>>

-----------------------------------------------------------------------------
(* Traces *)

\* What a state is identified by (its state_id), as far as it changes here
StateId == <<position, tile, hp>>

Models == { IF IsAttack(offer[a]) THEN "ordinary-attack" ELSE "transitions" : a \in DOMAIN offer }

\* run_decision_trace: a trace holds the engine, the offer and the result; that
\* of a failure has no scores, no ranking and no model of any outcome.
Trace(status, scores, ranking, winners) ==
    [state |-> StateId, engine |-> engine, legal |-> DOMAIN offer, status |-> status,
     scores |-> scores, ranking |-> ranking, winners |-> winners,
     models |-> IF status = OK THEN Models ELSE {}]

\* _engine_model_identity: the version, the profile, the manifest and the models
\* the outcomes named.  Components are results, not identity.
Identity(t) == <<t.engine.version, t.engine.profile, t.engine.supported, t.models>>

Chosen(t) == IF t.ranking = <<>> THEN {} ELSE {t.ranking[1]}
RankOf(t, a) == CHOOSE i \in DOMAIN t.ranking : t.ranking[i] = a

-----------------------------------------------------------------------------
(* Expectations and the gate *)

Orders(t) == \A p \in expect.above :
    /\ {p[1], p[2]} \subseteq Range(t.ranking)
    /\ RankOf(t, p[1]) < RankOf(t, p[2])

\* _evaluate_expectations, the gated part: a calibration fixture gates only the
\* status, every other one its policy as well.
Meets(t) ==
    /\ t.status = expect.status
    /\ expect.top1 \cup expect.forbidden # {} \/ expect.above # {} => t.status = OK
    /\ expect.gated =>
          /\ expect.top1 # {} => Chosen(t) \cap expect.top1 # {}
          /\ Chosen(t) \cap expect.forbidden = {}
          /\ Orders(t)

\* Mutant of Hard: what an engine no longer models is not missed.
HardForgetful(before, after) ==
    \/ before.state # after.state
    \/ /\ before # after
       /\ \/ ~Meets(after)
          \/ before.legal # after.legal
          \/ after.status \notin {OK, expect.status}
          \/ Identity(before) = Identity(after)

\* classify_trace_change, where it answers HARD_GATED_FAILURE.
Hard(before, after) ==
    \/ before.state # after.state
    \/ /\ before # after
       /\ \/ ~Meets(after)
          \/ before.legal # after.legal
          \/ after.status \notin {OK, expect.status}
          \/ after.status = OK /\ ~(DOMAIN before.scores \subseteq DOMAIN after.scores)
          \/ Identity(before) = Identity(after)
          \/ /\ DOMAIN before.scores \cap DOMAIN after.scores # {}
             /\ ~(before.engine.components \subseteq after.engine.components)
             /\ ~expect.allow

\* The other kinds, in the order they are tried
Kind(before, after) ==
    IF Hard(before, after) THEN "HARD_GATED_FAILURE"
    ELSE IF before = after THEN "NO_CHANGE"
    ELSE IF /\ Chosen(before) # Chosen(after)
            /\ Chosen(before) # {} /\ Chosen(after) # {}
            /\ Chosen(before) \cup Chosen(after) \subseteq expect.top1
         THEN "ACCEPTABLE_SET_SUBSTITUTION"
    ELSE IF expect.allow THEN "INTENDED_MODEL_VERSION_CHANGE"
    ELSE IF expect.gated THEN "REVIEW_REQUIRED_CHANGE" ELSE "CALIBRATION_REVIEW_REQUIRED"

-----------------------------------------------------------------------------
(* Actions *)

Touched(h) == { a \in DOMAIN offer : IsAttack(offer[a]) /\ offer[a].target \in DOMAIN h }

\* Mutant of ScoresIn: no hidden state is matched with its scores.
ScoresInBase(h) == scored

\* The values in one hidden state (_apply_epistemic_sensitivity): a candidate it
\* does not touch keeps its score.
ScoresIn(h) ==
    [a \in DOMAIN scored |->
        IF a \in Touched(h) THEN Score(Features(actor, offer, a, Supposing(h)), offer, a, engine)
        ELSE scored[a]]

DInit ==
    /\ origin \in Post /\ at = origin
    /\ tile = FirstSight
    /\ \E f \in Fixtures : /\ offer = f.offer /\ actor = f.actor /\ expect = f.expect
                           /\ position = f.known /\ hp = f.hp
    /\ engine \in Engines
    /\ stage = "idle" /\ scored = <<>> /\ trace = None /\ baseline = None /\ first = None

\* Mutant of Fail: what was scored before the failure is ranked all the same.
FailPartially(status) ==
    /\ stage' = "traced" /\ scored' = <<>>
    /\ trace' = Trace(status, scored, Ranking(scored, engine.profile.margin), {})
    /\ UNCHANGED <<vars, hp, fixture, engine, accepted>>

Fail(status) ==
    /\ stage' = "traced" /\ scored' = <<>>
    /\ trace' = Trace(status, <<>>, <<>>, {})
    /\ UNCHANGED <<vars, hp, fixture, engine, accepted>>

\* Coverage of the whole offer comes before any candidate is looked at.
Begin ==
    /\ stage = "idle"
    /\ IF \E a \in DOMAIN offer : Problems(offer[a], engine.supported) # {}
       THEN Fail(Unsupported)
       ELSE IF DOMAIN offer = {} THEN Fail(Invalid)
       ELSE /\ stage' = "scoring" /\ scored' = <<>>
            /\ UNCHANGED <<vars, hp, fixture, engine, trace, accepted>>

\* Candidates in the order of their ids; the first that cannot be evaluated ends it.
ScoreNext ==
    /\ stage = "scoring" /\ DOMAIN scored # DOMAIN offer
    /\ LET a == Min(DOMAIN offer \ DOMAIN scored)
           status == Status(actor, offer[a], hp, engine.supported)
       IN IF status # OK THEN Fail(status)
          ELSE /\ scored' = [c \in DOMAIN scored \cup {a} |->
                                IF c = a THEN Score(Features(actor, offer, a, hp), offer, a, engine)
                                ELSE scored[c]]
               /\ UNCHANGED <<vars, hp, fixture, engine, stage, trace, accepted>>

Select ==
    /\ stage = "scoring" /\ DOMAIN scored = DOMAIN offer
    /\ stage' = "traced" /\ scored' = <<>>
    /\ LET margin == engine.profile.margin
           inStates == { ScoresIn(h) : h \in HiddenStates(offer) }
       IN trace' = Trace(OK, scored, Ranking(scored, margin),
                         IF Hidden(offer) = {} THEN {} ELSE { Ranking(s, margin)[1] : s \in inStates })
    /\ UNCHANGED <<vars, hp, fixture, engine, accepted>>

\* A first trace that meets its expectations is promoted; later ones are accepted
\* unless the gate is hard.
Accept ==
    /\ stage = "traced" /\ baseline # trace
    /\ IF baseline = None THEN Meets(trace)
       ELSE Kind(baseline, trace) # "HARD_GATED_FAILURE"
    /\ baseline' = trace
    /\ first' = IF baseline = None THEN trace ELSE first
    /\ UNCHANGED <<vars, hp, fixture, engine, stage, scored, trace>>

Upgrade ==
    /\ stage = "traced" /\ baseline = trace
    /\ engine' \in Engines \ {engine}
    /\ stage' = "idle"
    /\ UNCHANGED <<vars, hp, fixture, scored, trace, accepted>>

\* What is learned makes another state of it: the accepted trace is of no use.
Learn ==
    /\ stage = "traced" /\ stage' = "idle" /\ baseline' = None /\ first' = None
    /\ \/ \E a \in Others, places \in Lessons : LearnPosition(a, places) /\ UNCHANGED hp
       \/ \E t \in Tiles, value \in BOOLEAN, field \in {"sight", "pass", "block"} :
             LearnTile(t, field, value) /\ UNCHANGED hp
       \/ \E a \in Others : \E n \in hp[a] :
             /\ hp' = [hp EXCEPT ![a] = {n}] /\ hp' # hp
             /\ UNCHANGED vars
    /\ UNCHANGED <<fixture, engine, scored, trace>>

DNext == Begin \/ ScoreNext \/ Select \/ Accept \/ Upgrade \/ Learn

DSpec == DInit /\ [][DNext]_dvars

-----------------------------------------------------------------------------
(* Properties *)

DTypeOK ==
    /\ stage \in {"idle", "scoring", "traced"}
    /\ DOMAIN scored \subseteq DOMAIN offer
    /\ stage # "scoring" => scored = <<>>
    /\ engine \in Engines
    /\ \A t \in {trace, baseline} \ {None} :
          t.ranking # <<>> <=> t.status = OK

\* Who strikes whom: the actor at its target, or the reactors at the one who moves
Strikes(action) ==
    IF IsAttack(action) THEN {<<actor, Foe[action.target]>>}
    ELSE { <<Foe[action.reactions[i].by], actor>> :
             i \in { j \in DOMAIN action.reactions : action.kind = "MOVE_TO" } }

\* Nothing is recommended around what the engine does not know: a ranking orders
\* the whole offer, all that its actions need is supported, every one of them could
\* be evaluated, and whoever may strike in any of them has the one known weapon and
\* nothing else, whoever may be struck nothing at all.
FailClosed ==
    stage = "traced" /\ trace.status = OK =>
        /\ Range(trace.ranking) = DOMAIN offer
        /\ \A a \in DOMAIN offer :
              /\ \A f \in FamilyOf(offer[a]) : Needs[f] \subseteq engine.supported
              /\ Status(actor, offer[a], hp, engine.supported) = OK
              /\ \A strike \in Strikes(offer[a]) : Axed(strike[1]) /\ Bare(strike[2])

\* The branches of a move share all of the chance; the mover arrives exactly where
\* every reactor missed, has paid everywhere, and is struck no more once dead.
MovesAreWhole ==
    \A a \in DOMAIN offer :
        offer[a].kind = "MOVE_TO" /\ Status(actor, offer[a], hp, engine.supported) = OK =>
            LET branches == Transition(actor, offer[a])
            IN /\ Total(branches) = Unit
               /\ \A b \in branches :
                     /\ Completed(b) <=> \A i \in DOMAIN b.trail : b.trail[i].result = "MISS"
                     /\ Dead(b) => b.trail[Len(b.trail)].result # "MISS"
                     /\ b.actor.ap = actor.ap - offer[a].ap

\* Near ties do not chain: whoever is ranked ahead of an equally eligible other is
\* at most the margin worse; what the guardrail excludes comes after all others.
RankingKeepsTheMargin ==
    stage = "traced" =>
        \A i, j \in DOMAIN trace.ranking : i < j =>
            LET s == trace.scores[trace.ranking[i]]
                t == trace.scores[trace.ranking[j]]
            IN /\ s.excluded => t.excluded
               /\ s.excluded = t.excluded =>
                     s.value >= t.value - trace.engine.profile.margin

AllScored == stage = "scoring" /\ DOMAIN scored = DOMAIN offer

\* A dominated candidate is better in no hidden state, its risk included.
DominanceHoldsWhenKnown ==
    AllScored => \A h \in HiddenStates(offer) :
        LET inState == ScoresIn(h)
            worth(a, i) == inState[a].tactical["robust"][i] - inState[a].tail
        IN \A a, b \in DOMAIN offer :
              a # b /\ Dominates(scored[a], scored[b]) => worth(a, 1) >= worth(b, 2)

\* To know more never makes a candidate worth less, unless what was known was a
\* distribution.
LearningNeverHurts ==
    [][ stage # "traced" /\ stage' = "traced" /\ trace # None =>
          \A a \in DOMAIN trace.scores \cap DOMAIN trace'.scores :
              trace.engine = engine /\ ~(IsAttack(offer[a]) /\ offer[a].target \in Weighted)
                  => trace'.scores[a].value >= trace.scores[a].value ]_dvars

\* The recommendation made once the hidden hit points are known is one the hidden
\* states chose before, by the same engine and with nothing else learned, no
\* distribution either; what is still hidden leaves no new choice.
LearningChoosesAWinner ==
    [][ (/\ stage = "scoring" /\ stage' = "traced" /\ trace # None
         /\ trace.engine = engine
         /\ trace.state[1] = position /\ trace.state[2] = tile
         /\ \A a \in Weighted : trace.state[3][a] = hp[a]
         /\ trace.winners # {} /\ trace'.status = OK)
        => (IF trace'.winners = {} THEN Chosen(trace') ELSE trace'.winners)
              \subseteq trace.winners ]_dvars

\* However many engines came and went, the accepted trace meets its expectations,
\* still scores every candidate the first one did, and, unless the fixture allows
\* it, none of what was modelled at first is gone.
UpgradesLoseNothing ==
    baseline # None =>
        /\ Meets(baseline)
        /\ DOMAIN first.scores \subseteq DOMAIN baseline.scores
        /\ (DOMAIN first.scores # {} /\ ~expect.allow) =>
              first.engine.components \subseteq baseline.engine.components
=============================================================================
