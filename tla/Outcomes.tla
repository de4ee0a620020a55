------------------------------- MODULE Outcomes -------------------------------
(***************************************************************************)
(* What a candidate may lead to (outcomes.py, transitions.py): the weighted *)
(* branches of an ordinary attack, and the actor after any other command.  *)
(* A move out of a hostile's reach is struck at by one reactor after the    *)
(* other: any hit keeps the mover where it is, and a dead one is left      *)
(* alone.                                                                  *)
(*                                                                         *)
(* Hit chances are in twentieths (5% steps, 1..19 being the 5..95 the code  *)
(* accepts), multipliers in tenths.  Weights are integers: an attack        *)
(* divides a weight into Mass parts, and Unit stands for probability 1.     *)
(***************************************************************************)
EXTENDS Mechanics, Integers, FiniteSetsExt, SequencesExt

CONSTANTS Weapon,     \* [low, high, armor, direct, head]: damage and multipliers
          Unit        \* the weight of certainty

Rolls == Weapon.low..Weapon.high
Mass == 80 * Cardinality(Rolls) * Cardinality(Rolls)

ASSUME WeaponAssumption ==
    /\ Weapon \in [low: Nat, high: Nat, armor: Nat, direct: Nat, head: Nat]
    /\ Weapon.low <= Weapon.high
    /\ Unit \in Nat /\ Unit > 0 /\ Unit % Mass = 0

\* What is left of certainty after 0, 1, .. n reactions: the weight of a branch is a
\* multiple of its share.
Share(n) == LET share[i \in 0..n] == IF i = 0 THEN Unit ELSE share[i - 1] \div Mass IN share

Total(branches) == SumFunction([b \in branches |-> b.weight])

-----------------------------------------------------------------------------
(* One attack on a body with hp, head and body armor (_branches) *)

Miss(t, hit) ==
    [result |-> "MISS", damage |-> 0, roll |-> 0, weight |-> (20 - hit) * (Mass \div 20),
     wounds |-> 0, torn |-> 0, hp |-> t.hp, head |-> 10 * t.head, body |-> 10 * t.body]

\* A hit: armor is worn down first, in tenths; what gets through hurts, in
\* hundredths, and once the armor is gone the rest of the blow as well.
Landed(t, hit, place, damage, roll) ==
    LET head == place = "HEAD"
        worn == 10 * (IF head THEN t.head ELSE t.body)
        torn == Min({worn, roll * Weapon.armor})
        through == Max({0, 10 * damage * Weapon.direct - (worn - torn)})
        rest == IF torn = worn \/ Weapon.direct >= 10
                   THEN Max({0, 10 * damage * Max({0, 10 - Weapon.direct}) - 10 * torn})
                   ELSE 0
        times == IF head THEN 10 + Weapon.head ELSE 10
        wounds == ((through + rest) * times + 500) \div 1000
    IN [result |-> place, damage |-> damage, roll |-> roll,
        weight |-> hit * (IF head THEN 1 ELSE 3),
        wounds |-> wounds, torn |-> torn, hp |-> Max({0, t.hp - wounds}),
        head |-> 10 * t.head - (IF head THEN torn ELSE 0),
        body |-> 10 * t.body - (IF head THEN 0 ELSE torn)]

AttackBranches(t, hit) ==
    {Miss(t, hit)} \cup { Landed(t, hit, place, d, r) :
                            place \in {"HEAD", "BODY"}, d \in Rolls, r \in Rolls }

Killed(o) == o.hp = 0

-----------------------------------------------------------------------------
(* Costs.  An actor is [hp, head, body, ap, fatigue, capacity, waited, mayWait, *)
(* plain, slots]: plain when it has no effects, perks or traits, slots saying   *)
(* where its items are.  An action names what it costs, as the game resolved it. *)

\* _cost_ledger, _resolved_ledger: a value is usable when its ledger can reach the
\* outcome stage.
Resolved(value, stage) ==
    \E ledger \in FromResolved(value, stage) : ApplyStage(ledger, "OUTCOME") # {}

Payable(actor, action) ==
    /\ actor.ap >= action.ap
    /\ actor.fatigue + action.fatigue <= actor.capacity

\* _with_costs, once the two conditions hold
Paid(actor, action) ==
    [actor EXCEPT !.ap = @ - action.ap, !.fatigue = @ + action.fatigue]

-----------------------------------------------------------------------------
(* Transitions.  A branch is [weight, actor, completed, stopped, ended, trail]; *)
(* trail is what the reactors did, in order.                                   *)

Alone(actor) ==
    [weight |-> Unit, actor |-> actor, stopped |-> FALSE, ended |-> FALSE, trail |-> <<>>]

Dead(b) == b.actor.hp = 0

\* Mutant of Struck: the dead are struck again.
StruckAgain(b, r) ==
    { [b EXCEPT !.weight = (b.weight \div Mass) * o.weight,
                !.actor = [b.actor EXCEPT !.hp = o.hp, !.head = o.head \div 10,
                                          !.body = o.body \div 10],
                !.stopped = b.stopped \/ o.result # "MISS",
                !.trail = Append(b.trail, [by |-> r.by, result |-> o.result,
                                           damage |-> o.damage, roll |-> o.roll])] :
        o \in AttackBranches(b.actor, r.hit) }

\* One reactor strikes in every branch (the loop of _move); what is left of the
\* armor is cut to whole points.
Struck(b, r) ==
    IF Dead(b) THEN {[b EXCEPT !.stopped = TRUE]}
    ELSE { [b EXCEPT !.weight = (b.weight \div Mass) * o.weight,
                     !.actor = [b.actor EXCEPT !.hp = o.hp, !.head = o.head \div 10,
                                               !.body = o.body \div 10],
                     !.stopped = b.stopped \/ o.result # "MISS",
                     !.trail = Append(b.trail, [by |-> r.by, result |-> o.result,
                                                damage |-> o.damage, roll |-> o.roll])] :
             o \in AttackBranches(b.actor, r.hit) }

\* _move: the costs are paid once, before anyone reacts; the reactions are in the
\* order of their reactors' ids.
React(branches, r) == UNION { Struck(b, r) : b \in branches }
Moved(actor, action) == FoldLeft(React, {Alone(Paid(actor, action))}, action.reactions)

Completed(b) == ~Dead(b) /\ ~b.stopped

\* _simple: one sure branch, of the command's own effect after its costs.
Effect(actor, action) ==
    CASE action.kind = "WAIT" -> [actor EXCEPT !.waited = TRUE, !.mayWait = FALSE]
      [] action.skill = "actives.recover" ->
            [actor EXCEPT !.fatigue = (actor.fatigue + 1) \div 2]
      [] action.kind = "EQUIP_ITEM" ->
            [actor EXCEPT !.slots = [s \in DOMAIN actor.slots |->
                CASE s = action.item -> action.slot
                  [] s # action.item /\ s = action.displaced -> action.to
                  [] OTHER -> actor.slots[s]]]
      [] OTHER -> actor
Simple(actor, action) ==
    {[Alone(Effect(Paid(actor, action), action)) EXCEPT !.ended = action.kind = "END_TURN"]}

Transition(actor, action) ==
    IF action.kind = "MOVE_TO" THEN Moved(actor, action) ELSE Simple(actor, action)
=============================================================================
