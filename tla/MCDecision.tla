------------------------------ MODULE MCDecision ------------------------------
(* The actor's hex, its neighbors and a row leading away; three hostiles to     *)
(* strike at, two that may strike, one of them not yet seen, and a friend.      *)
EXTENDS Decision, TLC

MCTiles == {"o", "e", "w", "ne", "sw", "ee", "x1", "x2"}
MCOthers == {"foe", "foe2", "far", "guard", "guard2", "mate"}
MCCoord == [t \in MCTiles |->
              CASE t = "o" -> <<0, 0>> [] t = "e" -> <<1, 0>> [] t = "w" -> <<-1, 0>>
                [] t = "ne" -> <<1, -1>> [] t = "sw" -> <<-1, 1>> [] t = "ee" -> <<2, 0>>
                [] t = "x1" -> <<3, 0>> [] t = "x2" -> <<4, 0>>]
MCElevation == [t \in MCTiles |-> IF t = "w" THEN 1 ELSE 0]
MCNeighbors ==
    [s \in MCTiles |-> { t \in MCTiles : Distance(MCCoord[s], MCCoord[t]) = 1 }]
MCRelation == [a \in MCOthers |-> IF a = "mate" THEN "ALLY" ELSE "HOSTILE"]
MCFirstSight ==
    [t \in MCTiles |-> [sight |-> {FALSE}, block |-> {FALSE},
                        pass |-> IF t = "ne" THEN BOOLEAN ELSE {TRUE}]]
MCLessons == { {"ne"} }
Axe(slot) == "weapon.hand_axe" :> slot
MCFoe == [a \in MCOthers |->
            [head |-> 4, body |-> 6, plain |-> a # "mate",
             slots |-> IF a \in {"guard", "guard2"} THEN Axe("mainhand") ELSE <<>>]]

MCFamily == {"ordinary_attack", "move", "aoo", "wait", "end_turn", "equip", "recover",
             "reload", "special"}
MCContent ==
    [c \in {"actives.chop", "actives.recover", "actives.reload_bolt", "weapon.hand_axe"} |->
       CASE c = "actives.chop" -> [category |-> "skill", family |-> "ordinary_attack", slot |-> "none"]
         [] c = "actives.recover" -> [category |-> "skill", family |-> "recover", slot |-> "none"]
         [] c = "actives.reload_bolt" -> [category |-> "skill", family |-> "reload", slot |-> "none"]
         [] OTHER -> [category |-> "item", family |-> "equip", slot |-> "mainhand"]]
MCRequires == [f \in MCFamily |-> IF f = "move" THEN {"aoo"} ELSE {}]
MCKindsOf ==
    [f \in MCFamily |->
       CASE f = "move" -> {"MOVE_TO"} [] f = "wait" -> {"WAIT"} [] f = "end_turn" -> {"END_TURN"}
         [] f = "equip" -> {"EQUIP_ITEM"} [] f = "aoo" -> {} [] OTHER -> {"USE_SKILL"}]
MCWeapon == [low |-> 8, high |-> 8, armor |-> 12, direct |-> 3, head |-> 5]
MCScale == [hp |-> 6, armor |-> 100, pressure |-> 3, ranged |-> 3, climb |-> 2, contacts |-> 3,
            links |-> 2, flanked |-> 3, open |-> 6, ap |-> 9, headroom |-> 20, units |-> 2]

Act(kind, skill, ap, fatigue) ==
    [kind |-> kind, skill |-> skill, ap |-> ap, fatigue |-> fatigue, ammo |-> 0,
     target |-> "foe", targetKind |-> IF skill = "actives.chop" THEN "ACTOR" ELSE "SELF",
     hit |-> 0, path |-> <<>>, reactions |-> <<>>, item |-> NoContent, slot |-> "none",
     from |-> "none", displaced |-> NoContent, to |-> "none", extended |-> FALSE,
     stage |-> "PREVIEW_RESOLVED", authority |-> "GAME"]
Chop(target, hit) == [Act("USE_SKILL", "actives.chop", 4, 5) EXCEPT !.target = target, !.hit = hit]
By(r, hit) == [by |-> r, skill |-> "actives.chop", hit |-> hit,
               stage |-> "PREVIEW_RESOLVED", authority |-> "GAME"]
Go(tile0, reactions) ==
    [Act("MOVE_TO", NoContent, 2, 4) EXCEPT !.path = <<tile0>>, !.reactions = reactions]
Wait == Act("WAIT", NoContent, 0, 0)
End == Act("END_TURN", NoContent, 0, 0)
Rest == Act("USE_SKILL", "actives.recover", 9, 0)
Load == [Act("USE_SKILL", "actives.reload_bolt", 4, 6) EXCEPT !.ammo = 1]
Take == [Act("EQUIP_ITEM", NoContent, 4, 0) EXCEPT !.item = "weapon.hand_axe",
            !.slot = "mainhand", !.from = "bag"]

MCActor == [hp |-> 6, head |-> 0, body |-> 8, ap |-> 9, fatigue |-> 7, capacity |-> 20,
            waited |-> FALSE, mayWait |-> TRUE, plain |-> TRUE, slots |-> Axe("mainhand")]
Unarmed == [MCActor EXCEPT !.slots = <<>>]
Expect == [status |-> OK, top1 |-> {}, forbidden |-> {}, above |-> {}, allow |-> FALSE,
           gated |-> TRUE]

\* The foes are at hand, or one with a distribution is, or the guards are; the
\* second guard is never seen at first.
Foes == [foe |-> {"e"}, foe2 |-> {"sw"}, far |-> {"ee"}, guard |-> {"x2"}, guard2 |-> {},
         mate |-> {"x1"}]
Guards == [foe |-> {"x1"}, foe2 |-> {"x2"}, far |-> {"ee"}, guard |-> {"e"}, guard2 |-> {},
           mate |-> {"sw"}]
Exact == [foe |-> {5}, foe2 |-> {5}, far |-> {8}, guard |-> {7}, guard2 |-> {7}, mate |-> {7}]
Plain == [actor |-> MCActor, known |-> Foes, hp |-> Exact, expect |-> Expect, offer |-> <<>>]

\* Two foes of hidden hit points
Fight == [Plain EXCEPT !.hp = [Exact EXCEPT !.foe = {2, 9}, !.foe2 = {5, 9}],
            !.expect = [Expect EXCEPT !.forbidden = {2}, !.above = {<<3, 4>>}],
            !.offer = <<Chop("foe", 7), Go("w", <<>>), Wait, End, Chop("foe2", 7)>>]
\* Hit points that are a distribution, a bolt to spend
Gamble == [Plain EXCEPT !.known.far = {"e"}, !.known.foe = {"ee"}, !.hp.far = {3, 8},
             !.expect.allow = TRUE, !.offer = <<Chop("far", 10), Wait, Load, Rest>>]
\* Empty-handed, past one reactor or two in turn
Slip == [Plain EXCEPT !.actor = Unarmed, !.known = Guards,
           !.offer = <<Go("w", <<By("guard", 6), By("guard2", 10)>>),
                       Go("w", <<By("guard", 1)>>), Wait, Rest, End>>]
\* An axe to take in hand
Gear == [Plain EXCEPT !.actor.slots = Axe("bag"), !.offer = <<Take, Wait, Load, Rest, Go("w", <<>>)>>]
\* What is covered and cannot be judged: the armed one is struck at, an axe in the
\* bag strikes, a reaction is of another kind.
Unjudged ==
    LET no == [Plain EXCEPT !.known = Guards, !.expect.status = Unsupported]
    IN { [no EXCEPT !.offer = <<Wait, Go("w", <<By("guard", 6)>>)>>],
         [no EXCEPT !.actor.slots = Axe("bag"), !.known = Foes, !.offer = <<Chop("foe", 7)>>],
         [no EXCEPT !.actor = Unarmed,
                    !.offer = <<Go("w", <<[By("guard", 6) EXCEPT !.skill = NoContent]>>)>>] }
\* An action no family covers, and one that cannot be paid
Odd == [Plain EXCEPT !.expect.status = Unsupported,
          !.offer = <<Wait, [Act("USE_SKILL", "actives.stun", 4, 5) EXCEPT !.targetKind = "ACTOR"]>>]
Tired == [Plain EXCEPT !.actor.fatigue = 19, !.expect.status = Invalid, !.expect.gated = FALSE,
            !.offer = <<Wait, End, Load>>]
Nothing0 == [Plain EXCEPT !.expect.status = Invalid]
MCFixtures == {Fight, Gamble, Slip, Gear, Odd, Tired, Nothing0} \cup Unjudged

MCProfile ==
    [weight |-> [enemy_effect |-> 25, immediate_friendly_harm |-> 25, post_action_exposure |-> 16,
                 position_control_protection |-> 16, resource_future_capacity |-> 13, tempo |-> 7],
     tail |-> 50, uncertainty |-> 1, margin |-> 42000, life |-> 1, deathCap |-> Unit]
MCEngine == [version |-> 1, profile |-> MCProfile, components |-> Component,
             supported |-> MCFamily \ {"special"}]
\* The same engine without a word about tempo, said to be new or not; a careful
\* one; and one that lost the attacks of opportunity.
Careful == [MCProfile EXCEPT !.deathCap = 0, !.margin = 100000, !.tail = 10]
MCEngines == { MCEngine,
               [MCEngine EXCEPT !.components = Component \ {"tempo"}],
               [MCEngine EXCEPT !.version = 2, !.components = Component \ {"tempo"}],
               [MCEngine EXCEPT !.version = 2, !.profile = Careful],
               [MCEngine EXCEPT !.supported = MCFamily \ {"special", "aoo"}] }
=============================================================================
