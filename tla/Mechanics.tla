------------------------------ MODULE Mechanics ------------------------------
(***************************************************************************)
(* What the rules engine claims to know (mechanics.py): the catalog maps    *)
(* each content to a family, the manifest says which families are          *)
(* supported and which others they need, and a legal action is covered     *)
(* only when everything it needs is.  Every number of an action carries    *)
(* the stages it has been through: no stage is applied to it twice.        *)
(***************************************************************************)
EXTENDS Naturals, Sequences, FiniteSets

CONSTANTS Family,     \* the declared families
          Content,    \* [content -> [category, family, slot]]: the catalog
          Requires,   \* [Family -> SUBSET Family]
          KindsOf     \* [Family -> the action kinds it declares]

NoContent == "none"

\* The families no manifest may leave out.
Mandatory == {"ordinary_attack", "move", "aoo", "wait", "end_turn", "equip",
              "recover", "reload"}

\* The families a family needs, itself included (require, in _classify_action).
\* The loader has refused cycles.
Needs[f \in Family] == {f} \cup UNION { Needs[g] : g \in Requires[f] }

\* load_manifest: complete, closed and without cycles; a move needs the attacks
\* of opportunity it may provoke.  Walk(n) is what n steps of Requires reach.
Walk(f) ==
    LET reach[n \in 0..Cardinality(Family)] ==
            IF n = 0 THEN {f} ELSE UNION { Requires[g] : g \in reach[n - 1] }
    IN reach
ManifestLoads ==
    /\ Mandatory \subseteq Family
    /\ Requires \in [Family -> SUBSET Family]
    /\ \A f \in Family : Walk(f)[Cardinality(Family)] = {}
    /\ "aoo" \in Requires["move"]
    /\ \A c \in DOMAIN Content : Content[c].family \in Family
    /\ KindsOf \in [Family -> SUBSET {"MOVE_TO", "USE_SKILL", "EQUIP_ITEM", "WAIT", "END_TURN"}]

ASSUME ManifestAssumption == ManifestLoads

-----------------------------------------------------------------------------
(* Coverage of one action; supported is the manifest's set of families *)

ContentOf(action) == IF action.kind = "EQUIP_ITEM" THEN action.item ELSE action.skill

Category(action) == IF action.kind = "EQUIP_ITEM" THEN "item" ELSE "skill"
Mapped(action) == /\ ContentOf(action) \in DOMAIN Content
                  /\ Content[ContentOf(action)].category = Category(action)

\* The family of the content where it is mapped, else the kind's own, if any.
FamilyOf(action) ==
    IF Mapped(action) THEN {Content[ContentOf(action)].family}
    ELSE CASE action.kind = "MOVE_TO" -> {"move"}
           [] action.kind = "WAIT" -> {"wait"}
           [] action.kind = "END_TURN" -> {"end_turn"}
           [] action.kind = "EQUIP_ITEM" -> {"equip"}
           [] OTHER -> {}

\* The shapes no family declares.
Misfits(action) ==
    LET families == FamilyOf(action)
    IN { p \in {"content"} : ~Mapped(action) /\ (\/ ContentOf(action) # NoContent
                                                 \/ action.kind = "EQUIP_ITEM") }
       \cup { p \in {"family"} : families = {} }
       \cup { p \in {"kind"} : \E f \in families : action.kind \notin KindsOf[f] }
       \cup { p \in {"target"} : \/ /\ "ordinary_attack" \in families
                                    /\ action.targetKind # "ACTOR"
                                 \/ /\ families \cap {"recover", "reload"} # {}
                                    /\ action.targetKind # "SELF" }
       \cup { p \in {"slot"} : /\ action.kind = "EQUIP_ITEM" /\ ContentOf(action) \in DOMAIN Content
                               /\ action.slot # Content[ContentOf(action)].slot }
       \cup { p \in {"extension"} : action.extended }

\* The families the action needs that the manifest does not support.
Uncovered(action, supported) == (UNION { Needs[f] : f \in FamilyOf(action) }) \ supported

\* _classify_action: the action is covered when this is empty.
Problems(action, supported) == Misfits(action) \cup Uncovered(action, supported)

-----------------------------------------------------------------------------
(* Resolution stages *)

Stages == <<"CURRENT_COST", "CURRENT_HIT_CHANCE", "CURRENT_DAMAGE_PROFILE",
            "TARGET_MITIGATION", "OUTCOME">>
Place(stage) == CHOOSE i \in DOMAIN Stages : Stages[i] = stage

\* A value the game has resolved itself enters at its own stage (from_resolved);
\* truth read from the debug oracle never does.
FromResolved(value, stage) ==
    IF value.stage \in {"PREVIEW_RESOLVED", "SOURCE_RESOLVED"}
          /\ value.authority # "DEBUG_ORACLE"
       THEN {<<stage>>} ELSE {}

\* ResolutionLedger.apply: the ledger with one more stage, or none at all.
ApplyStage(ledger, stage) ==
    IF \A i \in DOMAIN ledger : Place(ledger[i]) < Place(stage)
       THEN {Append(ledger, stage)} ELSE {}
=============================================================================
