---------------------------- MODULE AdviceChannel ----------------------------
(***************************************************************************)
(* What the live path promises, without frames, files or receivers: the    *)
(* game process promises a decision and may retract it; the user is shown  *)
(* promises of the running process only, one generation one content, never *)
(* stepping back to an older one while advice is on display.  When the     *)
(* game restarts, what is on display is orphaned; nothing new is shown     *)
(* before it has been taken down.                                          *)
(***************************************************************************)
EXTENDS Integers

CONSTANTS Numbers,    \* battle and generation numbers
          Contents,   \* what a decision can be about
          None

VARIABLES promised,   \* the decision the game stands by, or None
          made,       \* every promise of the running game process
          shown,      \* the decision the user is advised on, or None
          orphaned    \* the game restarted since the display was synchronised

vars == <<promised, made, shown, orphaned>>

Promises == [battle: Numbers, gen: Numbers, source: Contents]

Older(c, d) == c.battle < d.battle \/ (c.battle = d.battle /\ c.gen < d.gen)

Init == promised = None /\ made = {} /\ shown = None /\ orphaned = FALSE

\* A promise is newer than all before it, or one of them repeated.
Promise(c) ==
    /\ c \in made \/ \A d \in made : Older(d, c)
    /\ promised' = c
    /\ made' = made \cup {c}
    /\ UNCHANGED <<shown, orphaned>>

Retract == promised' = None /\ UNCHANGED <<made, shown, orphaned>>

Show(c) ==
    /\ ~orphaned
    /\ c \in made
    /\ shown # None => ~Older(c, shown)
    /\ shown' = c
    /\ UNCHANGED <<promised, made, orphaned>>

Hide == shown' = None /\ UNCHANGED <<promised, made, orphaned>>

Restart ==
    /\ promised' = None /\ made' = {} /\ orphaned' = TRUE
    /\ UNCHANGED shown

Resynchronise ==
    /\ orphaned' = FALSE /\ shown' = None
    /\ UNCHANGED <<promised, made>>

Next == \/ \E c \in Promises : Promise(c)
        \/ Retract
        \/ \E c \in made : Show(c)
        \/ Hide \/ Restart \/ Resynchronise

Spec == Init /\ [][Next]_vars
=============================================================================
