---------------------------- MODULE MCLiveIngest ----------------------------
(* One generation in each of two battles: contradictions of fingerprint and of     *)
(* payload for the first, debug and incompatible records.                          *)
EXTENDS IngestReference

CONSTANTS f1, f2, p1, p2

MCReady(b, g, f, p, profile) ==
    [type |-> ReadyType, compatible |-> TRUE, battle |-> b, gen |-> g,
     fp |-> f, profile |-> profile, payload |-> p]
MCInvalidated(b, g, c) ==
    [type |-> InvalidatedType, compatible |-> c, battle |-> b, gen |-> g]

MCInbox ==
    StartRecord
    \cup { MCReady(0, 1, x[1], x[2], "player_legal") :
              x \in {<<f1, p1>>, <<f1, p2>>, <<f2, p1>>} }
    \cup { MCReady(1, 0, f1, p1, "player_legal"), MCReady(0, 1, f1, p1, "omniscient_debug"),
           MCInvalidated(0, 1, TRUE), MCInvalidated(1, 0, TRUE), MCInvalidated(0, 1, FALSE) }
=============================================================================
