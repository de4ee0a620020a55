--------------------------- MODULE MCCombatSandbox ---------------------------
(* Two generations; two oracle records, two player-legal records, shards of *)
(* two.                                                                     *)
EXTENDS CombatSandbox
=============================================================================
