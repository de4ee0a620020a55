----------------------------- MODULE MCLogTailer -----------------------------
(* One battle, two generations; every kind of line a log holds.             *)
EXTENDS LogTailer

MCSymmetry == Permutations(FileIds)

MCReady(g) == [type |-> ReadyType, compatible |-> TRUE, battle |-> 1, gen |-> g,
               fp |-> "a", profile |-> "player_legal", payload |-> "a"]
MCInvalidated(g) == [type |-> InvalidatedType, compatible |-> TRUE,
                     battle |-> 1, gen |-> g]

MCDivs == { [type |-> "STREAM_START", compatible |-> TRUE], Noise, Malformed,
            MCReady(0), MCReady(1), MCInvalidated(0) }
=============================================================================
