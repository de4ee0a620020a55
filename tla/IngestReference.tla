--------------------------- MODULE IngestReference ---------------------------
(***************************************************************************)
(* What the receiver promises, said of the whole history of frames at once *)
(* and without a machine: ReferenceAdvice names the READY record, if any,  *)
(* a user may be advised from after a given sequence of frames.            *)
(* docs/LIVE_INGEST.md states these rules in prose; the incremental        *)
(* machine has to compute the same answer from seven fields.               *)
(***************************************************************************)
EXTENDS LiveIngest, Sequences, FiniteSets

CONSTANTS Malformed,   \* a frame that does not decode
          Untold,      \* a history too long to be kept
          MaxFrames,   \* bound on the histories of the first stream
          MaxLater     \* bound on the histories of the others, and without one

ASSUME MalformedAssumption == Malformed \notin LiveRecord

VARIABLE history       \* the frames since the last STREAM_START, itself included

IsStart(f) == f # Malformed /\ f.type = "STREAM_START"

Kept == IF minted = 1 /\ history # <<>> /\ IsStart(history[1])
        THEN MaxFrames ELSE MaxLater

\* The receiver goes on past the bound; only the comparison ends there.
Note(f) == history' = IF history = Untold THEN Untold
                      ELSE IF Len(history) < Kept THEN Append(history, f)
                      ELSE Untold

HInit == Init /\ history = <<>>

\* Frames before a STREAM_START have no say after it, so the history drops them;
\* a lost log leaves no history, and a restart the one there was.
HNext ==
    \/ \E r \in Inbox : ReceiveStart(r) /\ history' = <<r>>
    \/ \E r \in Inbox : ReceiveReady(r) /\ Note(r)
    \/ \E r \in Inbox : ReceiveInvalidated(r) /\ Note(r)
    \/ ReceiveMalformed /\ Note(Malformed)
    \/ Discontinuity /\ history' = <<>>
    \/ Restart /\ UNCHANGED history

HSpec == HInit /\ [][HNext]_<<vars, history>>

-----------------------------------------------------------------------------
(* The reference definition *)

Latest(S) == CHOOSE i \in S : \A j \in S : j <= i
Earliest(S) == CHOOSE i \in S : \A j \in S : i <= j

Starts(h) == { i \in DOMAIN h : IsStart(h[i]) }

\* The open stream begins at the last STREAM_START, if that one was compatible.
StreamOpen(h) == Starts(h) # {} /\ ~CompatibilityProblem(h[Latest(Starts(h))])

Body(h) == { i \in DOMAIN h : i > Latest(Starts(h)) }

Decision(h, i) == h[i] # Malformed /\ ~CompatibilityProblem(h[i])

Decisive(h) == { i \in Body(h) : Decision(h, i) }

\* The positions that speak of the newest generation the stream mentions.
OfNewest(h) ==
    { i \in Decisive(h) : \A j \in Decisive(h) :
          ~KeyLess(h[i].battle, h[i].gen, h[j].battle, h[j].gen) }

SameContent(r, s) == r.fp = s.fp /\ r.payload = s.payload

\* The newest generation was first named by a READY, every later READY of it
\* repeats that one, and since the last of them nothing has withdrawn it: no
\* INVALIDATED of that generation, no malformed frame, no incompatible record.
ReferenceAdvice(h) ==
    IF ~StreamOpen(h) \/ Decisive(h) = {} THEN None
    ELSE LET newest == OfNewest(h)
             first == Earliest(newest)
             ready == { i \in newest : h[i].type = ReadyType }
             after == { i \in Body(h) : \A j \in ready : i > j }
         IN IF /\ h[first].type = ReadyType
               /\ \A i \in ready : SameContent(h[i], h[first])
               /\ \A i \in after : Decision(h, i) /\ i \notin newest
            THEN [battle |-> h[first].battle, gen |-> h[first].gen,
                  fp |-> h[first].fp, payload |-> h[first].payload]
            ELSE None

Advised ==
    IF machine.decision = None THEN None
    ELSE LET r == machine.decision.record IN
         [battle |-> r.battle, gen |-> r.gen, fp |-> r.fp, payload |-> r.payload]

\* After any sequence of frames, restarts among them, current_decision is exactly what the rules of
\* docs/LIVE_INGEST.md give for that sequence: nothing more (no stale,
\* poisoned or withdrawn advice) and nothing less (late records of older
\* generations, duplicates and re-emissions lose nothing).
AdviceMatchesHistory == history # Untold => Advised = ReferenceAdvice(history)
=============================================================================
