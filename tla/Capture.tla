------------------------------- MODULE Capture -------------------------------
(***************************************************************************)
(* The producer: the in-game capture observer, its failed-READY latch, the *)
(* live exporter and the tactical-state hook that drives them              *)
(* (companion_mod/scripts/bb_agent).  The game is the environment: it      *)
(* opens and closes command readiness, changes the tactical source, starts *)
(* and ends battles, and calls the hook.  Every frame the exporter writes  *)
(* is appended to log, from which a reader takes frames in order.          *)
(*                                                                         *)
(* Squirrel runs one frame's update to completion, so an update is one     *)
(* step; what may go wrong inside it (an exception at one of the stages    *)
(* the code catches) is chosen by Faults.                                  *)
(***************************************************************************)
EXTENDS IngestMachine, Sequences

CONSTANTS Sources,      \* values of the tactical source signature
          Faults,       \* which exceptions the environment may raise
          MaxBattles,   \* bound on battles begun
          MaxGen,       \* bound on source_generation within a battle
          MaxInFlight   \* bound on frames written and not yet read

FaultKinds ==
    {"stream_start",   \* STREAM_START cannot be emitted
     "export",         \* projection, affordances or READY emission throws
     "readiness",      \* an exception before observe changes any state
     "acquisition",    \* _acquireRaw throws, or what follows the commit of READY
     "invalidation",   \* an INVALIDATED record cannot be emitted
     "provenance",     \* the runtime probe fails when a battle begins
     "configure"}      \* configureProvenance is called

ASSUME FaultsAssumption == Faults \subseteq FaultKinds
ASSUME SourcesAssumption == None \notin Sources /\ Fingerprints = Sources /\ Payloads = Sources
ASSUME NoneIsNoRecord == None \notin LiveRecord
ASSUME BoundsAssumption == MaxBattles \in Nat /\ MaxGen \in Nat /\ MaxInFlight \in Nat

VARIABLES phase,          \* where the game is in the life of a tactical state
          commandReady,   \* what _commandReadiness would answer
          source,         \* what _sourceSignature would answer
          compatible,     \* State.Provenance.IsCompatible
          unmet,          \* ExpectedProvenance is set and the runtime does not match it
          cap,            \* State and FailedReadySignature of the capture table
          streamStarted,  \* LiveExport.StreamStarted
          log,            \* frames written and not yet read
          claims,         \* history: READY records written, by key
          voided,         \* history: keys INVALIDATED before any READY
          lastWord,       \* history: the last decision record written
          failed          \* history: keys whose READY export failed

game == <<phase, commandReady, source>>
history == <<claims, voided, lastWord, failed>>
exporter == <<streamStarted, log, claims, voided, lastWord, failed>>
vars == <<phase, commandReady, source, compatible, unmet, cap, streamStarted, log,
          claims, voided, lastWord, failed>>

CaptureState ==
    [battle: Nat, gen: Nat \cup {-1}, isReady: BOOLEAN,
     lastReadySignature: Sources \cup {None},
     failedReadySignature: Sources \cup {None}]

\* Mutants of FreshCapture: generations from -2; a battle number used again.
FreshCaptureTooLow(battle) ==
    [battle |-> battle, gen |-> -2, isReady |-> FALSE,
     lastReadySignature |-> None, failedReadySignature |-> None]

FreshCaptureSameBattle(battle) ==
    [battle |-> IF battle = 0 THEN 0 ELSE 1, gen |-> -1, isReady |-> FALSE,
     lastReadySignature |-> None, failedReadySignature |-> None]

FreshCapture(battle) ==
    [battle |-> battle, gen |-> -1, isReady |-> FALSE,
     lastReadySignature |-> None, failedReadySignature |-> None]

Init ==
    /\ phase = "menu" /\ commandReady = FALSE /\ source \in Sources
    /\ compatible = TRUE /\ unmet = FALSE
    /\ cap = FreshCapture(0)
    /\ streamStarted = FALSE
    /\ log = <<>>
    /\ claims = {} /\ voided = {} /\ lastWord = None /\ failed = {}

-----------------------------------------------------------------------------
(* The exporter *)

InvalidatedOf(c) ==
    [type |-> InvalidatedType, compatible |-> compatible,
     battle |-> c.battle, gen |-> c.gen]

ReadyOf(c) ==
    [type |-> ReadyType, compatible |-> compatible, battle |-> c.battle,
     gen |-> c.gen, fp |-> source, profile |-> "player_legal",
     payload |-> source]

Claim(r) == [battle |-> r.battle, gen |-> r.gen, source |-> r.fp]

\* _emit of a READY, after _requireStream.
WriteReady(r) ==
    /\ streamStarted
    /\ log' = Append(log, r)
    /\ claims' = claims \cup {Claim(r)}
    /\ lastWord' = r
    /\ UNCHANGED <<streamStarted, voided, failed>>

\* _emitInvalidated: without a stream, or when the emission throws, nothing is
\* written and handleLifecycleEvent only logs the failure.
WriteInvalidated(r) ==
    \/ /\ streamStarted
       /\ log' = Append(log, r)
       /\ voided' = IF \A c \in claims : <<c.battle, c.gen>> # <<r.battle, r.gen>>
                    THEN voided \cup {<<r.battle, r.gen>>} ELSE voided
       /\ lastWord' = r
       /\ UNCHANGED <<streamStarted, claims>>
    \/ /\ ~streamStarted \/ "invalidation" \in Faults
       /\ UNCHANGED <<streamStarted, log, claims, voided, lastWord>>

-----------------------------------------------------------------------------
(* The observer *)

Withdraw(c) == [c EXCEPT !.isReady = FALSE]

\* invalidate(reason), handed to handleLifecycleEvent; a no-op when not ready.
InvalidateAndExport(c) ==
    IF cap.isReady
    THEN cap' = Withdraw(c) /\ WriteInvalidated(InvalidatedOf(c)) /\ UNCHANGED failed
    ELSE cap' = c /\ UNCHANGED exporter

\* The latch is dropped as soon as another signature is observed.
Rearmed ==
    [cap EXCEPT !.failedReadySignature = IF @ = source THEN @ ELSE None]

\* Mutant of Latched: no failure is remembered.
NeverLatched == FALSE

Latched == cap.failedReadySignature = source

\* Mutant of Advanced: only the first source of a battle counts.
AdvancedOnce ==
    IF cap.lastReadySignature = source THEN Rearmed
    ELSE [Rearmed EXCEPT !.gen = 0, !.lastReadySignature = source]

\* A source that is not the last READY one opens the next generation, and it
\* does so before the raw acquisition that may still fail.
Advanced ==
    IF cap.lastReadySignature = source THEN Rearmed
    ELSE [Rearmed EXCEPT !.gen = @ + 1, !.lastReadySignature = source]

Updating ==
    /\ phase \in {"battle", "ended"}
    /\ Len(log) < MaxInFlight

Observing == Updating /\ compatible /\ UNCHANGED <<game, compatible, unmet>>

ObserveReadiness == phase = "battle" /\ commandReady

\* onUpdate with an incompatible runtime.
UpdateIncompatible ==
    /\ Updating /\ ~compatible
    /\ InvalidateAndExport(cap)
    /\ UNCHANGED <<game, compatible, unmet>>

\* Mutant of ObserveBlocked: readiness is lost without an INVALIDATED.
ObserveBlockedSilently ==
    /\ Observing /\ ~ObserveReadiness
    /\ cap' = Withdraw(cap)
    /\ UNCHANGED exporter

\* observe: commands are not accepted now.
ObserveBlocked ==
    /\ Observing /\ ~ObserveReadiness
    /\ InvalidateAndExport(cap)

\* observe: an exception while reading readiness, fingerprint or signature.
ObserveReadinessError ==
    /\ Observing /\ "readiness" \in Faults
    /\ InvalidateAndExport(cap)

\* observe: the export of exactly this source failed before.
ObserveLatched ==
    /\ Observing /\ ObserveReadiness /\ Latched
    /\ cap' = Withdraw(cap)
    /\ UNCHANGED exporter

\* The frame is a lifecycle event: a new source, or readiness regained.
OpensReady ==
    /\ ObserveReadiness /\ ~Latched
    /\ ~(cap.isReady /\ cap.lastReadySignature = source)
    /\ Advanced.gen <= MaxGen

\* observe: _acquireRaw throws after the generation was advanced, or the event
\* of a READY just committed cannot be built; the latter always invalidates.
ObserveAcquisitionError ==
    /\ Observing /\ OpensReady /\ "acquisition" \in Faults
    /\ \/ InvalidateAndExport(Advanced)
       \/ /\ cap' = Withdraw(Advanced)
          /\ WriteInvalidated(InvalidatedOf(Advanced))
          /\ UNCHANGED failed

\* observe commits READY and the exporter writes it.
ObserveReadyExported ==
    /\ Observing /\ OpensReady
    /\ cap' = [Advanced EXCEPT !.isReady = TRUE]
    /\ WriteReady(ReadyOf(Advanced))

\* observe commits READY, the export throws: the signature is latched and the
\* READY nobody saw is invalidated (capture_fault).
ObserveReadyExportFails ==
    /\ Observing /\ OpensReady
    /\ ~streamStarted \/ "export" \in Faults
    /\ cap' = [Advanced EXCEPT !.isReady = FALSE, !.failedReadySignature = source]
    /\ WriteInvalidated(InvalidatedOf(Advanced))
    /\ failed' = failed \cup {<<cap.battle, Advanced.gen>>}

OnUpdate ==
    \/ UpdateIncompatible \/ ObserveBlocked \/ ObserveReadinessError
    \/ ObserveLatched \/ ObserveAcquisitionError
    \/ ObserveReadyExported \/ ObserveReadyExportFails

-----------------------------------------------------------------------------
(* The rest of the hook *)

\* LiveExport.beginBattle: one STREAM_START per process, retried every battle
\* until it was written.
BeginStream ==
    \/ /\ streamStarted
       /\ UNCHANGED <<streamStarted, log>>
    \/ /\ ~streamStarted
       /\ streamStarted' = TRUE
       /\ log' = Append(log, [type |-> "STREAM_START", compatible |-> compatible'])
    \/ /\ ~streamStarted /\ "stream_start" \in Faults
       /\ UNCHANGED <<streamStarted, log>>

\* _refreshRuntimeProvenance: the expectation stored is held against the runtime
\* every time, and the probe itself may fail.
Probed(mismatch) ==
    IF mismatch THEN {FALSE} ELSE IF "provenance" \in Faults THEN BOOLEAN ELSE {TRUE}

\* onInit: capture reset, provenance probe, stream boundary.
OnInit ==
    /\ phase = "menu"
    /\ cap.battle < MaxBattles /\ Len(log) < MaxInFlight
    /\ phase' = "battle"
    /\ cap' = FreshCapture(cap.battle + 1)
    /\ compatible' \in Probed(unmet)
    /\ BeginStream
    /\ UNCHANGED <<commandReady, source, unmet, history>>

\* onBattleEnded: the tactical state stays and keeps updating until onFinish.
OnBattleEnded ==
    /\ phase = "battle" /\ Len(log) < MaxInFlight
    /\ phase' = "ended"
    /\ InvalidateAndExport(cap)
    /\ UNCHANGED <<commandReady, source, compatible, unmet>>

OnFinish ==
    /\ phase \in {"battle", "ended"} /\ Len(log) < MaxInFlight
    /\ phase' = "menu"
    /\ InvalidateAndExport(cap)
    /\ UNCHANGED <<commandReady, source, compatible, unmet>>

\* configureProvenance: an expectation is stored for good, whether the runtime meets
\* it or not, and probed; a failure invalidates capture at once, but the event is
\* handed to nobody.
ConfigureProvenance ==
    /\ "configure" \in Faults
    /\ unmet' \in BOOLEAN
    /\ compatible' \in Probed(unmet')
    /\ cap' = IF compatible' THEN cap ELSE Withdraw(cap)
    /\ UNCHANGED <<game, exporter>>

-----------------------------------------------------------------------------
(* The environment *)

\* The game opens or closes command readiness (paused, input locked, skill
\* busy, navigator travelling, another actor's turn, ...).
ToggleReadiness ==
    /\ phase = "battle"
    /\ commandReady' = ~commandReady
    /\ UNCHANGED <<phase, source, compatible, unmet, cap, exporter>>

\* The tactical situation changes; it may also change back.
ChangeSource ==
    /\ phase = "battle"
    /\ \E s \in Sources \ {source} : source' = s
    /\ UNCHANGED <<phase, commandReady, compatible, unmet, cap, exporter>>

\* A reader takes the oldest frame of the log.
ReaderTakes ==
    /\ log # <<>>
    /\ log' = Tail(log)
    /\ UNCHANGED <<game, compatible, unmet, cap, streamStarted, history>>

\* The player quits and starts the game again: script state is gone and the
\* game writes a new log.
GameRestart ==
    /\ phase' = "menu" /\ commandReady' = FALSE /\ source' = source
    /\ compatible' = TRUE /\ unmet' = FALSE
    /\ cap' = FreshCapture(0)
    /\ streamStarted' = FALSE
    /\ log' = <<>>
    /\ claims' = {} /\ voided' = {} /\ lastWord' = None /\ failed' = {}

Producer == OnInit \/ OnUpdate \/ OnBattleEnded \/ OnFinish \/ ConfigureProvenance
Environment == ToggleReadiness \/ ChangeSource

Next == Producer \/ Environment \/ GameRestart \/ ReaderTakes

Spec == Init /\ [][Next]_vars

-----------------------------------------------------------------------------
(* Properties *)

Claims == [battle: Nat, gen: Nat, source: Sources]

\* Every variable has its type.
TypeOK ==
    /\ phase \in {"menu", "battle", "ended"}
    /\ commandReady \in BOOLEAN /\ compatible \in BOOLEAN /\ unmet \in BOOLEAN
    /\ source \in Sources
    /\ cap \in CaptureState
    /\ streamStarted \in BOOLEAN
    /\ log \in Seq(LiveRecord)
    /\ claims \subseteq Claims
    /\ voided \subseteq Nat \X Nat
    /\ lastWord \in ReadyRecord \cup InvalidatedRecord \cup {None}
    /\ failed \subseteq Nat \X Nat

\* A generation is READY again only as an exact repetition, and never after it
\* was invalidated before its first READY: the rule the receiver enforces
\* ("Otherwise a strictly newer generation is required", docs/LIVE_INGEST.md:47).
ProducerObeysProtocol ==
    /\ \A c, d \in claims :
          c.battle = d.battle /\ c.gen = d.gen => c.source = d.source
    /\ \A c \in claims : <<c.battle, c.gen>> \notin voided

\* The last decision record written tells whether the producer stands by its
\* advice: READY exactly while capture is ready, with that battle, generation
\* and source, so readiness is never lost without an INVALIDATED
\* (docs/LIVE_CANONICAL_EXPORT.md:183).
LastWordTellsReadiness ==
    IF cap.isReady
    THEN /\ lastWord # None /\ lastWord.type = ReadyType
         /\ lastWord.battle = cap.battle /\ lastWord.gen = cap.gen
         /\ lastWord.fp = cap.lastReadySignature
    ELSE lastWord # None => lastWord.type = InvalidatedType

\* The producer keeps the rule its receiver enforces, and its last record tells
\* where it stands: what the host may rely on.
ProducerIsSound == ProducerObeysProtocol /\ LastWordTellsReadiness

\* Within one game process the records written never name an older generation
\* than a record before them, although observe may return to a source it left
\* and every battle restarts its generations.
KeysNeverGoBack ==
    [][ lastWord # None /\ lastWord' # None =>
          ~KeyLess(lastWord'.battle, lastWord'.gen, lastWord.battle, lastWord.gen)
      ]_vars

\* A generation whose READY export failed is not READY again: an unchanged
\* source is not retried, however readiness comes and goes ("must remain
\* fail-closed for the exact source signature that failed",
\* runtime_ready_failure_latch.nut).
FailedGenerationStaysSilent ==
    cap.isReady => <<cap.battle, cap.gen>> \notin failed
=============================================================================
