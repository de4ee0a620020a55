---------------------------- MODULE LivePipeline ----------------------------
(***************************************************************************)
(* Producer and receiver together: the companion mod of Capture writes the *)
(* game log, the host reads it frame by frame into the machine of          *)
(* IngestMachine.  Frames keep their order; a frame may be corrupted; when *)
(* the game is restarted the log is replaced, and the tailer, once it      *)
(* notices, clears the machine and moves to the end of the new log.        *)
(***************************************************************************)
EXTENDS Capture

CONSTANT Corruption   \* may a frame be read as malformed

ASSUME CorruptionAssumption == Corruption \in BOOLEAN

VARIABLES machine,   \* the receiver's LiveIngestMachine
          lost,      \* the log was replaced and the tailer has not noticed
          missed     \* history: a frame of the present stream was not heard

pvars == <<vars, machine, lost, missed>>
receiver == <<machine, lost, missed>>

PInit == Init /\ machine = EmptyState /\ lost = FALSE /\ missed = FALSE

-----------------------------------------------------------------------------

\* poll: the next frame decodes and is accepted.
PollFrame ==
    /\ ~lost
    /\ ReaderTakes
    /\ machine' = Accept(machine, Head(log), 1)
    /\ missed' = (missed /\ Head(log).type # "STREAM_START")
    /\ UNCHANGED lost

\* Mutant of PollCorrupt: the malformed frame is skipped.
PollCorruptSkips ==
    /\ ~lost /\ Corruption
    /\ ReaderTakes
    /\ missed' = TRUE
    /\ UNCHANGED <<machine, lost>>

\* poll: the next frame does not decode; readiness is cleared.
PollCorrupt ==
    /\ ~lost /\ Corruption
    /\ ReaderTakes
    /\ machine' = ClearReadiness(machine)
    /\ missed' = TRUE
    /\ UNCHANGED lost

\* Mutant of PollDiscontinuity: the machine survives the old log.
PollDiscontinuityKeepsMachine ==
    /\ lost
    /\ lost' = FALSE
    /\ missed' = (log # <<>>)
    /\ log' = <<>>
    /\ UNCHANGED <<machine, game, compatible, unmet, cap, streamStarted, history>>

\* poll: identity, size or anchor of the file do not fit the cursor.  What the
\* new log already holds is skipped, its STREAM_START included.
PollDiscontinuity ==
    /\ lost
    /\ lost' = FALSE
    /\ machine' = EmptyState
    /\ missed' = (log # <<>>)
    /\ log' = <<>>
    /\ UNCHANGED <<game, compatible, unmet, cap, streamStarted, history>>

PollRound == PollFrame \/ PollDiscontinuity

NewGame == GameRestart /\ lost' = TRUE /\ UNCHANGED <<machine, missed>>

PNext ==
    \/ (OnInit \/ OnUpdate \/ OnBattleEnded \/ OnFinish) /\ UNCHANGED receiver
    \/ (ConfigureProvenance \/ Environment) /\ UNCHANGED receiver
    \/ NewGame
    \/ PollFrame \/ PollCorrupt \/ PollDiscontinuity

PSpec == PInit /\ [][PNext]_pvars

\* The game calls the tactical state's onUpdate every frame, and the host
\* polls for as long as it watches.
Fairness ==
    /\ WF_pvars(OnUpdate /\ UNCHANGED receiver)
    /\ WF_pvars(PollRound)

FairSpec == PSpec /\ Fairness

-----------------------------------------------------------------------------
(* Properties *)

Promised ==
    IF cap.isReady
    THEN [battle |-> cap.battle, gen |-> cap.gen, source |-> cap.lastReadySignature]
    ELSE None

Shown == IF machine.decision = None THEN None ELSE Claim(machine.decision.record)

CaughtUp == ~lost /\ log = <<>>

\* Once the reader has read everything, the user is advised on nothing but the
\* decision the game stands by at that moment: no frame that was corrupted,
\* skipped, repeated or withdrawn leaves older advice behind.
CaughtUpAdviceIsCurrent == CaughtUp /\ Shown # None => Shown = Promised

\* Nothing is withheld either: a reader that has heard the whole stream shows
\* every decision the game stands by, after any sequence of invalidations,
\* re-emissions, failed exports and battles.
CaughtUpAdviceIsComplete == CaughtUp /\ ~missed => Shown = Promised

\* Both at once: a reader that has caught up shows exactly what the game stands
\* by, or nothing when it could not hear all of the stream.
CaughtUpAdviceIsExact == CaughtUpAdviceIsCurrent /\ CaughtUpAdviceIsComplete

\* The pipeline implements the abstract channel.
Channel == INSTANCE AdviceChannel WITH
    Numbers <- 0..(MaxBattles + MaxGen), Contents <- Sources, promised <- Promised, made <- claims,
    shown <- Shown, orphaned <- lost

ImplementsChannel == Channel!Spec

\* Advice the game no longer stands by is eventually taken down.
WithdrawnAdviceGoes ==
    (Shown # None /\ Shown # Promised) ~> (Shown = None \/ Shown = Promised)

Steady(s) ==
    /\ phase = "battle" /\ commandReady /\ source = s
    /\ streamStarted /\ ~missed
    /\ Advanced.gen <= MaxGen

\* A decision that stays open on an unchanged source is eventually, and then
\* for good, what the user is advised on, unless exporting exactly that source
\* failed and was latched.
SteadyDecisionIsAdvised ==
    \A s \in Sources :
        <>[]Steady(s) =>
            <>[]((Shown # None /\ Shown.source = s) \/ cap.failedReadySignature = s)
=============================================================================
