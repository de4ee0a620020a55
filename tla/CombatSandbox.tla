---------------------------- MODULE CombatSandbox ----------------------------
(***************************************************************************)
(* The staged forensic snapshot of a READY generation                      *)
(* (runtime_combat_sandbox*.nut with DEBUG_ORACLE enabled) and the         *)
(* extractor that rebuilds it from the log (bb_agent/combat_sandbox.py).   *)
(*                                                                         *)
(* begin stages a job queue, pump processes one job per update: first the  *)
(* oracle records, some of them discovered on the way, then, once those    *)
(* are drained, the deferred player-legal build and its records, then the  *)
(* manifest that lists what has to be there.  The modules that wrap begin, *)
(* pump, _processJob and _enqueueManifestJobs are modelled as loaded, the  *)
(* outermost wrapper first.                                                *)
(*                                                                         *)
(* A record is one chunk: a chunk is emitted whole or not at all, and the  *)
(* extractor refuses a log in which one chunk occurs twice.                *)
(***************************************************************************)
EXTENDS Integers, SequencesExt

CONSTANTS Sources,      \* values of the tactical source signature
          None,
          Oracle,       \* discovered oracle records 1..Oracle, besides record 0
          Legal,        \* player-legal records 0..Legal; record 0 is the meta
          ShardSize,    \* ManifestShardSize
          Faults,       \* which failures occur
          MaxBattles,   \* bound on battles begun
          MaxStaged,    \* bound on generations that become READY
          MaxJobs       \* commands are not blocked again with a longer queue

FaultKinds == {"job", "discovery", "transport", "build", "runtime"}

ASSUME SandboxFaults == Faults \subseteq FaultKinds
ASSUME SandboxSizes == /\ Oracle \in Nat /\ Legal \in Nat /\ ShardSize \in Nat \ {0}
                       /\ MaxBattles \in Nat \ {0} /\ MaxStaged \in Nat /\ MaxJobs \in Nat
                       /\ None \notin Sources

VARIABLES source,        \* what _sourceSignature would answer
          commandReady,  \* what _commandReadiness would answer
          cap,           \* the capture substrate's State
          sb,            \* sandbox.State, or None
          lastKey,       \* LastSnapshotKey
          emitted,       \* records in the log
          duplicated,    \* some record is in the log twice
          status,        \* the last diagnostic line of the sandbox
          staged,        \* history: keys that were staged
          disturbed      \* history: begin came upon work of its own generation

env == <<source, commandReady>>
output == <<emitted, duplicated>>
vars == <<source, commandReady, cap, sb, lastKey, emitted, duplicated, status,
          staged, disturbed>>

Root == <<"manifest", 0>>
Shard(i) == <<"manifest_expected", i>>
OracleIds == {"oracle"} \X (0..Oracle)
LegalIds == {"legal"} \X (0..Legal)

Record(id) == [kind |-> "record", id |-> id]
Discover(i) == [kind |-> "discover", id |-> <<"oracle", i>>]
Build == [kind |-> "player_legal_build", id |-> None]

Key(c) == <<c.battle, c.gen>>
Staged(c) == [key |-> Key(c), signature |-> c.signature,
              jobs |-> <<Record(<<"oracle", 0>>), Discover(1)>>, cursor |-> 0,
              expected |-> << <<"oracle", 0>> >>, shards |-> <<>>,
              finalizing |-> FALSE, scheduled |-> FALSE, complete |-> FALSE]

Line(kind, key) == [kind |-> kind, key |-> key]

Init ==
    /\ source \in Sources /\ commandReady = FALSE
    /\ cap = [battle |-> 1, gen |-> -1, isReady |-> FALSE, signature |-> None]
    /\ sb = None /\ lastKey = None
    /\ emitted = {} /\ duplicated = FALSE /\ status = Line("none", None)
    /\ staged = {} /\ disturbed = FALSE

-----------------------------------------------------------------------------
(* observe and begin *)

Opens == commandReady /\ ~(cap.isReady /\ cap.signature = source)

\* Mutant of Observed: a blocked update uses up a generation.
ObservedAdvances ==
    IF ~commandReady THEN [cap EXCEPT !.isReady = FALSE, !.gen = @ + 1]
    ELSE IF cap.signature = source THEN [cap EXCEPT !.isReady = TRUE]
    ELSE [cap EXCEPT !.gen = @ + 1, !.signature = source, !.isReady = TRUE]

Observed ==
    IF ~commandReady THEN [cap EXCEPT !.isReady = FALSE]
    ELSE IF cap.signature = source THEN [cap EXCEPT !.isReady = TRUE]
    ELSE [cap EXCEPT !.gen = @ + 1, !.signature = source, !.isReady = TRUE]

WithinBounds == Observed.gen > cap.gen => Cardinality(staged) < MaxStaged

\* The wrapper of runtime_combat_sandbox_oracle_first moves the build job, done
\* or not, behind all other jobs; the cursor stays where it is.  There is never
\* more than one build job in the queue.
BuildLast(s) ==
    IF Build \notin Range(s.jobs) THEN s
    ELSE LET i == CHOOSE j \in DOMAIN s.jobs : s.jobs[j] = Build
         IN [s EXCEPT !.jobs = Append(RemoveAt(@, i), Build)]

Processed(s) == { s.jobs[i] : i \in 1..s.cursor }

\* begin of generation c: not what is complete or under way already.
Known(s, c) == lastKey = Key(c) \/ (s # None /\ s.key = Key(c))

\* Mutant of Begun: every READY stages a snapshot.
BegunAnew(s, c) == Staged(c)

Begun(s, c) ==
    IF ~Known(s, c) THEN Staged(c) ELSE IF s = None THEN s ELSE BuildLast(s)

-----------------------------------------------------------------------------
(* pump *)

Enqueue(s, ids) ==
    [s EXCEPT !.jobs = @ \o [i \in DOMAIN ids |-> Record(ids[i])],
              !.expected = @ \o ids]

ShardCount(s) == (Len(s.expected) + ShardSize - 1) \div ShardSize

\* Mutants of WithManifest: the manifest does not wait for the player-legal
\* build; or waits for a build nobody scheduled.
ManifestAtOnce(s) ==
    LET shards == [i \in 1..ShardCount(s) |-> Shard(i - 1)] IN
    [s EXCEPT !.finalizing = TRUE, !.shards = shards,
              !.jobs = @ \o [i \in DOMAIN shards |-> Record(shards[i])]
                         \o <<Record(Root)>>]

ManifestWaits(s) == [s EXCEPT !.scheduled = TRUE]

\* _enqueueManifestJobs: the first time the queue is drained it releases the
\* player-legal build instead; with the build under way it does nothing.
WithManifest(s) ==
    IF ~s.complete
    THEN IF s.scheduled THEN s
         ELSE [s EXCEPT !.scheduled = TRUE, !.jobs = Append(@, Build)]
    ELSE LET shards == [i \in 1..ShardCount(s) |-> Shard(i - 1)] IN
         [s EXCEPT !.finalizing = TRUE, !.shards = shards,
                   !.jobs = @ \o [i \in DOMAIN shards |-> Record(shards[i])]
                              \o <<Record(Root)>>]

Drained(s) == s.cursor >= Len(s.jobs)

\* The loop of pump goes round for ever when the queue is drained, nothing is
\* finalizing and _enqueueManifestJobs has nothing to add.
Spins(s) == Drained(s) /\ ~s.finalizing /\ WithManifest(s) = s

\* What pump finds to do once a drained queue was refilled.
Refilled(s) == IF Drained(s) /\ ~s.finalizing THEN WithManifest(s) ELSE s

\* What a job writes for record id.
ShardPart(s, i) ==
    SubSeq(s.expected, i * ShardSize + 1,
           IF (i + 1) * ShardSize < Len(s.expected) THEN (i + 1) * ShardSize
                                                    ELSE Len(s.expected))

Body(s, id, ok) ==
    [key |-> s.key, id |-> id, ok |-> ok,
     list |-> CASE ok /\ id = Root -> s.shards
                [] id[1] = "manifest_expected" -> ShardPart(s, id[2])
                [] OTHER -> <<>>,
     count |-> IF id = Root THEN Len(s.expected) ELSE 0]

Emit(body) ==
    /\ emitted' = emitted \cup {body}
    /\ duplicated' = (duplicated \/ \E e \in emitted : e.key = body.key /\ e.id = body.id)

Cancel(s) == sb' = None /\ status' = Line("cancelled", s.key)

LegalSeq == [i \in 1..(Legal + 1) |-> <<"legal", i - 1>>]

\* A job may throw; its error is then written as the record of that job.  Of an
\* observation the extractor takes either; only the manifest's own payload is
\* read again.  The payload of a shard is at hand already.
JobRecord(s, job) ==
    /\ job.kind = "record"
    /\ \E ok \in BOOLEAN :
          /\ ok \/ ("job" \in Faults /\ job.id = Root)
          /\ Emit(Body(s, job.id, ok))
          /\ IF ok /\ job.id = Root
             THEN sb' = None /\ lastKey' = s.key /\ status' = Line("complete", s.key)
             ELSE sb' = s /\ status' = Line("progress", s.key) /\ UNCHANGED lastKey

\* Not even the error can be written.
JobTransportError(s, job) ==
    /\ job.kind = "record" /\ "transport" \in Faults
    /\ Cancel(s) /\ UNCHANGED <<output, lastKey>>

JobDiscover(s, job) ==
    /\ job.kind = "discover"
    /\ \/ /\ sb' = IF job.id \in OracleIds
                   THEN [Enqueue(s, <<job.id>>) EXCEPT
                            !.jobs = Append(@, Discover(job.id[2] + 1))]
                   ELSE s
          /\ status' = Line("progress", s.key)
       \/ /\ "discovery" \in Faults
          /\ Cancel(s)
    /\ UNCHANGED <<output, lastKey>>

\* Mutant of JobBuild: a build that throws is not marked complete.
JobBuildForgets(s, job) ==
    /\ job.kind = "player_legal_build"
    /\ \/ sb' = [Enqueue(s, LegalSeq) EXCEPT !.complete = TRUE]
       \/ "build" \in Faults /\ sb' = Enqueue(s, <<LegalSeq[1]>>)
    /\ status' = Line("progress", s.key)
    /\ UNCHANGED <<output, lastKey>>

\* A build that throws leaves the error as the only player-legal record.
JobBuild(s, job) ==
    /\ job.kind = "player_legal_build"
    /\ \/ sb' = [Enqueue(s, LegalSeq) EXCEPT !.complete = TRUE]
       \/ /\ "build" \in Faults
          /\ sb' = [Enqueue(s, <<LegalSeq[1]>>) EXCEPT !.complete = TRUE]
    /\ status' = Line("progress", s.key)
    /\ UNCHANGED <<output, lastKey>>

Process(s) ==
    LET job == s.jobs[s.cursor + 1]
        after == [s EXCEPT !.cursor = @ + 1]
    IN JobRecord(after, job) \/ JobTransportError(after, job)
       \/ JobDiscover(after, job) \/ JobBuild(after, job)

Idle(s) ==
    /\ sb' = s
    /\ status' = IF s # None /\ sb = None THEN Line("staged", s.key) ELSE status
    /\ UNCHANGED <<output, lastKey>>

\* Mutant of Pump: jobs run while commands are blocked.
PumpAlways(s, c) ==
    IF s = None THEN Idle(s)
    ELSE IF s.key # Key(c) \/ s.signature # c.signature
    THEN Cancel(s) /\ UNCHANGED <<output, lastKey>>
    ELSE IF Drained(Refilled(s)) THEN Idle(s)
    ELSE Process(Refilled(s))

\* pump on sandbox state s, with the capture state c that observe left.
Pump(s, c) ==
    IF s = None THEN Idle(s)
    ELSE IF s.key # Key(c) THEN Cancel(s) /\ UNCHANGED <<output, lastKey>>
    ELSE IF ~commandReady THEN Idle(s)
    ELSE IF s.signature # c.signature THEN Cancel(s) /\ UNCHANGED <<output, lastKey>>
    ELSE IF Drained(Refilled(s)) THEN Idle(s)
    ELSE Process(Refilled(s))

-----------------------------------------------------------------------------
(* The tactical-state hook and the game *)

\* onUpdate: observe, begin on a READY event, pump.
OnUpdate ==
    /\ WithinBounds
    /\ cap' = Observed
    /\ IF Opens
       THEN /\ staged' = staged \cup {Key(Observed)}
            /\ disturbed' =
                 \/ disturbed
                 \/ (~Known(sb, Observed) /\ Key(Observed) \in staged)
                 \/ (sb # None /\ sb.key = Key(Observed) /\ Build \in Processed(sb))
            /\ Pump(Begun(sb, Observed), Observed)
       ELSE UNCHANGED <<staged, disturbed>> /\ Pump(sb, Observed)
    /\ UNCHANGED env

\* onUpdate with an incompatible runtime, onBattleEnded and onFinish.
Abandon ==
    /\ "runtime" \in Faults
    /\ sb # None
    /\ Cancel(sb)
    /\ cap' = [cap EXCEPT !.isReady = FALSE]
    /\ UNCHANGED <<env, lastKey, output, staged, disturbed>>

\* onInit of the next battle.
NextBattle ==
    /\ cap.battle < MaxBattles
    /\ IF sb = None THEN UNCHANGED <<sb, status>> ELSE Cancel(sb)
    /\ cap' = [battle |-> cap.battle + 1, gen |-> -1, isReady |-> FALSE, signature |-> None]
    /\ UNCHANGED <<env, lastKey, output, staged, disturbed>>

\* Every READY regained after the build makes the queue longer: see MaxJobs.
ToggleReadiness ==
    /\ commandReady' = ~commandReady
    /\ commandReady /\ sb # None => Len(sb.jobs) <= MaxJobs
    /\ UNCHANGED <<source, cap, sb, lastKey, output, status, staged, disturbed>>

ChangeSource ==
    /\ \E s \in Sources \ {source} : source' = s
    /\ UNCHANGED <<commandReady, cap, sb, lastKey, output, status, staged, disturbed>>

Next == OnUpdate \/ Abandon \/ NextBattle \/ ToggleReadiness \/ ChangeSource

Spec == Init /\ [][Next]_vars

\* The game updates the tactical state every frame.
FairSpec == Spec /\ WF_vars(OnUpdate)

-----------------------------------------------------------------------------
(* extract_latest_combat_sandbox *)

RecordsOf(k) == { e \in emitted : e.key = k }
Ids(S) == { e.id : e \in S }
Of(k, id) == CHOOSE e \in RecordsOf(k) : e.id = id

Join(list, more) == list \o more

\* What the shards of k list, one after another.
Listed(k, shards) == FoldLeft(Join, <<>>, [i \in DOMAIN shards |-> Of(k, shards[i]).list])

\* The manifest of k, its shards and every record they name are in the log.
Assembles(k) ==
    /\ Root \in Ids(RecordsOf(k)) /\ Of(k, Root).ok
    /\ LET root == Of(k, Root)
           shards == root.list
       IN /\ \A i \in DOMAIN shards :
                shards[i] \in Ids(RecordsOf(k)) /\ Of(k, shards[i]).ok
          /\ Len(Listed(k, shards)) = root.count
          /\ IsInjective(Listed(k, shards))
          /\ \A id \in Range(Listed(k, shards)) : id \in Ids(RecordsOf(k))

After(j, k) == j[1] > k[1] \/ (j[1] = k[1] /\ j[2] > k[2])

Complete == { k \in { e.key : e \in emitted } : Assembles(k) }

\* The newest generation that assembles; one doubled chunk refuses the log.
Extracted ==
    IF duplicated \/ Complete = {} THEN None
    ELSE CHOOSE k \in Complete : \A j \in Complete : j = k \/ After(k, j)

-----------------------------------------------------------------------------
(* Properties *)

Keys == (1..MaxBattles) \X (0..MaxStaged)
AllIds == OracleIds \cup LegalIds \cup {Root} \cup {Shard(i) : i \in 0..(Oracle + Legal + 2)}

\* Every variable has its type.
TypeOK ==
    /\ source \in Sources /\ commandReady \in BOOLEAN
    /\ cap \in [battle: 1..MaxBattles, gen: -1..MaxStaged, isReady: BOOLEAN,
                signature: Sources \cup {None}]
    /\ sb # None => /\ sb.key \in Keys /\ sb.signature \in Sources
                    /\ sb.cursor \in 0..Len(sb.jobs)
    /\ lastKey \in Keys \cup {None}
    /\ \A e \in emitted : e.key \in Keys /\ e.id[1] \in {"oracle", "legal", "manifest", "manifest_expected"}
    /\ duplicated \in BOOLEAN /\ disturbed \in BOOLEAN
    /\ status.kind \in {"none", "staged", "progress", "cancelled", "complete"}
    /\ staged \subseteq Keys

\* The extractor never hands out a partial snapshot: what it assembles holds
\* every oracle record of its generation and the player-legal meta record,
\* whatever failed, was cancelled, restaged or reordered on the way
\* ("rejects incomplete captures", docs/COMBAT_SANDBOX.md:136).
SnapshotIsWhole ==
    Extracted # None =>
        OracleIds \cup {LegalSeq[1]} \subseteq Ids(RecordsOf(Extracted))

\* Every record was written while commands were accepted on the very source
\* its generation was staged for: a snapshot never mixes two states of the
\* battlefield (docs/COMBAT_SANDBOX.md:21).
RecordsDescribeTheirGeneration ==
    [][ \A e \in emitted' \ emitted :
          /\ commandReady /\ e.key = Key(cap')
          /\ source = cap'.signature ]_vars

\* pump's loop always ends: it never goes round without a job to process,
\* which would freeze the game.
PumpNeverSpins == sb # None => ~Spins(sb)

\* When the sandbox reports a complete snapshot, the extractor delivers that
\* snapshot.
ReportedSnapshotIsExtracted ==
    status.kind = "complete" => Extracted = status.key

\* It does so as long as READY was not emitted again for a generation whose
\* player-legal build was done, or that had been cancelled.
UndisturbedSnapshotIsExtracted == ~disturbed => ReportedSnapshotIsExtracted

\* On a decision that stays open on one source the snapshot comes to an end,
\* unless begin disturbed it: its manifest is written or it is reported
\* cancelled, and stays so ("the user stops at a stable player decision while
\* capture completes", docs/COMBAT_SANDBOX.md:27).
SteadySnapshotEnds ==
    \A s \in Sources :
        <>[](commandReady /\ source = s /\ WithinBounds /\ ~disturbed) =>
            <>[](\/ Root \in Ids(RecordsOf(Key(cap)))
                \/ status = Line("cancelled", Key(cap)))
=============================================================================
