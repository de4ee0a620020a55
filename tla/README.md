# BB-Agent: verification project

BB-Agent advises a player of Battle Brothers. A companion mod (Squirrel, `companion_mod/`) watches the
running game, decides when the player is at a stable decision, and writes what the player may legally know
to the game's log. A host library (Python, `src/bb_agent/`) tails that log, decides whether a decision can be
trusted, and evaluates the current candidates. This directory holds TLA+ models of the parts whose
correctness depends on ordering, failure, state or incomplete knowledge: the live path from capture to accepted
advice, the staged forensic snapshot, the offline movement graph, and the decision itself, from the coverage of
an offer to the ranking and the gate over its traces.

All line references below are relative to the repository root.

## 1. Inventory

| Part | State it keeps | Operations | Model |
|---|---|---|---|
| Capture observer (`capture_substrate.nut`, `capture_diagnostics.nut`, `runtime_ready_failure_latch.nut`) | battle sequence, source generation, `IsReady`, last READY signature, failed signature, current raw acquisition | `beginBattle`, `observe`, `invalidate`, `endBattle` | `Capture` |
| Runtime provenance (`runtime_provenance.nut`) | `Provenance.IsCompatible`, expectation | `_refreshRuntimeProvenance`, `configureProvenance` | `Capture` |
| Live exporter (`live_export.nut`) | `StreamStarted` | `beginBattle`, `handleLifecycleEvent` | `Capture` |
| Tactical-state hook (`hooks/tactical_state.nut`) | none | `onInit`, `onUpdate`, `onBattleEnded`, `onFinish` | `Capture`, `CombatSandbox` |
| Host receiver (`LiveIngestMachine`) | stream id, newest generation, its identity, last type, current decision | `accept`, two invalidations, persisted form | `IngestMachine`, `LiveIngest`, `IngestReference` |
| Log tailer (`LiveLogTailer`) | cursor, anchor, state file | `poll`, load, persist | `LogTailer` |
| Combat sandbox (`runtime_combat_sandbox*.nut`) | job queue and cursor, expected records, phase flags, `LastSnapshotKey` | `begin`, `pump`, `cancel` | `CombatSandbox` |
| Sandbox extractor (`combat_sandbox.py`) | none | `extract_latest_combat_sandbox` | `CombatSandbox` |
| Movement graph (`movement_graph.py`) | labels per tile, queue | `build_movement_graph` | `MovementGraph` |
| Tactical state (`tactical_state.py`) | immutable: exact, candidate-set or unknown values | construction, identity | `PositionFeatures`, `Decision` |
| Mechanics (`mechanics.py`) | manifest, catalog; ledger of stages | `load_manifest`, `classify`, `apply` | `Mechanics` |
| Outcomes and transitions (`outcomes.py`, `transitions.py`, `candidates.py`) | weighted branches | `evaluate_ordinary_attack`, `evaluate_transition` | `Outcomes` |
| Features (`features.py`) | ranges in three views | `extract_candidate_features`, `..._scenarios` | `PositionFeatures`, `Evaluator` |
| Evaluator (`evaluator.py`) | scores of the candidates so far | `evaluate_decision` | `Evaluator`, `Decision` |
| Traces and validation (`trace.py`, `validation.py`) | accepted traces | `run_decision_trace`, `classify_trace_change` | `Decision` |
| Observation memory, player-legal projection, affordance export, producer movement graph | remembered facts | see section 9 | no |
| Canonical wire, hashing, identities, debug probes, timing extractor, scripts | none | - | not modelled: section 9 |

How the parts interact. The game calls the hook. The hook calls `observe`; an event it returns (READY or
INVALIDATED) goes to `CombatSandbox.begin`/`pump` when DEBUG_ORACLE is enabled, and to
`LiveExport.handleLifecycleEvent` when it is not, never to both. The exporter writes `BBLIVE1` frames, the
sandbox `BBCOMBAT1` chunks, each a text div of `log.html`, the only channel to the host. The tailer turns
appended frames into records, the machine turns records into `current_decision`. Nothing flows back. On the host
`evaluate_decision` takes one immutable state with its offer of actions: the mechanics authority covers the whole
offer or refuses it, outcomes and features measure every candidate, the evaluator scores and ranks them, and a
trace of it is compared with the accepted one when the engine has changed.

What is hard here:

* the hook runs once per frame, but readiness, the source, the battle and the log change between frames in
  any order; sources recur;
* any stage of `observe` or of the export may throw, with half of the stage's assignments done;
* the log is replaced when the game restarts; the tailer opens it several times in one `poll`;
* the receiver may crash between accepting a frame and saving its cursor;
* a snapshot takes hundreds of frames, and five modules wrap its `begin`, `pump` and job functions;
* the movement search expands stale entries, rounds after each step and keeps incomparable labels;
* most of what the evaluator measures is a pair of bounds over what is not known, and what is not known changes
  between decisions; near ties, dominance and hidden-state rankings are orders that are not transitive;
* upgrades are gated pairwise, and a chain of them is longer than any pair.

## 2. Modules

```
IngestMachine ──┬── LiveIngest ─── LiveIngestProofs      (records in any order; proofs)
  (operators)   │               └─ IngestReference       (the same rules over whole histories)
                ├── LogTailer ─── LogTailerProofs        (file, cursor, state file, crashes)
                └── Capture ─┬─ CaptureProofs            (the producer under faults)
                             └─ LivePipeline ─implements─ AdviceChannel
                                     └─ LivePipelineProofs
CombatSandbox ── CombatSandboxProofs                     (snapshot and extractor)
MovementGraph ── MovementGraphProofs                     (search, and an actor that walks it)
PositionFeatures ───────────┐                            (positional facts and their bounds)
Mechanics ── Outcomes ── Evaluator ── Decision ── DecisionProofs
```

`IngestMachineProofs` has the lemmas about the receiver's operators that the proofs above it share.

`IngestReference` extends `LiveIngest`; `Decision` composes the four modules below it.

Each `MC*` module instantiates a specification for TLC; its `.cfg` files give the bounds.

**IngestMachine** has no variables. `Accept(m, r, newId)` is the whole of `LiveIngestMachine.accept`: `Status`
follows its chain of early returns, and `AcceptReady`, `Duplicate`, `Poison`, `Invalidate` and `ClearReadiness`
are its assignments. `ToPersisted`, `Restorable` and `FromPersisted` are the persisted form, the checks of the
strict loader, and the rebuilt machine. Game, ruleset, mod and kernel identities are one Boolean
(`compatible`), and a record of the debug profile is refused unless `AllowDebug`. A digest is an injective constructor.

**LiveIngest** lets any record of `Inbox` arrive at any time, any number of times. `ReceiveMalformed` is the
`except ValueError` of `_read_complete_divs`; `Discontinuity` and `Restart` are the tailer's. `offered`, `heard`
and `voided` are history variables: what the producer ever said.

**IngestReference** extends `LiveIngest` with the history of the frames since the last STREAM_START and with
`ReferenceAdvice`, which states the rules of `docs/LIVE_INGEST.md` over the whole history at once. The receiver
goes on after the history has become too long to be kept; only the comparison ends there.

**Capture** is the mod. One update is one step because Squirrel runs it to completion; `Faults` chooses which
exceptions may occur inside. `Advanced` is the generation step of `observe`, taken before the acquisition that
may throw. `observe` is modelled as `runtime_ready_failure_latch.nut` redefines it: that definition replaces
the ones of `capture_substrate.nut` and `capture_diagnostics.nut`. `ObserveReadyExportFails` contains the whole
chain of the failure: latch, `invalidate("capture_fault")`, INVALIDATED. `OnInit` follows `OnFinish`: the game
finishes a tactical state before it initialises the next. `unmet` is the expectation `configureProvenance` stores, reduced to
whether the runtime fails it; both `OnInit` and `ConfigureProvenance` probe against it (`Probed`). Frames are read from `log` in order (`ReaderTakes`).

**LivePipeline** puts `IngestMachine` behind `Capture`'s log: frames keep their order, may be corrupted
(`Corruption`), and a restarted game replaces the log, which the tailer notices some time later
(`PollDiscontinuity`). **AdviceChannel** is what the live path promises: decisions promised and retracted,
shown in order, nothing of an earlier game process after resynchronisation. `ImplementsChannel` maps the
pipeline to it: `promised` is the decision the game stands by, `made` every READY written, `shown` the
receiver's current decision.

**LogTailer** models `poll` as the steps in which it touches the file: existence and `stat`, anchor, read and
accept, new anchor and save. An offset is twice a number of divs, or odd inside a div, so a line may be half
written. The anchor is the content before the offset; lines that are not frames carry a time and differ between
sessions. Identities may be reused and files rewritten in place.

**CombatSandbox** has the job queue with its cursor, the loaded stack of `begin` wrappers (`Staged`, `BuildLast`),
the two-phase end of the queue (`WithManifest`), job failures, and the extractor's rules (`Assembles`,
`Extracted`). DEBUG_ORACLE is enabled here, hence nothing is exported and no export can fail. The twenty or so
kinds of oracle job are one chain of records discovered on the way; `_processDiscovery` appends the next link.
A record is one chunk.

**MovementGraph** is `build_movement_graph`: `EdgeAt` with its helpers is `_step_cost` and `_build_edges`, `Pop` and
`Relax` are one round of the loop of `_reachable_resources`. `Walk`, external, is the game: an actor follows
resolved edges and is stopped before a hidden occupant. Float costs are integers in quarters, and `BBRound` is the
game's rounding of them. `docs/PLAYER_MOVEMENT_GRAPH.md` gives jumps over allies a cost in the producer's graph;
the offline one leaves them unresolved, so no label goes through them.

**PositionFeatures** has the positional facts of `features.py` as pairs of sets: what surely holds and what
may hold. The code keeps the sizes of these sets. A position is a set of tiles (empty when unknown), a flag a set of
Booleans. Lines are computed in integers: the nudge of `_hex_line` (1e-7) becomes one part in 1000, which is enough for
any distance (`SightKnowsNoSides`), and rounding is then exact. `LearnPosition` and `LearnTile` are the player's: knowledge
narrows, under the rule of `_validate_structure` that no two exact positions meet.

**Mechanics** is the authority: `ManifestLoads` is what `load_manifest` demands, `Problems` is `_classify_action`, and
`ApplyStage`/`FromResolved` are the ledger. **Outcomes** has the branches of an attack (armor in tenths, hit chances in
twentieths, weights integers that sum to `Mass`), the costs, and `Moved`, which lets one reactor after the other
strike in every branch. **Evaluator** has the measures that are scored, in the three views of a `MetricRange`
(support, robust, epistemic), the six components in fixed point, selection, and `Status`: whether a covered
candidate can be evaluated. An attack, the actor's or a reactor's, can when `CanStrike` holds: the attacker is `Axed` (one
hand axe in hand, no effects, perks or traits), the struck one `Bare`. **Decision** is
`evaluate_decision` as a machine (`Begin` covers the offer, `ScoreNext` scores one candidate or fails, `Select`
ranks), the trace it leaves, the gate `Hard`/`Kind` over two traces, and the world between two decisions: `Learn` and
`Upgrade`. `first` is a history variable: the first trace accepted for this state.

Operators whose comment begins "Mutant of" are altered forms of the definition that follows, each a bug that
code could have; substituting one for it makes TLC find the property named in `PROJECT.json` violated. They
are used nowhere in the specifications.

## 3. Runs

Bounds are the constants of each `.cfg`; every counter of the models is bounded by one of them.

| Run | Checks | Bounds, and why they suffice |
|---|---|---|
| `live_ingest` | `TypeOK`, `SoundAdvice` (that is `UnequivocalAdvice`, `NoAdviceFromVoided` and `AdviceIsNewest`), `RestartIsTransparent`, `AdviceMatchesHistory`, `NeverBackward` | any number of records of two keys, the newer with the smaller generation, so that an order by generation alone is wrong; contradictions of fingerprint and of payload; debug and incompatible records; two streams. Histories of up to five frames in the first stream (`MaxFrames`) and two in the second (`MaxLater`): every rule relates at most four frames, and START opens a fresh machine |
| `capture` | `TypeOK`, `FailedGenerationStaysSilent`, `KeysNeverGoBack` | all seven faults; two sources and two generations in each of two battles |
| `live_pipeline` | `ProducerIsSound` (`ProducerObeysProtocol` and `LastWordTellsReadiness`), `CaughtUpAdviceIsExact` (`CaughtUpAdviceIsCurrent` and `CaughtUpAdviceIsComplete`), `ImplementsChannel`, `WithdrawnAdviceGoes`, `SteadyDecisionIsAdvised` | two frames in flight: a READY and the INVALIDATED that withdraws it; two sources, two generations, two battles; failing STREAM_STARTs and exports, corrupted frames, game restarts |
| `log_tailer` | `TypeOK`, `NothingSkippedOrDoubled`, `PolledAdviceStandsInTheLog` | logs of three divs in two sessions (a start, a READY and what withdraws it), one crash, any number of failed saves; file identities symmetric |
| `combat_sandbox` | `TypeOK`, `SnapshotIsWhole`, `PumpNeverSpins`, `UndisturbedSnapshotIsExtracted`, `RecordsDescribeTheirGeneration`, `SteadySnapshotEnds` | two snapshots, of one battle or of two; three records, two manifest shards, all five faults |
| `movement_graph` | `TypeOK`, `FrontIsExact`, `SearchIsSound` (`LabelsAreFronts` and `WalkIsForeseen`), `LabelsOnlyImprove`, `SearchEnds` | 193 worlds over two rows of three hexes (two ways round, rings): cheap ground that tires and slow ground that does not, sentinel, unlisted and impassable terrain, levels within and beyond reach, an ally to jump, a hidden occupant, held actors, fractional fatigue; late better labels occur |
| `positions` | `TypeOK`, `SureIsPossible`, `FullKnowledgeIsExact`, `SightIsMutual`, `LearningNarrows` | seven hexes on two levels, one friend and two hostiles, lines over a tile of unknown sight and along the edge of the map, exact and two-tile lessons in every order |
| `decision` | `DTypeOK`, `FailClosed`, `MovesAreWhole`, `RankingKeepsTheMargin`, `DominanceHoldsWhenKnown`, `UpgradesLoseNothing`, `LearningNeverHurts`, `LearningChoosesAWinner` | ten fixtures (a fight with a near tie, a target known as a distribution, an unarmed move through two reactors, an axe to take in hand, a tired actor, an offer no family covers, an empty one, and three that are covered but cannot be judged: a reactor strikes at an armed mover, an attacker has its axe in the bag, a reaction is of an unsupported mechanic) by five engines that differ in version, profile, components and supported families; hidden hit points as sets and as a distribution |

Two `CombatSandbox` bounds deserve a word: `MaxStaged` stops updates that would open one more generation, and
`MaxJobs` stops the game from blocking commands again once the queue is longer than that, because every READY
after the player-legal build lengthens it.

## 4. What the runs that fail show

Each is a disagreement between the code and a sentence of its documentation, shown by a counterexample.

* `capture_acquisition`: `observe` advances the generation before `_acquireRaw`. If the acquisition throws while
  the last decision was READY, the INVALIDATED names the new generation; the next update finds an unchanged
  signature and emits READY of that generation. The receiver has to refuse it
  (`docs/LIVE_INGEST.md:47-49`), and no advice comes until the source changes.
* `capture_configure`: `configureProvenance`, given an expectation the runtime fails, calls `invalidate` but hands the event to nobody; `onUpdate` sees
  `IsReady` already false. The host keeps the advice (`docs/COMPANION_CAPTURE.md:90-91`).
* `log_tailer_race`: between the read and the re-anchoring of one poll the log is removed or replaced; the
  machine keeps the old session's advice behind a cursor that fits the new log (`docs/LIVE_INGEST.md:92-95`).
* `combat_sandbox_ready_again`: commands are blocked and accepted again on the same source while the manifest
  is written. `begin` moves the finished build job behind the queue, the job under the cursor is skipped, the
  sandbox reports "complete", and the extractor refuses the snapshot (`docs/COMBAT_SANDBOX.md:27,138`). The same
  skip can hit the manifest's root, after which the snapshot never completes.

`ProducerObeysProtocol` and `LastWordTellsReadiness` hold without those two faults (`live_pipeline`);
`PolledAdviceStandsInTheLog` holds when the log is replaced only between polls (`log_tailer`).

Three observations that are no runs; the first two contradict no sentence of the documents. `information_sensitive`
compares only the winners of the hidden states: it can be false although no hidden state chooses the base
recommendation (all of them choose another candidate). And the gate compares neighbours only, so that a chain of
engines A, B, A' may end at the identity it began with and with another output; `UpgradesLoseNothing` states what
survives such a chain. And "only MOVE_TO may carry contingent reactions" (`tactical_state.py:710`) is tested where only WAIT and
END_TURN arrive: a skill or an EQUIP_ITEM with reactions is accepted, and evaluated as if nobody struck. `Decision` does the
same, and so `FailClosed` speaks of the strikes at moves.

## 5. Fairness

* `WF(OnUpdate)`: the game calls `tactical_state.onUpdate` every frame. `CombatSandbox` relies on the same.
* `WF(PollRound)`: the host polls for as long as it watches. The repository contains `poll` but no
  loop that calls it, so this is an assumption about the caller. Nothing is assumed of corrupted frames.

* `WF(Pop \/ Relax)`: the movement search is a loop that waits for nothing. Nothing is assumed of `Walk`.
* `Decision` and `PositionFeatures` state no liveness: nobody need ask for a decision, or learn.

No strong fairness is used, and none on readiness or source changes: the liveness properties are conditional
on a decision that stays open.

## 6. Abstractions to keep in mind

Squirrel and Python code in one call is atomic, except `poll`. SHA-256 is injective. One value stands for the
source signature, the raw fingerprint and the payload of a READY, because the exporter recomputes all of them
from the same acquisition; its re-validation (`live_export.nut:153-166`) compares the stored inputs with
themselves and can therefore not fail. The evaluator's floats are fixed point: a property of an order is checked
of the model's numbers, not of the rounding of doubles. A candidate's ally damage and charges are always nothing,
because no modelled action causes any; armor is always known exactly. The stage and the authority an action's values were
resolved with are one each, for its costs and its displayed chance alike. Frames are at most reordered by the producer, never by the file.

## 7. What is proved

Every theorem holds for all values of the constants its module's assumptions admit, which TLC evaluates in the
runs. The proofs use no induction principle over an operator; where an argument goes by
induction it is `SetInduction`: a set of naturals that holds 0 and every successor is `Nat`.

### The receiver

`LiveIngestProofs` holds for every `Inbox`, every set of fingerprints and payloads, and any number of streams:
`TypeCorrect`, `AdviceIsUnequivocal`, `VoidedStaysVoided`, `AdviceNewest`, together `AdviceSound`,
`RestartTransparent`, the action property `NeverGoesBack`, and `HistoryMatched`. They rest on the assumptions named in
`LiveIngest`: `Inbox` holds live records, and `None` is none of the values it is compared with.

None of the properties is inductive. `UnequivocalAdvice` speaks of advice, but a generation without advice can
get it back by a repetition, so the invariant has to speak of the generation's stored identity. `IInv` is
`TypeOK`, `WellFormed` (the machine's fields determine one another: advice implies an identity, both carry the
machine's key and stream), `HistoryBounded` (no record of the open stream is ahead of the machine) and
`IdentityAgrees` (while an identity is stored, every offer of that generation had it, and no invalidation came
first). `DecisionOutcomes` reduces `Accept` to its cases; one lemma per case shows that it preserves `IInv`;
`NextIInv` puts them together. `NeverGoesBack` needs the invariant too: a stream id the factory mints differs
from the open one because `WellFormed` bounds it by the ids minted, and a machine without a stream is empty.

`HistoryMatched` says that the incremental machine advises what `IngestReference` reads off the whole history. Its invariant `Mirrors` relates the two: the machine
`StandsAtNewest` (its key is the greatest the open stream was heard to carry), `KnowsIdentity` (what it stores is the
first undisputed word on that key) and `AdvisesWhatStands`. That the history has a greatest key at all is
`LeastNatural`, which is drawn from the well-foundedness of the subset ordering on intervals.

### The log

`LogTailerProofs` holds for every collection of logs, of any length: `TailerTypeCorrect`, `EveryFrameOnce` and
`AdviceIsTheLastWord`. `TInv` says where the tailer is between the steps of a poll, through crashes at any point.
`FirstInv`: while the first log is there, machine, cursor and disk copy are `Exact`, that is, the machine is what reading
that log from its beginning up to the cursor gives. `AdviceInv`: advice held in memory or on disk is `Vouched` for by
its cursor's anchor, which recognises only a log in which that advice stands, and during a poll it stands in the log there is.
What a tailer hears is a fold over the divs of a file; `FoldingExists` and `FoldingStep` unroll the recursive function
behind `FoldLeft`, by `SetInduction`. `AdviceIsTheLastWord` assumes `~ReplaceDuringPoll`: with the log replaced
between the size check and the read, the run `log_tailer_race` shows the property violated.

### The producer and the pipeline

`CaptureProofs` holds for every set of sources and any bounds. `CaptureTypeCorrect`, `FailedStaysSilent` and
`KeysAdvance` hold for every set of faults; `ProtocolKept` assumes that raw acquisition does not throw, and
`LastWordKept` that no INVALIDATED is lost and provenance is not reconfigured: exactly the faults whose runs
(`capture_acquisition`, `capture_configure`) show a violation, and the loss of an INVALIDATED, which falsifies
the last word by definition (`ProducerSound` is the two together). The other assumptions are `SourcesAssumption` and `NoneIsNoRecord`.

The invariant `CInv` adds to `TypeOK` that the fields of the capture table fit one another (`Shape`: readiness
implies an open stream, a source and no latch), that nothing written, voided or failed names a generation beyond
the current one (`Bounded`), and that the latch still holds the source of a generation whose export failed
(`LatchRemembers`): without it the latch could be dropped while the generation stands. `AdvancedFacts` says where
a frame that opens READY stands, `StepKeeps` what a step may add to the histories, and `KeysAdvance` follows from
`StepKeeps` alone. `ProtocolKept` needs `CurrentAgrees` besides: the current generation's claims carry its source,
and only a failed export can have voided it.

`LivePipelineProofs` composes the two. `PipelineInvariance` (`RInv`): besides `CInv`, the log is in the order the
receiver enforces (`LogInOrder`), the receiver stands where the prefix it has read puts it unless that prefix was lost
(`ReaderInStep`), and with nothing left to read its advice repeats the last word (`NothingUnread`). It holds under every fault, and `ChannelImplemented`
follows: every step of producer, log and reader is a step of `AdviceChannel` or leaves it unchanged.
`AdviceIsCurrent` (a receiver that has read the log never advises on a generation the game has left) needs that no
INVALIDATED is lost and nothing is reconfigured; `AdviceIsExact` (it also advises whenever the game is READY) needs in
addition that raw acquisition does not throw and provenance is not lost: each of these faults
leaves a READY game without a READY record, or a record the game does not stand by. Its invariant `EInv` follows the
claims and withdrawals from the producer through the log into the machine (`ClaimsReach`, `WithdrawalsFollow`, `MachineFollows`).
`ProducerStaysSound` carries `ProducerSound` over to the composition: reading upsets nothing the producer relies on.

### The sandbox

`CombatSandboxProofs` holds for any number of records, battles, generations and shards per record: `SnapshotTypeCorrect`,
`PumpAlwaysEnds`, `RecordsKeepTheirGeneration`, `ExtractedIsWhole` and `UndisturbedIsExtracted`, from `SandboxSound`.
Its invariant `SInv` is `CaptureSound` (every generation counted is a staged one, so that their number is bounded by
the set of staged generations and not by a counter), `LogSound` (records in the log are unique unless `duplicated`, and a
written manifest is `Backed` by a sandbox in which nothing was forgotten), and of the sandbox in hand
`Sound` (the queue, the phases, `NothingForgotten`, `ManifestFits`) and `LogFits` (what the log says of the snapshot in
hand: its first record, no manifest yet, shards that fit the manifest to come). It has to hold between the two halves of
a step as well, because one call may begin a generation and pump it. A staging that comes upon a generation already
in the log may write a record twice; the extractor refuses such a log, and the invariant says of every other that the
manifest it ends in lists what the sandbox expected.

`UndisturbedIsExtracted` is about snapshots whose `begin` met no work of its own generation. `UInv` adds `Undisturbed`: at most
one snapshot is in progress (`OneAtATime`), no record is queued twice (`RecordsDiffer`), discovery proceeds in order
(`DiscoveryInOrder`), what is expected is queued, the manifest last (`QueueHoldsAll`), and the log holds the records
processed and no others (`LogFollows`). Keys only advance, so the complete snapshot is the newest, which is the one
the extractor picks.

### The movement graph

`MovementGraphProofs` holds for every map, cost table, actor and hidden truth of `WorldsAssumption`:
`GraphTypeCorrect`, `FrontsKept`, `LabelsImprove`, `WalksAreForeseen`, the last two safety facts together as
`SearchSound`, and `FrontsAreExact`. That a finished search bounds every walk needs an invariant of the search in progress: every label is
queued, under expansion, or `Dealt` with in every direction, that is, dominated at the far end of each edge it can
pay; `SpendMonotone` carries dominance along an edge, rounding and the cap on fatigue included.

`FrontsAreExact` compares the labels with all routes. `Found` says that a label was found on a route with no more
steps than the action points it has spent, whence no route needs more steps than the actor has points; `RoutesCovered` takes the
invariant above along a route of any length, by `SetInduction` over its steps. Both bounds together, and that labels
do not dominate each other, leave exactly the best trade-offs. `RoutesExist` unrolls the recursive function of `Routes`.

### The facts and the decisions

`DecisionProofs` holds for every finite map: `PositionTypeCorrect`, `BoundsInOrder`, `LearningKeepsBounds`,
`KnowledgeIsExact` and `SightKnowsNoSides`. Learning narrows `Where` and the flags (`LearningNarrows` is then a matter of
monotonicity), with one exception that makes it interesting: an unknown actor counts as anywhere, so a fact about it
must not be sure before it is known. Once each actor has one place and each flag one value, the two bounds of a fact range
over the same places (`ExactlyKnown`), and only sight across tiles that are not on the map stays open.

`SightKnowsNoSides` is geometry, for coordinates of any size: the distance is the largest of three cube differences
(`DistanceIs`), rounding and mending a coordinate goes at most two thirds of a step astray (`RoundIsClose`), the nudge adds less than
the third that is left, so the k-th coordinate of a line of n steps is k steps from one end and n - k from the other
(`OnTheWay`); and the line back is the same points in reverse, both ends being nudged alike (`LineIsMutual`). The code computes it in
floats, the model exactly; the theorem is about the rule, not about rounding errors of 1e-16.

For all fixtures and engines: `UpgradesKeepAll`, `MovesShareCertainty`, `DecisionsTypeCorrect`, `DecisionsFailClosed`
and `RankingsKeepTheMargin`. They rest on the assumptions the modules name: fixtures and engines have their types
(`FixtureAssumption`, `EngineAssumption`), scales are positive (`ScaleAssumption`), a weapon's rolls are a range and
certainty divides among them (`WeaponAssumption`), the manifest loads (`ManifestAssumption`), the map is finite
(`MapAssumption`). For `UpgradesKeepAll` the gate compares two traces; the invariant compares the accepted one with the first.

`MovesShareCertainty` is about the outcome that is built step by step: a move is a fold over its reactions, and each
replaces every branch that is alive by one for each outcome of an attack. `IsWhole` says of the branches after k
reactions that each is sound, that their trails tell them apart (two of equal weight must not merge in the set), and
that they share all of the chance; `ReactionKeeps` carries this over one reaction (`StruckTotal`, a sum nested in a sum) and
`SetInduction` over any number. Weights are integers here, so certainty must divide once more for each reaction of an
offered action (`IsAction`); the weights that leaves are `Share`.

`DecisionsFailClosed` is not about a status alone. `StrikesAreKnown` leads from the status of a candidate to the strikes it may
provoke (`ReactionsAreJudged`: no reaction of an accepted move was refused), so that the theorem names who may strike and who may be struck in
an offer that is ranked: every attacker is `Axed`, every struck one `Bare`. `AttackerIsNotStruck` is its corollary: an attack of the actor and a
move at which it is struck never stand in one ranking.

`DecisionsTypeCorrect`, `DecisionsFailClosed` and `RankingsKeepTheMargin` need a ranking to be one: the candidates in an order that is total, which it is if values are integers
and ids are distinct. A value is a weighted mean of normalised metrics that are integrated over branches, and that
it is an integer has to be followed through every stage: `SumIs`, `SumFacts` and `NestedSum` (sums over finite sets), `BranchesAre`
(what an action leads to), `PostureIs`, `OverIs` (a measure of branches), `AttackMetricIs`, `FeaturesAre`, `ContributionIs`, `ScoreIs`.
`GroupedIs` and `RankingIs` then hold of any scores that can be compared: whoever anchors a group is the best left, so a
later candidate is within the margin of an earlier one whatever ties decide between them. The invariant `DecisionInv` adds that
only what was covered and could be evaluated is scored, and that a trace ranks candidates just when it succeeds.

`DominanceIsRobust`, `LearningIsWelcome` and `LearningFindsAWinner` compare scores under two states of knowledge, so each
stage above has to be monotone as well as in range. `Nests` says of a measure that its robust range lies within its
support and that each view is in order, `Narrower` that each view lies within the same view of another. Summed, averaged and
rounded down measures narrow when their parts do (`OverNarrows`; `MeanGrows` and `QuotientGrows` carry the division), the facts about a place narrow
with the map (`PlacesNarrow`, on `LearningNarrows`), what an attack does narrows with the hit points it may meet
(`ValuesNarrow`), and a term, clipped and scaled and perhaps turned round, keeps within the term of a wider measure
(`TermWithin`, `ContributionWithin`, `TacticalWithin`). `ScoreNarrows` concludes that a narrower score is worth no less
for sure, its allowance for death unchanged. A hidden state is one way of narrowing (`SupposingRefines`), a lesson another.

A distribution is the exception: the code averages it instead of spanning it, and learning the value moves the average
either way, so nothing follows for a target in `Weighted` whose hit points were learned. `LearningNeverHurts`
leaves such attacks out, and `LearningChoosesAWinner` applies when none of the distributions has changed.

Their invariant `KnowingInv` adds to `DecisionInv` what is in the scores and in the trace: while scoring, each score is
what the candidate is worth in the state at hand; when a trace is made it `Tells` exactly these scores and the choice of
every hidden state; and from then on it `Foretells`: no score it gave was too high, and, as long as only hidden
hit points were learned, the choices that are left are among its winners (`HiddenNarrow`: every state still possible
was possible before). A change of engine leaves nothing to foretell, which is why the properties ask for the same engine.

## 8. What is only model-checked

Liveness and fairness, which the prover does not reach, and the four violations. Every invariant and action property
of a passing run that is not about liveness is stated by a theorem above.

## 9. Plan, and what is not modelled

The planned modules exist. What further work would add, in this order: a receiver
restarted with a stricter configuration than the one that wrote its state; armor that is not known exactly, which
would let an attack mix weighted and unweighted hidden values (`outcomes.py:485`).

Not modelled, and why:

* observation memory, the player-legal projection with its compatibility layers, affordance export and the
  producer's movement graph read native game objects whose meaning is outside the repository; their results enter
  the models as payloads, as sets of possible values and as the offer;
* canonical JSON, SHA-256 and identity encodings have no states to explore;
* the construction-time checks of `tactical_state.py`, `live_canonical.py` and `serialization.py`, the fixture files,
  exact replay, the remaining expectation kinds and the corpus report are deterministic document processing;
* the reflection budgets of the sandbox, chunk reassembly, debug-oracle probes (single samples compared
  offline), timing extraction, benchmarks and installation scripts.
