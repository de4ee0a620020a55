-------------------------- MODULE LivePipelineProofs --------------------------
(***************************************************************************)
(* Proofs about producer and receiver together, for every set of tactical  *)
(* sources and any bounds: the pipeline implements the abstract channel    *)
(* under every fault, and what a reader that has caught up shows is what   *)
(* the game stands by.                                                     *)
(***************************************************************************)
EXTENDS LivePipeline, CaptureProofs, IngestMachineProofs

\* Unread frames, and those of them that are decision records.
Unread == 1..Len(log)
Words == { i \in Unread : log[i].type # "STREAM_START" }

\* The unread log holds a whole stream, from its first frame on.
WholeStream == log # <<>> /\ log[1].type = "STREAM_START"

-----------------------------------------------------------------------------
(* The invariant behind the refinement; it holds under every fault *)

\* Claims of the current generation carry its source, and no generation was
\* claimed with two.
ClaimsAgree ==
    /\ \A c \in claims : <<c.battle, c.gen>> = Key => c.source = cap.lastReadySignature
    /\ \A c, d \in claims :
          c.battle = d.battle /\ c.gen = d.gen => c.source = d.source

\* The unread log is what the producer wrote, in the order of its generations,
\* and ends with its last word.
LogInOrder ==
    /\ ~streamStarted => log = <<>>
    /\ \A i \in Unread : log[i].type = "STREAM_START" => i = 1
    /\ \A i, j \in Words : i < j =>
          NotAfter(log[i].battle, log[i].gen, log[j].battle, log[j].gen)
    /\ log # <<>> => lastWord = IF Len(log) \in Words THEN log[Len(log)] ELSE None
    /\ \A i \in Words : log[i].type = ReadyType =>
          /\ Claim(log[i]) \in claims
          /\ log[i].payload = log[i].fp /\ ~CompatibilityProblem(log[i])

\* A reader in step with the log stands no further than what it has still to
\* read, and its advice was claimed.
ReaderInStep ==
    ~lost =>
      /\ NotAfter(machine.battle, machine.gen, cap.battle, cap.gen)
      /\ \A i \in Words :
            NotAfter(machine.battle, machine.gen, log[i].battle, log[i].gen)
      /\ machine.decision # None => Claim(machine.decision.record) \in claims
      /\ ~streamStarted \/ WholeStream => machine = EmptyState

\* With nothing left to read, advice repeats the last word.
NothingUnread ==
    ~lost /\ log = <<>> /\ machine.decision # None =>
      /\ lastWord # None /\ lastWord.type = ReadyType
      /\ Claim(machine.decision.record) = Claim(lastWord)

RInv ==
    /\ CInv /\ cap.battle <= MaxBattles /\ ClaimsAgree
    /\ machine \in Machines
    /\ lost \in BOOLEAN /\ missed \in BOOLEAN
    /\ LogInOrder /\ ReaderInStep /\ NothingUnread

-----------------------------------------------------------------------------
(* What a step of the game does to the log *)

\* Nothing is written and nothing new is promised.
Silent ==
    /\ UNCHANGED <<streamStarted, log, claims, voided, lastWord>>
    /\ cap'.isReady => cap' = cap

Opens ==
    /\ ~streamStarted /\ streamStarted' /\ ~cap'.isReady
    /\ \E r \in StartRecord : log' = Append(log, r) /\ r.compatible = compatible'
    /\ UNCHANGED <<claims, voided, lastWord>>

\* Record r of the generation the step ends at is appended.
Writes(r) ==
    /\ streamStarted /\ streamStarted'
    /\ log' = Append(log, r) /\ lastWord' = r
    /\ r.battle = cap'.battle /\ r.gen = cap'.gen

Exports ==
    \E r \in ReadyRecord :
        /\ Writes(r)
        /\ r.fp = cap'.lastReadySignature /\ r.payload = r.fp
        /\ r.compatible /\ compatible' /\ ~CompatibilityProblem(r)
        /\ claims' = claims \cup {Claim(r)} /\ voided' = voided
        /\ cap'.isReady /\ cap'.gen <= MaxGen

Withdraws ==
    \E r \in InvalidatedRecord :
        /\ Writes(r)
        /\ r.compatible = compatible
        /\ claims' = claims
        /\ voided' = IF \A c \in claims : <<c.battle, c.gen>> # <<r.battle, r.gen>>
                     THEN voided \cup {<<r.battle, r.gen>>} ELSE voided
        /\ ~cap'.isReady

\* The capture table stays at its generation or moves to one never used.
Onward ==
    \/ /\ cap'.battle = cap.battle /\ cap'.gen = cap.gen
       /\ cap'.lastReadySignature = cap.lastReadySignature
    \/ KeyLess(cap.battle, cap.gen, cap'.battle, cap'.gen)

LEMMA AdvancedOnward ==
  ASSUME CInv, ~Latched, cap' \in CaptureState,
         cap'.battle = Advanced.battle, cap'.gen = Advanced.gen,
         cap'.lastReadySignature = Advanced.lastReadySignature
  PROVE  Onward
  BY AdvancedFacts DEF Onward, KeyLess, CInv, TypeOK, CaptureState

\* An INVALIDATED is written, or it is lost.
LEMMA InvalidatedEffect ==
  ASSUME CInv, NEW c \in CaptureState, c.gen \in Nat, c.battle = cap'.battle,
         c.gen = cap'.gen, ~cap'.isReady, WriteInvalidated(InvalidatedOf(c))
  PROVE  Silent \/ Withdraws
  <1>1. /\ InvalidatedOf(c) \in InvalidatedRecord
        /\ InvalidatedOf(c).battle = c.battle /\ InvalidatedOf(c).gen = c.gen
        /\ InvalidatedOf(c).compatible = compatible
    BY RecordsTyped DEF CInv, InvalidatedOf
  <1> QED BY <1>1 DEF WriteInvalidated, Silent, Withdraws, Writes

\* invalidate, handed to the exporter, on the table c the step moves to.
LEMMA EventEffect ==
  ASSUME CInv, NEW c \in CaptureState, InvalidateAndExport(c),
         c.isReady = cap.isReady, cap.isReady => c.gen \in Nat
  PROVE  /\ Silent \/ Withdraws
         /\ cap'.battle = c.battle /\ cap'.gen = c.gen
         /\ cap'.lastReadySignature = c.lastReadySignature
         /\ cap' \in CaptureState
  <1>1. CASE cap.isReady
    <2>1. cap' = Withdraw(c) /\ WriteInvalidated(InvalidatedOf(c))
      BY <1>1 DEF InvalidateAndExport
    <2> QED BY <1>1, <2>1, WithdrawFacts, InvalidatedEffect
  <1>2. CASE ~cap.isReady
    BY <1>2 DEF InvalidateAndExport, exporter, Silent
  <1> QED BY <1>1, <1>2

LEMMA ExportedEffect ==
  ASSUME CInv, ObserveReadyExported
  PROVE  Exports /\ Onward
  <1>1. /\ ~Latched /\ cap' = [Advanced EXCEPT !.isReady = TRUE]
        /\ WriteReady(ReadyOf(Advanced)) /\ compatible /\ compatible' = compatible
        /\ Advanced.gen <= MaxGen
    BY DEF ObserveReadyExported, OpensReady, Observing
  <1>2. /\ cap' \in CaptureState /\ cap'.isReady
        /\ cap'.battle = Advanced.battle /\ cap'.gen = Advanced.gen
        /\ cap'.lastReadySignature = source /\ Advanced.lastReadySignature = source
    BY <1>1, AdvancedFacts DEF CaptureState
  <1>3. /\ ReadyOf(Advanced) \in ReadyRecord
        /\ ReadyOf(Advanced).battle = Advanced.battle
        /\ ReadyOf(Advanced).gen = Advanced.gen
        /\ ReadyOf(Advanced).fp = source /\ ReadyOf(Advanced).payload = source
        /\ ReadyOf(Advanced).compatible = compatible
        /\ ReadyOf(Advanced).profile = "player_legal"
    BY <1>1, AdvancedFacts, RecordsTyped DEF CInv, ReadyOf
  <1>4. ~CompatibilityProblem(ReadyOf(Advanced))
    BY <1>1, <1>3 DEF CompatibilityProblem
  <1>5. Exports
    BY <1>1, <1>2, <1>3, <1>4 DEF Exports, Writes, WriteReady
  <1> QED BY <1>1, <1>2, <1>5, AdvancedOnward

LEMMA ExportFailsEffect ==
  ASSUME CInv, ObserveReadyExportFails
  PROVE  (Silent \/ Withdraws) /\ Onward
  <1>1. /\ ~Latched
        /\ cap' = [Advanced EXCEPT !.isReady = FALSE, !.failedReadySignature = source]
        /\ WriteInvalidated(InvalidatedOf(Advanced))
    BY DEF ObserveReadyExportFails, OpensReady
  <1>2. /\ cap' \in CaptureState /\ ~cap'.isReady
        /\ cap'.battle = Advanced.battle /\ cap'.gen = Advanced.gen
        /\ cap'.lastReadySignature = Advanced.lastReadySignature
    BY <1>1, AdvancedFacts DEF CInv, TypeOK, CaptureState
  <1> QED BY <1>1, <1>2, AdvancedFacts, AdvancedOnward, InvalidatedEffect

LEMMA AcquisitionErrorEffect ==
  ASSUME CInv, ObserveAcquisitionError
  PROVE  (Silent \/ Withdraws) /\ Onward
  <1>1. /\ ~Latched /\ Advanced \in CaptureState /\ Advanced.gen \in Nat
        /\ Advanced.isReady = cap.isReady
    BY AdvancedFacts DEF ObserveAcquisitionError, OpensReady
  <1>2. CASE InvalidateAndExport(Advanced)
    BY <1>1, <1>2, EventEffect, AdvancedOnward
  <1>3. CASE cap' = Withdraw(Advanced) /\ WriteInvalidated(InvalidatedOf(Advanced))
    <2>1. /\ cap' \in CaptureState /\ ~cap'.isReady
          /\ cap'.battle = Advanced.battle /\ cap'.gen = Advanced.gen
          /\ cap'.lastReadySignature = Advanced.lastReadySignature
      BY <1>1, <1>3, WithdrawFacts
    <2> QED BY <1>1, <1>3, <2>1, AdvancedOnward, InvalidatedEffect
  <1> QED BY <1>2, <1>3 DEF ObserveAcquisitionError

LEMMA OnInitEffect ==
  ASSUME CInv, OnInit
  PROVE  (Silent \/ Opens) /\ Onward /\ cap'.battle <= MaxBattles
  <1>1. /\ cap'.battle = cap.battle + 1 /\ ~cap'.isReady
        /\ cap.battle \in Nat /\ cap.battle < MaxBattles
        /\ compatible' \in BOOLEAN /\ BeginStream /\ UNCHANGED history
    BY DEF OnInit, Probed, FreshCapture, CInv, TypeOK, CaptureState
  <1>2. Onward /\ cap'.battle <= MaxBattles
    BY <1>1, BoundsAssumption DEF Onward, KeyLess
  <1>3. CASE UNCHANGED <<streamStarted, log>>
    BY <1>1, <1>2, <1>3 DEF Silent, history
  <1>4. CASE /\ ~streamStarted /\ streamStarted' = TRUE
             /\ log' = Append(log, [type |-> "STREAM_START", compatible |-> compatible'])
    <2>1. [type |-> "STREAM_START", compatible |-> compatible'] \in StartRecord
      BY <1>1 DEF StartRecord
    <2> QED BY <1>1, <1>2, <1>4, <2>1 DEF Opens, history
  <1> QED BY <1>1, <1>3, <1>4 DEF BeginStream

\* Every step of the game, save a restart, writes at most one frame.
LEMMA GameEffect ==
  ASSUME CInv, Producer \/ Environment
  PROVE  Onward /\ (Silent \/ Opens \/ Exports \/ Withdraws)
  <1>0. cap \in CaptureState /\ (cap.isReady => cap.gen \in Nat)
    BY DEF CInv, TypeOK, Shape, CaptureState
  <1>1. CASE OnInit
    BY <1>1, OnInitEffect
  <1>2. CASE \/ UpdateIncompatible \/ ObserveBlocked \/ ObserveReadinessError
             \/ OnBattleEnded \/ OnFinish
    <2>1. InvalidateAndExport(cap)
      BY <1>2 DEF UpdateIncompatible, ObserveBlocked, ObserveReadinessError,
                  OnBattleEnded, OnFinish
    <2> QED BY <1>0, <2>1, EventEffect DEF Onward
  <1>3. CASE ObserveLatched \/ ConfigureProvenance
    <2>1. cap' \in {cap, Withdraw(cap)} /\ UNCHANGED exporter
      BY <1>3 DEF ObserveLatched, ConfigureProvenance
    <2> QED BY <1>0, <2>1, WithdrawFacts DEF Onward, Silent, exporter
  <1>4. CASE ObserveAcquisitionError
    BY <1>4, AcquisitionErrorEffect
  <1>5. CASE ObserveReadyExported
    BY <1>5, ExportedEffect
  <1>6. CASE ObserveReadyExportFails
    BY <1>6, ExportFailsEffect
  <1>7. CASE ToggleReadiness \/ ChangeSource
    BY <1>7 DEF ToggleReadiness, ChangeSource, Onward, Silent, exporter
  <1> QED BY <1>1, <1>2, <1>3, <1>4, <1>5, <1>6, <1>7
          DEF Producer, Environment, OnUpdate

\* Battle numbers stay within the bound on battles.
LEMMA BattleBounded ==
  ASSUME CInv, cap.battle <= MaxBattles, Producer \/ Environment
  PROVE  cap'.battle <= MaxBattles
  <1>1. \/ OnInit
        \/ cap' \in {cap, Withdraw(cap)}
        \/ /\ ~Latched
           /\ cap' \in {Advanced, Withdraw(Advanced), [Advanced EXCEPT !.isReady = TRUE],
                        [Advanced EXCEPT !.isReady = FALSE, !.failedReadySignature = source]}
    BY DEF Producer, Environment, OnUpdate, UpdateIncompatible, ObserveBlocked,
           ObserveReadinessError, ObserveLatched, ObserveAcquisitionError,
           ObserveReadyExported, ObserveReadyExportFails, OnBattleEnded, OnFinish,
           ConfigureProvenance, ToggleReadiness, ChangeSource, InvalidateAndExport,
           OpensReady
  <1>2. CASE OnInit
    BY <1>2, OnInitEffect
  <1>3. CASE cap' \in {cap, Withdraw(cap)}
    BY <1>3, WithdrawFacts DEF CInv, TypeOK
  <1>4. CASE /\ ~Latched
             /\ cap' \in {Advanced, Withdraw(Advanced), [Advanced EXCEPT !.isReady = TRUE],
                          [Advanced EXCEPT !.isReady = FALSE,
                                           !.failedReadySignature = source]}
    <2>1. Advanced \in CaptureState /\ Advanced.battle = cap.battle
      BY <1>4, AdvancedFacts
    <2>2. cap'.battle = Advanced.battle
      BY <1>4, <2>1, WithdrawFacts DEF CaptureState
    <2> QED BY <2>1, <2>2
  <1> QED BY <1>1, <1>2, <1>3, <1>4
-----------------------------------------------------------------------------
(* Frames appended to the log and frames taken from it *)

LEMMA Appended ==
  ASSUME NEW s \in Seq(LiveRecord), NEW r \in LiveRecord
  PROVE  /\ Append(s, r) \in Seq(LiveRecord) /\ Append(s, r) # <<>>
         /\ Len(s) \in Nat /\ Len(Append(s, r)) = Len(s) + 1
         /\ \A i \in 1..Len(s) : Append(s, r)[i] = s[i]
         /\ Append(s, r)[Len(s) + 1] = r
  OBVIOUS

LEMMA EmptyLog ==
  ASSUME NEW s \in Seq(LiveRecord)
  PROVE  s = <<>> <=> Len(s) = 0
  OBVIOUS

LEMMA Taken ==
  ASSUME NEW s \in Seq(LiveRecord), s # <<>>
  PROVE  /\ Tail(s) \in Seq(LiveRecord) /\ Head(s) = s[1] /\ Head(s) \in LiveRecord
         /\ Len(s) \in Nat /\ Len(s) >= 1 /\ Len(Tail(s)) = Len(s) - 1
         /\ \A i \in 1..Len(Tail(s)) : Tail(s)[i] = s[i + 1]
         /\ Tail(s) = <<>> <=> Len(s) = 1
  <1>1. Len(s) \in Nat /\ Len(s) >= 1
    OBVIOUS
  <1>2. Tail(s) \in Seq(LiveRecord) /\ Len(Tail(s)) = Len(s) - 1
    OBVIOUS
  <1>3. \A i \in 1..Len(Tail(s)) : Tail(s)[i] = s[i + 1]
    BY <1>1
  <1>4. Tail(s) = <<>> <=> Len(s) = 1
    BY <1>1, <1>2, EmptyLog
  <1>5. Head(s) = s[1] /\ s[1] \in LiveRecord
    BY <1>1
  <1> QED BY <1>1, <1>2, <1>3, <1>4, <1>5

\* Decision records and their keys.
LEMMA WordKeys ==
  ASSUME log \in Seq(LiveRecord), NEW i \in Words
  PROVE  /\ log[i] \in LiveRecord /\ log[i].battle \in Nat /\ log[i].gen \in Nat
         /\ log[i].type \in {ReadyType, InvalidatedType}
         /\ log[i].type = ReadyType => log[i] \in ReadyRecord
  BY DecisionRecord DEF Words, Unread

\* The order of generations is transitive, and a key is not after itself.
LEMMA KeyOrder ==
  ASSUME NEW b1 \in Int, NEW g1 \in Int, NEW b2 \in Int, NEW g2 \in Int,
         NEW b3 \in Int, NEW g3 \in Int
  PROVE  /\ NotAfter(b1, g1, b1, g1)
         /\ NotAfter(b1, g1, b2, g2) /\ NotAfter(b2, g2, b3, g3)
               => NotAfter(b1, g1, b3, g3)
         /\ KeyLess(b1, g1, b2, g2) /\ NotAfter(b2, g2, b3, g3)
               => KeyLess(b1, g1, b3, g3)
         /\ NotAfter(b1, g1, b2, g2) =>
               KeyLess(b1, g1, b2, g2) \/ (b1 = b2 /\ g1 = g2)
  BY DEF NotAfter, KeyLess

\* The producer's last word, if any is unread, is the last of the log, and
\* no unread record is beyond the generation capture stands at.
LEMMA UnreadBounded ==
  ASSUME CInv, LogInOrder, NEW i \in Words
  PROVE  /\ log # <<>> /\ Len(log) \in Words /\ lastWord = log[Len(log)]
         /\ NotAfter(log[i].battle, log[i].gen, cap.battle, cap.gen)
  <1>1. log \in Seq(LiveRecord) /\ cap.battle \in Int /\ cap.gen \in Int
    BY DEF CInv, TypeOK, CaptureState
  <1>2. Len(log) \in Nat /\ i \in 1..Len(log) /\ log # <<>>
    BY <1>1 DEF Words, Unread
  <1>3. Len(log) \in Words
    <2>1. CASE Len(log) = i
      BY <2>1
    <2>2. CASE Len(log) # i
      BY <1>2, <2>2 DEF Words, Unread, LogInOrder
    <2> QED BY <2>1, <2>2
  <1>4. lastWord = log[Len(log)]
    BY <1>2, <1>3 DEF LogInOrder
  <1>5. lastWord # None /\ lastWord.battle \in Int /\ lastWord.gen \in Int
    <2>1. log[Len(log)] \in ReadyRecord \cup InvalidatedRecord
      BY <1>1, <1>3 DEF Words, Unread, LiveRecord, StartRecord
    <2> QED BY <1>4, <2>1, NoneIsNoRecord DEF LiveRecord, ReadyRecord, InvalidatedRecord
  <1>6. NotAfter(lastWord.battle, lastWord.gen, cap.battle, cap.gen)
    BY <1>5 DEF CInv, Bounded
  <1>7. log[i].battle \in Int /\ log[i].gen \in Int
    BY <1>1, WordKeys
  <1>8. CASE i = Len(log)
    BY <1>2, <1>3, <1>4, <1>6, <1>8
  <1>9. CASE i # Len(log)
    <2>1. NotAfter(log[i].battle, log[i].gen, lastWord.battle, lastWord.gen)
      BY <1>2, <1>3, <1>4, <1>9 DEF LogInOrder
    <2> QED BY <1>1, <1>2, <1>3, <1>4, <1>5, <1>6, <1>7, <2>1, KeyOrder
  <1> QED BY <1>8, <1>9
-----------------------------------------------------------------------------
(* The game keeps the invariant *)

GameStep ==
    /\ StepKeeps /\ Onward
    /\ Silent \/ Opens \/ Exports \/ Withdraws
    /\ UNCHANGED <<machine, lost, missed>>

\* What was claimed of the generation a step moves to agrees with its source.
LEMMA FreshOrSame ==
  ASSUME CInv, ClaimsAgree, Onward, cap'.battle \in Nat, cap'.gen \in Int
  PROVE  \A c \in claims : c.battle = cap'.battle /\ c.gen = cap'.gen
                              => c.source = cap'.lastReadySignature
  <1>1. CASE KeyLess(cap.battle, cap.gen, cap'.battle, cap'.gen)
    BY <1>1, BeyondIsFresh
  <1>2. CASE /\ cap'.battle = cap.battle /\ cap'.gen = cap.gen
             /\ cap'.lastReadySignature = cap.lastReadySignature
    BY <1>2 DEF ClaimsAgree, Key
  <1> QED BY <1>1, <1>2 DEF Onward

LEMMA ClaimsAgreeKept ==
  ASSUME CInv, ClaimsAgree, GameStep
  PROVE  ClaimsAgree'
  <1>1. cap'.battle \in Nat /\ cap'.gen \in Int
    BY DEF GameStep, StepKeeps, TypeOK, CaptureState
  <1>2. \A c \in claims : c.battle = cap'.battle /\ c.gen = cap'.gen
                              => c.source = cap'.lastReadySignature
    BY <1>1, FreshOrSame DEF GameStep
  <1>3. CASE claims' = claims
    BY <1>2, <1>3 DEF ClaimsAgree, Key
  <1>4. CASE Exports
    <2>1. PICK r \in ReadyRecord :
             /\ r.battle = cap'.battle /\ r.gen = cap'.gen
             /\ r.fp = cap'.lastReadySignature /\ claims' = claims \cup {Claim(r)}
      BY <1>4 DEF Exports, Writes
    <2>2. /\ Claim(r).battle = cap'.battle /\ Claim(r).gen = cap'.gen
          /\ Claim(r).source = cap'.lastReadySignature
      BY <2>1 DEF Claim
    <2>3. \A c \in claims' : c.battle = cap'.battle /\ c.gen = cap'.gen
                                => c.source = cap'.lastReadySignature
      BY <1>2, <2>1, <2>2
    <2>4. ASSUME NEW c \in claims', NEW d \in claims', c.battle = d.battle, c.gen = d.gen
          PROVE  c.source = d.source
      <3>1. CASE c \in claims /\ d \in claims
        BY <2>4, <3>1 DEF ClaimsAgree
      <3>2. CASE c = Claim(r) \/ d = Claim(r)
        <4>1. /\ c.battle = cap'.battle /\ c.gen = cap'.gen
              /\ d.battle = cap'.battle /\ d.gen = cap'.gen
          BY <2>2, <2>4, <3>2
        <4> QED BY <2>3, <4>1
      <3> QED BY <2>1, <3>1, <3>2
    <2> QED BY <2>3, <2>4 DEF ClaimsAgree, Key
  <1> QED BY <1>3, <1>4 DEF GameStep, Silent, Opens, Withdraws

\* What an appended frame leaves of the unread log.
LEMMA AppendedWords ==
  ASSUME CInv, NEW r \in LiveRecord, log' = Append(log, r)
  PROVE  /\ Len(log) \in Nat /\ Len(log') = Len(log) + 1 /\ log' # <<>>
         /\ \A i \in Unread : i \in Unread' /\ log'[i] = log[i]
         /\ log'[Len(log) + 1] = r /\ Len(log) + 1 \in Unread'
         /\ Unread' = Unread \cup {Len(log) + 1}
         /\ Words' = IF r.type = "STREAM_START" THEN Words
                     ELSE Words \cup {Len(log) + 1}
         /\ \A i \in Words : log'[i] = log[i] /\ i \in Unread
  <1>1. log \in Seq(LiveRecord)
    BY DEF CInv, TypeOK
  <1>2. /\ Len(log) \in Nat /\ Len(log') = Len(log) + 1 /\ log' # <<>>
        /\ \A i \in 1..Len(log) : log'[i] = log[i]
        /\ log'[Len(log) + 1] = r
    BY <1>1, Appended
  <1>3. Unread' = Unread \cup {Len(log) + 1}
    BY <1>2 DEF Unread
  <1>4. Words' = IF r.type = "STREAM_START" THEN Words ELSE Words \cup {Len(log) + 1}
    BY <1>2, <1>3 DEF Words, Unread
  <1> QED BY <1>2, <1>3, <1>4 DEF Unread, Words

LEMMA LogKeptInOrder ==
  ASSUME CInv, LogInOrder, GameStep
  PROVE  LogInOrder'
  <1>1. TypeOK /\ log \in Seq(LiveRecord)
    BY DEF CInv, TypeOK
  <1>2. CASE Silent
    BY <1>2 DEF Silent, LogInOrder, Unread, Words
  <1>3. CASE Opens
    <2>1. PICK r \in StartRecord : log' = Append(log, r)
      BY <1>3 DEF Opens
    <2>2. /\ r \in LiveRecord /\ r.type = "STREAM_START" /\ log = <<>>
          /\ claims' = claims /\ streamStarted' /\ lastWord' = None
      BY <1>3, <2>1 DEF Opens, StartRecord, LiveRecord, LogInOrder, CInv, Shape
    <2>3. Len(log) = 0 /\ Words = {}
      BY <1>1, <2>2, EmptyLog DEF Words, Unread
    <2>4. /\ Words' = {} /\ log' # <<>> /\ Unread' = {1}
      BY <2>1, <2>2, <2>3, AppendedWords DEF Unread
    <2> QED BY <2>2, <2>4 DEF LogInOrder
  <1>4. ASSUME NEW r \in ReadyRecord \cup InvalidatedRecord, Writes(r),
               \A c \in claims : c \in claims',
               r.type = ReadyType => /\ Claim(r) \in claims'
                                     /\ r.payload = r.fp /\ ~CompatibilityProblem(r)
        PROVE  LogInOrder'
    <2>1. /\ r \in LiveRecord /\ r.type # "STREAM_START"
          /\ streamStarted /\ streamStarted' /\ lastWord' = r
          /\ log' = Append(log, r) /\ r.battle = cap'.battle /\ r.gen = cap'.gen
      BY <1>4, RecordTypes DEF Writes, LiveRecord, ReadyRecord, InvalidatedRecord
    <2>2. /\ Len(log) \in Nat /\ log' # <<>> /\ log'[Len(log) + 1] = r
          /\ Len(log') = Len(log) + 1
          /\ Unread' = Unread \cup {Len(log) + 1}
          /\ Words' = Words \cup {Len(log) + 1}
          /\ \A i \in Unread : log'[i] = log[i]
          /\ \A i \in Words : i \in Unread
      BY <2>1, AppendedWords
    <2>3. \A i \in Unread' : log'[i].type = "STREAM_START" => i = 1
      BY <2>1, <2>2 DEF LogInOrder
    <2>4. ASSUME NEW i \in Words', NEW j \in Words', i < j
          PROVE  NotAfter(log'[i].battle, log'[i].gen, log'[j].battle, log'[j].gen)
      <3>1. i \in Unread /\ i \in Words
        BY <2>2, <2>4 DEF Unread, Words
      <3>2. CASE j \in Words
        BY <2>2, <2>4, <3>1, <3>2 DEF LogInOrder
      <3>3. CASE j = Len(log) + 1
        <4>1. /\ cap.battle \in Int /\ cap.gen \in Int /\ cap'.battle \in Int
              /\ cap'.gen \in Int /\ log[i].battle \in Int /\ log[i].gen \in Int
          BY <1>1, <3>1, WordKeys DEF GameStep, StepKeeps, CInv, TypeOK, CaptureState
        <4>2. /\ NotAfter(log[i].battle, log[i].gen, cap.battle, cap.gen)
              /\ NotAfter(cap.battle, cap.gen, cap'.battle, cap'.gen)
          BY <3>1, UnreadBounded DEF GameStep, StepKeeps, HistoryGrows
        <4> QED BY <2>1, <2>2, <3>1, <3>3, <4>1, <4>2, KeyOrder
      <3> QED BY <2>2, <3>2, <3>3
    <2>5. lastWord' = IF Len(log') \in Words' THEN log'[Len(log')] ELSE None
      BY <2>1, <2>2
    <2>6. \A i \in Words' : log'[i].type = ReadyType =>
             /\ Claim(log'[i]) \in claims'
             /\ log'[i].payload = log'[i].fp /\ ~CompatibilityProblem(log'[i])
      BY <1>4, <2>2 DEF LogInOrder
    <2> QED BY <2>1, <2>3, <2>4, <2>5, <2>6 DEF LogInOrder
  <1>5. CASE Exports
    BY <1>4, <1>5 DEF Exports
  <1>6. CASE Withdraws
    BY <1>4, <1>6, RecordTypes DEF Withdraws, InvalidatedRecord
  <1> QED BY <1>2, <1>3, <1>5, <1>6 DEF GameStep
LEMMA MachineKeys ==
  ASSUME NEW m \in Machines
  PROVE  m.battle \in Int /\ m.gen \in Int /\ m.battle >= -1 /\ m.gen >= -1
  BY DEF Machines, MachineState

\* The reader has not moved, and what was written is not behind it.
LEMMA ReaderLeftInStep ==
  ASSUME CInv, machine \in Machines, LogInOrder, ReaderInStep, GameStep
  PROVE  ReaderInStep'
  <1> SUFFICES ASSUME ~lost
               PROVE  /\ NotAfter(machine.battle, machine.gen, cap'.battle, cap'.gen)
                      /\ \A i \in Words' : NotAfter(machine.battle, machine.gen,
                                                   log'[i].battle, log'[i].gen)
                      /\ machine.decision # None => Claim(machine.decision.record) \in claims'
                      /\ ~streamStarted' \/ WholeStream' => machine = EmptyState
    BY DEF ReaderInStep, GameStep
  <1>1. /\ NotAfter(machine.battle, machine.gen, cap.battle, cap.gen)
        /\ \A i \in Words : NotAfter(machine.battle, machine.gen,
                                    log[i].battle, log[i].gen)
        /\ machine.decision # None => Claim(machine.decision.record) \in claims
        /\ ~streamStarted \/ WholeStream => machine = EmptyState
    BY DEF ReaderInStep
  <1>2. NotAfter(machine.battle, machine.gen, cap'.battle, cap'.gen)
    <2>1. /\ cap.battle \in Int /\ cap.gen \in Int
          /\ cap'.battle \in Int /\ cap'.gen \in Int
          /\ NotAfter(cap.battle, cap.gen, cap'.battle, cap'.gen)
      BY DEF GameStep, StepKeeps, HistoryGrows, CInv, TypeOK, CaptureState
    <2> QED BY <1>1, <2>1, KeyOrder, MachineKeys
  <1>3. \A c \in claims : c \in claims'
    BY DEF GameStep, Silent, Opens, Exports, Withdraws
  <1>4. CASE Silent
    BY <1>1, <1>2, <1>4 DEF Silent, WholeStream, Words, Unread
  <1>5. CASE Opens
    <2>1. PICK r \in StartRecord : log' = Append(log, r)
      BY <1>5 DEF Opens
    <2>2. r \in LiveRecord /\ r.type = "STREAM_START"
      BY <2>1 DEF StartRecord, LiveRecord
    <2>3. Words' = Words /\ \A i \in Words : log'[i] = log[i]
      BY <2>1, <2>2, AppendedWords
    <2>4. machine = EmptyState
      BY <1>1, <1>5 DEF Opens
    <2> QED BY <1>1, <1>2, <1>3, <2>3, <2>4
  <1>6. ASSUME NEW r \in ReadyRecord \cup InvalidatedRecord, Writes(r)
        PROVE  /\ \A i \in Words' : NotAfter(machine.battle, machine.gen,
                                             log'[i].battle, log'[i].gen)
               /\ ~streamStarted' \/ WholeStream' => machine = EmptyState
    <2>1. /\ r \in LiveRecord /\ r.type # "STREAM_START" /\ streamStarted'
          /\ log' = Append(log, r) /\ r.battle = cap'.battle /\ r.gen = cap'.gen
      BY <1>6, RecordTypes DEF Writes, LiveRecord, ReadyRecord, InvalidatedRecord
    <2>2. /\ Len(log) \in Nat /\ log'[Len(log) + 1] = r
          /\ Words' = Words \cup {Len(log) + 1}
          /\ \A i \in Unread : log'[i] = log[i]
          /\ \A i \in Words : log'[i] = log[i]
      BY <2>1, AppendedWords
    <2>3. WholeStream' => WholeStream
      <3>1. CASE log = <<>>
        <4>1. Len(log) = 0
          BY <3>1
        <4> QED BY <2>1, <2>2, <4>1 DEF WholeStream
      <3>2. CASE log # <<>>
        <4>1. log \in Seq(LiveRecord)
          BY DEF CInv, TypeOK
        <4>2. 1 \in Unread
          BY <2>2, <3>2, <4>1, EmptyLog DEF Unread
        <4> QED BY <2>2, <3>2, <4>2 DEF WholeStream
      <3> QED BY <3>1, <3>2
    <2> QED BY <1>1, <1>2, <2>1, <2>2, <2>3
  <1>7. CASE Exports
    BY <1>1, <1>2, <1>3, <1>6, <1>7 DEF Exports
  <1>8. CASE Withdraws
    BY <1>1, <1>2, <1>3, <1>6, <1>8 DEF Withdraws
  <1> QED BY <1>4, <1>5, <1>7, <1>8 DEF GameStep

LEMMA NothingUnreadKept ==
  ASSUME CInv, NothingUnread, GameStep
  PROVE  NothingUnread'
  <1>1. log \in Seq(LiveRecord)
    BY DEF CInv, TypeOK
  <1>2. CASE Silent
    BY <1>2 DEF Silent, NothingUnread, GameStep
  <1>3. CASE Opens \/ Exports \/ Withdraws
    <2>1. PICK r \in LiveRecord : log' = Append(log, r)
      BY <1>3 DEF Opens, Exports, Withdraws, Writes, LiveRecord
    <2>2. log' # <<>>
      BY <1>1, <2>1, Appended
    <2> QED BY <2>2 DEF NothingUnread
  <1> QED BY <1>2, <1>3 DEF GameStep

-----------------------------------------------------------------------------
(* The reader keeps the invariant *)

\* The generation a machine stands at after a decision record.
LEMMA MachineMoves ==
  ASSUME NEW m \in Machines, NEW r \in LiveRecord, r.type # "STREAM_START", NEW id \in Nat
  PROVE  \/ Accept(m, r, id).battle = m.battle /\ Accept(m, r, id).gen = m.gen
         \/ Accept(m, r, id).battle = r.battle /\ Accept(m, r, id).gen = r.gen
  <1>1. CASE Accept(m, r, id) \in {m, ClearReadiness(m), Poison(m)}
    BY <1>1 DEF ClearReadiness, Poison, Machines, MachineState
  <1>2. CASE Accept(m, r, id) \in {Invalidate(m, r), AcceptReady(m, r)}
    BY <1>2 DEF Invalidate, AcceptReady, Machines, MachineState
  <1>3. CASE Accept(m, r, id) = Duplicate(m, r)
    BY <1>3 DEF Duplicate, Machines, MachineState
  <1> QED BY <1>1, <1>2, <1>3, Outcomes

\* What is left to read after the first frame.
LEMMA TakenWords ==
  ASSUME CInv, LogInOrder, log # <<>>, log' = Tail(log)
  PROVE  /\ log' \in Seq(LiveRecord) /\ Head(log) = log[1] /\ log[1] \in LiveRecord
         /\ 1 \in Unread /\ streamStarted
         /\ \A i \in Unread' : /\ i + 1 \in Unread /\ log'[i] = log[i + 1]
                              /\ log'[i].type # "STREAM_START"
         /\ Words' = Unread'
         /\ \A i \in Words' : i + 1 \in Words /\ log'[i] = log[i + 1]
         /\ Len(log) \in Nat /\ Len(log') = Len(log) - 1
         /\ log' = <<>> <=> Len(log) = 1
         /\ ~WholeStream'
  <1>1. log \in Seq(LiveRecord)
    BY DEF CInv, TypeOK
  <1>2. /\ log' \in Seq(LiveRecord) /\ Head(log) = log[1] /\ Head(log) \in LiveRecord
        /\ Len(log) \in Nat /\ Len(log) >= 1 /\ Len(log') = Len(log) - 1
        /\ \A i \in 1..Len(log') : log'[i] = log[i + 1]
        /\ log' = <<>> <=> Len(log) = 1
    BY <1>1, Taken
  <1>3. /\ 1 \in Unread
        /\ \A i \in Unread' : i + 1 \in Unread /\ log'[i] = log[i + 1]
    BY <1>2 DEF Unread
  <1>4. \A i \in Unread' : log'[i].type # "STREAM_START"
    <2>1. ASSUME NEW i \in Unread' PROVE log[i + 1].type # "STREAM_START"
      BY <1>2, <1>3 DEF LogInOrder, Unread
    <2> QED BY <1>3, <2>1
  <1>5. Words' = Unread'
    BY <1>4 DEF Words
  <1>6. \A i \in Words' : i + 1 \in Words
    BY <1>3, <1>4 DEF Words
  <1>7. ~WholeStream'
    <2>1. log' # <<>> => 1 \in Unread'
      BY <1>2 DEF Unread
    <2> QED BY <1>4, <2>1 DEF WholeStream
  <1>8. streamStarted
    BY DEF LogInOrder
  <1> QED BY <1>2, <1>3, <1>4, <1>5, <1>6, <1>7, <1>8

\* The first frame of the log is in reach of the machine.
LEMMA HeadInReach ==
  ASSUME RInv, ~lost, log # <<>>, log[1].type # "STREAM_START"
  PROVE  /\ 1 \in Words /\ log[1] \in LiveRecord
         /\ log[1].battle \in Nat /\ log[1].gen \in Nat
         /\ ~BehindMachine(machine, log[1])
         /\ NotAfter(log[1].battle, log[1].gen, cap.battle, cap.gen)
  <1>1. log \in Seq(LiveRecord) /\ CInv /\ LogInOrder
    BY DEF RInv, CInv, TypeOK
  <1>2. 1 \in Words
    <2>1. Len(log) \in Nat /\ Len(log) # 0
      BY <1>1, EmptyLog
    <2> QED BY <2>1 DEF Words, Unread
  <1>3. NotAfter(machine.battle, machine.gen, log[1].battle, log[1].gen)
    BY <1>2 DEF RInv, ReaderInStep
  <1> QED BY <1>1, <1>2, <1>3, WordKeys, UnreadBounded DEF NotAfter, BehindMachine
LEMMA LogTakenInOrder ==
  ASSUME CInv, LogInOrder, log # <<>>, log' = Tail(log),
         UNCHANGED <<claims, lastWord, streamStarted>>
  PROVE  LogInOrder'
  <1>1. /\ streamStarted /\ Words' = Unread'
        /\ \A i \in Words' : /\ i + 1 \in Words /\ log'[i] = log[i + 1]
                            /\ log'[i].type # "STREAM_START"
        /\ Len(log) \in Nat /\ Len(log') = Len(log) - 1
        /\ log' = <<>> <=> Len(log) = 1
    BY TakenWords
  <1>2. \A i, j \in Words' : i < j =>
          NotAfter(log'[i].battle, log'[i].gen, log'[j].battle, log'[j].gen)
    <2>1. \A i, j \in Words' : i < j => i + 1 < j + 1
      BY DEF Words, Unread
    <2> QED BY <1>1, <2>1 DEF LogInOrder
  <1>3. log' # <<>> => lastWord' = IF Len(log') \in Words' THEN log'[Len(log')] ELSE None
    <2> SUFFICES ASSUME log' # <<>>
                 PROVE  lastWord = IF Len(log') \in Words' THEN log'[Len(log')] ELSE None
      OBVIOUS
    <2>1. log \in Seq(LiveRecord) /\ log' \in Seq(LiveRecord)
      BY TakenWords DEF CInv, TypeOK
    <2>2. Len(log') # 0
      BY <2>1, EmptyLog
    <2>3. Len(log') \in Words'
      BY <1>1, <2>2 DEF Unread
    <2>4. Len(log) \in Words /\ log'[Len(log')] = log[Len(log)]
      <3>1. Len(log') + 1 = Len(log)
        BY <1>1
      <3> QED BY <1>1, <2>3, <3>1
    <2> QED BY <2>3, <2>4 DEF LogInOrder
  <1>4. \A i \in Words' : log'[i].type = ReadyType =>
          /\ Claim(log'[i]) \in claims'
          /\ log'[i].payload = log'[i].fp /\ ~CompatibilityProblem(log'[i])
    BY <1>1 DEF LogInOrder
  <1> QED BY <1>1, <1>2, <1>3, <1>4 DEF LogInOrder

\* What a frame read makes of the machine: it comes no further than what is
\* still unread, and its advice, if any, says what the frame says.
LEMMA FrameRead ==
  ASSUME RInv, PollFrame
  PROVE  /\ machine' \in Machines
         /\ NotAfter(machine'.battle, machine'.gen, cap.battle, cap.gen)
         /\ \A i \in Words : i > 1 => NotAfter(machine'.battle, machine'.gen,
                                             log[i].battle, log[i].gen)
         /\ machine'.decision # None =>
               /\ 1 \in Words /\ log[1].type = ReadyType
               /\ Repeated(log[1], machine'.decision.record)
               /\ Claim(machine'.decision.record) = Claim(log[1])
               /\ Claim(log[1]) \in claims
  <1>1. /\ CInv /\ LogInOrder /\ ReaderInStep /\ machine \in Machines /\ ~lost
        /\ log # <<>> /\ log' = Tail(log) /\ log \in Seq(LiveRecord)
        /\ machine' = Accept(machine, Head(log), 1)
    BY DEF RInv, PollFrame, ReaderTakes, CInv, TypeOK
  <1>2. /\ Head(log) = log[1] /\ log[1] \in LiveRecord /\ 1 \in Unread
        /\ machine' = Accept(machine, log[1], 1)
    BY <1>1, TakenWords
  <1>3. machine' \in Machines
    BY <1>1, <1>2, Accepted
  <1>4. cap.battle \in Int /\ cap.gen \in Int /\ cap.battle >= 0 /\ cap.gen >= -1
    BY <1>1 DEF CInv, TypeOK, CaptureState
  <1>5. CASE log[1].type = "STREAM_START"
    <2>1. machine'.decision = None /\ machine'.battle = -1 /\ machine'.gen = -1
      BY <1>2, <1>5, StartedMachine DEF EmptyState
    <2>2. ASSUME NEW b \in Int, NEW g \in Int, b >= 0, g >= -1
          PROVE  NotAfter(machine'.battle, machine'.gen, b, g)
      BY <2>1, <2>2 DEF NotAfter, KeyLess
    <2>3. \A i \in Words : NotAfter(machine'.battle, machine'.gen,
                                  log[i].battle, log[i].gen)
      BY <1>1, <2>2, WordKeys
    <2> QED BY <1>3, <1>4, <2>1, <2>2, <2>3
  <1>6. CASE log[1].type # "STREAM_START"
    <2>1. /\ 1 \in Words /\ log[1].battle \in Int /\ log[1].gen \in Int
          /\ ~BehindMachine(machine, log[1])
          /\ NotAfter(log[1].battle, log[1].gen, cap.battle, cap.gen)
      BY <1>1, <1>6, HeadInReach
    <2>2. \/ machine'.battle = machine.battle /\ machine'.gen = machine.gen
          \/ machine'.battle = log[1].battle /\ machine'.gen = log[1].gen
      BY <1>1, <1>2, <1>6, MachineMoves
    <2>3. /\ NotAfter(machine.battle, machine.gen, cap.battle, cap.gen)
          /\ \A i \in Words : NotAfter(machine.battle, machine.gen,
                                      log[i].battle, log[i].gen)
      BY <1>1 DEF ReaderInStep
    <2>4. \A i \in Words : i > 1 => NotAfter(log[1].battle, log[1].gen,
                                          log[i].battle, log[i].gen)
      BY <1>1, <2>1 DEF LogInOrder
    <2>5. ASSUME machine'.decision # None
          PROVE  /\ log[1].type = ReadyType
                 /\ Repeated(log[1], machine'.decision.record)
                 /\ Claim(machine'.decision.record) = Claim(log[1])
                 /\ Claim(log[1]) \in claims
      <3>1. Repeated(log[1], machine'.decision.record)
        BY <1>1, <1>2, <2>1, <2>5, Accepted
      <3> QED BY <1>1, <2>1, <3>1 DEF Repeated, Claim, LogInOrder
    <2> QED BY <1>3, <2>1, <2>2, <2>3, <2>4, <2>5
  <1> QED BY <1>5, <1>6

LEMMA PollFrameKeeps ==
  ASSUME RInv, PollFrame
  PROVE  LogInOrder' /\ ReaderInStep' /\ NothingUnread' /\ machine' \in Machines
  <1>1. /\ CInv /\ LogInOrder /\ log # <<>> /\ log' = Tail(log) /\ ~lost'
        /\ cap' = cap
        /\ UNCHANGED <<claims, lastWord, streamStarted>>
    BY DEF RInv, PollFrame, ReaderTakes, history
  <1>2. LogInOrder'
    BY <1>1, LogTakenInOrder
  <1>3. /\ \A i \in Words' : i + 1 \in Words /\ log'[i] = log[i + 1] /\ i + 1 > 1
        /\ streamStarted /\ ~WholeStream' /\ Len(log) \in Nat
        /\ log' = <<>> <=> Len(log) = 1
    <2>1. \A i \in Words' : i + 1 > 1
      BY DEF Words, Unread
    <2> QED BY <1>1, <2>1, TakenWords
  <1>4. ReaderInStep'
    BY <1>1, <1>3, FrameRead DEF ReaderInStep
  <1>5. NothingUnread'
    <2> SUFFICES ASSUME log' = <<>>, machine'.decision # None
                 PROVE  /\ lastWord # None /\ lastWord.type = ReadyType
                        /\ Claim(machine'.decision.record) = Claim(lastWord)
      BY <1>1 DEF NothingUnread
    <2>1. /\ 1 \in Words /\ log[1].type = ReadyType
          /\ Claim(machine'.decision.record) = Claim(log[1])
      BY FrameRead
    <2>2. lastWord = log[1]
      BY <1>1, <1>3, <2>1 DEF LogInOrder
    <2>3. log[1] \in ReadyRecord
      BY <1>1, <2>1, WordKeys DEF CInv, TypeOK
    <2> QED BY <2>1, <2>2, <2>3, NoneAssumption
  <1> QED BY <1>2, <1>4, <1>5, FrameRead

LEMMA PollCorruptKeeps ==
  ASSUME RInv, PollCorrupt
  PROVE  LogInOrder' /\ ReaderInStep' /\ NothingUnread' /\ machine' \in Machines
  <1>1. /\ CInv /\ LogInOrder /\ log # <<>> /\ log' = Tail(log) /\ ~lost
        /\ cap' = cap /\ machine' = ClearReadiness(machine) /\ machine \in Machines
        /\ UNCHANGED <<claims, lastWord, streamStarted, lost>>
    BY DEF RInv, PollCorrupt, ReaderTakes, history
  <1>2. LogInOrder'
    BY <1>1, LogTakenInOrder
  <1>3. /\ machine' \in Machines /\ machine'.decision = None
        /\ machine'.battle = machine.battle /\ machine'.gen = machine.gen
    BY <1>1, ClearedMachine DEF ClearReadiness, Machines, MachineState
  <1>4. /\ \A i \in Words' : i + 1 \in Words /\ log'[i] = log[i + 1]
        /\ streamStarted /\ ~WholeStream'
    BY <1>1, TakenWords
  <1>5. ReaderInStep'
    BY <1>1, <1>3, <1>4 DEF RInv, ReaderInStep
  <1>6. NothingUnread'
    BY <1>3 DEF NothingUnread
  <1> QED BY <1>2, <1>3, <1>5, <1>6
\* The tailer notices that the log was replaced: machine and unread log go.
LEMMA PollDiscontinuityKeeps ==
  ASSUME RInv, PollDiscontinuity
  PROVE  CInv' /\ LogInOrder' /\ ReaderInStep' /\ NothingUnread' /\ machine' \in Machines
  <1>1. /\ log' = <<>> /\ machine' = EmptyState /\ cap' = cap
        /\ UNCHANGED <<streamStarted, phase, commandReady, source, compatible, unmet>>
        /\ UNCHANGED history
    BY DEF PollDiscontinuity, game
  <1>2. CInv'
    <2>1. log' \in Seq(LiveRecord)
      BY <1>1
    <2>2. StepKeeps
      BY <1>1, <2>1, StandingStillKeeps DEF RInv, CInv, TypeOK
    <2> QED BY <2>2, BoundedPreserved DEF StepKeeps, CInv, RInv
  <1>3. Words' = {} /\ Unread' = {}
    BY <1>1 DEF Words, Unread
  <1>4. LogInOrder'
    BY <1>1, <1>3 DEF LogInOrder
  <1>5. /\ machine'.decision = None /\ machine'.battle = -1 /\ machine'.gen = -1
        /\ machine' \in Machines
    BY <1>1, EmptyMachine DEF EmptyState
  <1>6. ReaderInStep'
    <2>1. NotAfter(-1, -1, cap.battle, cap.gen)
      BY DEF RInv, CInv, TypeOK, CaptureState, NotAfter, KeyLess
    <2> QED BY <1>1, <1>3, <1>5, <2>1 DEF ReaderInStep
  <1> QED BY <1>2, <1>4, <1>5, <1>6 DEF NothingUnread

LEMMA NewGameKeeps ==
  ASSUME RInv, NewGame
  PROVE  RInv'
  <1>1. CInv'
    BY NextCInv DEF NewGame, Next, RInv
  <1>2. /\ log' = <<>> /\ streamStarted' = FALSE /\ claims' = {} /\ lost' = TRUE
        /\ UNCHANGED <<machine, missed>> /\ cap'.battle = 0
    BY DEF NewGame, GameRestart, FreshCapture
  <1>3. LogInOrder'
    BY <1>2 DEF LogInOrder, Words, Unread
  <1>4. ClaimsAgree' /\ ReaderInStep' /\ NothingUnread'
    BY <1>2 DEF ClaimsAgree, ReaderInStep, NothingUnread
  <1> QED BY <1>1, <1>2, <1>3, <1>4, BoundsAssumption DEF RInv

LEMMA InitRInv == PInit => RInv
  <1> SUFFICES ASSUME PInit PROVE RInv
    OBVIOUS
  <1>1. CInv
    BY InitCInv DEF PInit
  <1>2. /\ log = <<>> /\ streamStarted = FALSE /\ claims = {} /\ machine = EmptyState
        /\ cap.battle = 0 /\ cap.gen = -1 /\ lost = FALSE /\ missed = FALSE
    BY DEF PInit, Init, FreshCapture
  <1>3. /\ machine \in Machines /\ machine.decision = None
        /\ machine.battle = -1 /\ machine.gen = -1
    BY <1>2, EmptyMachine DEF EmptyState
  <1>4. Words = {} /\ Unread = {}
    BY <1>2 DEF Words, Unread
  <1>5. LogInOrder /\ ClaimsAgree /\ NothingUnread
    BY <1>2, <1>3, <1>4 DEF LogInOrder, ClaimsAgree, NothingUnread
  <1>6. ReaderInStep
    BY <1>2, <1>3, <1>4 DEF ReaderInStep, NotAfter, KeyLess
  <1>7. cap.battle <= MaxBattles
    BY <1>2, BoundsAssumption
  <1>8. lost \in BOOLEAN /\ missed \in BOOLEAN
    BY Zenon DEF PInit
  <1> QED BY <1>1, <1>3, <1>5, <1>6, <1>7, <1>8 DEF RInv

\* The steps of the game are those of Capture, with the reader at rest.
LEMMA GameStepKeeps ==
  ASSUME RInv, Producer \/ Environment, UNCHANGED receiver
  PROVE  GameStep /\ RInv'
  <1>1. /\ CInv /\ cap.battle <= MaxBattles /\ machine \in Machines /\ ClaimsAgree
        /\ LogInOrder /\ ReaderInStep /\ NothingUnread
    BY DEF RInv
  <1>2. StepKeeps
    BY <1>1, StepsKeep
  <1>3. CInv'
    BY <1>2, BoundedPreserved DEF StepKeeps, CInv, RInv
  <1>4. GameStep
    BY <1>1, <1>2, GameEffect DEF GameStep, receiver
  <1>5. cap'.battle <= MaxBattles
    BY <1>1, BattleBounded
  <1>6. ClaimsAgree' /\ LogInOrder' /\ ReaderInStep' /\ NothingUnread'
    BY <1>1, <1>4, ClaimsAgreeKept, LogKeptInOrder, ReaderLeftInStep, NothingUnreadKept
  <1>7. machine' \in Machines /\ lost' \in BOOLEAN /\ missed' \in BOOLEAN
    BY <1>4 DEF GameStep, RInv
  <1> QED BY <1>3, <1>4, <1>5, <1>6, <1>7 DEF RInv

\* A frame is taken from the log; the capture table does not change.
LEMMA ReaderKeepsTable ==
  ASSUME RInv, PollFrame \/ PollCorrupt \/ PollDiscontinuity
  PROVE  /\ CInv' /\ ClaimsAgree' /\ cap'.battle <= MaxBattles
         /\ lost' \in BOOLEAN /\ missed' \in BOOLEAN
  <1>1. cap' = cap /\ claims' = claims
    BY DEF PollFrame, PollCorrupt, PollDiscontinuity, ReaderTakes, history
  <1>2. ClaimsAgree' /\ cap'.battle <= MaxBattles
    BY <1>1 DEF RInv, ClaimsAgree, Key
  <1>3. CInv'
    <2>1. CASE PollFrame \/ PollCorrupt
      BY <2>1, NextCInv DEF PollFrame, PollCorrupt, Next, RInv
    <2>2. CASE PollDiscontinuity
      BY <2>2, PollDiscontinuityKeeps
    <2> QED BY <2>1, <2>2
  <1>4. lost' \in BOOLEAN /\ missed' \in BOOLEAN
    BY DEF PollFrame, PollCorrupt, PollDiscontinuity, RInv
  <1> QED BY <1>2, <1>3, <1>4

\* PNext, with the steps of the game taken together.
LEMMA PipelineSteps ==
  ASSUME PNext
  PROVE  \/ (Producer \/ Environment) /\ UNCHANGED receiver
         \/ NewGame \/ PollFrame \/ PollCorrupt \/ PollDiscontinuity
  BY DEF PNext, Producer

LEMMA NextRInv == RInv /\ [PNext]_pvars => RInv'
  <1> SUFFICES ASSUME RInv, [PNext]_pvars PROVE RInv'
    OBVIOUS
  <1>1. CASE (Producer \/ Environment) /\ UNCHANGED receiver
    BY <1>1, GameStepKeeps
  <1>2. CASE NewGame
    BY <1>2, NewGameKeeps
  <1>3. CASE PollFrame \/ PollCorrupt \/ PollDiscontinuity
    <2>1. LogInOrder' /\ ReaderInStep' /\ NothingUnread' /\ machine' \in Machines
      BY <1>3, PollFrameKeeps, PollCorruptKeeps, PollDiscontinuityKeeps
    <2> QED BY <1>3, <2>1, ReaderKeepsTable DEF RInv
  <1>4. CASE UNCHANGED pvars
    <2>1. UNCHANGED vars /\ UNCHANGED <<machine, lost, missed>>
      BY <1>4 DEF pvars
    <2>2. CInv'
      BY <2>1, NextCInv DEF RInv
    <2>3. ClaimsAgree' /\ LogInOrder'
      BY <2>1 DEF RInv, vars, ClaimsAgree, Key, LogInOrder, Unread, Words
    <2>4. ReaderInStep' /\ NothingUnread'
      BY <2>1 DEF RInv, vars, ReaderInStep, NothingUnread, Unread, Words, WholeStream
    <2> QED BY <2>1, <2>2, <2>3, <2>4 DEF RInv, vars
  <1> QED BY <1>1, <1>2, <1>3, <1>4, PipelineSteps

\* The invariant of producer, log and reader holds under every fault.
THEOREM PipelineInvariance == PSpec => []RInv
  <1> QED BY InitRInv, NextRInv, PTL DEF PSpec

-----------------------------------------------------------------------------
(* The pipeline implements the channel *)

LEMMA ShownIs ==
  ASSUME machine \in Machines
  PROVE  /\ Shown # None => machine.decision # None
         /\ machine.decision # None =>
               /\ Shown = Claim(machine.decision.record)
               /\ Shown.battle = machine.battle /\ Shown.gen = machine.gen
  BY AdviceAtMachine DEF Shown, Claim

\* What the game commits READY at is newer than every promise, or one of them.
LEMMA ExportsPromise ==
  ASSUME RInv, Exports, GameStep, RInv'
  PROVE  \E c \in Channel!Promises : Channel!Promise(c)
  <1>1. PICK r \in ReadyRecord :
           /\ r.battle = cap'.battle /\ r.gen = cap'.gen
           /\ r.fp = cap'.lastReadySignature
           /\ claims' = claims \cup {Claim(r)} /\ cap'.isReady /\ cap'.gen <= MaxGen
    BY DEF Exports, Writes
  <1> DEFINE c == Claim(r)
  <1>2. /\ c = [battle |-> cap'.battle, gen |-> cap'.gen,
                source |-> cap'.lastReadySignature]
        /\ c.battle = cap'.battle /\ c.gen = cap'.gen
        /\ c.source = cap'.lastReadySignature
    BY <1>1 DEF Claim
  <1>3. c \in Channel!Promises
    <2>1. /\ r.battle \in Nat /\ r.gen \in Nat /\ r.fp \in Sources
          /\ cap'.battle <= MaxBattles
      BY SourcesAssumption DEF ReadyRecord, RInv
    <2>2. c.battle \in 0..(MaxBattles + MaxGen) /\ c.gen \in 0..(MaxBattles + MaxGen)
      BY <1>1, <1>2, <2>1, BoundsAssumption
    <2> QED BY <1>1, <1>2, <2>1, <2>2 DEF Channel!Promises
  <1>4. c \in claims \/ \A d \in claims : Channel!Older(d, c)
    <2>1. /\ cap.battle \in Int /\ cap.gen \in Int
          /\ cap'.battle \in Nat /\ cap'.gen \in Int
          /\ NotAfter(cap.battle, cap.gen, cap'.battle, cap'.gen)
      BY DEF RInv, CInv, TypeOK, CaptureState, GameStep, StepKeeps, HistoryGrows
    <2>2. \A d \in claims : /\ d \in Claims
                            /\ d.battle \in Int /\ d.gen \in Int /\ d.source \in Sources
                            /\ NotAfter(d.battle, d.gen, cap.battle, cap.gen)
      BY DEF RInv, CInv, TypeOK, Bounded, Claims
    <2>3. \A d \in claims : NotAfter(d.battle, d.gen, cap'.battle, cap'.gen)
      BY <2>1, <2>2, KeyOrder
    <2>4. CASE \E d \in claims : d.battle = cap'.battle /\ d.gen = cap'.gen
      <3>1. PICK d \in claims : d.battle = cap'.battle /\ d.gen = cap'.gen
        BY <2>4
      <3>2. d.source = cap'.lastReadySignature
        BY <2>1, <3>1, FreshOrSame DEF RInv, GameStep
      <3>3. d = c
        BY <1>2, <2>2, <3>1, <3>2 DEF Claims
      <3> QED BY <3>3
    <2>5. CASE ~\E d \in claims : d.battle = cap'.battle /\ d.gen = cap'.gen
      <3>1. ASSUME NEW d \in claims PROVE Channel!Older(d, c)
        BY <1>2, <2>1, <2>2, <2>3, <2>5, KeyOrder DEF KeyLess, Channel!Older
      <3> QED BY <3>1
    <2> QED BY <2>4, <2>5
  <1>5. Promised' = c /\ claims' = claims \cup {c} /\ lost' = lost /\ Shown' = Shown
    BY <1>1, <1>2 DEF Promised, Shown, GameStep
  <1> HIDE DEF c
  <1>6. Channel!Promise(c)
    BY <1>4, <1>5 DEF Channel!Promise
  <1> QED BY <1>3, <1>6

\* Every other step of the game retracts its promise or leaves it.
LEMMA GameStepMaps ==
  ASSUME RInv, GameStep, RInv'
  PROVE  Channel!Next \/ UNCHANGED Channel!vars
  <1>1. Shown' = Shown /\ lost' = lost
    BY DEF GameStep, Shown
  <1>2. CASE Exports
    BY <1>2, ExportsPromise DEF Channel!Next
  <1>3. CASE /\ claims' = claims
             /\ Promised' = None \/ Promised' = Promised
    BY <1>1, <1>3 DEF Channel!Next, Channel!Retract, Channel!vars
  <1>4. CASE Silent \/ Opens \/ Withdraws
    BY <1>3, <1>4 DEF Silent, Opens, Withdraws, Promised
  <1> QED BY <1>2, <1>4 DEF GameStep

\* A frame read shows one of the promises, never an older one, or nothing.
LEMMA PollFrameMaps ==
  ASSUME RInv, PollFrame
  PROVE  Channel!Next \/ UNCHANGED Channel!vars
  <1>1. /\ Promised' = Promised /\ claims' = claims /\ lost' = lost /\ ~lost
        /\ machine \in Machines /\ machine' \in Machines
    BY FrameRead DEF PollFrame, ReaderTakes, history, Promised, RInv
  <1>2. CASE machine'.decision = None
    <2>1. Shown' = None
      BY <1>2 DEF Shown
    <2> QED BY <1>1, <2>1 DEF Channel!Next, Channel!Hide
  <1>3. CASE machine'.decision # None
    <2>1. /\ 1 \in Words /\ Shown' = Claim(log[1]) /\ Claim(log[1]) \in claims
      BY <1>3, FrameRead DEF Shown
    <2>2. Shown # None => ~Channel!Older(Claim(log[1]), Shown)
      <3> SUFFICES ASSUME Shown # None PROVE ~Channel!Older(Claim(log[1]), Shown)
        OBVIOUS
      <3>1. Shown.battle = machine.battle /\ Shown.gen = machine.gen
        BY <1>1, ShownIs
      <3>2. NotAfter(machine.battle, machine.gen, log[1].battle, log[1].gen)
        BY <1>1, <2>1 DEF RInv, ReaderInStep
      <3> QED BY <3>1, <3>2 DEF Channel!Older, Claim, NotAfter, KeyLess
    <2>3. Channel!Show(Claim(log[1]))
      BY <1>1, <2>1, <2>2 DEF Channel!Show
    <2> QED BY <2>1, <2>3 DEF Channel!Next
  <1> QED BY <1>2, <1>3

LEMMA PipelineMaps ==
  ASSUME RInv, [PNext]_pvars, RInv'
  PROVE  Channel!Next \/ UNCHANGED Channel!vars
  <1>1. CASE (Producer \/ Environment) /\ UNCHANGED receiver
    BY <1>1, GameStepKeeps, GameStepMaps
  <1>2. CASE NewGame
    BY <1>2 DEF NewGame, GameRestart, FreshCapture, Promised, Shown,
                Channel!Next, Channel!Restart
  <1>3. CASE PollFrame
    BY <1>3, PollFrameMaps
  <1>4. CASE PollCorrupt
    <2>1. /\ Promised' = Promised /\ claims' = claims /\ lost' = lost
          /\ machine'.decision = None
      BY <1>4, ClearedMachine DEF PollCorrupt, ReaderTakes, history, Promised, RInv
    <2> QED BY <2>1 DEF Shown, Channel!Next, Channel!Hide
  <1>5. CASE PollDiscontinuity
    <2>1. /\ Promised' = Promised /\ claims' = claims /\ lost' = FALSE
          /\ machine'.decision = None
      BY <1>5 DEF PollDiscontinuity, history, Promised, EmptyState
    <2> QED BY <2>1 DEF Shown, Channel!Next, Channel!Resynchronise
  <1>6. CASE UNCHANGED pvars
    BY <1>6 DEF pvars, vars, Promised, Shown, Channel!vars
  <1> QED BY <1>1, <1>2, <1>3, <1>4, <1>5, <1>6, PipelineSteps

\* Whatever fails in the game, however often it restarts, and whichever frames
\* are corrupted or skipped, what the user is shown was promised by the running
\* game, one generation one content, and never steps back on display.
THEOREM ChannelImplemented == PSpec => ImplementsChannel
  <1>1. PInit => Channel!Init
    BY DEF PInit, Init, FreshCapture, EmptyState, Promised, Shown, Channel!Init
  <1>2. RInv /\ RInv' /\ [PNext]_pvars => [Channel!Next]_(Channel!vars)
    BY PipelineMaps
  <1> QED BY <1>1, <1>2, PipelineInvariance, PTL DEF PSpec, ImplementsChannel, Channel!Spec

-----------------------------------------------------------------------------
(* Advice is current *)

\* A reader changes nothing of what the producer's invariants speak of.
LEMMA ReaderOnly ==
  ASSUME PollDiscontinuity \/ UNCHANGED pvars
  PROVE  UNCHANGED <<cap, phase, compatible, claims, voided, lastWord, failed,
                     streamStarted>>
  BY DEF PollDiscontinuity, game, history, pvars, vars

LEMMA LastWordStays ==
  ASSUME "invalidation" \notin Faults, "configure" \notin Faults,
         RInv, LastWordTellsReadiness, [PNext]_pvars
  PROVE  LastWordTellsReadiness'
  <1>1. CASE Next
    BY <1>1, NextLastWord DEF RInv
  <1>2. CASE PollDiscontinuity \/ UNCHANGED pvars
    BY <1>2, ReaderOnly DEF LastWordTellsReadiness
  <1> QED BY <1>1, <1>2, PipelineSteps DEF Next, NewGame, PollFrame, PollCorrupt

\* Unless an INVALIDATED is lost or provenance is reconfigured in mid-battle, a
\* reader that has read everything shows nothing the game no longer stands by.
THEOREM AdviceIsCurrent ==
  ASSUME {"invalidation", "configure"} \cap Faults = {}
  PROVE  PSpec => []CaughtUpAdviceIsCurrent
  <1>1. RInv /\ LastWordTellsReadiness => CaughtUpAdviceIsCurrent
    <2> SUFFICES ASSUME RInv, LastWordTellsReadiness, CaughtUp, Shown # None
                 PROVE  Shown = Promised
      BY DEF CaughtUpAdviceIsCurrent
    <2>1. /\ machine.decision # None /\ Shown = Claim(machine.decision.record)
      BY ShownIs DEF RInv
    <2>2. /\ lastWord # None /\ lastWord.type = ReadyType /\ Shown = Claim(lastWord)
      BY <2>1 DEF RInv, NothingUnread, CaughtUp
    <2> QED BY <2>2, RecordTypes DEF LastWordTellsReadiness, Promised, Claim
  <1>2. PInit => LastWordTellsReadiness
    BY DEF PInit, Init, FreshCapture, LastWordTellsReadiness
  <1>3. RInv /\ LastWordTellsReadiness /\ [PNext]_pvars => LastWordTellsReadiness'
    BY LastWordStays
  <1> QED BY <1>1, <1>2, <1>3, PipelineInvariance, PTL DEF PSpec
-----------------------------------------------------------------------------
(* Advice is complete, to a reader that has heard the whole stream *)

\* The reader has heard the stream so far and stands at generation <<b, g>>,
\* of which it knows the content.
Heard(b, g) == /\ ~lost /\ ~missed /\ machine.raw # None
               /\ machine.battle = b /\ machine.gen = g

\* Everything of the stream was heard or can still be.
Following == WholeStream \/ (~lost /\ ~missed)

\* What was claimed is still to be read, or stands in the machine, or is past.
ClaimsReach ==
    Following => \A c \in claims :
        \/ \E i \in Words : log[i].type = ReadyType /\ Claim(log[i]) = c
        \/ Heard(c.battle, c.gen)
        \/ ~lost /\ KeyLess(c.battle, c.gen, machine.battle, machine.gen)

\* An INVALIDATED to be read is of a voided generation, or comes after a READY.
WithdrawalsFollow ==
    Following => \A i \in Words : log[i].type = InvalidatedType =>
        \/ <<log[i].battle, log[i].gen>> \in voided
        \/ \E j \in Words :
              /\ j < i /\ log[j].type = ReadyType
              /\ log[j].battle = log[i].battle /\ log[j].gen = log[i].gen
        \/ Heard(log[i].battle, log[i].gen)

\* The machine of a reader that missed nothing knows the stream, and knows the
\* content of its generation unless that was voided; it advises on a last word
\* that is READY.
MachineFollows ==
    ~lost /\ ~missed =>
      /\ streamStarted /\ ~WholeStream => machine.stream # None
      /\ machine.stream # None /\ machine.raw = None /\ machine.gen >= 0
            => <<machine.battle, machine.gen>> \in voided
      /\ machine.raw # None =>
            /\ machine.digest.sha256 = machine.raw.fp
            /\ [battle |-> machine.battle, gen |-> machine.gen,
                source |-> machine.raw.fp] \in claims
      /\ log = <<>> /\ lastWord # None /\ lastWord.type = ReadyType
            => machine.decision # None

\* A log that was replaced unnoticed still holds all of its stream.
StreamUnread ==
    /\ lost => ~streamStarted \/ WholeStream
    /\ ~streamStarted => claims = {}

AllCompatible == compatible /\ ~unmet /\ \A i \in Unread : log[i].compatible

EInv == ClaimsReach /\ WithdrawalsFollow /\ MachineFollows /\ StreamUnread /\ AllCompatible

\* A decision record that is appended does not change where the stream starts.
LEMMA WholeKept ==
  ASSUME CInv, NEW r \in LiveRecord, r.type # "STREAM_START", log' = Append(log, r)
  PROVE  WholeStream' <=> WholeStream
  <1>1. log \in Seq(LiveRecord) /\ Len(log) \in Nat /\ log' # <<>>
        /\ log'[Len(log) + 1] = r /\ \A i \in Unread : log'[i] = log[i]
    BY AppendedWords DEF CInv, TypeOK
  <1>2. CASE log = <<>>
    <2>1. Len(log) = 0
      BY <1>2
    <2> QED BY <1>1, <1>2, <2>1 DEF WholeStream
  <1>3. CASE log # <<>>
    <2>1. 1 \in Unread
      BY <1>1, <1>3, EmptyLog DEF Unread
    <2> QED BY <1>1, <1>3, <2>1 DEF WholeStream
  <1> QED BY <1>2, <1>3

\* What a game step leaves of the unread log and of the histories.
LEMMA GameStepLeaves ==
  ASSUME RInv, GameStep, Silent \/ Exports \/ Withdraws
  PROVE  /\ streamStarted' = streamStarted /\ (WholeStream' <=> WholeStream)
         /\ \A i \in Words : i \in Words' /\ log'[i] = log[i]
         /\ \A c \in claims : c \in claims'
         /\ \A k \in voided : k \in voided'
         /\ log' = <<>> => log = <<>> /\ lastWord' = lastWord
  <1>1. CASE Silent
    BY <1>1 DEF Silent, WholeStream, Words, Unread
  <1>2. ASSUME NEW r \in ReadyRecord \cup InvalidatedRecord, Writes(r)
        PROVE  /\ streamStarted' = streamStarted /\ (WholeStream' <=> WholeStream)
               /\ \A i \in Words : i \in Words' /\ log'[i] = log[i]
               /\ log' # <<>>
    <2>1. /\ r \in LiveRecord /\ r.type # "STREAM_START" /\ CInv
          /\ log' = Append(log, r)
      BY <1>2, RecordTypes DEF Writes, LiveRecord, ReadyRecord, InvalidatedRecord, RInv
    <2>2. streamStarted' = streamStarted
      <3>1. streamStarted \in BOOLEAN /\ streamStarted' \in BOOLEAN
        BY <2>1 DEF CInv, TypeOK, GameStep, StepKeeps
      <3> QED BY <1>2, <3>1 DEF Writes
    <2>3. WholeStream' <=> WholeStream
      BY <2>1, WholeKept
    <2> QED BY <2>1, <2>2, <2>3, AppendedWords
  <1>3. CASE Exports
    BY <1>2, <1>3 DEF Exports
  <1>4. CASE Withdraws
    BY <1>2, <1>4 DEF Withdraws
  <1> QED BY <1>1, <1>3, <1>4

\* The stream boundary is written: nothing was claimed, or is to be read, yet.
LEMMA OpensKeeps ==
  ASSUME RInv, EInv, GameStep, Opens
  PROVE  ClaimsReach' /\ WithdrawalsFollow' /\ MachineFollows' /\ StreamUnread'
  <1>1. CInv /\ LogInOrder /\ ReaderInStep
    BY DEF RInv
  <1>2. PICK r \in StartRecord : log' = Append(log, r)
    BY DEF Opens
  <1>3. /\ r \in LiveRecord /\ r.type = "STREAM_START" /\ log = <<>>
        /\ claims' = claims /\ claims = {} /\ streamStarted' /\ ~streamStarted
        /\ lastWord' = lastWord /\ voided' = voided
    BY <1>1, <1>2 DEF Opens, StartRecord, LiveRecord, LogInOrder, EInv, StreamUnread
  <1>4. Len(log) = 0 /\ Words = {}
    BY <1>3 DEF Words, Unread
  <1>5. Words' = {} /\ log' # <<>> /\ WholeStream'
    BY <1>1, <1>2, <1>3, <1>4, AppendedWords DEF WholeStream
  <1>6. MachineFollows'
    <2> SUFFICES ASSUME ~lost PROVE MachineFollows'
      BY DEF MachineFollows, GameStep
    <2>1. machine' = EmptyState
      BY <1>1, <1>3 DEF ReaderInStep, GameStep
    <2> QED BY <1>5, <2>1 DEF MachineFollows, EmptyState
  <1> QED BY <1>3, <1>5, <1>6 DEF ClaimsReach, WithdrawalsFollow, StreamUnread

LEMMA ClaimsReachKept ==
  ASSUME RInv, EInv, GameStep, Silent \/ Exports \/ Withdraws
  PROVE  ClaimsReach'
  <1>1. /\ WholeStream' <=> WholeStream
        /\ \A i \in Words : i \in Words' /\ log'[i] = log[i]
        /\ UNCHANGED <<machine, lost, missed>>
    BY GameStepLeaves DEF GameStep
  <1>2. ASSUME Following', NEW c \in claims
        PROVE  \/ \E i \in Words' : log'[i].type = ReadyType /\ Claim(log'[i]) = c
               \/ Heard(c.battle, c.gen)'
               \/ ~lost' /\ KeyLess(c.battle, c.gen, machine'.battle, machine'.gen)
    <2>1. Following
      BY <1>1, <1>2 DEF Following
    <2>2. \/ \E i \in Words : log[i].type = ReadyType /\ Claim(log[i]) = c
          \/ Heard(c.battle, c.gen)
          \/ ~lost /\ KeyLess(c.battle, c.gen, machine.battle, machine.gen)
      BY <2>1 DEF EInv, ClaimsReach
    <2> QED BY <1>1, <2>2 DEF Heard
  <1>3. CASE claims' = claims
    BY <1>2, <1>3 DEF ClaimsReach
  <1>4. CASE Exports
    <2>1. PICK r \in ReadyRecord :
             /\ log' = Append(log, r) /\ claims' = claims \cup {Claim(r)}
      BY <1>4 DEF Exports, Writes
    <2>2. /\ Len(log) + 1 \in Words' /\ log'[Len(log) + 1] = r /\ r.type = ReadyType
      BY <2>1, AppendedWords, RecordTypes DEF RInv, LiveRecord, ReadyRecord
    <2> QED BY <1>2, <2>1, <2>2 DEF ClaimsReach
  <1> QED BY <1>3, <1>4 DEF Silent, Withdraws

LEMMA WithdrawalsFollowKept ==
  ASSUME RInv, EInv, GameStep, Silent \/ Exports \/ Withdraws, RInv'
  PROVE  WithdrawalsFollow'
  <1> SUFFICES ASSUME Following', NEW i \in Words', log'[i].type = InvalidatedType
               PROVE  \/ <<log'[i].battle, log'[i].gen>> \in voided'
                      \/ \E j \in Words' :
                            /\ j < i /\ log'[j].type = ReadyType
                            /\ log'[j].battle = log'[i].battle
                            /\ log'[j].gen = log'[i].gen
                      \/ Heard(log[i].battle, log[i].gen)'
    BY DEF WithdrawalsFollow
  <1>1. /\ WholeStream' <=> WholeStream
        /\ \A j \in Words : j \in Words' /\ log'[j] = log[j]
        /\ \A k \in voided : k \in voided'
        /\ UNCHANGED <<machine, lost, missed>>
    BY GameStepLeaves DEF GameStep
  <1>2. Following
    BY <1>1 DEF Following
  <1>3. CASE i \in Words
    <2>1. \/ <<log[i].battle, log[i].gen>> \in voided
          \/ \E j \in Words :
                /\ j < i /\ log[j].type = ReadyType
                /\ log[j].battle = log[i].battle /\ log[j].gen = log[i].gen
          \/ Heard(log[i].battle, log[i].gen)
      BY <1>1, <1>2, <1>3 DEF EInv, WithdrawalsFollow
    <2> QED BY <1>1, <1>3, <2>1 DEF Heard
  <1>4. CASE i \notin Words
    <2>1. Withdraws /\ ~Silent
      <3>1. ~Silent
        BY <1>4 DEF Silent, Words, Unread
      <3>2. ~Exports
        <4> SUFFICES ASSUME NEW r \in ReadyRecord, log' = Append(log, r) PROVE FALSE
          BY DEF Exports, Writes
        <4>1. r \in LiveRecord /\ r.type = ReadyType
          BY DEF LiveRecord, ReadyRecord
        <4>2. log'[i] = r
          BY <1>4, <4>1, AppendedWords, RecordTypes DEF RInv
        <4> QED BY <4>1, <4>2, RecordTypes
      <3> QED BY <3>1, <3>2
    <2>2. PICK r \in InvalidatedRecord :
             /\ log' = Append(log, r)
             /\ r.battle = cap'.battle /\ r.gen = cap'.gen
             /\ voided' = IF \A c \in claims : <<c.battle, c.gen>> # <<r.battle, r.gen>>
                          THEN voided \cup {<<r.battle, r.gen>>} ELSE voided
      BY <2>1 DEF Withdraws, Writes
    <2>3. r \in LiveRecord /\ r.type = InvalidatedType
      BY DEF LiveRecord, InvalidatedRecord
    <2>4. /\ i = Len(log) + 1 /\ log'[i] = r /\ Len(log) \in Nat
          /\ \A j \in Words : j < i
      BY <1>4, <2>2, <2>3, AppendedWords, RecordTypes DEF RInv, Words, Unread
    <2>5. CASE \A c \in claims : <<c.battle, c.gen>> # <<r.battle, r.gen>>
      BY <2>2, <2>4, <2>5
    <2>6. CASE \E c \in claims : <<c.battle, c.gen>> = <<r.battle, r.gen>>
      <3>1. PICK c \in claims : c.battle = r.battle /\ c.gen = r.gen
        BY <2>6
      <3>2. \/ \E j \in Words : log[j].type = ReadyType /\ Claim(log[j]) = c
            \/ Heard(c.battle, c.gen)
            \/ ~lost /\ KeyLess(c.battle, c.gen, machine.battle, machine.gen)
        BY <1>2 DEF EInv, ClaimsReach
      <3>3. CASE \E j \in Words : log[j].type = ReadyType /\ Claim(log[j]) = c
        <4>1. PICK j \in Words : log[j].type = ReadyType /\ Claim(log[j]) = c
          BY <3>3
        <4>2. log[j].battle = c.battle /\ log[j].gen = c.gen
          BY <4>1 DEF Claim
        <4> QED BY <1>1, <2>4, <3>1, <4>1, <4>2
      <3>4. CASE Heard(c.battle, c.gen)
        BY <1>1, <2>4, <3>1, <3>4 DEF Heard
      <3>5. ~(~lost /\ KeyLess(c.battle, c.gen, machine.battle, machine.gen))
        BY <1>1, <2>2, <3>1 DEF RInv, ReaderInStep, NotAfter
      <3> QED BY <3>2, <3>3, <3>4, <3>5
    <2> QED BY <2>5, <2>6
  <1> QED BY <1>3, <1>4

LEMMA MachineFollowsKept ==
  ASSUME RInv, EInv, GameStep, Silent \/ Exports \/ Withdraws
  PROVE  MachineFollows' /\ StreamUnread'
  <1>1. /\ streamStarted' = streamStarted /\ (WholeStream' <=> WholeStream)
        /\ \A c \in claims : c \in claims'
        /\ \A k \in voided : k \in voided'
        /\ log' = <<>> => log = <<>> /\ lastWord' = lastWord
        /\ UNCHANGED <<machine, lost, missed>>
    BY GameStepLeaves DEF GameStep
  <1>2. MachineFollows'
    BY <1>1 DEF EInv, MachineFollows
  <1>3. ~streamStarted => claims' = claims
    BY DEF Silent, Exports, Withdraws, Writes
  <1>4. StreamUnread'
    BY <1>1, <1>3 DEF EInv, StreamUnread
  <1> QED BY <1>2, <1>4
\* As long as neither the probe fails nor provenance is reconfigured, every
\* frame is compatible.
LEMMA CompatibleKept ==
  ASSUME "provenance" \notin Faults, "configure" \notin Faults,
         RInv, AllCompatible, [PNext]_pvars
  PROVE  AllCompatible'
  <1>0. CInv /\ log \in Seq(LiveRecord)
    BY DEF RInv, CInv, TypeOK
  <1>1. compatible' /\ ~unmet'
    <2>0. compatible /\ ~unmet
      BY DEF AllCompatible
    <2>1. CASE OnInit
      BY <2>0, <2>1 DEF OnInit, Probed
    <2>2. CASE \/ OnUpdate \/ OnBattleEnded \/ OnFinish \/ Environment
      <3>1. UNCHANGED <<compatible, unmet>>
        BY <2>2 DEF Environment, OnUpdate, Observing, UpdateIncompatible, ObserveBlocked,
                    ObserveReadinessError, ObserveLatched, ObserveAcquisitionError,
                    ObserveReadyExported, ObserveReadyExportFails, OnBattleEnded, OnFinish,
                    ToggleReadiness, ChangeSource
      <3> QED BY <2>0, <3>1
    <2>3. ~ConfigureProvenance
      BY DEF ConfigureProvenance
    <2>4. CASE NewGame
      BY <2>4 DEF NewGame, GameRestart
    <2>5. CASE PollFrame \/ PollCorrupt \/ PollDiscontinuity \/ UNCHANGED pvars
      <3>1. UNCHANGED <<compatible, unmet>>
        BY <2>5 DEF PollFrame, PollCorrupt, PollDiscontinuity, ReaderTakes, pvars, vars
      <3> QED BY <2>0, <3>1
    <2> QED BY <2>1, <2>2, <2>3, <2>4, <2>5, PipelineSteps DEF Producer
  <1>2. ASSUME NEW r \in LiveRecord, log' = Append(log, r), r.compatible
        PROVE  \A i \in Unread' : log'[i].compatible
    BY <1>0, <1>2, AppendedWords DEF AllCompatible
  <1>3. \A i \in Unread' : log'[i].compatible
    <2>1. CASE (Producer \/ Environment) /\ UNCHANGED receiver
      <3>1. Silent \/ Opens \/ Exports \/ Withdraws
        BY <2>1, GameStepKeeps DEF GameStep
      <3>2. CASE Silent
        BY <3>2 DEF Silent, AllCompatible, Unread
      <3>3. CASE Opens
        BY <1>1, <1>2, <3>3 DEF Opens, LiveRecord
      <3>4. CASE Exports
        BY <1>2, <3>4 DEF Exports, Writes, LiveRecord
      <3>5. CASE Withdraws
        BY <1>2, <3>5 DEF Withdraws, Writes, LiveRecord, AllCompatible
      <3> QED BY <3>1, <3>2, <3>3, <3>4, <3>5
    <2>2. CASE NewGame \/ PollDiscontinuity
      <3>1. Unread' = {}
        BY <2>2 DEF NewGame, GameRestart, PollDiscontinuity, Unread
      <3> QED BY <3>1
    <2>3. CASE PollFrame \/ PollCorrupt
      BY <2>3, TakenWords DEF PollFrame, PollCorrupt, ReaderTakes, RInv, AllCompatible
    <2>4. CASE UNCHANGED pvars
      BY <2>4 DEF pvars, vars, Unread, AllCompatible
    <2> QED BY <2>1, <2>2, <2>3, <2>4, PipelineSteps
  <1> QED BY <1>1, <1>3 DEF AllCompatible

\* Steps after which nothing is followed, or nothing was written yet.
LEMMA UnfollowedSteps ==
  ASSUME RInv, EInv, NewGame \/ PollCorrupt \/ PollDiscontinuity
  PROVE  ClaimsReach' /\ WithdrawalsFollow' /\ MachineFollows' /\ StreamUnread'
  <1>1. CASE NewGame
    <2>1. log' = <<>> /\ lost' /\ ~streamStarted' /\ claims' = {}
      BY <1>1 DEF NewGame, GameRestart
    <2>2. ~Following'
      BY <2>1 DEF Following, WholeStream
    <2> QED BY <2>1, <2>2 DEF ClaimsReach, WithdrawalsFollow, MachineFollows, StreamUnread
  <1>2. CASE PollCorrupt
    <2>1. ~lost' /\ missed' /\ log # <<>> /\ log' = Tail(log)
          /\ streamStarted' = streamStarted
      BY <1>2 DEF PollCorrupt, ReaderTakes
    <2>2. ~Following' /\ streamStarted
      BY <2>1, TakenWords DEF Following, RInv
    <2> QED BY <2>1, <2>2 DEF ClaimsReach, WithdrawalsFollow, MachineFollows, StreamUnread
  <1>3. CASE PollDiscontinuity
    <2>1. /\ lost /\ ~lost' /\ missed' = (log # <<>>) /\ log' = <<>>
          /\ machine' = EmptyState /\ streamStarted' = streamStarted
          /\ claims' = claims /\ lastWord' = lastWord
      BY <1>3 DEF PollDiscontinuity, history
    <2>2. ~missed' => ~streamStarted /\ claims = {} /\ lastWord = None
      BY <2>1 DEF EInv, StreamUnread, WholeStream, RInv, CInv, Shape
    <2>3. ~WholeStream' /\ Words' = {}
      BY <2>1 DEF WholeStream, Words, Unread
    <2>4. MachineFollows'
      BY <2>1, <2>2 DEF MachineFollows, EmptyState
    <2>5. StreamUnread'
      BY <2>1 DEF EInv, StreamUnread
    <2> QED BY <2>1, <2>2, <2>3, <2>4, <2>5 DEF ClaimsReach, WithdrawalsFollow, Following
  <1> QED BY <1>1, <1>2, <1>3

\* The start of a stream is read: all of it is still to come.
LEMMA StartRead ==
  ASSUME RInv, EInv, PollFrame, log[1].type = "STREAM_START"
  PROVE  ClaimsReach' /\ WithdrawalsFollow' /\ MachineFollows' /\ StreamUnread'
  <1>1. /\ ~lost /\ ~lost' /\ log # <<>> /\ log' = Tail(log)
        /\ claims' = claims /\ voided' = voided /\ lastWord' = lastWord
        /\ streamStarted' = streamStarted /\ CInv /\ LogInOrder
        /\ machine' = Accept(machine, Head(log), 1)
    BY DEF PollFrame, ReaderTakes, history, RInv
  <1>2. /\ Head(log) = log[1] /\ log[1] \in LiveRecord /\ 1 \in Unread /\ ~WholeStream'
        /\ streamStarted /\ Len(log) \in Nat /\ (log' = <<>> <=> Len(log) = 1)
        /\ Len(log') = Len(log) - 1 /\ Words' = Unread'
        /\ \A i \in Words' : i + 1 \in Words /\ log'[i] = log[i + 1]
    BY <1>1, TakenWords
  <1>3. \A i \in Words : i - 1 \in Words' /\ log'[i - 1] = log[i]
    <2>1. ASSUME NEW i \in Words PROVE i - 1 \in Words'
      <3>1. i \in 1..Len(log) /\ i # 1
        BY DEF Words, Unread
      <3> QED BY <1>2, <3>1 DEF Unread
    <2>2. ASSUME NEW i \in Words PROVE log'[i - 1] = log[i]
      <3>1. (i - 1) + 1 = i
        BY DEF Words, Unread
      <3> QED BY <1>2, <2>1, <3>1
    <2> QED BY <2>1, <2>2
  <1>4. /\ machine = EmptyState /\ WholeStream /\ Following
        /\ machine.raw = None /\ machine.battle = -1 /\ machine.gen = -1
    BY <1>1 DEF RInv, ReaderInStep, WholeStream, Following, EmptyState
  <1>5. /\ machine'.stream # None /\ machine'.raw = None /\ machine'.gen = -1
        /\ machine'.decision = None
    <2>1. ~CompatibilityProblem(log[1])
      BY <1>2, RecordTypes DEF EInv, AllCompatible, CompatibilityProblem
    <2>2. Accept(machine, log[1], 1) = [EmptyState EXCEPT !.stream = 1]
      BY <2>1, StartedMachine
    <2> QED BY <1>1, <1>2, <2>2, NoneAssumption DEF EmptyState
  <1>6. ASSUME NEW c \in claims
        PROVE  \E i \in Words' : log'[i].type = ReadyType /\ Claim(log'[i]) = c
    <2>1. ~KeyLess(c.battle, c.gen, -1, -1)
      BY <1>1 DEF CInv, TypeOK, Claims, KeyLess
    <2>2. PICK i \in Words : log[i].type = ReadyType /\ Claim(log[i]) = c
      BY <1>4, <2>1 DEF EInv, ClaimsReach, Heard
    <2> QED BY <1>3, <2>2
  <1>7. ASSUME NEW i \in Words', log'[i].type = InvalidatedType
        PROVE  \/ <<log'[i].battle, log'[i].gen>> \in voided'
               \/ \E j \in Words' :
                     /\ j < i /\ log'[j].type = ReadyType
                     /\ log'[j].battle = log'[i].battle /\ log'[j].gen = log'[i].gen
    <2>1. i + 1 \in Words /\ log'[i] = log[i + 1] /\ i \in Int
      BY <1>2 DEF Unread
    <2>2. CASE <<log[i + 1].battle, log[i + 1].gen>> \in voided
      BY <1>1, <2>1, <2>2
    <2>3. CASE \E j \in Words : /\ j < i + 1 /\ log[j].type = ReadyType
                               /\ log[j].battle = log[i + 1].battle
                               /\ log[j].gen = log[i + 1].gen
      <3>1. PICK j \in Words : /\ j < i + 1 /\ log[j].type = ReadyType
                              /\ log[j].battle = log[i + 1].battle
                              /\ log[j].gen = log[i + 1].gen
        BY <2>3
      <3>2. j - 1 < i
        BY <2>1, <3>1 DEF Words, Unread
      <3> QED BY <1>3, <2>1, <3>1, <3>2
    <2> QED BY <1>4, <1>7, <2>1, <2>2, <2>3 DEF EInv, WithdrawalsFollow, Heard
  <1>8. log' = <<>> => lastWord' = None
    BY <1>1, <1>2 DEF LogInOrder, Words
  <1>9. MachineFollows'
    BY <1>5, <1>8 DEF MachineFollows
  <1>10. StreamUnread'
    BY <1>1, <1>2 DEF StreamUnread
  <1> QED BY <1>1, <1>6, <1>7, <1>9, <1>10 DEF ClaimsReach, WithdrawalsFollow
\* A decision record is read: the machine keeps what it knows of its generation
\* or moves on, and knows the content of what it read if that was READY.
KnowsMore ==
    /\ \/ /\ machine'.battle = machine.battle /\ machine'.gen = machine.gen
          /\ machine.raw # None => machine'.raw # None
       \/ KeyLess(machine.battle, machine.gen, machine'.battle, machine'.gen)
    /\ log[1].type = ReadyType =>
          /\ machine'.raw # None
          /\ machine'.battle = log[1].battle /\ machine'.gen = log[1].gen

LEMMA WordFollowed ==
  ASSUME RInv, EInv, PollFrame, log[1].type # "STREAM_START", ~missed, KnowsMore
  PROVE  ClaimsReach' /\ WithdrawalsFollow'
  <1>1. /\ ~lost /\ ~lost' /\ ~missed' /\ log # <<>> /\ log' = Tail(log)
        /\ claims' = claims /\ voided' = voided
        /\ CInv /\ LogInOrder /\ log \in Seq(LiveRecord) /\ Following
    <2>1. Head(log) = log[1]
      BY Taken DEF PollFrame, ReaderTakes, RInv, CInv, TypeOK
    <2> QED BY <2>1 DEF PollFrame, ReaderTakes, history, RInv, CInv, TypeOK, Following
  <1>2. /\ 1 \in Words /\ Len(log) \in Nat
        /\ Len(log') = Len(log) - 1 /\ Words' = Unread'
        /\ \A i \in Words' : i + 1 \in Words /\ log'[i] = log[i + 1]
    BY <1>1, TakenWords, HeadInReach
  <1>3. ASSUME NEW i \in Words, i # 1
        PROVE  i - 1 \in Words' /\ log'[i - 1] = log[i]
    <2>1. i - 1 \in Words'
      <3>1. i \in 1..Len(log)
        BY DEF Words, Unread
      <3> QED BY <1>2, <1>3, <3>1 DEF Unread
    <2>2. (i - 1) + 1 = i
      BY DEF Words, Unread
    <2> QED BY <1>2, <2>1, <2>2
  <1>4. /\ machine.battle \in Int /\ machine.gen \in Int
        /\ machine'.battle \in Int /\ machine'.gen \in Int
    BY FrameRead, MachineKeys DEF RInv
  <1>5. ClaimsReach'
    <2> SUFFICES ASSUME NEW c \in claims
                 PROVE  \/ \E i \in Words' : log'[i].type = ReadyType /\ Claim(log'[i]) = c
                        \/ Heard(c.battle, c.gen)'
                        \/ KeyLess(c.battle, c.gen, machine'.battle, machine'.gen)
      BY <1>1 DEF ClaimsReach
    <2>1. \/ \E i \in Words : log[i].type = ReadyType /\ Claim(log[i]) = c
          \/ Heard(c.battle, c.gen)
          \/ KeyLess(c.battle, c.gen, machine.battle, machine.gen)
      BY <1>1 DEF EInv, ClaimsReach
    <2>2. CASE \E i \in Words : log[i].type = ReadyType /\ Claim(log[i]) = c
      <3>1. PICK i \in Words : log[i].type = ReadyType /\ Claim(log[i]) = c
        BY <2>2
      <3>2. CASE i # 1
        BY <1>3, <3>1, <3>2
      <3>3. CASE i = 1
        BY <1>1, <3>1, <3>3 DEF KnowsMore, Heard, Claim
      <3> QED BY <3>2, <3>3
    <2>3. CASE Heard(c.battle, c.gen)
      BY <1>1, <2>3 DEF KnowsMore, Heard
    <2>4. CASE KeyLess(c.battle, c.gen, machine.battle, machine.gen)
      <3>1. c.battle \in Int /\ c.gen \in Int
        BY <1>1 DEF CInv, TypeOK, Claims
      <3> QED BY <1>4, <2>4, <3>1 DEF KnowsMore, KeyLess
    <2> QED BY <2>1, <2>2, <2>3, <2>4
  <1>6. WithdrawalsFollow'
    <2> SUFFICES ASSUME NEW i \in Words', log'[i].type = InvalidatedType
                 PROVE  \/ <<log'[i].battle, log'[i].gen>> \in voided'
                        \/ \E j \in Words' :
                              /\ j < i /\ log'[j].type = ReadyType
                              /\ log'[j].battle = log'[i].battle
                              /\ log'[j].gen = log'[i].gen
                        \/ Heard(log[i].battle, log[i].gen)'
      BY DEF WithdrawalsFollow
    <2>1. /\ i + 1 \in Words /\ log'[i] = log[i + 1] /\ i \in Int /\ i + 1 > 1
      BY <1>2 DEF Unread
    <2>2. \/ <<log[i + 1].battle, log[i + 1].gen>> \in voided
          \/ \E j \in Words : /\ j < i + 1 /\ log[j].type = ReadyType
                              /\ log[j].battle = log[i + 1].battle
                              /\ log[j].gen = log[i + 1].gen
          \/ Heard(log[i + 1].battle, log[i + 1].gen)
      BY <1>1, <2>1 DEF EInv, WithdrawalsFollow
    <2>3. CASE <<log[i + 1].battle, log[i + 1].gen>> \in voided
      BY <1>1, <2>1, <2>3
    <2>4. CASE \E j \in Words : /\ j < i + 1 /\ log[j].type = ReadyType
                               /\ log[j].battle = log[i + 1].battle
                               /\ log[j].gen = log[i + 1].gen
      <3>1. PICK j \in Words : /\ j < i + 1 /\ log[j].type = ReadyType
                              /\ log[j].battle = log[i + 1].battle
                              /\ log[j].gen = log[i + 1].gen
        BY <2>4
      <3>2. CASE j # 1
        <4>1. j - 1 < i
          BY <2>1, <3>1 DEF Words, Unread
        <4> QED BY <1>3, <2>1, <3>1, <3>2, <4>1
      <3>3. CASE j = 1
        BY <1>1, <2>1, <3>1, <3>3 DEF KnowsMore, Heard
      <3> QED BY <3>2, <3>3
    <2>5. CASE Heard(log[i + 1].battle, log[i + 1].gen)
      <3>1. NotAfter(machine'.battle, machine'.gen, log[i + 1].battle, log[i + 1].gen)
        BY <2>1, FrameRead
      <3>2. /\ log[i + 1].battle = machine.battle /\ log[i + 1].gen = machine.gen
            /\ machine.raw # None
        BY <2>5 DEF Heard
      <3>3. ~KeyLess(machine.battle, machine.gen, machine'.battle, machine'.gen)
        BY <3>1, <3>2 DEF NotAfter
      <3> QED BY <1>1, <2>1, <3>2, <3>3 DEF KnowsMore, Heard
    <2> QED BY <2>2, <2>3, <2>4, <2>5
  <1> QED BY <1>5, <1>6

\* A decision record the machine listens to.
LEMMA HeardOutcomes ==
  ASSUME NEW m \in Machines, NEW r \in LiveRecord, r.type # "STREAM_START", NEW id,
         Listens(m, r)
  PROVE  /\ r.type = InvalidatedType => Accept(m, r, id) = Invalidate(m, r)
         /\ r.type = ReadyType /\ AheadOfMachine(m, r)
               => Accept(m, r, id) = AcceptReady(m, r)
         /\ r.type = ReadyType /\ ~AheadOfMachine(m, r) /\ m.raw # None /\ Repeats(m, r)
               => Accept(m, r, id) = Duplicate(m, r)
  <1>1. ~CompatibilityProblem(r)
    BY DEF Listens
  <1> QED BY <1>1, Outcomes, RecordTypes

\* The machine of a reader that missed nothing, after a decision record.
LEMMA WordHeard ==
  ASSUME PInv, RInv, EInv, PollFrame, log[1].type # "STREAM_START", ~missed
  PROVE  KnowsMore /\ MachineFollows'
  <1> DEFINE r == log[1]
  <1>1. /\ ~lost /\ log # <<>> /\ log' = Tail(log) /\ CInv /\ LogInOrder
        /\ claims' = claims /\ voided' = voided /\ lastWord' = lastWord
        /\ machine \in Machines /\ ClaimsAgree
    BY DEF PollFrame, ReaderTakes, history, RInv
  <1>2. /\ r \in LiveRecord /\ machine' = Accept(machine, r, 1)
        /\ Len(log) \in Nat /\ (log' = <<>> <=> Len(log) = 1) /\ streamStarted
    BY <1>1, TakenWords DEF PollFrame
  <1>3. /\ 1 \in Words /\ r.battle \in Nat /\ r.gen \in Nat
        /\ ~BehindMachine(machine, r)
    BY <1>1, HeadInReach
  <1>4. machine.stream # None /\ machine.stream \in Nat
    <2>1. ~WholeStream
      BY DEF WholeStream
    <2>2. machine.stream # None
      BY <1>1, <1>2, <2>1 DEF EInv, MachineFollows
    <2> QED BY <1>1, <2>2 DEF Machines, MachineState
  <1>5. ~CompatibilityProblem(r) /\ r.type \in {ReadyType, InvalidatedType}
    <2>1. r.compatible /\ r.type \in {ReadyType, InvalidatedType}
      BY <1>2, <1>3, DecisionRecord DEF EInv, AllCompatible, Words
    <2> QED BY <1>1, <1>3, <2>1 DEF LogInOrder, CompatibilityProblem
  <1>6. Listens(machine, r)
    BY <1>3, <1>4, <1>5 DEF Listens
  <1>7. log' = <<>> => lastWord' = r
    BY <1>1, <1>2, <1>3 DEF LogInOrder
  <1>8. ~AheadOfMachine(machine, r) => r.battle = machine.battle /\ r.gen = machine.gen
    BY <1>1, <1>3, MachineKeys DEF AheadOfMachine, BehindMachine, KeyLess
  <1>9. ~AheadOfMachine(machine, r) /\ machine.raw = None
            => <<machine.battle, machine.gen>> \in voided
    <2>1. ~AheadOfMachine(machine, r) => machine.gen >= 0
      BY <1>3, <1>8
    <2> QED BY <1>1, <1>4, <2>1 DEF EInv, MachineFollows
  <1>10. CASE r.type = InvalidatedType
    <2>1. machine' = Invalidate(machine, r)
      BY <1>1, <1>2, <1>6, <1>10, HeardOutcomes
    <2>2. /\ machine'.stream = machine.stream
          /\ machine'.battle = r.battle /\ machine'.gen = r.gen
          /\ machine'.raw = IF AheadOfMachine(machine, r) THEN None ELSE machine.raw
          /\ machine'.digest = IF AheadOfMachine(machine, r) THEN None ELSE machine.digest
      BY <1>1, <1>2, <1>6, <1>10, <2>1, InvalidatedMachine
    <2>3. KnowsMore
      BY <1>8, <1>10, <2>2, RecordTypes DEF KnowsMore, AheadOfMachine
    <2>4. machine'.raw = None => <<machine'.battle, machine'.gen>> \in voided'
      <3>1. CASE AheadOfMachine(machine, r)
        <4>1. ~Heard(r.battle, r.gen)
          BY <1>3, <3>1 DEF Heard, AheadOfMachine, KeyLess
        <4>2. ~\E j \in Words : j < 1
          BY DEF Words, Unread
        <4>3. <<r.battle, r.gen>> \in voided
          BY <1>1, <1>3, <1>10, <4>1, <4>2 DEF EInv, WithdrawalsFollow, Following
        <4> QED BY <1>1, <2>2, <4>3
      <3>2. CASE ~AheadOfMachine(machine, r)
        BY <1>1, <1>8, <1>9, <2>2, <3>2
      <3> QED BY <3>1, <3>2
    <2>5. machine'.raw # None =>
            /\ machine'.digest.sha256 = machine'.raw.fp
            /\ [battle |-> machine'.battle, gen |-> machine'.gen,
                source |-> machine'.raw.fp] \in claims'
      BY <1>1, <1>8, <2>2 DEF EInv, MachineFollows
    <2> QED BY <1>4, <1>7, <1>10, <2>2, <2>3, <2>4, <2>5, RecordTypes DEF MachineFollows
  <1>11. CASE r.type = ReadyType
    <2>1. /\ r.payload = r.fp /\ Claim(r) \in claims /\ r \in ReadyRecord
          /\ <<r.battle, r.gen>> \notin voided
      <3>1. Claim(r) \in claims /\ r.payload = r.fp
        BY <1>1, <1>3, <1>11 DEF LogInOrder
      <3>2. <<r.battle, r.gen>> \notin voided
        BY <3>1 DEF PInv, ProducerObeysProtocol, Claim
      <3> QED BY <1>2, <1>3, <1>11, <3>1, <3>2, DecisionRecord, RecordTypes
    <2>2. CASE AheadOfMachine(machine, r)
      <3>1. machine' = AcceptReady(machine, r)
        BY <1>1, <1>2, <1>6, <1>11, <2>2, HeardOutcomes
      <3>2. /\ machine'.stream = machine.stream /\ machine'.decision # None
            /\ machine'.battle = r.battle /\ machine'.gen = r.gen
            /\ machine'.raw = RawCaptureId(machine.stream, r)
            /\ machine'.digest = PayloadDigest(r.payload)
        <4>1. machine'.stream = machine.stream /\ machine'.decision # None
          BY <1>1, <1>2, <1>6, <1>11, <3>1, ReadyMachine
        <4> QED BY <1>1, <3>1, <4>1 DEF AcceptReady, Machines, MachineState
      <3>3. /\ machine'.raw # None /\ machine'.raw.fp = r.fp
            /\ machine'.digest.sha256 = r.fp
        <4>1. machine'.raw \in RawIds
          BY <1>4, <2>1, <3>2 DEF RawCaptureId, RawIds, ReadyRecord
        <4> QED BY <2>1, <3>2, <4>1, NoneAssumption DEF RawCaptureId, PayloadDigest
      <3>4. [battle |-> machine'.battle, gen |-> machine'.gen,
             source |-> machine'.raw.fp] \in claims'
        BY <1>1, <2>1, <3>2, <3>3 DEF Claim
      <3>5. KnowsMore
        BY <2>2, <3>2, <3>3 DEF KnowsMore, AheadOfMachine
      <3> QED BY <1>4, <3>2, <3>3, <3>4, <3>5 DEF MachineFollows
    <2>3. CASE ~AheadOfMachine(machine, r)
      <3>1. /\ machine.raw # None /\ machine.raw \in RawIds /\ machine.digest \in Digests
            /\ machine.digest.sha256 = machine.raw.fp
            /\ [battle |-> machine.battle, gen |-> machine.gen,
                source |-> machine.raw.fp] \in claims
            /\ machine.raw.stream = machine.stream
            /\ machine.raw.battle = machine.battle /\ machine.raw.gen = machine.gen
        <4>1. machine.raw # None
          BY <1>8, <1>9, <2>1, <2>3
        <4> QED BY <1>1, <4>1 DEF EInv, MachineFollows, Machines, MachineState, Coherent
      <3>2. machine.raw.fp = r.fp
        <4>1. Claim(r).battle = machine.battle /\ Claim(r).gen = machine.gen
          BY <1>8, <2>3 DEF Claim
        <4> QED BY <1>1, <2>1, <3>1, <4>1 DEF ClaimsAgree, Claim
      <3>3. Repeats(machine, r)
        <4>1. machine.raw = RawCaptureId(machine.stream, r)
          BY <1>8, <2>3, <3>1, <3>2 DEF RawCaptureId, RawIds
        <4>2. machine.digest = PayloadDigest(r.payload)
          BY <2>1, <3>1, <3>2 DEF PayloadDigest, Digests
        <4> QED BY <4>1, <4>2 DEF Repeats
      <3>4. machine' = Duplicate(machine, r)
        BY <1>1, <1>2, <1>6, <1>11, <2>3, <3>1, <3>3, HeardOutcomes
      <3>5. /\ machine'.stream = machine.stream /\ machine'.raw = machine.raw
            /\ machine'.digest = machine.digest /\ machine'.decision # None
            /\ machine'.battle = machine.battle /\ machine'.gen = machine.gen
        BY <1>1, <1>2, <1>6, <1>11, <3>1, <3>3, <3>4, DuplicateMachine
      <3>6. KnowsMore
        BY <1>8, <2>3, <3>1, <3>5 DEF KnowsMore
      <3> QED BY <1>1, <1>4, <3>1, <3>5, <3>6 DEF MachineFollows
    <2> QED BY <2>2, <2>3
  <1> QED BY <1>5, <1>10, <1>11
LEMMA WordRead ==
  ASSUME PInv, RInv, EInv, PollFrame, log[1].type # "STREAM_START"
  PROVE  ClaimsReach' /\ WithdrawalsFollow' /\ MachineFollows' /\ StreamUnread'
  <1>1. /\ ~lost /\ ~lost' /\ log # <<>> /\ log' = Tail(log) /\ Head(log) = log[1]
        /\ missed' = (missed /\ Head(log).type # "STREAM_START") /\ missed \in BOOLEAN
        /\ streamStarted' = streamStarted /\ streamStarted /\ ~WholeStream'
    BY TakenWords DEF PollFrame, ReaderTakes, RInv
  <1>2. StreamUnread'
    BY <1>1 DEF StreamUnread
  <1>3. CASE missed
    BY <1>1, <1>2, <1>3 DEF ClaimsReach, WithdrawalsFollow, MachineFollows, Following
  <1>4. CASE ~missed
    BY <1>2, <1>4, WordHeard, WordFollowed
  <1> QED BY <1>3, <1>4

\* With everything compatible, the reader's invariant follows the producer's.
LEMMA NextEInv ==
  ASSUME "provenance" \notin Faults, "configure" \notin Faults,
         PInv, RInv, EInv, [PNext]_pvars
  PROVE  EInv'
  <1>1. AllCompatible'
    BY CompatibleKept DEF EInv
  <1>2. ClaimsReach' /\ WithdrawalsFollow' /\ MachineFollows' /\ StreamUnread'
    <2>1. CASE (Producer \/ Environment) /\ UNCHANGED receiver
      <3>1. GameStep /\ RInv'
        BY <2>1, GameStepKeeps
      <3>2. CASE Opens
        BY <3>1, <3>2, OpensKeeps
      <3>3. CASE Silent \/ Exports \/ Withdraws
        BY <3>1, <3>3, ClaimsReachKept, WithdrawalsFollowKept, MachineFollowsKept
      <3> QED BY <3>1, <3>2, <3>3 DEF GameStep
    <2>2. CASE NewGame \/ PollCorrupt \/ PollDiscontinuity
      BY <2>2, UnfollowedSteps
    <2>3. CASE PollFrame
      BY <2>3, StartRead, WordRead
    <2>4. CASE UNCHANGED pvars
      BY <2>4 DEF pvars, vars, EInv, ClaimsReach, WithdrawalsFollow, MachineFollows,
                  StreamUnread, Following, WholeStream, Heard, Words, Unread
    <2> QED BY <2>1, <2>2, <2>3, <2>4, PipelineSteps
  <1> QED BY <1>1, <1>2 DEF EInv

LEMMA ProtocolStays ==
  ASSUME "acquisition" \notin Faults, RInv, PInv, [PNext]_pvars
  PROVE  PInv'
  <1>1. CASE Next
    BY <1>1, NextPInv DEF RInv
  <1>2. CASE PollDiscontinuity \/ UNCHANGED pvars
    BY <1>2, ReaderOnly DEF PInv, CurrentAgrees, Key, ProducerObeysProtocol
  <1> QED BY <1>1, <1>2, PipelineSteps DEF Next, NewGame, PollFrame, PollCorrupt

\* Unless raw acquisition throws, an INVALIDATED is lost, or provenance fails or
\* is reconfigured, a reader that has read everything shows exactly what the
\* game stands by, or nothing if it could not hear all of the stream; through
\* corrupted frames, failed exports, battles and game restarts.
THEOREM AdviceIsExact ==
  ASSUME {"acquisition", "invalidation", "configure", "provenance"} \cap Faults = {}
  PROVE  PSpec => []CaughtUpAdviceIsExact
  <1>1. PSpec => []CaughtUpAdviceIsCurrent
    BY AdviceIsCurrent
  <1>2. RInv /\ EInv /\ LastWordTellsReadiness => CaughtUpAdviceIsComplete
    <2> SUFFICES ASSUME RInv, EInv, LastWordTellsReadiness, CaughtUp, ~missed
                 PROVE  Shown = Promised
      BY DEF CaughtUpAdviceIsComplete
    <2>1. CASE cap.isReady
      <3>1. lastWord # None /\ lastWord.type = ReadyType
        BY <2>1 DEF LastWordTellsReadiness
      <3>2. machine.decision # None
        BY <3>1 DEF EInv, MachineFollows, CaughtUp
      <3>3. Shown = Claim(lastWord)
        BY <3>2, ShownIs DEF RInv, NothingUnread, CaughtUp
      <3> QED BY <2>1, <3>3 DEF Promised, Claim, LastWordTellsReadiness
    <2>2. CASE ~cap.isReady
      <3>1. ~(lastWord # None /\ lastWord.type = ReadyType)
        BY <2>2, RecordTypes DEF LastWordTellsReadiness
      <3>2. machine.decision = None
        BY <3>1 DEF RInv, NothingUnread, CaughtUp
      <3> QED BY <2>2, <3>2 DEF Promised, Shown
    <2> QED BY <2>1, <2>2
  <1>3. PInit => PInv /\ EInv /\ LastWordTellsReadiness
    <2> SUFFICES ASSUME PInit PROVE PInv /\ EInv /\ LastWordTellsReadiness
      OBVIOUS
    <2>1. PInv /\ LastWordTellsReadiness
      BY DEF PInit, Init, FreshCapture, PInv, CurrentAgrees, Key, ProducerObeysProtocol,
             LastWordTellsReadiness
    <2>2. /\ log = <<>> /\ claims = {} /\ lastWord = None /\ machine = EmptyState
          /\ ~streamStarted /\ ~lost /\ compatible /\ ~unmet
      BY DEF PInit, Init
    <2>3. Unread = {} /\ Words = {}
      BY <2>2 DEF Unread, Words
    <2>4. ClaimsReach /\ WithdrawalsFollow /\ StreamUnread /\ AllCompatible
      BY <2>2, <2>3 DEF ClaimsReach, WithdrawalsFollow, StreamUnread, AllCompatible
    <2>5. MachineFollows
      BY <2>2 DEF MachineFollows, EmptyState
    <2> QED BY <2>1, <2>4, <2>5 DEF EInv
  <1>4. /\ RInv /\ PInv /\ EInv /\ LastWordTellsReadiness /\ [PNext]_pvars
             => PInv' /\ EInv' /\ LastWordTellsReadiness'
    BY ProtocolStays, NextEInv, LastWordStays
  <1>5. CaughtUpAdviceIsCurrent /\ CaughtUpAdviceIsComplete => CaughtUpAdviceIsExact
    BY DEF CaughtUpAdviceIsExact
  <1> QED BY <1>1, <1>2, <1>3, <1>4, <1>5, PipelineInvariance, PTL DEF PSpec

\* Nothing the producer relies on is upset by the reader: what it writes stays
\* sound in the composition.
THEOREM ProducerStaysSound ==
  ASSUME {"acquisition", "invalidation", "configure"} \cap Faults = {}
  PROVE  PSpec => []ProducerIsSound
  <1>1. PInit => PInv /\ LastWordTellsReadiness
    BY DEF PInit, Init, FreshCapture, PInv, CurrentAgrees, Key, ProducerObeysProtocol,
           LastWordTellsReadiness
  <1>2. /\ RInv /\ PInv /\ LastWordTellsReadiness /\ [PNext]_pvars
             => PInv' /\ LastWordTellsReadiness'
    BY ProtocolStays, LastWordStays
  <1>3. PInv /\ LastWordTellsReadiness => ProducerIsSound
    BY DEF PInv, ProducerIsSound
  <1> QED BY <1>1, <1>2, <1>3, PipelineInvariance, PTL DEF PSpec
=============================================================================
