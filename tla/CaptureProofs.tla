----------------------------- MODULE CaptureProofs -----------------------------
(***************************************************************************)
(* Proofs about the producer for every set of tactical sources, every set  *)
(* of faults unless a theorem excludes one, and any bounds.                *)
(***************************************************************************)
EXTENDS Capture, TLAPS

Key == <<cap.battle, cap.gen>>

NotAfter(b1, g1, b2, g2) == ~KeyLess(b2, g2, b1, g1)

\* What the fields of the capture table, the phase and the exporter say of
\* one another.
Shape ==
    /\ cap.lastReadySignature # None => cap.gen >= 0
    /\ cap.isReady => /\ cap.lastReadySignature # None
                      /\ cap.failedReadySignature = None
                      /\ streamStarted /\ phase # "menu"
    /\ ~streamStarted => lastWord = None

\* Nothing written or failed names a generation beyond the current one.
Bounded ==
    /\ \A c \in claims : NotAfter(c.battle, c.gen, cap.battle, cap.gen)
    /\ \A k \in voided \cup failed : NotAfter(k[1], k[2], cap.battle, cap.gen)
    /\ lastWord # None => NotAfter(lastWord.battle, lastWord.gen, cap.battle, cap.gen)

\* The latch holds the source of the current generation if its export failed.
LatchRemembers ==
    Key \in failed => /\ cap.failedReadySignature = cap.lastReadySignature
                      /\ cap.failedReadySignature # None

CInv == TypeOK /\ Shape /\ Bounded /\ LatchRemembers

-----------------------------------------------------------------------------
(* The pieces the hook is built from *)

LEMMA InitCInv == Init => CInv
  <1> SUFFICES ASSUME Init PROVE CInv
    OBVIOUS
  <1>1. TypeOK
    <2>1. cap \in CaptureState
      BY DEF Init, FreshCapture, CaptureState
    <2>2. log \in Seq(LiveRecord)
      BY DEF Init
    <2> QED BY <2>1, <2>2 DEF Init, TypeOK
  <1>2. Shape /\ Bounded /\ LatchRemembers
    BY SourcesAssumption DEF Init, FreshCapture, Shape, Bounded, LatchRemembers
  <1> QED BY <1>1, <1>2 DEF CInv

\* Withdrawing readiness changes nothing else of the capture table.
LEMMA WithdrawFacts ==
  ASSUME NEW c \in CaptureState
  PROVE  /\ Withdraw(c) \in CaptureState /\ ~Withdraw(c).isReady
         /\ Withdraw(c).battle = c.battle /\ Withdraw(c).gen = c.gen
         /\ Withdraw(c).lastReadySignature = c.lastReadySignature
         /\ Withdraw(c).failedReadySignature = c.failedReadySignature
  BY DEF Withdraw, CaptureState

\* When no latch holds, the frame stands at a generation of the current
\* source: the current one, not failed, or the next one.
LEMMA AdvancedFacts ==
  ASSUME CInv, ~Latched
  PROVE  /\ Advanced \in CaptureState
         /\ Advanced.battle = cap.battle /\ Advanced.gen \in Nat
         /\ Advanced.isReady = cap.isReady
         /\ Advanced.lastReadySignature = source /\ source # None
         /\ Advanced.failedReadySignature = None
         /\ \/ /\ Advanced.gen = cap.gen /\ cap.lastReadySignature = source
               /\ Key \notin failed
            \/ Advanced.gen = cap.gen + 1
  <1>1. /\ cap \in CaptureState /\ source \in Sources /\ source # None
        /\ cap.gen \in Int /\ cap.gen >= -1
    BY SourcesAssumption DEF CInv, TypeOK, CaptureState
  <1>2. /\ Rearmed \in CaptureState /\ Rearmed.failedReadySignature = None
        /\ Rearmed.battle = cap.battle /\ Rearmed.gen = cap.gen
        /\ Rearmed.isReady = cap.isReady
        /\ Rearmed.lastReadySignature = cap.lastReadySignature
    <2>1. Rearmed = [cap EXCEPT !.failedReadySignature = None]
      BY DEF Rearmed, Latched
    <2> QED BY <1>1, <2>1 DEF CaptureState
  <1>3. CASE cap.lastReadySignature = source
    <2>1. Advanced = Rearmed
      BY <1>3 DEF Advanced
    <2>2. Key \notin failed
      BY <1>3 DEF CInv, LatchRemembers, Latched
    <2> QED BY <1>1, <1>2, <1>3, <2>1, <2>2 DEF CInv, Shape
  <1>4. CASE cap.lastReadySignature # source
    <2>1. Advanced = [Rearmed EXCEPT !.gen = @ + 1, !.lastReadySignature = source]
      BY <1>4 DEF Advanced
    <2>2. Rearmed.gen + 1 \in Nat /\ Rearmed.gen + 1 = cap.gen + 1
      BY <1>1, <1>2
    <2>3. Advanced \in CaptureState
      BY <1>1, <1>2, <2>1, <2>2 DEF CaptureState
    <2>4. /\ Advanced.battle = Rearmed.battle /\ Advanced.gen = Rearmed.gen + 1
          /\ Advanced.isReady = Rearmed.isReady
          /\ Advanced.lastReadySignature = source
          /\ Advanced.failedReadySignature = Rearmed.failedReadySignature
      BY <1>2, <2>1 DEF CaptureState
    <2> QED BY <1>1, <1>2, <2>2, <2>3, <2>4
  <1> QED BY <1>3, <1>4

LEMMA RecordsTyped ==
  ASSUME TypeOK, NEW c \in CaptureState, c.gen \in Nat
  PROVE  /\ InvalidatedOf(c) \in InvalidatedRecord /\ InvalidatedOf(c) \in LiveRecord
         /\ ReadyOf(c) \in ReadyRecord /\ ReadyOf(c) \in LiveRecord
         /\ InvalidatedOf(c).battle = c.battle /\ InvalidatedOf(c).gen = c.gen
         /\ InvalidatedOf(c).type = InvalidatedType
         /\ ReadyOf(c).battle = c.battle /\ ReadyOf(c).gen = c.gen
         /\ ReadyOf(c).type = ReadyType /\ ReadyOf(c).fp = source
         /\ Claim(ReadyOf(c)) = [battle |-> c.battle, gen |-> c.gen, source |-> source]
         /\ Claim(ReadyOf(c)) \in Claims
  BY SourcesAssumption
     DEF TypeOK, CaptureState, InvalidatedOf, ReadyOf, InvalidatedRecord, ReadyRecord,
         LiveRecord, Profiles, Claim, Claims

-----------------------------------------------------------------------------
(* What a step may add to the histories *)

\* Whatever is added names the generation the step ends at, and that
\* generation is not before the one it started from.
HistoryGrows ==
    /\ NotAfter(cap.battle, cap.gen, cap'.battle, cap'.gen)
    /\ \A c \in claims' : c \in claims \/ <<c.battle, c.gen>> = Key'
    /\ \A k \in voided' \cup failed' : k \in voided \cup failed \/ k = Key'
    /\ \/ lastWord' = None
       \/ lastWord' = lastWord
       \/ lastWord'.battle = cap'.battle /\ lastWord'.gen = cap'.gen

LEMMA BoundedPreserved ==
  ASSUME CInv, TypeOK', HistoryGrows
  PROVE  Bounded'
  <1>1. /\ cap.battle \in Nat /\ cap.gen \in Int
        /\ cap'.battle \in Nat /\ cap'.gen \in Int
    BY DEF CInv, TypeOK, CaptureState
  <1>2. \A b, g \in Int : NotAfter(b, g, cap.battle, cap.gen)
                            => NotAfter(b, g, cap'.battle, cap'.gen)
    BY <1>1 DEF HistoryGrows, NotAfter, KeyLess
  <1>3. NotAfter(cap'.battle, cap'.gen, cap'.battle, cap'.gen)
    BY <1>1 DEF NotAfter, KeyLess
  <1>4. ASSUME NEW c \in claims'
        PROVE  NotAfter(c.battle, c.gen, cap'.battle, cap'.gen)
    <2>1. c.battle \in Int /\ c.gen \in Int
      BY <1>4 DEF TypeOK, Claims
    <2>2. CASE c \in claims
      BY <1>2, <2>1, <2>2 DEF CInv, Bounded
    <2>3. CASE <<c.battle, c.gen>> = Key'
      BY <1>3, <2>3 DEF Key
    <2> QED BY <2>2, <2>3 DEF HistoryGrows
  <1>5. ASSUME NEW k \in voided' \cup failed'
        PROVE  NotAfter(k[1], k[2], cap'.battle, cap'.gen)
    <2>1. k[1] \in Int /\ k[2] \in Int
      BY <1>5 DEF TypeOK
    <2>2. CASE k \in voided \cup failed
      BY <1>2, <2>1, <2>2 DEF CInv, Bounded
    <2>3. CASE k = Key'
      BY <1>3, <2>3 DEF Key
    <2> QED BY <2>2, <2>3 DEF HistoryGrows
  <1>6. ASSUME lastWord' # None
        PROVE  NotAfter(lastWord'.battle, lastWord'.gen, cap'.battle, cap'.gen)
    <2>1. lastWord'.battle \in Int /\ lastWord'.gen \in Int
      BY <1>6 DEF TypeOK, ReadyRecord, InvalidatedRecord
    <2>2. CASE lastWord' = lastWord
      BY <1>2, <1>6, <2>1, <2>2 DEF CInv, Bounded
    <2>3. CASE lastWord'.battle = cap'.battle /\ lastWord'.gen = cap'.gen
      BY <1>3, <2>3
    <2> QED BY <1>6, <2>2, <2>3 DEF HistoryGrows
  <1> QED BY <1>4, <1>5, <1>6 DEF Bounded

\* An INVALIDATED that is written, or lost, adds at most its own key.
LEMMA InvalidatedWord ==
  ASSUME TypeOK, NEW c \in CaptureState, c.gen \in Nat,
         WriteInvalidated(InvalidatedOf(c))
  PROVE  /\ streamStarted' = streamStarted /\ claims' = claims
         /\ log' \in Seq(LiveRecord)
         /\ lastWord' \in InvalidatedRecord \cup {lastWord}
         /\ voided' \subseteq Nat \X Nat
         /\ voided' \in {voided, voided \cup {<<c.battle, c.gen>>}}
         /\ voided' # voided => \A d \in claims : <<d.battle, d.gen>> # <<c.battle, c.gen>>
         /\ lastWord' = lastWord \/ /\ streamStarted
                                    /\ lastWord'.battle = c.battle
                                    /\ lastWord'.gen = c.gen
                                    /\ lastWord'.type = InvalidatedType
  <1>1. /\ InvalidatedOf(c) \in InvalidatedRecord /\ InvalidatedOf(c) \in LiveRecord
        /\ InvalidatedOf(c).battle = c.battle /\ InvalidatedOf(c).gen = c.gen
        /\ InvalidatedOf(c).type = InvalidatedType
    BY RecordsTyped
  <1>2. <<c.battle, c.gen>> \in Nat \X Nat
    BY DEF CaptureState
  <1>3. CASE streamStarted /\ log' = Append(log, InvalidatedOf(c)) /\
             lastWord' = InvalidatedOf(c) /\ UNCHANGED <<streamStarted, claims>> /\
             voided' = IF \A d \in claims : <<d.battle, d.gen>> # <<c.battle, c.gen>>
                       THEN voided \cup {<<c.battle, c.gen>>} ELSE voided
    <2>1. log' \in Seq(LiveRecord)
      BY <1>1, <1>3 DEF TypeOK
    <2>2. voided' \subseteq Nat \X Nat
      BY <1>2, <1>3 DEF TypeOK
    <2> QED BY <1>1, <1>3, <2>1, <2>2
  <1>4. CASE UNCHANGED <<streamStarted, log, claims, voided, lastWord>>
    BY <1>4 DEF TypeOK
  <1> QED BY <1>1, <1>3, <1>4 DEF WriteInvalidated

\* What readiness lost, or withdrawn by an event, leaves: c is the capture
\* table before the withdrawal, at the generation the INVALIDATED names.
LEMMA WithdrawnPreserves ==
  ASSUME CInv, NEW c \in CaptureState, c.gen \in Nat,
         c.battle = cap.battle,
         c.lastReadySignature # None,
         NotAfter(cap.battle, cap.gen, c.battle, c.gen),
         <<c.battle, c.gen>> \in failed =>
             /\ c.failedReadySignature = c.lastReadySignature
             /\ c.failedReadySignature # None,
         cap' = Withdraw(c), WriteInvalidated(InvalidatedOf(c)), failed' = failed,
         phase' \in {"menu", "battle", "ended"}, commandReady' = commandReady,
         source' = source, compatible' = compatible, unmet' = unmet
  PROVE  TypeOK' /\ Shape' /\ LatchRemembers' /\ HistoryGrows
  <1>1. /\ cap' \in CaptureState /\ ~cap'.isReady
        /\ cap'.battle = c.battle /\ cap'.gen = c.gen
        /\ cap'.lastReadySignature = c.lastReadySignature
        /\ cap'.failedReadySignature = c.failedReadySignature
    BY WithdrawFacts
  <1>2. TypeOK
    BY DEF CInv
  <1>3. TypeOK'
    BY <1>1, <1>2, InvalidatedWord DEF TypeOK
  <1>4. Shape'
    BY <1>1, <1>2, InvalidatedWord DEF CInv, Shape
  <1>5. LatchRemembers'
    BY <1>1 DEF LatchRemembers, Key
  <1>6. HistoryGrows
    <2>1. \A k \in voided' \cup failed' : k \in voided \cup failed \/ k = Key'
      BY <1>1, <1>2, InvalidatedWord DEF Key
    <2>2. NotAfter(cap.battle, cap.gen, cap'.battle, cap'.gen)
      BY <1>1
    <2>3. claims' = claims
      BY <1>2, InvalidatedWord
    <2>4. \/ lastWord' = lastWord
          \/ lastWord'.battle = cap'.battle /\ lastWord'.gen = cap'.gen
      BY <1>1, <1>2, InvalidatedWord
    <2> QED BY <2>1, <2>2, <2>3, <2>4 DEF HistoryGrows, Key
  <1> QED BY <1>3, <1>4, <1>5, <1>6

\* A step that writes no decision record and leaves readiness withdrawn, or
\* the capture table as it is.
LEMMA SilentPreserves ==
  ASSUME CInv, UNCHANGED history, cap' \in CaptureState,
         NotAfter(cap.battle, cap.gen, cap'.battle, cap'.gen),
         cap'.lastReadySignature # None => cap'.gen >= 0,
         \/ ~cap'.isReady
         \/ cap' = cap /\ (phase' = "menu" => phase = "menu"),
         Key' \in failed =>
             /\ cap'.failedReadySignature = cap'.lastReadySignature
             /\ cap'.failedReadySignature # None,
         phase' \in {"menu", "battle", "ended"}, commandReady' \in BOOLEAN,
         source' \in Sources, compatible' \in BOOLEAN, unmet' \in BOOLEAN,
         streamStarted' \in BOOLEAN, streamStarted => streamStarted',
         log' \in Seq(LiveRecord)
  PROVE  TypeOK' /\ Shape' /\ LatchRemembers' /\ HistoryGrows
  <1>1. claims' = claims /\ voided' = voided /\ lastWord' = lastWord /\ failed' = failed
    BY DEF history
  <1>2. TypeOK'
    BY <1>1 DEF CInv, TypeOK
  <1>3. Shape'
    BY <1>1 DEF CInv, Shape
  <1>4. LatchRemembers'
    BY <1>1 DEF LatchRemembers
  <1>5. HistoryGrows
    BY <1>1 DEF HistoryGrows, Key
  <1> QED BY <1>2, <1>3, <1>4, <1>5

\* invalidate on a capture table that is the current one, or the current one
\* moved on to the observed source.
LEMMA InvalidatePreserves ==
  ASSUME CInv, NEW c \in CaptureState,
         c = cap \/ (c = Advanced /\ ~Latched),
         InvalidateAndExport(c),
         phase' \in {"menu", "battle", "ended"}, commandReady' = commandReady,
         source' = source, compatible' = compatible, unmet' = unmet
  PROVE  TypeOK' /\ Shape' /\ LatchRemembers' /\ HistoryGrows
  <1>1. /\ c.battle = cap.battle
        /\ c.lastReadySignature # None => c.gen \in Nat
        /\ c.isReady = cap.isReady
        /\ cap.isReady => c.lastReadySignature # None
        /\ NotAfter(cap.battle, cap.gen, c.battle, c.gen)
        /\ <<c.battle, c.gen>> \in failed =>
               /\ c.failedReadySignature = c.lastReadySignature
               /\ c.failedReadySignature # None
    <2>1. cap.battle \in Nat /\ cap.gen \in Int /\ cap.gen >= -1
      BY DEF CInv, TypeOK, CaptureState
    <2>2. CASE c = cap
      BY <2>1, <2>2 DEF CInv, Shape, LatchRemembers, Key, NotAfter, KeyLess
    <2>3. CASE c = Advanced /\ ~Latched
      <3>1. <<cap.battle, cap.gen + 1>> \notin failed
        BY <2>1 DEF CInv, Bounded, NotAfter, KeyLess
      <3> QED BY <2>1, <2>3, <3>1, AdvancedFacts DEF NotAfter, KeyLess, Key
    <2> QED BY <2>2, <2>3
  <1>2. CASE cap.isReady
    <2>1. cap' = Withdraw(c) /\ WriteInvalidated(InvalidatedOf(c)) /\ failed' = failed
      BY <1>2 DEF InvalidateAndExport
    <2> QED BY <1>1, <1>2, <2>1, WithdrawnPreserves
  <1>3. CASE ~cap.isReady
    <2>1. cap' = c /\ UNCHANGED exporter
      BY <1>3 DEF InvalidateAndExport
    <2>2. /\ UNCHANGED history /\ streamStarted' = streamStarted /\ log' = log
      BY <2>1 DEF exporter, history
    <2>3. Key' \in failed =>
             /\ cap'.failedReadySignature = cap'.lastReadySignature
             /\ cap'.failedReadySignature # None
      BY <1>1, <2>1 DEF Key
    <2>4. /\ commandReady \in BOOLEAN /\ source \in Sources
          /\ compatible \in BOOLEAN /\ unmet \in BOOLEAN
          /\ streamStarted \in BOOLEAN /\ log \in Seq(LiveRecord)
      BY DEF CInv, TypeOK
    <2>5. c.lastReadySignature # None => c.gen >= 0
      BY <1>1
    <2> QED BY <1>1, <1>3, <2>1, <2>2, <2>3, <2>4, <2>5, SilentPreserves
  <1> QED BY <1>2, <1>3

-----------------------------------------------------------------------------
(* Every step *)

StepKeeps == TypeOK' /\ Shape' /\ LatchRemembers' /\ HistoryGrows

\* The generation READY is committed at, seen from the current one.
LEMMA AdvancedOrder ==
  ASSUME CInv, ~Latched
  PROVE  /\ NotAfter(cap.battle, cap.gen, Advanced.battle, Advanced.gen)
         /\ <<Advanced.battle, Advanced.gen>> \notin failed
         /\ <<Advanced.battle, Advanced.gen>> \in Nat \X Nat
  <1>1. cap.battle \in Nat /\ cap.gen \in Int
    BY DEF CInv, TypeOK, CaptureState
  <1>2. <<cap.battle, cap.gen + 1>> \notin failed
    BY <1>1 DEF CInv, Bounded, NotAfter, KeyLess
  <1> QED BY <1>1, <1>2, AdvancedFacts DEF NotAfter, KeyLess, Key

\* observe commits READY and the record reaches the log.
LEMMA ReadyExportedKeeps ==
  ASSUME CInv, ObserveReadyExported
  PROVE  StepKeeps
  <1>1. /\ phase = "battle" /\ ~Latched
        /\ cap' = [Advanced EXCEPT !.isReady = TRUE]
        /\ WriteReady(ReadyOf(Advanced))
        /\ UNCHANGED <<game, compatible, unmet>>
    BY DEF ObserveReadyExported, Observing, OpensReady, ObserveReadiness
  <1>2. /\ cap' \in CaptureState
        /\ cap'.battle = Advanced.battle /\ cap'.gen = Advanced.gen
        /\ cap'.lastReadySignature = source
        /\ cap'.failedReadySignature = None /\ source # None
    BY <1>1, AdvancedFacts DEF CaptureState
  <1>3. /\ streamStarted /\ streamStarted' = streamStarted
        /\ log' = Append(log, ReadyOf(Advanced))
        /\ claims' = claims \cup {Claim(ReadyOf(Advanced))}
        /\ lastWord' = ReadyOf(Advanced)
        /\ voided' = voided /\ failed' = failed
    BY <1>1 DEF WriteReady
  <1>4. /\ ReadyOf(Advanced) \in ReadyRecord /\ ReadyOf(Advanced) \in LiveRecord
        /\ ReadyOf(Advanced).battle = Advanced.battle
        /\ ReadyOf(Advanced).gen = Advanced.gen
        /\ Claim(ReadyOf(Advanced)) \in Claims
        /\ Claim(ReadyOf(Advanced)).battle = Advanced.battle
        /\ Claim(ReadyOf(Advanced)).gen = Advanced.gen
    BY <1>1, AdvancedFacts, RecordsTyped DEF CInv
  <1>5. TypeOK'
    <2>1. log' \in Seq(LiveRecord)
      BY <1>3, <1>4 DEF CInv, TypeOK
    <2> QED BY <1>1, <1>2, <1>3, <1>4, <2>1 DEF CInv, TypeOK, game
  <1>6. Shape'
    BY <1>1, <1>2, <1>3, AdvancedFacts DEF Shape, game
  <1>7. LatchRemembers'
    BY <1>1, <1>2, <1>3, AdvancedOrder DEF LatchRemembers, Key
  <1>8. HistoryGrows
    BY <1>1, <1>2, <1>3, <1>4, AdvancedOrder DEF HistoryGrows, Key
  <1> QED BY <1>5, <1>6, <1>7, <1>8 DEF StepKeeps

\* observe commits READY, the export fails, the latch is set.
LEMMA ReadyExportFailsKeeps ==
  ASSUME CInv, ObserveReadyExportFails
  PROVE  StepKeeps
  <1>1. /\ phase = "battle" /\ ~Latched
        /\ cap' = [Advanced EXCEPT !.isReady = FALSE, !.failedReadySignature = source]
        /\ WriteInvalidated(InvalidatedOf(Advanced))
        /\ failed' = failed \cup {<<cap.battle, Advanced.gen>>}
        /\ UNCHANGED <<game, compatible, unmet>>
    BY DEF ObserveReadyExportFails, Observing, OpensReady, ObserveReadiness
  <1>2. /\ cap' \in CaptureState /\ ~cap'.isReady
        /\ cap'.battle = Advanced.battle /\ cap'.gen = Advanced.gen
        /\ cap'.lastReadySignature = source
        /\ cap'.failedReadySignature = source /\ source # None
    BY <1>1, AdvancedFacts DEF CInv, TypeOK, CaptureState
  <1>3. /\ streamStarted' = streamStarted /\ claims' = claims
        /\ log' \in Seq(LiveRecord)
        /\ lastWord' \in InvalidatedRecord \cup {lastWord}
        /\ voided' \subseteq Nat \X Nat
        /\ voided' \in {voided, voided \cup {<<Advanced.battle, Advanced.gen>>}}
        /\ lastWord' = lastWord \/ /\ streamStarted
                                   /\ lastWord'.battle = Advanced.battle
                                   /\ lastWord'.gen = Advanced.gen
    BY <1>1, AdvancedFacts, InvalidatedWord DEF CInv
  <1>4. /\ <<cap.battle, Advanced.gen>> = <<Advanced.battle, Advanced.gen>>
        /\ <<Advanced.battle, Advanced.gen>> \in Nat \X Nat
    BY <1>1, AdvancedFacts, AdvancedOrder
  <1>5. TypeOK'
    BY <1>1, <1>2, <1>3, <1>4 DEF CInv, TypeOK, game
  <1>6. Shape'
    BY <1>2, <1>3, AdvancedFacts, <1>1 DEF CInv, Shape
  <1>7. LatchRemembers'
    BY <1>2 DEF LatchRemembers
  <1>8. HistoryGrows
    <2>1. \A k \in voided' \cup failed' : k \in voided \cup failed \/ k = Key'
      BY <1>1, <1>2, <1>3, <1>4 DEF Key
    <2> QED BY <1>1, <1>2, <1>3, <2>1, AdvancedOrder DEF HistoryGrows, Key
  <1> QED BY <1>5, <1>6, <1>7, <1>8 DEF StepKeeps

\* An event on the current capture table.
LEMMA EventKeeps ==
  ASSUME CInv, InvalidateAndExport(cap),
         phase' \in {"menu", "battle", "ended"},
         UNCHANGED <<commandReady, source, compatible, unmet>>
  PROVE  StepKeeps
  <1>1. cap \in CaptureState
    BY DEF CInv, TypeOK
  <1> QED BY <1>1, InvalidatePreserves DEF StepKeeps

LEMMA AcquisitionErrorKeeps ==
  ASSUME CInv, ObserveAcquisitionError
  PROVE  StepKeeps
  <1>1. /\ phase = "battle" /\ ~Latched
        /\ UNCHANGED <<phase, commandReady, source, compatible, unmet>>
    BY DEF ObserveAcquisitionError, Observing, OpensReady, ObserveReadiness, game
  <1>2. CASE InvalidateAndExport(Advanced)
    <2>1. phase' \in {"menu", "battle", "ended"}
      BY <1>1
    <2>2. Advanced \in CaptureState
      BY <1>1, AdvancedFacts
    <2> QED BY <1>1, <1>2, <2>1, <2>2, InvalidatePreserves DEF StepKeeps
  <1>3. CASE /\ cap' = Withdraw(Advanced)
             /\ WriteInvalidated(InvalidatedOf(Advanced))
             /\ failed' = failed
    <2>1. /\ Advanced \in CaptureState /\ Advanced.gen \in Nat
          /\ Advanced.battle = cap.battle /\ Advanced.lastReadySignature # None
          /\ NotAfter(cap.battle, cap.gen, Advanced.battle, Advanced.gen)
          /\ <<Advanced.battle, Advanced.gen>> \notin failed
      BY <1>1, AdvancedFacts, AdvancedOrder
    <2>2. phase' \in {"menu", "battle", "ended"}
      BY <1>1
    <2> QED BY <1>1, <1>3, <2>1, <2>2, WithdrawnPreserves DEF StepKeeps
  <1> QED BY <1>2, <1>3 DEF ObserveAcquisitionError

\* A new battle starts with a fresh capture table and a battle number of its own.
LEMMA OnInitKeeps ==
  ASSUME CInv, OnInit
  PROVE  StepKeeps
  <1>1. /\ cap.battle \in Nat /\ cap.gen \in Int /\ failed \subseteq Nat \X Nat
        /\ streamStarted \in BOOLEAN /\ log \in Seq(LiveRecord)
        /\ commandReady \in BOOLEAN /\ source \in Sources /\ unmet \in BOOLEAN
    BY DEF CInv, TypeOK, CaptureState
  <1>2. /\ cap' = FreshCapture(cap.battle + 1) /\ phase' = "battle"
        /\ compatible' \in BOOLEAN /\ unmet' = unmet
        /\ commandReady' = commandReady /\ source' = source /\ UNCHANGED history
        /\ BeginStream
    BY DEF OnInit, Probed
  <1>3. /\ cap' \in CaptureState /\ cap'.battle = cap.battle + 1 /\ cap'.gen = -1
        /\ ~cap'.isReady /\ cap'.lastReadySignature = None
    BY <1>1, <1>2 DEF FreshCapture, CaptureState
  <1>4. Key' \notin failed
    BY <1>1, <1>3 DEF Key
  <1>5. NotAfter(cap.battle, cap.gen, cap'.battle, cap'.gen)
    BY <1>1, <1>3 DEF NotAfter, KeyLess
  <1>6. /\ streamStarted' \in BOOLEAN /\ (streamStarted => streamStarted')
        /\ log' \in Seq(LiveRecord)
    <2>1. [type |-> "STREAM_START", compatible |-> compatible'] \in LiveRecord
      BY <1>2 DEF LiveRecord, StartRecord
    <2>2. CASE streamStarted' = streamStarted /\ log' = log
      BY <1>1, <2>2
    <2>3. CASE /\ ~streamStarted /\ streamStarted' = TRUE
               /\ log' = Append(log, [type |-> "STREAM_START", compatible |-> compatible'])
      BY <1>1, <2>1, <2>3
    <2> QED BY <1>2, <2>2, <2>3 DEF BeginStream
  <1>7. phase' \in {"menu", "battle", "ended"}
    BY <1>2
  <1>8. source' \in Sources /\ commandReady' \in BOOLEAN /\ unmet' \in BOOLEAN
    BY <1>1, <1>2
  <1> QED BY <1>2, <1>3, <1>4, <1>5, <1>6, <1>7, <1>8, SilentPreserves DEF StepKeeps

\* A step that leaves the exporter alone and the generation where it is.
LEMMA StandingStillKeeps ==
  ASSUME CInv, UNCHANGED history, streamStarted' = streamStarted,
         log' \in Seq(LiveRecord), cap' \in {cap, Withdraw(cap)}, phase' = phase,
         commandReady' \in BOOLEAN, source' \in Sources, compatible' \in BOOLEAN,
         unmet' \in BOOLEAN
  PROVE  StepKeeps
  <1>1. /\ cap \in CaptureState /\ cap.battle \in Int /\ cap.gen \in Int
        /\ phase \in {"menu", "battle", "ended"} /\ streamStarted \in BOOLEAN
    BY DEF CInv, TypeOK, CaptureState
  <1>2. /\ cap' \in CaptureState /\ cap'.battle = cap.battle /\ cap'.gen = cap.gen
        /\ cap'.lastReadySignature = cap.lastReadySignature
        /\ cap'.failedReadySignature = cap.failedReadySignature
        /\ ~cap'.isReady \/ cap' = cap
    BY <1>1, WithdrawFacts
  <1>3. Key' = Key
    BY <1>2 DEF Key
  <1>4. NotAfter(cap.battle, cap.gen, cap'.battle, cap'.gen)
    BY <1>1, <1>2 DEF NotAfter, KeyLess
  <1>5. /\ cap'.lastReadySignature # None => cap'.gen >= 0
        /\ Key' \in failed => /\ cap'.failedReadySignature = cap'.lastReadySignature
                              /\ cap'.failedReadySignature # None
    BY <1>2, <1>3 DEF CInv, Shape, LatchRemembers
  <1> QED BY <1>1, <1>2, <1>4, <1>5, SilentPreserves DEF StepKeeps

\* Every step but a game restart keeps the parts of the invariant.
LEMMA StepsKeep ==
  ASSUME CInv, Producer \/ Environment \/ ReaderTakes
  PROVE  StepKeeps
  <1> USE DEF game, exporter, history
  <1>0. TypeOK
    BY DEF CInv
  <1>1. CASE OnInit
    BY <1>1, OnInitKeeps
  <1>2. CASE UpdateIncompatible \/ ObserveBlocked \/ ObserveReadinessError
    <2>1. InvalidateAndExport(cap) /\ UNCHANGED <<phase, commandReady, source, compatible, unmet>>
      BY <1>2 DEF UpdateIncompatible, ObserveBlocked, ObserveReadinessError, Observing
    <2>2. phase' \in {"menu", "battle", "ended"}
      BY <1>0, <2>1 DEF TypeOK
    <2> QED BY <2>1, <2>2, EventKeeps
  <1>3. CASE ObserveLatched
    BY <1>0, <1>3, StandingStillKeeps DEF ObserveLatched, Observing, TypeOK
  <1>4. CASE ObserveAcquisitionError
    BY <1>4, AcquisitionErrorKeeps
  <1>5. CASE ObserveReadyExported
    BY <1>5, ReadyExportedKeeps
  <1>6. CASE ObserveReadyExportFails
    BY <1>6, ReadyExportFailsKeeps
  <1>7. CASE OnBattleEnded \/ OnFinish
    <2>1. /\ InvalidateAndExport(cap) /\ UNCHANGED <<commandReady, source, compatible, unmet>>
          /\ phase' \in {"menu", "battle", "ended"}
      BY <1>7 DEF OnBattleEnded, OnFinish
    <2> QED BY <2>1, EventKeeps
  <1>8. CASE ConfigureProvenance
    <2>1. unmet' \in BOOLEAN /\ compatible' \in BOOLEAN /\ cap' \in {cap, Withdraw(cap)}
      BY <1>8 DEF ConfigureProvenance, Probed
    <2> QED BY <1>0, <1>8, <2>1, StandingStillKeeps DEF ConfigureProvenance, TypeOK
  <1>9. CASE ToggleReadiness
    BY <1>0, <1>9, StandingStillKeeps DEF ToggleReadiness, TypeOK
  <1>10. CASE ChangeSource
    BY <1>0, <1>10, StandingStillKeeps DEF ChangeSource, TypeOK
  <1>11. CASE ReaderTakes
    <2>1. log' \in Seq(LiveRecord)
      BY <1>0, <1>11 DEF ReaderTakes, TypeOK
    <2> QED BY <1>0, <1>11, <2>1, StandingStillKeeps DEF ReaderTakes, TypeOK
  <1> QED BY <1>1, <1>2, <1>3, <1>4, <1>5, <1>6, <1>7, <1>8, <1>9, <1>10, <1>11
          DEF Producer, Environment, OnUpdate

\* A game restart forgets all.
LEMMA NextKeeps ==
  ASSUME CInv, Next
  PROVE  StepKeeps \/ GameRestart
  BY StepsKeep DEF Next

LEMMA NextCInv == CInv /\ [Next]_vars => CInv'
  <1> SUFFICES ASSUME CInv, [Next]_vars PROVE CInv'
    OBVIOUS
  <1>1. CASE StepKeeps
    BY <1>1, BoundedPreserved DEF StepKeeps, CInv
  <1>2. CASE GameRestart
    <2>1. cap' \in CaptureState /\ log' \in Seq(LiveRecord)
      BY <1>2 DEF GameRestart, FreshCapture, CaptureState
    <2>2. TypeOK'
      BY <1>2, <2>1 DEF GameRestart, CInv, TypeOK
    <2>3. Shape' /\ Bounded' /\ LatchRemembers'
      BY <1>2, SourcesAssumption
         DEF GameRestart, FreshCapture, Shape, Bounded, LatchRemembers
    <2> QED BY <2>2, <2>3 DEF CInv
  <1>3. CASE UNCHANGED vars
    BY <1>3 DEF vars, CInv, TypeOK, Shape, Bounded, LatchRemembers, Key
  <1> QED BY <1>1, <1>2, <1>3, NextKeeps

-----------------------------------------------------------------------------
(* Theorems *)

\* The inductive invariant holds whatever goes wrong.
THEOREM CaptureInvariance == Spec => []CInv
  <1> QED BY InitCInv, NextCInv, PTL DEF Spec

\* The capture table, the log and the histories keep their types.
THEOREM CaptureTypeCorrect == Spec => []TypeOK
  <1>1. CInv => TypeOK
    BY DEF CInv
  <1> QED BY <1>1, CaptureInvariance, PTL

\* The failed-READY latch does its work under every fault: a generation whose
\* export failed is never READY again.
THEOREM FailedStaysSilent == Spec => []FailedGenerationStaysSilent
  <1>1. CInv => FailedGenerationStaysSilent
    BY DEF CInv, Shape, LatchRemembers, Key, FailedGenerationStaysSilent
  <1> QED BY <1>1, CaptureInvariance, PTL

\* The records written in one game process never step back in the order of
\* battles and generations.
THEOREM KeysAdvance == Spec => KeysNeverGoBack
  <1>1. CInv /\ CInv' /\ [Next]_vars
          => [lastWord # None /\ lastWord' # None =>
                ~KeyLess(lastWord'.battle, lastWord'.gen,
                         lastWord.battle, lastWord.gen)]_vars
    <2> SUFFICES ASSUME CInv, CInv', Next, lastWord # None, lastWord' # None
                 PROVE  NotAfter(lastWord.battle, lastWord.gen,
                                 lastWord'.battle, lastWord'.gen)
      BY DEF NotAfter
    <2>1. StepKeeps
      BY NextKeeps DEF GameRestart
    <2>2. /\ lastWord.battle \in Int /\ lastWord.gen \in Int
          /\ lastWord'.battle \in Int /\ lastWord'.gen \in Int
          /\ cap.battle \in Int /\ cap.gen \in Int
          /\ cap'.battle \in Int /\ cap'.gen \in Int
      BY DEF CInv, TypeOK, CaptureState, ReadyRecord, InvalidatedRecord
    <2>3. /\ NotAfter(lastWord.battle, lastWord.gen, cap.battle, cap.gen)
          /\ NotAfter(cap.battle, cap.gen, cap'.battle, cap'.gen)
      BY <2>1 DEF CInv, Bounded, StepKeeps, HistoryGrows
    <2>4. \/ lastWord' = lastWord
          \/ lastWord'.battle = cap'.battle /\ lastWord'.gen = cap'.gen
      BY <2>1 DEF StepKeeps, HistoryGrows
    <2> QED BY <2>2, <2>3, <2>4 DEF NotAfter, KeyLess
  <1> QED BY <1>1, CaptureInvariance, PTL DEF Spec, KeysNeverGoBack

-----------------------------------------------------------------------------
(* The ordering protocol, when acquisition does not fail *)

\* Claims of the current generation carry its source, it was voided only by a
\* failed export, and READY was claimed while capture is ready.
CurrentAgrees ==
    /\ \A c \in claims : <<c.battle, c.gen>> = Key => c.source = cap.lastReadySignature
    /\ Key \in voided => Key \in failed
    /\ cap.isReady => \E c \in claims : <<c.battle, c.gen>> = Key

PInv == CurrentAgrees /\ ProducerObeysProtocol

\* Nothing is claimed, voided or failed of a generation beyond the current one.
LEMMA BeyondIsFresh ==
  ASSUME CInv, NEW b \in Nat, NEW g \in Int, KeyLess(cap.battle, cap.gen, b, g)
  PROVE  /\ \A c \in claims : <<c.battle, c.gen>> # <<b, g>>
         /\ <<b, g>> \notin voided /\ <<b, g>> \notin failed
  <1>1. \A c \in claims : NotAfter(c.battle, c.gen, cap.battle, cap.gen)
    BY DEF CInv, Bounded
  <1>2. \A k \in voided \cup failed : NotAfter(k[1], k[2], cap.battle, cap.gen)
    BY DEF CInv, Bounded
  <1>3. <<b, g>>[1] = b /\ <<b, g>>[2] = g
    OBVIOUS
  <1> QED BY <1>1, <1>2, <1>3 DEF NotAfter

\* Nothing is claimed or voided of the generation READY is committed at but
\* what agrees with the observed source.
LEMMA AdvancedAgrees ==
  ASSUME CInv, PInv, ~Latched
  PROVE  /\ \A c \in claims : <<c.battle, c.gen>> = <<Advanced.battle, Advanced.gen>>
                               => c.source = source
         /\ <<Advanced.battle, Advanced.gen>> \notin voided
  <1>1. CASE /\ Advanced.gen = cap.gen /\ cap.lastReadySignature = source
             /\ Key \notin failed
    BY <1>1, AdvancedFacts DEF PInv, CurrentAgrees, Key
  <1>2. CASE Advanced.gen = cap.gen + 1
    <2>1. /\ Advanced.battle = cap.battle /\ cap.battle \in Nat
          /\ cap.gen \in Int /\ Advanced.gen \in Int
      BY AdvancedFacts DEF CInv, TypeOK, CaptureState
    <2>2. KeyLess(cap.battle, cap.gen, Advanced.battle, Advanced.gen)
      BY <1>2, <2>1 DEF KeyLess
    <2> QED BY <2>1, <2>2, BeyondIsFresh
  <1> QED BY <1>1, <1>2, AdvancedFacts

\* An INVALIDATED of a generation READY was claimed at voids nothing.
LEMMA EventAgrees ==
  ASSUME CInv, PInv, InvalidateAndExport(cap)
  PROVE  PInv'
  <1>1. /\ cap \in CaptureState /\ TypeOK
        /\ cap.isReady => cap.gen \in Nat
    BY DEF CInv, TypeOK, Shape, CaptureState
  <1>2. CASE ~cap.isReady
    BY <1>2 DEF InvalidateAndExport, exporter, PInv, CurrentAgrees, Key,
                ProducerObeysProtocol
  <1>3. CASE cap.isReady
    <2>1. /\ cap' = Withdraw(cap) /\ failed' = failed
          /\ WriteInvalidated(InvalidatedOf(cap))
      BY <1>3 DEF InvalidateAndExport
    <2>2. /\ ~cap'.isReady /\ cap'.battle = cap.battle /\ cap'.gen = cap.gen
          /\ cap'.lastReadySignature = cap.lastReadySignature
      BY <1>1, <2>1, WithdrawFacts
    <2>3. /\ claims' = claims
          /\ voided' # voided => \A d \in claims : <<d.battle, d.gen>> # Key
      BY <1>1, <1>3, <2>1, InvalidatedWord DEF Key
    <2>4. voided' = voided
      BY <1>3, <2>3 DEF PInv, CurrentAgrees
    <2> QED BY <2>1, <2>2, <2>3, <2>4 DEF PInv, CurrentAgrees, Key, ProducerObeysProtocol
  <1> QED BY <1>2, <1>3

LEMMA ExportedAgrees ==
  ASSUME CInv, PInv, ObserveReadyExported
  PROVE  PInv'
  <1>1. /\ ~Latched /\ cap' = [Advanced EXCEPT !.isReady = TRUE]
        /\ WriteReady(ReadyOf(Advanced))
    BY DEF ObserveReadyExported, OpensReady
  <1>2. /\ cap'.battle = Advanced.battle /\ cap'.gen = Advanced.gen
        /\ cap'.lastReadySignature = source
    BY <1>1, AdvancedFacts DEF CaptureState
  <1>3. /\ claims' = claims \cup {Claim(ReadyOf(Advanced))}
        /\ voided' = voided /\ failed' = failed
    BY <1>1 DEF WriteReady
  <1>4. Claim(ReadyOf(Advanced))
          = [battle |-> Advanced.battle, gen |-> Advanced.gen, source |-> source]
    BY <1>1, AdvancedFacts, RecordsTyped DEF CInv
  <1>5. \A c \in claims' : \/ c \in claims
                           \/ /\ c.battle = Advanced.battle /\ c.gen = Advanced.gen
                              /\ c.source = source
    BY <1>3, <1>4
  <1>6. CurrentAgrees'
    <2>1. \E c \in claims' : <<c.battle, c.gen>> = Key'
      BY <1>2, <1>3, <1>4 DEF Key
    <2> QED BY <1>1, <1>2, <1>3, <1>5, <2>1, AdvancedAgrees DEF CurrentAgrees, Key
  <1>7. ProducerObeysProtocol'
    <2>1. ASSUME NEW c \in claims', NEW d \in claims',
                 c.battle = d.battle, c.gen = d.gen
          PROVE  c.source = d.source
      <3>1. CASE c \in claims /\ d \in claims
        BY <2>1, <3>1 DEF PInv, ProducerObeysProtocol
      <3>2. CASE c.battle = Advanced.battle /\ c.gen = Advanced.gen
        BY <1>1, <1>5, <2>1, <3>2, AdvancedAgrees
      <3>3. CASE d.battle = Advanced.battle /\ d.gen = Advanced.gen
        BY <1>1, <1>5, <2>1, <3>3, AdvancedAgrees
      <3> QED BY <1>5, <3>1, <3>2, <3>3
    <2>2. ASSUME NEW c \in claims' PROVE <<c.battle, c.gen>> \notin voided'
      BY <1>1, <1>3, <1>5, <2>2, AdvancedAgrees DEF PInv, ProducerObeysProtocol
    <2> QED BY <2>1, <2>2 DEF ProducerObeysProtocol
  <1> QED BY <1>6, <1>7 DEF PInv

LEMMA ExportFailsAgrees ==
  ASSUME CInv, PInv, ObserveReadyExportFails
  PROVE  PInv'
  <1>1. /\ ~Latched
        /\ cap' = [Advanced EXCEPT !.isReady = FALSE, !.failedReadySignature = source]
        /\ WriteInvalidated(InvalidatedOf(Advanced))
        /\ failed' = failed \cup {<<cap.battle, Advanced.gen>>}
    BY DEF ObserveReadyExportFails, OpensReady
  <1>2. /\ ~cap'.isReady /\ cap'.battle = Advanced.battle /\ cap'.gen = Advanced.gen
        /\ cap'.lastReadySignature = source /\ Advanced.battle = cap.battle
    BY <1>1, AdvancedFacts DEF CaptureState
  <1>3. /\ claims' = claims
        /\ voided' \in {voided, voided \cup {<<Advanced.battle, Advanced.gen>>}}
        /\ voided' # voided => \A d \in claims :
               <<d.battle, d.gen>> # <<Advanced.battle, Advanced.gen>>
    BY <1>1, AdvancedFacts, InvalidatedWord DEF CInv
  <1>4. CurrentAgrees'
    BY <1>1, <1>2, <1>3, AdvancedAgrees DEF CurrentAgrees, Key
  <1>5. ProducerObeysProtocol'
    BY <1>3 DEF PInv, ProducerObeysProtocol
  <1> QED BY <1>4, <1>5 DEF PInv

\* A step that writes nothing and keeps the generation, or opens a battle.
LEMMA SilentAgrees ==
  ASSUME CInv, PInv, UNCHANGED history, ~cap'.isReady \/ cap' = cap,
         \/ /\ cap'.battle = cap.battle /\ cap'.gen = cap.gen
            /\ cap'.lastReadySignature = cap.lastReadySignature
         \/ cap' = FreshCapture(cap.battle + 1)
  PROVE  PInv'
  <1>1. claims' = claims /\ voided' = voided /\ failed' = failed
    BY DEF history
  <1>2. CASE /\ cap'.battle = cap.battle /\ cap'.gen = cap.gen
             /\ cap'.lastReadySignature = cap.lastReadySignature
    BY <1>1, <1>2 DEF PInv, CurrentAgrees, Key, ProducerObeysProtocol
  <1>3. CASE cap' = FreshCapture(cap.battle + 1)
    <2>1. /\ cap.battle + 1 \in Nat /\ -1 \in Int
          /\ KeyLess(cap.battle, cap.gen, cap.battle + 1, -1)
      BY DEF CInv, TypeOK, CaptureState, KeyLess
    <2>2. /\ cap'.battle = cap.battle + 1 /\ cap'.gen = -1 /\ ~cap'.isReady
      BY <1>3 DEF FreshCapture
    <2>3. CurrentAgrees'
      BY <1>1, <2>1, <2>2, BeyondIsFresh DEF CurrentAgrees, Key
    <2> QED BY <1>1, <2>3 DEF PInv, ProducerObeysProtocol
  <1> QED BY <1>2, <1>3

LEMMA NextPInv ==
  ASSUME "acquisition" \notin Faults, CInv, PInv, [Next]_vars
  PROVE  PInv'
  <1>0. cap \in CaptureState
    BY DEF CInv, TypeOK
  <1>1. CASE OnInit
    BY <1>1, SilentAgrees DEF OnInit, FreshCapture
  <1>2. CASE \/ UpdateIncompatible \/ ObserveBlocked \/ ObserveReadinessError
             \/ OnBattleEnded \/ OnFinish
    BY <1>2, EventAgrees DEF UpdateIncompatible, ObserveBlocked, ObserveReadinessError,
                             OnBattleEnded, OnFinish
  <1>3. CASE ObserveLatched \/ ConfigureProvenance
    <2>1. cap' \in {cap, Withdraw(cap)} /\ UNCHANGED history
      BY <1>3 DEF ObserveLatched, ConfigureProvenance, exporter, history
    <2>2. CASE cap' = cap
      BY <2>1, <2>2, SilentAgrees
    <2>3. CASE cap' = Withdraw(cap)
      BY <1>0, <2>1, <2>3, WithdrawFacts, SilentAgrees
    <2> QED BY <2>1, <2>2, <2>3
  <1>4. CASE ObserveReadyExported
    BY <1>4, ExportedAgrees
  <1>5. CASE ObserveReadyExportFails
    BY <1>5, ExportFailsAgrees
  <1>6. CASE ToggleReadiness \/ ChangeSource \/ ReaderTakes \/ UNCHANGED vars
    <2>1. cap' = cap /\ UNCHANGED history
      BY <1>6 DEF ToggleReadiness, ChangeSource, ReaderTakes, vars, exporter, history
    <2> QED BY <2>1, SilentAgrees
  <1>7. CASE GameRestart
    BY <1>7 DEF GameRestart, FreshCapture, PInv, CurrentAgrees, Key, ProducerObeysProtocol
  <1>8. ~ObserveAcquisitionError
    BY DEF ObserveAcquisitionError
  <1> QED BY <1>1, <1>2, <1>3, <1>4, <1>5, <1>6, <1>7, <1>8
          DEF Next, Producer, Environment, OnUpdate

\* As long as raw acquisition does not throw, the producer keeps the rule its
\* receiver enforces, whatever else fails: READY again only as an exact
\* repetition, and never of a generation invalidated before its first READY.
THEOREM ProtocolKept ==
  ASSUME "acquisition" \notin Faults
  PROVE  Spec => []ProducerObeysProtocol
  <1>1. Init => PInv
    BY DEF Init, FreshCapture, PInv, CurrentAgrees, Key, ProducerObeysProtocol
  <1>2. CInv /\ PInv /\ [Next]_vars => PInv'
    BY NextPInv
  <1>3. PInv => ProducerObeysProtocol
    BY DEF PInv
  <1> QED BY <1>1, <1>2, <1>3, CaptureInvariance, PTL DEF Spec

-----------------------------------------------------------------------------
(* The last word, when no INVALIDATED is lost *)

LEMMA NextLastWord ==
  ASSUME "invalidation" \notin Faults, "configure" \notin Faults,
         CInv, LastWordTellsReadiness, [Next]_vars
  PROVE  LastWordTellsReadiness'
  <1>0. /\ cap \in CaptureState /\ source \in Sources /\ source # None
        /\ ~streamStarted => lastWord = None
        /\ cap.isReady => streamStarted /\ phase # "menu"
        /\ cap.failedReadySignature # None => ~cap.isReady
    BY SourcesAssumption DEF CInv, TypeOK, Shape
  \* With nothing lost, an INVALIDATED is the last word unless no stream is open.
  <1>1. ASSUME NEW c \in CaptureState, WriteInvalidated(InvalidatedOf(c)), ~cap'.isReady
        PROVE  LastWordTellsReadiness'
    <2>1. InvalidatedOf(c).type = InvalidatedType
      BY DEF InvalidatedOf
    <2>2. CASE streamStarted
      <3>1. lastWord' = InvalidatedOf(c)
        BY <1>1, <2>2 DEF WriteInvalidated
      <3> QED BY <1>1, <2>1, <3>1 DEF LastWordTellsReadiness
    <2>3. CASE ~streamStarted
      <3>1. lastWord' = None
        BY <1>0, <1>1, <2>3 DEF WriteInvalidated
      <3> QED BY <1>1, <3>1 DEF LastWordTellsReadiness
    <2> QED BY <2>2, <2>3
  <1>2. ASSUME NEW c \in CaptureState, InvalidateAndExport(c), c.isReady = cap.isReady,
               cap.isReady \/ lastWord' = lastWord
        PROVE  LastWordTellsReadiness'
    <2>1. CASE cap.isReady
      BY <1>1, <1>2, <2>1, WithdrawFacts DEF InvalidateAndExport
    <2>2. CASE ~cap.isReady
      BY <1>2, <2>2 DEF InvalidateAndExport, LastWordTellsReadiness, exporter
    <2> QED BY <2>1, <2>2
  <1>3. ASSUME ~cap.isReady, ~cap'.isReady, lastWord' = lastWord
        PROVE  LastWordTellsReadiness'
    BY <1>3 DEF LastWordTellsReadiness
  <1>4. CASE OnInit
    <2>1. ~cap.isReady /\ ~cap'.isReady /\ lastWord' = lastWord
      BY <1>0, <1>4 DEF OnInit, FreshCapture, history
    <2> QED BY <1>3, <2>1
  <1>5. CASE \/ UpdateIncompatible \/ ObserveBlocked \/ ObserveReadinessError
             \/ OnBattleEnded \/ OnFinish
    <2>1. InvalidateAndExport(cap)
      BY <1>5 DEF UpdateIncompatible, ObserveBlocked, ObserveReadinessError,
                  OnBattleEnded, OnFinish
    <2>2. cap.isReady \/ lastWord' = lastWord
      BY <2>1 DEF InvalidateAndExport, exporter
    <2> QED BY <1>0, <1>2, <2>1, <2>2
  <1>6. CASE ObserveLatched
    <2>1. ~cap.isReady /\ cap' = Withdraw(cap) /\ lastWord' = lastWord
      BY <1>0, <1>6 DEF ObserveLatched, Latched, exporter
    <2> QED BY <1>0, <1>3, <2>1, WithdrawFacts
  <1>7. CASE ObserveAcquisitionError
    <2>1. /\ Advanced \in CaptureState /\ Advanced.isReady = cap.isReady
      BY <1>7, AdvancedFacts DEF ObserveAcquisitionError, OpensReady
    <2>2. CASE InvalidateAndExport(Advanced)
      <3>1. cap.isReady \/ lastWord' = lastWord
        BY <2>2 DEF InvalidateAndExport, exporter
      <3> QED BY <1>2, <2>1, <2>2, <3>1
    <2>3. CASE cap' = Withdraw(Advanced) /\ WriteInvalidated(InvalidatedOf(Advanced))
      BY <1>1, <2>1, <2>3, WithdrawFacts
    <2> QED BY <1>7, <2>2, <2>3 DEF ObserveAcquisitionError
  <1>8. CASE ObserveReadyExported
    <2>1. /\ ~Latched /\ cap' = [Advanced EXCEPT !.isReady = TRUE]
          /\ lastWord' = ReadyOf(Advanced)
      BY <1>8 DEF ObserveReadyExported, OpensReady, WriteReady
    <2>2. /\ Advanced \in CaptureState /\ Advanced.gen \in Nat
          /\ Advanced.lastReadySignature = source
      BY <2>1, AdvancedFacts
    <2>3. /\ cap'.isReady /\ cap'.battle = Advanced.battle /\ cap'.gen = Advanced.gen
          /\ cap'.lastReadySignature = source
      BY <2>1, <2>2 DEF CaptureState
    <2>4. /\ lastWord'.type = ReadyType /\ lastWord'.battle = Advanced.battle
          /\ lastWord'.gen = Advanced.gen /\ lastWord'.fp = source
      BY <2>1 DEF ReadyOf
    <2>5. lastWord' # None
      BY <2>1, <2>2, RecordsTyped, NoneIsNoRecord DEF CInv
    <2> QED BY <2>3, <2>4, <2>5 DEF LastWordTellsReadiness
  <1>9. CASE ObserveReadyExportFails
    <2>1. /\ ~Latched
          /\ cap' = [Advanced EXCEPT !.isReady = FALSE, !.failedReadySignature = source]
          /\ WriteInvalidated(InvalidatedOf(Advanced))
      BY <1>9 DEF ObserveReadyExportFails, OpensReady
    <2>2. Advanced \in CaptureState /\ ~cap'.isReady
      BY <2>1, AdvancedFacts DEF CaptureState
    <2> QED BY <1>1, <2>1, <2>2
  <1>10. CASE ToggleReadiness \/ ChangeSource \/ ReaderTakes \/ UNCHANGED vars
    <2>1. cap' = cap /\ lastWord' = lastWord
      BY <1>10 DEF ToggleReadiness, ChangeSource, ReaderTakes, vars, exporter, history
    <2> QED BY <2>1 DEF LastWordTellsReadiness
  <1>11. CASE GameRestart
    BY <1>11 DEF GameRestart, FreshCapture, LastWordTellsReadiness
  <1>12. ~ConfigureProvenance
    BY DEF ConfigureProvenance
  <1> QED BY <1>4, <1>5, <1>6, <1>7, <1>8, <1>9, <1>10, <1>11, <1>12
          DEF Next, Producer, Environment, OnUpdate

\* Unless an INVALIDATED cannot be emitted or provenance is reconfigured in
\* mid-battle, the last decision record of the log is READY exactly while
\* capture is ready, and then it names capture's generation and source.
THEOREM LastWordKept ==
  ASSUME "invalidation" \notin Faults, "configure" \notin Faults
  PROVE  Spec => []LastWordTellsReadiness
  <1>1. Init => LastWordTellsReadiness
    BY DEF Init, FreshCapture, LastWordTellsReadiness
  <1>2. CInv /\ LastWordTellsReadiness /\ [Next]_vars => LastWordTellsReadiness'
    BY NextLastWord
  <1> QED BY <1>1, <1>2, CaptureInvariance, PTL DEF Spec

\* Unless raw acquisition throws, an INVALIDATED is lost or provenance is
\* reconfigured in mid-battle, both hold of everything the producer writes.
THEOREM ProducerSound ==
  ASSUME {"acquisition", "invalidation", "configure"} \cap Faults = {}
  PROVE  Spec => []ProducerIsSound
  <1>1. Spec => []ProducerObeysProtocol
    BY ProtocolKept
  <1>2. Spec => []LastWordTellsReadiness
    BY LastWordKept
  <1>3. ProducerObeysProtocol /\ LastWordTellsReadiness => ProducerIsSound
    BY DEF ProducerIsSound
  <1> QED BY <1>1, <1>2, <1>3, PTL
=============================================================================
