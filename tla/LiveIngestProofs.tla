-------------------------- MODULE LiveIngestProofs --------------------------
(***************************************************************************)
(* Proofs about LiveIngest and IngestReference for every inbox, every set  *)
(* of fingerprints and payloads, any number of streams and histories of    *)
(* any length.                                                             *)
(***************************************************************************)
EXTENDS IngestReference, IngestMachineProofs, TLAPS

CurrentKey == [stream |-> machine.stream, battle |-> machine.battle,
               gen |-> machine.gen]

\* The machine's fields are consistent with one another.
WellFormed ==
    /\ machine.stream = None => machine = EmptyState
    /\ machine.stream # None => machine.stream <= minted
    /\ (machine.raw = None) <=> (machine.digest = None)
    /\ machine.raw # None =>
          /\ machine.stream # None
          /\ machine.raw.stream = machine.stream
          /\ machine.raw.battle = machine.battle
          /\ machine.raw.gen = machine.gen
    /\ machine.decision # None =>
          /\ machine.raw # None
          /\ machine.last = ReadyType
          /\ ~CompatibilityProblem(machine.decision.record)
          /\ machine.decision = AcceptedDecision(machine.stream,
                                                 machine.decision.record)
          /\ machine.raw = machine.decision.raw
          /\ machine.digest = machine.decision.digest

\* The history speaks only of minted streams, and of no generation of the
\* open stream beyond the machine's.
HistoryBounded ==
    /\ \A o \in offered : o.key \in heard
    /\ voided \subseteq heard
    /\ \A k \in heard :
          /\ k.stream <= minted
          /\ k.stream = machine.stream =>
                ~KeyLess(machine.battle, machine.gen, k.battle, k.gen)

\* While the generation has an identity, it was offered, every offer of it had
\* that identity, and no invalidation of it preceded the first offer.
IdentityAgrees ==
    machine.raw # None =>
        /\ \E o \in offered : o.key = CurrentKey
        /\ CurrentKey \notin voided
        /\ \A o \in offered : o.key = CurrentKey =>
              o.fp = machine.raw.fp /\ machine.digest = PayloadDigest(o.payload)

IInv == TypeOK /\ WellFormed /\ HistoryBounded /\ IdentityAgrees

-----------------------------------------------------------------------------
(* What accept does, status by status *)

\* The last field holds a record type name, never None, once it is set.
LEMMA TypesDiffer == /\ ReadyType # InvalidatedType
                     /\ ReadyType # "STREAM_START"
                     /\ InvalidatedType # "STREAM_START"
  BY DEF ReadyType, InvalidatedType

\* A decision record of Inbox is compatible and finds an open stream, and then
\* has one of five outcomes, or it changes at most the decision.
LEMMA DecisionOutcomes ==
  ASSUME NEW r \in LiveRecord, r.type # "STREAM_START", NEW id
  PROVE  \/ /\ Accept(machine, r, id) \in {machine, ClearReadiness(machine)}
            /\ \/ ~Listened(r)
               \/ BehindMachine(machine, r)
               \/ /\ r.type = ReadyType /\ ~AheadOfMachine(machine, r)
                  /\ machine.raw = None
         \/ /\ Listened(r) /\ ~BehindMachine(machine, r)
            /\ \/ /\ r.type = InvalidatedType
                  /\ Accept(machine, r, id) = Invalidate(machine, r)
               \/ /\ r.type = ReadyType /\ AheadOfMachine(machine, r)
                  /\ Accept(machine, r, id) = AcceptReady(machine, r)
               \/ /\ r.type = ReadyType /\ ~AheadOfMachine(machine, r)
                  /\ machine.raw # None /\ ~Repeats(machine, r)
                  /\ Accept(machine, r, id) = Poison(machine)
               \/ /\ r.type = ReadyType /\ ~AheadOfMachine(machine, r)
                  /\ machine.raw # None /\ Repeats(machine, r)
                  /\ Accept(machine, r, id) = Duplicate(machine, r)
  <1>1. r.type \in {ReadyType, InvalidatedType}
    BY DEF LiveRecord, StartRecord, ReadyRecord, InvalidatedRecord
  <1>2. CASE CompatibilityProblem(r)
    <2>1. Status(machine, r) = "REJECTED_INCOMPATIBLE"
      BY <1>2 DEF Status
    <2> QED BY <2>1, <1>2 DEF Accept, Listened
  <1>3. CASE ~CompatibilityProblem(r) /\ (machine.stream = None \/ BehindMachine(machine, r))
    <2>1. Status(machine, r) = "REJECTED_STALE"
      BY <1>3, <1>1, TypesDiffer DEF Status
    <2> QED BY <2>1, <1>3 DEF Accept, Listened
  <1>4. CASE ~CompatibilityProblem(r) /\ machine.stream # None /\ ~BehindMachine(machine, r)
    <2>0. Listened(r)
      BY <1>4 DEF Listened
    <2>1. CASE r.type = InvalidatedType
      <3>1. Status(machine, r) = "INVALIDATED"
        BY <2>1, <1>4, TypesDiffer DEF Status
      <3> QED BY <3>1, <2>0, <2>1, <1>4 DEF Accept
    <2>2. CASE r.type = ReadyType /\ AheadOfMachine(machine, r)
      <3>1. Status(machine, r) = "READY"
        BY <2>2, <1>4, TypesDiffer DEF Status
      <3> QED BY <3>1, <2>0, <2>2, <1>4 DEF Accept
    <2>3. CASE r.type = ReadyType /\ ~AheadOfMachine(machine, r)
      <3>1. CASE machine.raw = None
        <4>1. Status(machine, r) = "REJECTED_UNESTABLISHED"
          BY <3>1, <2>3, <1>4, TypesDiffer DEF Status
        <4> QED BY <4>1, <3>1, <2>3 DEF Accept
      <3>2. CASE machine.raw # None /\ ~Repeats(machine, r)
        <4>1. Status(machine, r) = "REJECTED_CONFLICT"
          BY <3>2, <2>3, <1>4, TypesDiffer DEF Status
        <4> QED BY <4>1, <3>2, <2>0, <2>3, <1>4 DEF Accept
      <3>3. CASE machine.raw # None /\ Repeats(machine, r)
        <4>1. Status(machine, r) = "DUPLICATE"
          BY <3>3, <2>3, <1>4, TypesDiffer DEF Status
        <4> QED BY <4>1, <3>3, <2>0, <2>3, <1>4 DEF Accept
      <3> QED BY <3>1, <3>2, <3>3
    <2> QED BY <1>1, <2>1, <2>2, <2>3
  <1> QED BY <1>2, <1>3, <1>4

-----------------------------------------------------------------------------
(* The invariant is inductive *)

LEMMA InitIInv == Init => IInv
  <1> SUFFICES ASSUME Init PROVE IInv
    OBVIOUS
  <1>1. TypeOK
    BY NoneAssumption DEF Init, TypeOK, EmptyState, MachineState
  <1>2. WellFormed /\ HistoryBounded /\ IdentityAgrees
    BY DEF Init, EmptyState, WellFormed, HistoryBounded, IdentityAgrees
  <1> QED BY <1>1, <1>2 DEF IInv

\* Forgetting the stream keeps the invariant, whatever it was.
LEMMA EmptyPreserves ==
  ASSUME IInv, machine' = EmptyState, UNCHANGED <<minted, offered, heard, voided>>
  PROVE  IInv'
  <1>1. TypeOK'
    BY NoneAssumption DEF IInv, TypeOK, EmptyState, MachineState
  <1>2. WellFormed'
    BY DEF EmptyState, WellFormed
  <1>3. HistoryBounded'
    BY NoneAssumption DEF IInv, TypeOK, HistoryBounded, EmptyState, Keys, KeyLess
  <1>4. IdentityAgrees'
    BY DEF EmptyState, IdentityAgrees
  <1> QED BY <1>1, <1>2, <1>3, <1>4 DEF IInv

\* Withdrawing the advice alone keeps the machine well-formed and its type.
LEMMA ClearPreserves ==
  ASSUME IInv, machine' \in {machine, ClearReadiness(machine)}, minted' = minted
  PROVE  /\ machine' \in MachineState /\ WellFormed'
         /\ machine'.stream = machine.stream /\ machine'.battle = machine.battle
         /\ machine'.gen = machine.gen /\ machine'.raw = machine.raw
         /\ machine'.digest = machine.digest
  <1>1. machine \in MachineState
    BY DEF IInv, TypeOK
  <1>2. CASE machine' = machine
    BY <1>1, <1>2 DEF IInv, WellFormed
  <1>3. CASE machine' = ClearReadiness(machine)
    <2>1. machine' = [machine EXCEPT !.decision = None]
      BY <1>3 DEF ClearReadiness
    <2>2. machine' \in MachineState
      BY <1>1, <2>1 DEF MachineState
    <2>3. /\ machine'.stream = machine.stream /\ machine'.battle = machine.battle
          /\ machine'.gen = machine.gen /\ machine'.raw = machine.raw
          /\ machine'.digest = machine.digest /\ machine'.last = machine.last
          /\ machine'.decision = None
      BY <1>1, <2>1 DEF MachineState
    <2>4. machine = EmptyState => machine' = EmptyState
      BY <2>1 DEF EmptyState
    <2>5. WellFormed'
      BY <2>3, <2>4 DEF IInv, WellFormed
    <2> QED BY <2>2, <2>3, <2>5
  <1> QED BY <1>2, <1>3

LEMMA StartPreserves ==
  ASSUME IInv, NEW r \in Inbox, ReceiveStart(r)
  PROVE  IInv'
  <1>1. CASE CompatibilityProblem(r)
    <2>1. Status(machine, r) = "REJECTED_INCOMPATIBLE"
      BY <1>1 DEF Status
    <2>2. machine' = EmptyState /\ UNCHANGED <<minted, offered, heard, voided>>
      BY <2>1, <1>1 DEF ReceiveStart, Accept
    <2> QED BY <2>2, EmptyPreserves
  <1>2. CASE ~CompatibilityProblem(r)
    <2>1. Status(machine, r) = "STREAM_STARTED"
      BY <1>2 DEF Status, ReceiveStart
    <2>2. /\ machine' = [EmptyState EXCEPT !.stream = minted + 1]
          /\ minted' = minted + 1 /\ UNCHANGED <<offered, heard, voided>>
      BY <2>1, <1>2 DEF ReceiveStart, Accept
    <2>3. TypeOK'
      BY <2>2, NoneAssumption DEF IInv, TypeOK, EmptyState, MachineState
    <2>4. /\ machine'.stream = minted' /\ machine'.raw = None
          /\ machine'.digest = None /\ machine'.decision = None
          /\ machine'.stream # None
      BY <2>2, NoneAssumption DEF EmptyState, IInv, TypeOK
    <2>5. WellFormed'
      BY <2>3, <2>4 DEF WellFormed, TypeOK
    <2>6. \A k \in heard : k.stream # machine'.stream
      BY <2>2, <2>4 DEF IInv, TypeOK, HistoryBounded, Keys
    <2>7. HistoryBounded'
      BY <2>2, <2>6 DEF IInv, TypeOK, HistoryBounded, Keys
    <2>8. IdentityAgrees'
      BY <2>4 DEF IdentityAgrees
    <2> QED BY <2>3, <2>5, <2>7, <2>8 DEF IInv
  <1> QED BY <1>1, <1>2

\* What the histories may gain when a decision record arrives.
HistoryStep(r) ==
    /\ minted' = minted
    /\ ~Listened(r) => UNCHANGED <<offered, heard, voided>>
    /\ Listened(r) =>
          /\ heard' = heard \cup {Key(r)}
          /\ r.type = ReadyType => offered' = offered \cup {Offer(r)} /\ voided' = voided
          /\ r.type = InvalidatedType =>
                /\ offered' = offered
                /\ voided' = IF \A o \in offered : o.key # Key(r)
                             THEN voided \cup {Key(r)} ELSE voided

LEMMA KeyTyped ==
  ASSUME TypeOK, NEW r \in LiveRecord, r.type # "STREAM_START", Listened(r)
  PROVE  /\ Key(r) \in Keys /\ r.battle \in Nat /\ r.gen \in Nat
         /\ r.type \in {ReadyType, InvalidatedType}
         /\ r.type = ReadyType => Offer(r) \in Offers /\ r \in ReadyRecord
  <1>1. /\ r.battle \in Nat /\ r.gen \in Nat
        /\ r.type \in {ReadyType, InvalidatedType}
    BY DEF LiveRecord, StartRecord, ReadyRecord, InvalidatedRecord
  <1>2. r.type = ReadyType => r \in ReadyRecord
    BY TypesDiffer DEF LiveRecord, StartRecord, ReadyRecord, InvalidatedRecord
  <1>3. Key(r) \in Keys
    BY <1>1 DEF Key, Keys, TypeOK, MachineState, Listened
  <1>4. r.type = ReadyType => Offer(r) \in Offers
    BY <1>2, <1>3 DEF Offer, Offers, ReadyRecord
  <1> QED BY <1>1, <1>2, <1>3, <1>4

\* The histories keep their types and their closure properties.
LEMMA HistoryTyped ==
  ASSUME IInv, NEW r \in LiveRecord, r.type # "STREAM_START", HistoryStep(r)
  PROVE  /\ offered' \subseteq Offers /\ heard' \subseteq Keys /\ voided' \subseteq Keys
         /\ minted' \in Nat
         /\ \A o \in offered' : o.key \in heard'
         /\ voided' \subseteq heard'
  <1>1. CASE ~Listened(r)
    BY <1>1 DEF IInv, TypeOK, HistoryBounded, HistoryStep
  <1>2. CASE Listened(r)
    <2>1. /\ Key(r) \in Keys
          /\ r.type \in {ReadyType, InvalidatedType}
          /\ r.type = ReadyType => Offer(r) \in Offers
      BY <1>2, KeyTyped DEF IInv
    <2>2. Offer(r).key = Key(r)
      BY DEF Offer
    <2>3. CASE r.type = ReadyType
      BY <1>2, <2>1, <2>2, <2>3, TypesDiffer DEF IInv, TypeOK, HistoryBounded, HistoryStep
    <2>4. CASE r.type = InvalidatedType
      BY <1>2, <2>1, <2>4, TypesDiffer DEF IInv, TypeOK, HistoryBounded, HistoryStep
    <2> QED BY <2>1, <2>3, <2>4
  <1> QED BY <1>1, <1>2

\* A record the machine does not act on, or acts on only by withdrawing advice.
LEMMA IgnoredPreserves ==
  ASSUME IInv, NEW r \in LiveRecord, r.type # "STREAM_START", HistoryStep(r),
         machine' \in {machine, ClearReadiness(machine)},
         \/ ~Listened(r)
         \/ BehindMachine(machine, r)
         \/ /\ r.type = ReadyType /\ ~AheadOfMachine(machine, r)
            /\ machine.raw = None
  PROVE  IInv'
  <1>1. /\ machine' \in MachineState /\ WellFormed'
        /\ machine'.stream = machine.stream /\ machine'.battle = machine.battle
        /\ machine'.gen = machine.gen /\ machine'.raw = machine.raw
        /\ machine'.digest = machine.digest
    BY ClearPreserves DEF HistoryStep
  <1>2. TypeOK'
    BY <1>1, HistoryTyped DEF TypeOK
  <1>3. CASE ~Listened(r)
    <2>1. UNCHANGED <<minted, offered, heard, voided>>
      BY <1>3 DEF HistoryStep
    <2>2. HistoryBounded'
      BY <1>1, <2>1 DEF IInv, HistoryBounded
    <2>3. IdentityAgrees'
      BY <1>1, <2>1 DEF IInv, IdentityAgrees, CurrentKey
    <2> QED BY <1>1, <1>2, <2>2, <2>3 DEF IInv
  <1>4. CASE Listened(r)
    <2>1. /\ Key(r) \in Keys /\ Key(r).stream = machine.stream
          /\ Key(r).battle = r.battle /\ Key(r).gen = r.gen
          /\ r.battle \in Nat /\ r.gen \in Nat
          /\ r.type \in {ReadyType, InvalidatedType}
      BY <1>4, KeyTyped DEF IInv, Key
    <2>2. ~KeyLess(machine.battle, machine.gen, r.battle, r.gen)
      BY <1>4, <2>1 DEF BehindMachine, AheadOfMachine, KeyLess, IInv, TypeOK, MachineState
    <2>3. machine.stream <= minted
      BY <1>4 DEF Listened, IInv, WellFormed
    <2>4. HistoryBounded'
      BY <1>1, <1>4, <2>1, <2>2, <2>3, HistoryTyped DEF IInv, HistoryBounded, HistoryStep
    <2>5. CASE machine.raw = None
      BY <1>1, <1>2, <2>4, <2>5 DEF IInv, IdentityAgrees
    <2>6. CASE machine.raw # None /\ BehindMachine(machine, r)
      <3>1. Key(r) # CurrentKey
        BY <2>1, <2>6 DEF CurrentKey, BehindMachine, KeyLess, IInv, TypeOK, MachineState
      <3>2. CurrentKey' = CurrentKey
        BY <1>1 DEF CurrentKey
      <3>3. Offer(r).key = Key(r)
        BY DEF Offer
      <3>4. /\ \A o \in offered' : o \in offered \/ o.key = Key(r)
            /\ \A k \in voided' : k \in voided \/ k = Key(r)
            /\ offered \subseteq offered'
        BY <1>4, <2>1, <3>3, TypesDiffer DEF HistoryStep
      <3>5. IdentityAgrees'
        BY <1>1, <2>6, <3>1, <3>2, <3>4 DEF IInv, IdentityAgrees
      <3> QED BY <1>1, <1>2, <2>4, <3>5 DEF IInv
    <2> QED BY <1>4, <2>5, <2>6
  <1> QED BY <1>3, <1>4

\* INVALIDATED of a generation not behind the machine.
LEMMA InvalidatePreserves ==
  ASSUME IInv, NEW r \in LiveRecord, r.type = InvalidatedType, HistoryStep(r),
         Listened(r), ~BehindMachine(machine, r),
         machine' = Invalidate(machine, r)
  PROVE  IInv'
  <1>1. /\ Key(r) \in Keys /\ Key(r).stream = machine.stream
        /\ Key(r).battle = r.battle /\ Key(r).gen = r.gen
        /\ r.battle \in Nat /\ r.gen \in Nat
    BY KeyTyped, TypesDiffer DEF IInv, Key
  <1>2. /\ machine'.stream = machine.stream /\ machine'.battle = r.battle
        /\ machine'.gen = r.gen /\ machine'.decision = None
        /\ machine'.last = InvalidatedType
        /\ machine'.raw = IF AheadOfMachine(machine, r) THEN None ELSE machine.raw
        /\ machine'.digest = IF AheadOfMachine(machine, r) THEN None ELSE machine.digest
        /\ machine' \in MachineState
    BY <1>1 DEF Invalidate, IInv, TypeOK, MachineState
  <1>3. TypeOK'
    BY <1>2, HistoryTyped, TypesDiffer DEF TypeOK
  <1>4. ~AheadOfMachine(machine, r) => r.battle = machine.battle /\ r.gen = machine.gen
    BY <1>1 DEF AheadOfMachine, BehindMachine, KeyLess, IInv, TypeOK, MachineState
  <1>5. machine.stream # None /\ machine.stream <= minted
    BY DEF Listened, IInv, WellFormed
  <1>6. WellFormed'
    BY <1>2, <1>4, <1>5 DEF IInv, WellFormed, HistoryStep
  <1>7. HistoryBounded'
    <2>1. \A k \in heard' : k \in heard \/ k = Key(r)
      BY DEF HistoryStep
    <2>2. \A k \in heard : k.stream = machine.stream =>
             ~KeyLess(r.battle, r.gen, k.battle, k.gen)
      BY <1>1, <1>4 DEF IInv, TypeOK, HistoryBounded, Keys, KeyLess, MachineState,
             BehindMachine, AheadOfMachine
    <2>3. ~KeyLess(r.battle, r.gen, r.battle, r.gen)
      BY <1>1 DEF KeyLess
    <2> QED BY <1>1, <1>2, <1>5, <2>1, <2>2, <2>3, HistoryTyped, TypesDiffer
            DEF IInv, HistoryBounded, HistoryStep
  <1>8. IdentityAgrees'
    <2>1. SUFFICES ASSUME machine'.raw # None PROVE IdentityAgrees'
      BY DEF IdentityAgrees
    <2>2. /\ ~AheadOfMachine(machine, r) /\ machine'.raw = machine.raw
          /\ machine'.digest = machine.digest /\ machine.raw # None
      BY <1>2, <2>1
    <2>3. CurrentKey' = CurrentKey /\ Key(r) = CurrentKey
      BY <1>2, <1>4, <2>2 DEF CurrentKey, Key
    <2>4. offered' = offered /\ voided' = voided
      BY <2>2, <2>3, TypesDiffer DEF IInv, IdentityAgrees, HistoryStep
    <2> QED BY <2>2, <2>3, <2>4 DEF IInv, IdentityAgrees
  <1> QED BY <1>3, <1>6, <1>7, <1>8 DEF IInv

\* The first READY of a generation ahead of the machine.
LEMMA AcceptReadyPreserves ==
  ASSUME IInv, NEW r \in LiveRecord, r.type = ReadyType, HistoryStep(r),
         Listened(r), AheadOfMachine(machine, r),
         machine' = AcceptReady(machine, r)
  PROVE  IInv'
  <1>1. /\ Key(r) \in Keys /\ Key(r).stream = machine.stream
        /\ Key(r).battle = r.battle /\ Key(r).gen = r.gen
        /\ r.battle \in Nat /\ r.gen \in Nat /\ r \in ReadyRecord
    BY KeyTyped, TypesDiffer DEF IInv, Key
  <1>2. /\ machine.stream \in Nat /\ machine.stream # None /\ machine.stream <= minted
    BY DEF Listened, IInv, TypeOK, MachineState, WellFormed
  <1>3. /\ RawCaptureId(machine.stream, r) \in RawIds
        /\ PayloadDigest(r.payload) \in Digests
    BY <1>1, <1>2 DEF RawCaptureId, RawIds, PayloadDigest, Digests, ReadyRecord
  <1>4. AcceptedDecision(machine.stream, r) \in Decisions
    BY <1>1, <1>2, <1>3 DEF AcceptedDecision, Decisions
  <1>5. /\ machine'.stream = machine.stream /\ machine'.battle = r.battle
        /\ machine'.gen = r.gen /\ machine'.last = ReadyType
        /\ machine'.raw = RawCaptureId(machine.stream, r)
        /\ machine'.digest = PayloadDigest(r.payload)
        /\ machine'.decision = AcceptedDecision(machine.stream, r)
        /\ machine' \in MachineState
    BY <1>1, <1>3, <1>4 DEF AcceptReady, IInv, TypeOK, MachineState
  <1>6. TypeOK'
    BY <1>5, HistoryTyped, TypesDiffer DEF TypeOK
  <1>7. /\ machine'.raw # None /\ machine'.digest # None /\ machine'.decision # None
        /\ machine'.decision.record = r
    BY <1>3, <1>4, <1>5, NoneAssumption DEF AcceptedDecision
  <1>8. WellFormed'
    <2>1. /\ machine'.decision = AcceptedDecision(machine'.stream, machine'.decision.record)
          /\ machine'.raw = machine'.decision.raw
          /\ machine'.digest = machine'.decision.digest
      BY <1>5, <1>7 DEF AcceptedDecision
    <2>2. ~CompatibilityProblem(machine'.decision.record)
      BY <1>7 DEF Listened
    <2> QED BY <1>2, <1>5, <1>7, <2>1, <2>2 DEF WellFormed, RawCaptureId, HistoryStep
  <1>9. \A k \in heard : k.stream = machine.stream =>
           k # Key(r) /\ ~KeyLess(r.battle, r.gen, k.battle, k.gen)
    BY <1>1 DEF IInv, TypeOK, HistoryBounded, Keys, KeyLess, MachineState, AheadOfMachine
  <1>10. HistoryBounded'
    <2>1. \A k \in heard' : k \in heard \/ k = Key(r)
      BY DEF HistoryStep
    <2>2. ~KeyLess(r.battle, r.gen, r.battle, r.gen)
      BY <1>1 DEF KeyLess
    <2> QED BY <1>1, <1>2, <1>5, <1>9, <2>1, <2>2, HistoryTyped, TypesDiffer
            DEF IInv, HistoryBounded, HistoryStep
  <1>11. IdentityAgrees'
    <2>1. CurrentKey' = Key(r)
      BY <1>5 DEF CurrentKey, Key
    <2>2. Key(r) \notin heard
      BY <1>1, <1>9
    <2>3. /\ offered' = offered \cup {Offer(r)} /\ voided' = voided
      BY TypesDiffer DEF HistoryStep
    <2>4. /\ Key(r) \notin voided' /\ \A o \in offered : o.key # Key(r)
      BY <2>2, <2>3 DEF IInv, HistoryBounded
    <2>5. /\ Offer(r).key = Key(r) /\ Offer(r).fp = machine'.raw.fp
          /\ machine'.digest = PayloadDigest(Offer(r).payload)
      BY <1>5 DEF Offer, RawCaptureId
    <2> QED BY <2>1, <2>3, <2>4, <2>5 DEF IdentityAgrees
  <1> QED BY <1>6, <1>8, <1>10, <1>11 DEF IInv

\* READY of the generation the machine stands at: nothing new is heard.
LEMMA SameGeneration ==
  ASSUME IInv, NEW r \in LiveRecord, r.type = ReadyType, HistoryStep(r),
         Listened(r), ~AheadOfMachine(machine, r), ~BehindMachine(machine, r),
         machine.raw # None
  PROVE  /\ Key(r) = CurrentKey /\ heard' = heard /\ voided' = voided
         /\ offered' = offered \cup {Offer(r)}
         /\ r \in ReadyRecord /\ machine.stream \in Nat
         /\ r.battle = machine.battle /\ r.gen = machine.gen
  <1>1. /\ r.battle \in Nat /\ r.gen \in Nat /\ r \in ReadyRecord
    BY KeyTyped, TypesDiffer DEF IInv
  <1>2. r.battle = machine.battle /\ r.gen = machine.gen
    BY <1>1 DEF AheadOfMachine, BehindMachine, KeyLess, IInv, TypeOK, MachineState
  <1>3. Key(r) = CurrentKey
    BY <1>2 DEF Key, CurrentKey
  <1>4. CurrentKey \in heard
    BY DEF IInv, IdentityAgrees, HistoryBounded
  <1> QED BY <1>1, <1>2, <1>3, <1>4, TypesDiffer
          DEF HistoryStep, Listened, IInv, TypeOK, MachineState

LEMMA PoisonPreserves ==
  ASSUME IInv, NEW r \in LiveRecord, r.type = ReadyType, HistoryStep(r),
         Listened(r), ~AheadOfMachine(machine, r), ~BehindMachine(machine, r),
         machine.raw # None, machine' = Poison(machine)
  PROVE  IInv'
  <1>1. /\ machine'.stream = machine.stream /\ machine'.battle = machine.battle
        /\ machine'.gen = machine.gen /\ machine'.decision = None
        /\ machine'.raw = None /\ machine'.digest = None
        /\ machine' \in MachineState
    BY DEF Poison, IInv, TypeOK, MachineState
  <1>2. TypeOK'
    BY <1>1, HistoryTyped, TypesDiffer DEF TypeOK
  <1>3. WellFormed'
    BY <1>1 DEF IInv, WellFormed, HistoryStep, Listened
  <1>4. HistoryBounded'
    BY <1>1, SameGeneration, HistoryTyped, TypesDiffer DEF IInv, HistoryBounded, HistoryStep
  <1>5. IdentityAgrees'
    BY <1>1 DEF IdentityAgrees
  <1> QED BY <1>2, <1>3, <1>4, <1>5 DEF IInv

LEMMA DuplicatePreserves ==
  ASSUME IInv, NEW r \in LiveRecord, r.type = ReadyType, HistoryStep(r),
         Listened(r), ~AheadOfMachine(machine, r), ~BehindMachine(machine, r),
         machine.raw # None, Repeats(machine, r), machine' = Duplicate(machine, r)
  PROVE  IInv'
  <1>1. /\ r \in ReadyRecord /\ machine.stream \in Nat
        /\ r.battle = machine.battle /\ r.gen = machine.gen
    BY SameGeneration
  <1>2. /\ machine.raw = RawCaptureId(machine.stream, r)
        /\ machine.digest = PayloadDigest(r.payload)
    BY DEF Repeats
  <1>3. AcceptedDecision(machine.stream, r) \in Decisions
    BY <1>1 DEF RawCaptureId, RawIds, PayloadDigest, Digests, ReadyRecord,
               AcceptedDecision, Decisions
  <1>4. /\ machine'.stream = machine.stream /\ machine'.battle = machine.battle
        /\ machine'.gen = machine.gen /\ machine'.raw = machine.raw
        /\ machine'.digest = machine.digest /\ machine'.last = ReadyType
        /\ machine'.decision = IF machine.decision = None
                               THEN AcceptedDecision(machine.stream, r)
                               ELSE machine.decision
        /\ machine' \in MachineState
    BY <1>3 DEF Duplicate, IInv, TypeOK, MachineState
  <1>5. TypeOK'
    BY <1>4, HistoryTyped, TypesDiffer DEF TypeOK
  <1>6. WellFormed'
    <2>1. CASE machine.decision # None
      BY <1>4, <2>1 DEF IInv, WellFormed, HistoryStep, Listened
    <2>2. CASE machine.decision = None
      <3>1. machine'.decision = AcceptedDecision(machine.stream, r)
        BY <1>4, <2>2
      <3>2. /\ machine'.decision.record = r
            /\ machine'.decision.raw = RawCaptureId(machine.stream, r)
            /\ machine'.decision.digest = PayloadDigest(r.payload)
        BY <3>1 DEF AcceptedDecision
      <3>3. ~CompatibilityProblem(r)
        BY DEF Listened
      <3> QED BY <1>2, <1>4, <3>1, <3>2, <3>3 DEF IInv, WellFormed, HistoryStep, Listened
    <2> QED BY <2>1, <2>2
  <1>7. HistoryBounded'
    BY <1>4, SameGeneration, HistoryTyped, TypesDiffer DEF IInv, HistoryBounded, HistoryStep
  <1>8. IdentityAgrees'
    <2>1. CurrentKey' = CurrentKey
      BY <1>4 DEF CurrentKey
    <2>2. /\ Offer(r).fp = machine.raw.fp
          /\ machine.digest = PayloadDigest(Offer(r).payload)
      BY <1>2 DEF Offer, RawCaptureId
    <2> QED BY <1>4, <2>1, <2>2, SameGeneration DEF IInv, IdentityAgrees
  <1> QED BY <1>5, <1>6, <1>7, <1>8 DEF IInv

\* A READY or INVALIDATED record, whatever it says, keeps the invariant.
LEMMA DecisionPreserves ==
  ASSUME IInv, NEW r \in LiveRecord, r.type # "STREAM_START", HistoryStep(r),
         machine' = Accept(machine, r, minted + 1)
  PROVE  IInv'
  <1>1. AheadOfMachine(machine, r) => ~BehindMachine(machine, r)
    <2>1. r.battle \in Nat /\ r.gen \in Nat
      BY DEF LiveRecord, StartRecord, ReadyRecord, InvalidatedRecord
    <2> QED BY <2>1 DEF AheadOfMachine, BehindMachine, KeyLess, IInv, TypeOK, MachineState
  <1> QED BY <1>1, DecisionOutcomes, IgnoredPreserves, InvalidatePreserves,
             AcceptReadyPreserves, PoisonPreserves, DuplicatePreserves

\* A well-formed machine survives the trip through its persisted form.
LEMMA RoundTrip ==
  ASSUME IInv
  PROVE  RestartIsTransparent
  <1>1. machine \in Machines
    BY DEF IInv, TypeOK, WellFormed, Machines, Coherent
  <1> QED BY <1>1, Restored DEF RestartIsTransparent

LEMMA NextIInv == IInv /\ [Next]_vars => IInv'
  <1> SUFFICES ASSUME IInv, [Next]_vars PROVE IInv'
    OBVIOUS
  <1>1. ASSUME NEW r \in Inbox, ReceiveStart(r) PROVE IInv'
    BY <1>1, StartPreserves
  <1>2. ASSUME NEW r \in Inbox, ReceiveReady(r) PROVE IInv'
    <2>1. r \in LiveRecord /\ r.type # "STREAM_START"
      BY <1>2, InboxAssumption, TypesDiffer DEF ReceiveReady
    <2>2. HistoryStep(r)
      BY <1>2, TypesDiffer DEF ReceiveReady, HistoryStep
    <2> QED BY <1>2, <2>1, <2>2, DecisionPreserves DEF ReceiveReady
  <1>3. ASSUME NEW r \in Inbox, ReceiveInvalidated(r) PROVE IInv'
    <2>1. r \in LiveRecord /\ r.type # "STREAM_START"
      BY <1>3, InboxAssumption, TypesDiffer DEF ReceiveInvalidated
    <2>2. HistoryStep(r)
      BY <1>3, TypesDiffer DEF ReceiveInvalidated, HistoryStep
    <2> QED BY <1>3, <2>1, <2>2, DecisionPreserves DEF ReceiveInvalidated
  <1>4. CASE ReceiveMalformed
    <2>1. UNCHANGED <<minted, offered, heard, voided>>
      BY <1>4 DEF ReceiveMalformed
    <2>2. /\ machine' \in MachineState /\ WellFormed'
          /\ machine'.stream = machine.stream /\ machine'.battle = machine.battle
          /\ machine'.gen = machine.gen /\ machine'.raw = machine.raw
          /\ machine'.digest = machine.digest
      BY <1>4, ClearPreserves DEF ReceiveMalformed
    <2>3. TypeOK'
      BY <2>1, <2>2 DEF IInv, TypeOK
    <2>4. HistoryBounded'
      BY <2>1, <2>2 DEF IInv, HistoryBounded
    <2>5. IdentityAgrees'
      BY <2>1, <2>2 DEF IInv, IdentityAgrees, CurrentKey
    <2> QED BY <2>2, <2>3, <2>4, <2>5 DEF IInv
  <1>5. CASE Discontinuity
    BY <1>5, EmptyPreserves DEF Discontinuity
  <1>6. CASE Restart
    <2>1. UNCHANGED vars
      BY <1>6, RoundTrip DEF Restart, RestartIsTransparent, vars
    <2> QED BY <2>1 DEF vars, IInv, TypeOK, WellFormed, HistoryBounded,
                        IdentityAgrees, CurrentKey
  <1>7. CASE UNCHANGED vars
    BY <1>7 DEF vars, IInv, TypeOK, WellFormed, HistoryBounded,
                IdentityAgrees, CurrentKey
  <1> QED BY <1>1, <1>2, <1>3, <1>4, <1>5, <1>6, <1>7 DEF Next

-----------------------------------------------------------------------------
(* Theorems *)

\* The inductive invariant holds in every reachable state.
THEOREM Invariance == Spec => []IInv
  <1> QED BY InitIInv, NextIInv, PTL DEF Spec

\* Every field of the machine and of the histories keeps its type.
THEOREM TypeCorrect == Spec => []TypeOK
  <1>1. IInv => TypeOK
    BY DEF IInv
  <1> QED BY <1>1, Invariance, PTL

\* Exposed advice agrees with everything the producer said of its generation,
\* whatever it sent, in whatever order, across restarts: a generation that
\* contradicted itself is never advised again.
THEOREM AdviceIsUnequivocal == Spec => []UnequivocalAdvice
  <1>1. IInv => UnequivocalAdvice
    <2> SUFFICES ASSUME IInv, Advice # None,
                        NEW o \in offered, o.key = AdviceKey
                 PROVE  o.fp = Advice.raw.fp /\ o.payload = Advice.record.payload
      BY DEF UnequivocalAdvice
    <2>1. /\ machine.raw # None /\ machine.raw = Advice.raw
          /\ machine.digest = Advice.digest
          /\ Advice = AcceptedDecision(machine.stream, Advice.record)
      BY DEF IInv, WellFormed, Advice
    <2>2. AdviceKey = CurrentKey
      BY <2>1 DEF IInv, WellFormed, AdviceKey, CurrentKey, AcceptedDecision, RawCaptureId
    <2>3. o.fp = Advice.raw.fp /\ Advice.digest = PayloadDigest(o.payload)
      BY <2>1, <2>2 DEF IInv, IdentityAgrees
    <2>4. Advice.digest = PayloadDigest(Advice.record.payload)
      BY <2>1 DEF AcceptedDecision
    <2> QED BY <2>3, <2>4 DEF PayloadDigest
  <1> QED BY <1>1, Invariance, PTL

\* A generation first heard of through an INVALIDATED is never advised.
THEOREM VoidedStaysVoided == Spec => []NoAdviceFromVoided
  <1>1. IInv => NoAdviceFromVoided
    <2> SUFFICES ASSUME IInv, Advice # None PROVE AdviceKey \notin voided
      BY DEF NoAdviceFromVoided
    <2>1. /\ machine.raw # None /\ machine.raw = Advice.raw
          /\ Advice = AcceptedDecision(machine.stream, Advice.record)
      BY DEF IInv, WellFormed, Advice
    <2>2. AdviceKey = CurrentKey
      BY <2>1 DEF IInv, WellFormed, AdviceKey, CurrentKey, AcceptedDecision, RawCaptureId
    <2> QED BY <2>1, <2>2 DEF IInv, IdentityAgrees
  <1> QED BY <1>1, Invariance, PTL

\* Advice belongs to the open stream and nothing newer was ever heard in it.
THEOREM AdviceNewest == Spec => []AdviceIsNewest
  <1>1. IInv => AdviceIsNewest
    <2> SUFFICES ASSUME IInv, Advice # None PROVE AdviceIsNewest
      BY DEF AdviceIsNewest
    <2>1. /\ machine.raw # None /\ machine.raw = Advice.raw
          /\ Advice = AcceptedDecision(machine.stream, Advice.record)
      BY DEF IInv, WellFormed, Advice
    <2>2. /\ AdviceKey.battle = machine.battle /\ AdviceKey.gen = machine.gen
          /\ Advice.stream = machine.stream
      BY <2>1 DEF IInv, WellFormed, AdviceKey, AcceptedDecision, RawCaptureId
    <2> QED BY <2>2 DEF IInv, HistoryBounded, AdviceIsNewest
  <1> QED BY <1>1, Invariance, PTL

\* Exposed advice is unequivocal, was not withdrawn before it was made, and is
\* the newest the open stream has named.
THEOREM AdviceSound == Spec => []SoundAdvice
  <1>1. UnequivocalAdvice /\ NoAdviceFromVoided /\ AdviceIsNewest => SoundAdvice
    BY DEF SoundAdvice
  <1> QED BY <1>1, AdviceIsUnequivocal, VoidedStaysVoided, AdviceNewest, PTL

\* What the receiver writes it can always read back, and it then resumes
\* exactly where it was.
THEOREM RestartTransparent == Spec => []RestartIsTransparent
  <1> QED BY RoundTrip, Invariance, PTL

\* What a step does to the machine's place in the order of generations.
StaysOrAdvances ==
    machine'.stream = machine.stream =>
        ~KeyLess(machine'.battle, machine'.gen, machine.battle, machine.gen)

\* A READY or INVALIDATED moves the machine forward or not at all.
LEMMA DecisionAdvances ==
  ASSUME IInv, NEW r \in LiveRecord, r.type # "STREAM_START", NEW id,
         machine' = Accept(machine, r, id)
  PROVE  StaysOrAdvances
  <1>1. /\ r.battle \in Nat /\ r.gen \in Nat
        /\ machine \in MachineState
        /\ machine.battle \in Int /\ machine.gen \in Int
    BY DEF LiveRecord, StartRecord, ReadyRecord, InvalidatedRecord,
           IInv, TypeOK, MachineState
  <1>2. CASE machine'.battle = machine.battle /\ machine'.gen = machine.gen
    BY <1>1, <1>2 DEF StaysOrAdvances, KeyLess
  <1>3. CASE /\ ~BehindMachine(machine, r)
             /\ machine' \in {Invalidate(machine, r), AcceptReady(machine, r)}
    <2>1. machine'.battle = r.battle /\ machine'.gen = r.gen
      BY <1>1, <1>3 DEF Invalidate, AcceptReady, MachineState
    <2> QED BY <1>3, <2>1 DEF StaysOrAdvances, BehindMachine
  <1>4. CASE machine' \in {machine, ClearReadiness(machine), Poison(machine),
                           Duplicate(machine, r)}
    <2>1. machine'.battle = machine.battle /\ machine'.gen = machine.gen
      BY <1>1, <1>4 DEF ClearReadiness, Poison, Duplicate, MachineState
    <2> QED BY <2>1, <1>2
  <1> QED BY <1>3, <1>4, DecisionOutcomes

\* A machine that loses its stream had one, or had nothing to lose.
LEMMA EmptyAdvances ==
  ASSUME IInv, machine' = EmptyState
  PROVE  StaysOrAdvances
  BY DEF IInv, WellFormed, EmptyState, StaysOrAdvances, KeyLess

\* Within one stream the receiver never returns to an earlier generation.
THEOREM NeverGoesBack == Spec => NeverBackward
  <1>1. IInv /\ [Next]_vars => [StaysOrAdvances]_vars
    <2> SUFFICES ASSUME IInv, Next PROVE StaysOrAdvances
      OBVIOUS
    <2>1. ASSUME NEW r \in Inbox, ReceiveStart(r) PROVE StaysOrAdvances
      <3>1. CASE CompatibilityProblem(r)
        <4>1. machine' = EmptyState
          BY <2>1, <3>1 DEF ReceiveStart, Accept, Status
        <4> QED BY <4>1, EmptyAdvances
      <3>2. CASE ~CompatibilityProblem(r)
        <4>1. Status(machine, r) = "STREAM_STARTED"
          BY <2>1, <3>2 DEF ReceiveStart, Status
        <4>2. machine' = [EmptyState EXCEPT !.stream = minted + 1]
          BY <2>1, <4>1, <3>2 DEF ReceiveStart, Accept
        <4>3. machine'.stream = minted + 1 /\ minted \in Nat
          BY <4>2 DEF EmptyState, IInv, TypeOK
        <4>4. machine'.stream # machine.stream
          <5>1. CASE machine.stream = None
            BY <4>3, <5>1, NoneAssumption
          <5>2. CASE machine.stream # None
            <6>1. machine.stream \in Nat /\ machine.stream <= minted
              BY <5>2 DEF IInv, TypeOK, MachineState, WellFormed
            <6> QED BY <4>3, <6>1
          <5> QED BY <5>1, <5>2
        <4> QED BY <4>4 DEF StaysOrAdvances
      <3> QED BY <3>1, <3>2
    <2>2. ASSUME NEW r \in Inbox, ReceiveReady(r) PROVE StaysOrAdvances
      BY <2>2, DecisionAdvances, InboxAssumption, TypesDiffer DEF ReceiveReady
    <2>3. ASSUME NEW r \in Inbox, ReceiveInvalidated(r) PROVE StaysOrAdvances
      BY <2>3, DecisionAdvances, InboxAssumption, TypesDiffer DEF ReceiveInvalidated
    <2>4. CASE ReceiveMalformed
      <3>1. machine'.battle = machine.battle /\ machine'.gen = machine.gen
        BY <2>4, ClearPreserves DEF ReceiveMalformed
      <3>2. machine.battle \in Int /\ machine.gen \in Int
        BY DEF IInv, TypeOK, MachineState
      <3> QED BY <3>1, <3>2 DEF StaysOrAdvances, KeyLess
    <2>5. CASE Discontinuity
      BY <2>5, EmptyAdvances DEF Discontinuity
    <2>6. CASE Restart
      <3>1. machine' = machine
        BY <2>6, RoundTrip DEF Restart, RestartIsTransparent
      <3>2. machine.battle \in Int /\ machine.gen \in Int
        BY DEF IInv, TypeOK, MachineState
      <3> QED BY <3>1, <3>2 DEF StaysOrAdvances, KeyLess
    <2> QED BY <2>1, <2>2, <2>3, <2>4, <2>5, <2>6 DEF Next
  <1> QED BY <1>1, Invariance, PTL DEF Spec, NeverBackward, StaysOrAdvances

-----------------------------------------------------------------------------
(* The machine mirrors the history *)

Frames == Inbox \cup {Malformed}

Speaks(h) == { i \in 2..Len(h) : Decision(h, i) }
Newest(m, h) == { i \in Speaks(h) : h[i].battle = m.battle /\ h[i].gen = m.gen }
Readies(m, h) == { i \in Newest(m, h) : h[i].type = ReadyType }

First(m, h, f) == f \in Newest(m, h) /\ \A j \in Newest(m, h) : f <= j

\* Position f established the identity of the newest generation.
Established(m, h, f) ==
    /\ First(m, h, f) /\ h[f].type = ReadyType
    /\ \A i \in Readies(m, h) : SameContent(h[i], h[f])

\* Nothing since the last READY of the newest generation took it back.
Standing(m, h) ==
    \A i \in 2..Len(h) :
        (\A j \in Readies(m, h) : i > j) => Decision(h, i) /\ i \notin Newest(m, h)

\* The machine stands at the newest generation the stream has named.
StandsAtNewest(m, h) ==
    /\ \A i \in Speaks(h) : ~KeyLess(m.battle, m.gen, h[i].battle, h[i].gen)
    /\ Newest(m, h) = {} => Speaks(h) = {} /\ m.battle = -1

\* It has an identity exactly when one was established and not contradicted.
KnowsIdentity(m, h) ==
    /\ m.raw # None <=> \E f \in Newest(m, h) : Established(m, h, f)
    /\ \A f \in Newest(m, h) : Established(m, h, f) =>
          m.raw.fp = h[f].fp /\ m.digest = PayloadDigest(h[f].payload)

AdvisesWhatStands(m, h) == m.decision # None <=> m.raw # None /\ Standing(m, h)

MirrorsStream(m, h) ==
    StandsAtNewest(m, h) /\ KnowsIdentity(m, h) /\ AdvisesWhatStands(m, h)

Opened(h) == h # <<>> /\ IsStart(h[1]) /\ ~CompatibilityProblem(h[1])

StartsOnlyFirst(h) == \A i \in DOMAIN h : IsStart(h[i]) => i = 1

Mirrors(m, h) ==
    /\ h \in Seq(Frames) /\ StartsOnlyFirst(h)
    /\ m.stream # None <=> Opened(h)
    /\ m.stream # None => MirrorsStream(m, h)

HInv == IInv /\ (history # Untold => Mirrors(machine, history))

-----------------------------------------------------------------------------

\* accept on an open stream, status by status.
LEMMA OpenOutcomes ==
  ASSUME NEW r \in LiveRecord, r.type # "STREAM_START", machine.stream # None, NEW id
  PROVE  \/ /\ CompatibilityProblem(r)
            /\ Accept(machine, r, id) = ClearReadiness(machine)
         \/ /\ ~CompatibilityProblem(r) /\ BehindMachine(machine, r)
            /\ Accept(machine, r, id) = machine
         \/ /\ ~CompatibilityProblem(r) /\ ~BehindMachine(machine, r)
            /\ \/ /\ r.type = InvalidatedType
                  /\ Accept(machine, r, id) = Invalidate(machine, r)
               \/ /\ r.type = ReadyType /\ AheadOfMachine(machine, r)
                  /\ Accept(machine, r, id) = AcceptReady(machine, r)
               \/ /\ r.type = ReadyType /\ ~AheadOfMachine(machine, r)
                  /\ machine.raw = None
                  /\ Accept(machine, r, id) = ClearReadiness(machine)
               \/ /\ r.type = ReadyType /\ ~AheadOfMachine(machine, r)
                  /\ machine.raw # None /\ ~Repeats(machine, r)
                  /\ Accept(machine, r, id) = Poison(machine)
               \/ /\ r.type = ReadyType /\ ~AheadOfMachine(machine, r)
                  /\ machine.raw # None /\ Repeats(machine, r)
                  /\ Accept(machine, r, id) = Duplicate(machine, r)
  <1>1. CASE CompatibilityProblem(r)
    <2>1. Status(machine, r) = "REJECTED_INCOMPATIBLE"
      BY <1>1 DEF Status
    <2> QED BY <2>1, <1>1 DEF Accept
  <1>2. CASE ~CompatibilityProblem(r) /\ BehindMachine(machine, r)
    <2>1. Status(machine, r) = "REJECTED_STALE"
      BY <1>2 DEF Status
    <2> QED BY <2>1, <1>2 DEF Accept
  <1>3. CASE /\ ~CompatibilityProblem(r) /\ ~BehindMachine(machine, r)
             /\ r.type = ReadyType /\ ~AheadOfMachine(machine, r) /\ machine.raw = None
    <2>1. Status(machine, r) = "REJECTED_UNESTABLISHED"
      BY <1>3, TypesDiffer DEF Status
    <2> QED BY <2>1, <1>3 DEF Accept
  <1> QED BY <1>1, <1>2, <1>3, DecisionOutcomes DEF Listened

\* g is h and one more frame f.
Grown(h, f, g) ==
    /\ h \in Seq(Frames) /\ h # <<>> /\ StartsOnlyFirst(h)
    /\ f \in Frames /\ ~IsStart(f) /\ g = Append(h, f)

LEMMA GrownFacts ==
  ASSUME NEW h, NEW f, NEW g, Grown(h, f, g)
  PROVE  /\ Len(h) \in Nat /\ Len(h) >= 1 /\ Len(g) = Len(h) + 1 /\ g[Len(g)] = f
         /\ \A i \in 1..Len(h) : g[i] = h[i]
         /\ Speaks(h) \subseteq 2..Len(h)
         /\ Speaks(g) = Speaks(h) \cup (IF Decision(g, Len(g)) THEN {Len(g)} ELSE {})
         /\ \A i \in 2..Len(h) : Decision(g, i) <=> Decision(h, i)
  <1>1. Len(h) \in Nat /\ Len(h) >= 1 /\ Len(g) = Len(h) + 1 /\ g[Len(g)] = f
    BY DEF Grown
  <1>2. \A i \in 1..Len(h) : g[i] = h[i]
    BY DEF Grown
  <1>3. \A i \in 2..Len(h) : Decision(g, i) <=> Decision(h, i)
    BY <1>1, <1>2 DEF Decision
  <1>4. Speaks(h) \subseteq 2..Len(h)
    BY DEF Speaks
  <1>5. Speaks(g) = Speaks(h) \cup (IF Decision(g, Len(g)) THEN {Len(g)} ELSE {})
    BY <1>1, <1>3 DEF Speaks
  <1> QED BY <1>1, <1>2, <1>3, <1>4, <1>5

\* A position that speaks holds a decision record.
LEMMA SpeaksTyped ==
  ASSUME NEW h \in Seq(Frames), StartsOnlyFirst(h), NEW i \in Speaks(h)
  PROVE  /\ h[i] \in LiveRecord /\ h[i].type # "STREAM_START"
         /\ h[i].type \in {ReadyType, InvalidatedType}
         /\ h[i].battle \in Nat /\ h[i].gen \in Nat
  <1>1. i \in DOMAIN h /\ i # 1 /\ h[i] # Malformed
    BY DEF Speaks, Decision
  <1>2. h[i] \in LiveRecord
    BY <1>1, InboxAssumption DEF Frames
  <1>3. h[i].type # "STREAM_START"
    BY <1>1 DEF StartsOnlyFirst, IsStart
  <1> QED BY <1>2, <1>3 DEF LiveRecord, StartRecord, ReadyRecord, InvalidatedRecord

\* A decision record that arrives after the first frame is a new position.
LEMMA GrownByDecision ==
  ASSUME NEW h, NEW f, NEW g, Grown(h, f, g), f # Malformed, ~CompatibilityProblem(f)
  PROVE  /\ Decision(g, Len(g)) /\ Speaks(g) = Speaks(h) \cup {Len(g)}
         /\ f.type \in {ReadyType, InvalidatedType}
         /\ f.battle \in Nat /\ f.gen \in Nat
         /\ \A i \in Speaks(h) : h[i].battle \in Nat /\ h[i].gen \in Nat
  <1>1. Decision(g, Len(g))
    BY GrownFacts DEF Decision
  <1>2. Speaks(g) = Speaks(h) \cup {Len(g)}
    BY <1>1, GrownFacts
  <1>3. g \in Seq(Frames)
    BY DEF Grown
  <1>4. StartsOnlyFirst(g)
    BY GrownFacts DEF Grown, StartsOnlyFirst
  <1>5. /\ f.type \in {ReadyType, InvalidatedType}
        /\ f.battle \in Nat /\ f.gen \in Nat
    BY <1>2, <1>3, <1>4, SpeaksTyped, GrownFacts
  <1>6. \A i \in Speaks(h) : h[i].battle \in Nat /\ h[i].gen \in Nat
    BY SpeaksTyped DEF Grown
  <1> QED BY <1>1, <1>2, <1>5, <1>6

\* A frame that is no decision takes the advice down and changes nothing else.
LEMMA NoDecisionMirrors ==
  ASSUME NEW m \in MachineState, NEW h, NEW f, NEW g, Grown(h, f, g),
         MirrorsStream(m, h), f = Malformed \/ CompatibilityProblem(f)
  PROVE  MirrorsStream(ClearReadiness(m), g)
  <1> DEFINE c == ClearReadiness(m)
  <1>1. /\ c.battle = m.battle /\ c.gen = m.gen /\ c.raw = m.raw
        /\ c.digest = m.digest /\ c.decision = None
    BY DEF ClearReadiness, MachineState
  <1> HIDE DEF c
  <1>2. ~Decision(g, Len(g))
    BY GrownFacts DEF Decision
  <1>3. Speaks(g) = Speaks(h)
    BY <1>2, GrownFacts
  <1>4. Newest(c, g) = Newest(m, h) /\ Newest(m, h) \subseteq 2..Len(h)
    BY <1>1, <1>3, GrownFacts DEF Newest
  <1>5. Readies(c, g) = Readies(m, h) /\ Readies(m, h) \subseteq 2..Len(h)
    BY <1>4, GrownFacts DEF Readies
  <1>6. \A e \in Newest(m, h) : Established(c, g, e) <=> Established(m, h, e)
    BY <1>4, <1>5, GrownFacts DEF Established, First
  <1>7. StandsAtNewest(c, g)
    BY <1>1, <1>3, <1>4, GrownFacts DEF MirrorsStream, StandsAtNewest
  <1>8. KnowsIdentity(c, g)
    BY <1>1, <1>4, <1>6, GrownFacts DEF MirrorsStream, KnowsIdentity
  <1>9. ~Standing(c, g)
    BY <1>2, <1>5, GrownFacts DEF Standing
  <1> QED BY <1>1, <1>7, <1>8, <1>9 DEF MirrorsStream, AdvisesWhatStands, c

\* A decision of an older generation has no say.
LEMMA StaleMirrors ==
  ASSUME NEW m \in MachineState, NEW h, NEW f, NEW g, Grown(h, f, g),
         MirrorsStream(m, h), f # Malformed, ~CompatibilityProblem(f),
         BehindMachine(m, f)
  PROVE  MirrorsStream(m, g)
  <1>1. Decision(g, Len(g))
    BY GrownByDecision
  <1>2. Speaks(g) = Speaks(h) \cup {Len(g)}
    BY GrownByDecision
  <1>3. f.battle \in Nat /\ f.gen \in Nat
    BY GrownByDecision
  <1>4. m.battle \in Int /\ m.gen \in Int
    BY DEF MachineState
  <1>5. Newest(m, g) = Newest(m, h) /\ Newest(m, h) \subseteq 2..Len(h)
    BY <1>2, <1>3, <1>4, GrownFacts DEF Newest, BehindMachine, KeyLess
  <1>6. Readies(m, g) = Readies(m, h) /\ Readies(m, h) \subseteq 2..Len(h)
    BY <1>5, GrownFacts DEF Readies
  <1>7. \A e \in Newest(m, h) : Established(m, g, e) <=> Established(m, h, e)
    BY <1>5, <1>6, GrownFacts DEF Established, First
  <1>8. m.battle # -1
    BY <1>3, <1>4 DEF BehindMachine, KeyLess
  <1>9. StandsAtNewest(m, g)
    <2>1. ~KeyLess(m.battle, m.gen, f.battle, f.gen)
      BY <1>3, <1>4 DEF BehindMachine, KeyLess
    <2> QED BY <1>2, <1>5, <1>8, <2>1, GrownFacts DEF MirrorsStream, StandsAtNewest
  <1>10. KnowsIdentity(m, g)
    BY <1>5, <1>7, GrownFacts DEF MirrorsStream, KnowsIdentity
  <1>11. Standing(m, g) <=> Standing(m, h)
    <2>1. Len(g) \notin Newest(m, g) /\ \A i \in 2..Len(g) : i \in 2..Len(h) \/ i = Len(g)
      BY <1>5, GrownFacts
    <2>2. 2..Len(h) \subseteq 2..Len(g)
      BY GrownFacts
    <2> QED BY <1>1, <1>5, <1>6, <2>1, <2>2, GrownFacts DEF Standing
  <1> QED BY <1>9, <1>10, <1>11 DEF MirrorsStream, AdvisesWhatStands
\* The first decision of a newer generation leaves only itself.
LEMMA NewerAlone ==
  ASSUME NEW m \in MachineState, NEW c, NEW h, NEW f, NEW g, Grown(h, f, g),
         MirrorsStream(m, h), f # Malformed, ~CompatibilityProblem(f),
         AheadOfMachine(m, f), c.battle = f.battle, c.gen = f.gen
  PROVE  /\ StandsAtNewest(c, g)
         /\ Newest(c, g) = {Len(g)} /\ First(c, g, Len(g))
         /\ Readies(c, g) = IF f.type = ReadyType THEN {Len(g)} ELSE {}
  <1>1. Speaks(g) = Speaks(h) \cup {Len(g)}
    BY GrownByDecision
  <1>2. /\ f.battle \in Nat /\ f.gen \in Nat
        /\ \A i \in Speaks(h) : h[i].battle \in Nat /\ h[i].gen \in Nat
    BY GrownByDecision
  <1>3. m.battle \in Int /\ m.gen \in Int
    BY DEF MachineState
  <1>4. \A i \in Speaks(h) : KeyLess(h[i].battle, h[i].gen, f.battle, f.gen)
    BY <1>2, <1>3 DEF MirrorsStream, StandsAtNewest, AheadOfMachine, KeyLess
  <1>5. \A i \in Speaks(h) : g[i] = h[i] /\ i \in Nat
    BY GrownFacts
  <1>6. Len(g) \in Nat /\ g[Len(g)] = f
    BY GrownFacts
  <1>7. Newest(c, g) = {Len(g)}
    BY <1>1, <1>2, <1>4, <1>5, <1>6 DEF Newest, KeyLess
  <1>8. StandsAtNewest(c, g)
    BY <1>1, <1>2, <1>4, <1>5, <1>6, <1>7 DEF StandsAtNewest, KeyLess
  <1> QED BY <1>6, <1>7, <1>8 DEF First, Readies

\* A decision of the generation machine m stands at joins the others of it.
Joins(m, c, h, f, g) ==
    /\ f.battle = m.battle /\ f.gen = m.gen
    /\ StandsAtNewest(c, g)
    /\ Newest(c, g) = Newest(m, h) \cup {Len(g)} /\ Newest(m, h) # {}
    /\ \A e \in Newest(c, g) : First(c, g, e) <=> First(m, h, e)
    /\ Readies(c, g) = Readies(m, h) \cup (IF f.type = ReadyType THEN {Len(g)} ELSE {})
    /\ \A e \in Newest(m, h) : e \in 2..Len(h) /\ g[e] = h[e]

LEMMA SameJoins ==
  ASSUME NEW m \in MachineState, NEW c, NEW h, NEW f, NEW g, Grown(h, f, g),
         MirrorsStream(m, h), f # Malformed, ~CompatibilityProblem(f),
         ~AheadOfMachine(m, f), ~BehindMachine(m, f),
         c.battle = m.battle, c.gen = m.gen
  PROVE  Joins(m, c, h, f, g)
  <1>1. Speaks(g) = Speaks(h) \cup {Len(g)}
    BY GrownByDecision
  <1>2. /\ f.battle \in Nat /\ f.gen \in Nat
        /\ \A i \in Speaks(h) : h[i].battle \in Nat /\ h[i].gen \in Nat
    BY GrownByDecision
  <1>3. m.battle \in Int /\ m.gen \in Int
    BY DEF MachineState
  <1>4. f.battle = m.battle /\ f.gen = m.gen
    BY <1>2, <1>3 DEF AheadOfMachine, BehindMachine, KeyLess
  <1>5. /\ \A i \in Speaks(h) : g[i] = h[i] /\ i \in 2..Len(h)
        /\ Len(h) \in Nat /\ Len(g) = Len(h) + 1 /\ g[Len(g)] = f
    BY GrownFacts
  <1>6. Newest(c, g) = Newest(m, h) \cup {Len(g)}
    BY <1>1, <1>4, <1>5 DEF Newest
  <1>7. Newest(m, h) # {}
    BY <1>2, <1>4 DEF MirrorsStream, StandsAtNewest
  <1>8. \A e \in Newest(m, h) : e \in 2..Len(h) /\ g[e] = h[e]
    BY <1>5 DEF Newest
  <1>9. ~KeyLess(m.battle, m.gen, f.battle, f.gen)
    BY <1>3, <1>4 DEF KeyLess
  <1>10. StandsAtNewest(c, g)
    BY <1>1, <1>5, <1>6, <1>9 DEF MirrorsStream, StandsAtNewest
  <1>11. \A e \in Newest(c, g) : First(c, g, e) <=> First(m, h, e)
    BY <1>5, <1>6, <1>7, <1>8 DEF First
  <1>12. Readies(c, g) = Readies(m, h) \cup
                         (IF f.type = ReadyType THEN {Len(g)} ELSE {})
    BY <1>5, <1>6, <1>8 DEF Readies
  <1> QED BY <1>4, <1>6, <1>7, <1>8, <1>10, <1>11, <1>12 DEF Joins

LEMMA InvalidateMirrors ==
  ASSUME NEW m \in MachineState, NEW h, NEW f, NEW g, Grown(h, f, g),
         MirrorsStream(m, h), f # Malformed, ~CompatibilityProblem(f),
         f.type = InvalidatedType, ~BehindMachine(m, f)
  PROVE  MirrorsStream(Invalidate(m, f), g)
  <1> DEFINE c == Invalidate(m, f)
  <1>1. /\ c.battle = f.battle /\ c.gen = f.gen /\ c.decision = None
        /\ c.raw = IF AheadOfMachine(m, f) THEN None ELSE m.raw
        /\ c.digest = IF AheadOfMachine(m, f) THEN None ELSE m.digest
    BY DEF Invalidate, MachineState
  <1> HIDE DEF c
  <1>2. Len(g) \in 2..Len(g) /\ g[Len(g)] = f /\ f.type # ReadyType
    BY GrownFacts, TypesDiffer
  <1>3. CASE AheadOfMachine(m, f)
    <2>1. /\ StandsAtNewest(c, g)
          /\ Newest(c, g) = {Len(g)} /\ First(c, g, Len(g))
          /\ Readies(c, g) = IF f.type = ReadyType THEN {Len(g)} ELSE {}
      BY <1>1, <1>3, NewerAlone
    <2>2. /\ StandsAtNewest(c, g)
          /\ Newest(c, g) = {Len(g)} /\ Readies(c, g) = {}
      BY <1>2, <2>1
    <2>3. ~Standing(c, g)
      BY <1>2, <2>2 DEF Standing
    <2>4. KnowsIdentity(c, g)
      BY <1>1, <1>2, <1>3, <2>2 DEF KnowsIdentity, Established
    <2> QED BY <1>1, <2>2, <2>3, <2>4 DEF MirrorsStream, AdvisesWhatStands, c
  <1>4. CASE ~AheadOfMachine(m, f)
    <2>1. c.battle = m.battle /\ c.gen = m.gen
      <3>1. f.battle \in Nat /\ f.gen \in Nat
        BY GrownByDecision
      <3> QED BY <1>1, <1>4, <3>1 DEF AheadOfMachine, BehindMachine, KeyLess, MachineState
    <2>2. Joins(m, c, h, f, g)
      BY <1>4, <2>1, SameJoins
    <2>3. /\ Readies(c, g) = Readies(m, h) /\ StandsAtNewest(c, g)
          /\ Newest(c, g) = Newest(m, h) \cup {Len(g)}
          /\ \A e \in Newest(c, g) : First(c, g, e) <=> First(m, h, e)
          /\ \A e \in Newest(m, h) : e \in 2..Len(h) /\ g[e] = h[e]
      BY <1>2, <2>2 DEF Joins
    <2>4. Len(h) \in Nat /\ Len(g) = Len(h) + 1
      BY GrownFacts
    <2>5. ~Standing(c, g)
      <3>1. \A j \in Readies(c, g) : Len(g) > j
        BY <2>3, <2>4 DEF Readies
      <3> QED BY <1>2, <2>3, <3>1 DEF Standing
    <2>6. \A e \in Newest(c, g) : First(c, g, e) => e \in Newest(m, h)
      BY <2>3 DEF First
    <2>7. \A e \in Newest(c, g) : Established(c, g, e) <=> Established(m, h, e)
      BY <2>3, <2>6 DEF Established, Readies
    <2>8. KnowsIdentity(c, g)
      BY <1>1, <1>4, <2>3, <2>6, <2>7 DEF MirrorsStream, KnowsIdentity, Established
    <2> QED BY <1>1, <2>3, <2>5, <2>8 DEF MirrorsStream, AdvisesWhatStands, c
  <1> QED BY <1>3, <1>4
LEMMA AcceptReadyMirrors ==
  ASSUME NEW m \in MachineState, m.stream # None,
         NEW h, NEW f \in ReadyRecord, NEW g, Grown(h, f, g),
         MirrorsStream(m, h), f # Malformed, ~CompatibilityProblem(f),
         f.type = ReadyType, AheadOfMachine(m, f)
  PROVE  MirrorsStream(AcceptReady(m, f), g)
  <1> DEFINE c == AcceptReady(m, f)
  <1>1. /\ c.battle = f.battle /\ c.gen = f.gen
        /\ c.raw = RawCaptureId(m.stream, f) /\ c.digest = PayloadDigest(f.payload)
        /\ c.decision = AcceptedDecision(m.stream, f)
    BY DEF AcceptReady, MachineState
  <1>2. c.raw # None /\ c.decision # None /\ c.raw.fp = f.fp
    <2>1. m.stream \in Nat
      BY DEF MachineState
    <2>2. RawCaptureId(m.stream, f) \in RawIds
      BY <2>1 DEF RawCaptureId, RawIds, ReadyRecord
    <2>3. AcceptedDecision(m.stream, f) \in Decisions
      BY <2>1, <2>2 DEF AcceptedDecision, Decisions, PayloadDigest, Digests, ReadyRecord
    <2>4. RawCaptureId(m.stream, f).fp = f.fp
      BY DEF RawCaptureId
    <2> QED BY <1>1, <2>2, <2>3, <2>4, NoneAssumption
  <1> HIDE DEF c
  <1>3. /\ StandsAtNewest(c, g)
        /\ Newest(c, g) = {Len(g)} /\ First(c, g, Len(g))
        /\ Readies(c, g) = IF f.type = ReadyType THEN {Len(g)} ELSE {}
    BY <1>1, NewerAlone
  <1>4. Readies(c, g) = {Len(g)}
    BY <1>3
  <1>5. g[Len(g)] = f /\ Len(g) \in Nat
    BY GrownFacts
  <1>6. Established(c, g, Len(g))
    BY <1>3, <1>4, <1>5 DEF Established, SameContent
  <1>7. KnowsIdentity(c, g)
    BY <1>1, <1>2, <1>3, <1>5, <1>6 DEF KnowsIdentity
  <1>8. Standing(c, g)
    BY <1>4, <1>5 DEF Standing
  <1> QED BY <1>2, <1>3, <1>7, <1>8 DEF MirrorsStream, AdvisesWhatStands, c

\* READY of a generation without an identity, or with another one: from now on
\* no position establishes it.
LEMMA RefusedMirrors ==
  ASSUME NEW m \in MachineState, NEW c, NEW h, NEW f, NEW g, Grown(h, f, g),
         MirrorsStream(m, h), f # Malformed, ~CompatibilityProblem(f),
         f.type = ReadyType, ~AheadOfMachine(m, f), ~BehindMachine(m, f),
         c.battle = m.battle, c.gen = m.gen, c.raw = None, c.decision = None,
         m.raw # None => \/ m.raw.fp # f.fp
                        \/ m.digest # PayloadDigest(f.payload)
  PROVE  MirrorsStream(c, g)
  <1>1. Joins(m, c, h, f, g)
    BY SameJoins
  <1>2. /\ Len(g) \in Readies(c, g) /\ Readies(m, h) \subseteq Readies(c, g)
        /\ \A e \in Newest(c, g) : First(c, g, e) <=> First(m, h, e)
        /\ \A e \in Newest(m, h) : g[e] = h[e]
        /\ Readies(m, h) \subseteq Newest(m, h)
    BY <1>1 DEF Joins, Readies
  <1>3. g[Len(g)] = f
    BY GrownFacts
  <1>4. ASSUME NEW e \in Newest(c, g), Established(c, g, e) PROVE FALSE
    <2>1. First(m, h, e) /\ e \in Newest(m, h)
      BY <1>2, <1>4 DEF Established, First
    <2>2. Established(m, h, e)
      BY <1>2, <1>4, <2>1 DEF Established
    <2>3. /\ m.raw # None /\ m.raw.fp = h[e].fp
          /\ m.digest = PayloadDigest(h[e].payload)
      BY <2>1, <2>2 DEF MirrorsStream, KnowsIdentity
    <2>4. SameContent(f, h[e])
      BY <1>2, <1>3, <1>4, <2>1 DEF Established
    <2> QED BY <2>3, <2>4 DEF SameContent
  <1>5. KnowsIdentity(c, g)
    BY <1>4 DEF KnowsIdentity
  <1> QED BY <1>1, <1>5 DEF MirrorsStream, AdvisesWhatStands, Joins

LEMMA DuplicateMirrors ==
  ASSUME NEW m \in MachineState, m.stream # None,
         NEW h, NEW f \in ReadyRecord, NEW g, Grown(h, f, g),
         MirrorsStream(m, h), f # Malformed, ~CompatibilityProblem(f),
         f.type = ReadyType, ~AheadOfMachine(m, f), ~BehindMachine(m, f),
         m.raw # None, Repeats(m, f)
  PROVE  MirrorsStream(Duplicate(m, f), g)
  <1> DEFINE c == Duplicate(m, f)
  <1>1. /\ c.battle = m.battle /\ c.gen = m.gen /\ c.raw = m.raw
        /\ c.digest = m.digest /\ c.decision # None
    <2>1. m.stream \in Nat
      BY DEF MachineState
    <2>2. AcceptedDecision(m.stream, f) # None
      BY <2>1, NoneAssumption
         DEF AcceptedDecision, Decisions, RawCaptureId, RawIds, PayloadDigest, Digests,
             ReadyRecord
    <2> QED BY <2>2 DEF Duplicate, MachineState
  <1> HIDE DEF c
  <1>2. Joins(m, c, h, f, g)
    BY <1>1, SameJoins
  <1>3. /\ StandsAtNewest(c, g) /\ Newest(m, h) \subseteq Newest(c, g)
        /\ Readies(c, g) = Readies(m, h) \cup {Len(g)}
        /\ \A e \in Newest(c, g) : First(c, g, e) <=> First(m, h, e)
        /\ \A e \in Newest(m, h) : g[e] = h[e]
        /\ Readies(m, h) \subseteq Newest(m, h)
    BY <1>2 DEF Joins, Readies
  <1>4. g[Len(g)] = f /\ Len(g) \in Nat
    BY GrownFacts
  <1>5. m.raw.fp = f.fp /\ m.digest = PayloadDigest(f.payload)
    BY DEF Repeats, RawCaptureId
  <1>6. ASSUME NEW e \in Newest(c, g)
        PROVE  Established(c, g, e) <=> e \in Newest(m, h) /\ Established(m, h, e)
    <2>1. CASE ~First(c, g, e)
      BY <1>3, <2>1 DEF Established
    <2>2. CASE First(c, g, e)
      <3>1. First(m, h, e) /\ e \in Newest(m, h) /\ g[e] = h[e]
        BY <1>3, <2>2 DEF First
      <3>2. Established(c, g, e) => Established(m, h, e)
        BY <1>3, <3>1 DEF Established
      <3>3. ASSUME Established(m, h, e) PROVE SameContent(f, h[e])
        <4>1. m.raw.fp = h[e].fp /\ m.digest = PayloadDigest(h[e].payload)
          BY <3>1, <3>3 DEF MirrorsStream, KnowsIdentity
        <4>2. PayloadDigest(f.payload).sha256 = PayloadDigest(h[e].payload).sha256
          BY <1>5, <4>1
        <4>3. f.payload = h[e].payload
          BY <4>2 DEF PayloadDigest
        <4> QED BY <1>5, <4>1, <4>3 DEF SameContent
      <3>4. Established(m, h, e) => Established(c, g, e)
        BY <1>3, <1>4, <2>2, <3>1, <3>3 DEF Established
      <3> QED BY <3>1, <3>2, <3>4
    <2> QED BY <2>1, <2>2
  <1>7. KnowsIdentity(c, g)
    BY <1>1, <1>3, <1>6 DEF MirrorsStream, KnowsIdentity
  <1>8. Standing(c, g)
    BY <1>3, <1>4 DEF Standing
  <1> QED BY <1>1, <1>3, <1>7, <1>8 DEF MirrorsStream, AdvisesWhatStands, c
-----------------------------------------------------------------------------
(* The mirror is kept by every step *)

\* A decision record, whatever it says.
LEMMA DecisionMirrors ==
  ASSUME IInv, NEW r \in Inbox, r.type # "STREAM_START", NEW id,
         NEW h, NEW g, g = Append(h, r), Mirrors(machine, h)
  PROVE  Mirrors(Accept(machine, r, id), g)
  <1>1. r \in LiveRecord /\ r # Malformed /\ ~IsStart(r) /\ r \in Frames
    BY InboxAssumption, MalformedAssumption DEF IsStart, Frames
  <1>2. machine \in MachineState /\ h \in Seq(Frames) /\ StartsOnlyFirst(h)
    BY DEF IInv, TypeOK, Mirrors
  <1>3. g \in Seq(Frames) /\ StartsOnlyFirst(g)
    BY <1>1, <1>2 DEF StartsOnlyFirst
  <1>4. CASE machine.stream = None
    <2>1. Accept(machine, r, id) \in {machine, ClearReadiness(machine)}
      BY <1>1, <1>4, DecisionOutcomes DEF Listened
    <2>2. Accept(machine, r, id).stream = None
      BY <1>2, <1>4, <2>1 DEF ClearReadiness, MachineState
    <2>3. ~Opened(g)
      <3>1. CASE h = <<>>
        BY <1>1, <3>1 DEF Opened
      <3>2. CASE h # <<>>
        <4>1. g[1] = h[1]
          BY <1>2, <3>2
        <4> QED BY <1>4, <3>2, <4>1 DEF Mirrors, Opened
      <3> QED BY <3>1, <3>2
    <2> QED BY <1>3, <2>2, <2>3 DEF Mirrors
  <1>5. CASE machine.stream # None
    <2>1. Grown(h, r, g) /\ MirrorsStream(machine, h) /\ Opened(g)
      <3>1. Opened(h) /\ MirrorsStream(machine, h)
        BY <1>5 DEF Mirrors
      <3>2. g # <<>> /\ g[1] = h[1]
        BY <1>2, <3>1 DEF Opened
      <3> QED BY <1>1, <1>2, <3>1, <3>2 DEF Grown, Opened
    <2> DEFINE c == Accept(machine, r, id)
    <2>2. ASSUME MirrorsStream(c, g), c.stream # None PROVE Mirrors(c, g)
      BY <1>3, <2>1, <2>2 DEF Mirrors
    <2>3. c \in {machine, ClearReadiness(machine), Invalidate(machine, r),
                 AcceptReady(machine, r), Poison(machine), Duplicate(machine, r)}
      BY <1>1, <1>5, OpenOutcomes
    <2>4. c.stream # None
      BY <1>2, <1>5, <2>3
         DEF ClearReadiness, Invalidate, AcceptReady, Poison, Duplicate, MachineState
    <2>5. MirrorsStream(c, g)
      <3>1. CASE CompatibilityProblem(r) /\ c = ClearReadiness(machine)
        BY <1>2, <2>1, <3>1, NoDecisionMirrors
      <3>2. CASE ~CompatibilityProblem(r) /\ BehindMachine(machine, r) /\ c = machine
        BY <1>1, <1>2, <2>1, <3>2, StaleMirrors
      <3>3. CASE /\ ~CompatibilityProblem(r) /\ ~BehindMachine(machine, r)
                 /\ r.type = InvalidatedType /\ c = Invalidate(machine, r)
        BY <1>1, <1>2, <2>1, <3>3, InvalidateMirrors
      <3>4. CASE ~CompatibilityProblem(r) /\ ~BehindMachine(machine, r) /\ r.type = ReadyType
        <4>0. r \in ReadyRecord
          BY <1>1, <3>4, TypesDiffer DEF LiveRecord, StartRecord, InvalidatedRecord
        <4>1. CASE AheadOfMachine(machine, r) /\ c = AcceptReady(machine, r)
          BY <1>1, <1>2, <1>5, <2>1, <3>4, <4>0, <4>1, AcceptReadyMirrors
        <4>2. CASE /\ ~AheadOfMachine(machine, r) /\ machine.raw = None
                   /\ c = ClearReadiness(machine)
          <5>1. /\ c.battle = machine.battle /\ c.gen = machine.gen
                /\ c.raw = None /\ c.decision = None
            BY <1>2, <4>2 DEF ClearReadiness, MachineState
          <5> HIDE DEF c
          <5> QED BY <1>1, <1>2, <2>1, <3>4, <4>2, <5>1, RefusedMirrors
        <4>3. CASE /\ ~AheadOfMachine(machine, r) /\ machine.raw # None
                   /\ ~Repeats(machine, r) /\ c = Poison(machine)
          <5>1. /\ c.battle = machine.battle /\ c.gen = machine.gen
                /\ c.raw = None /\ c.decision = None
            BY <1>2, <4>3 DEF Poison, MachineState
          <5>2. r.battle = machine.battle /\ r.gen = machine.gen
            BY <1>2, <3>4, <4>0, <4>3
               DEF ReadyRecord, MachineState, AheadOfMachine, BehindMachine, KeyLess
          <5>3. /\ machine.raw \in RawIds /\ machine.raw.stream = machine.stream
                /\ machine.raw.battle = r.battle /\ machine.raw.gen = r.gen
            BY <1>2, <4>3, <5>2 DEF IInv, WellFormed, MachineState
          <5>4. machine.raw.fp # r.fp \/ machine.digest # PayloadDigest(r.payload)
            BY <4>3, <5>3 DEF Repeats, RawCaptureId, RawIds
          <5> HIDE DEF c
          <5> QED BY <1>1, <1>2, <2>1, <3>4, <4>3, <5>1, <5>4, RefusedMirrors
        <4>4. CASE /\ ~AheadOfMachine(machine, r) /\ machine.raw # None
                   /\ Repeats(machine, r) /\ c = Duplicate(machine, r)
          BY <1>1, <1>2, <1>5, <2>1, <3>4, <4>0, <4>4, DuplicateMirrors
        <4> QED BY <1>1, <1>5, <3>4, <4>1, <4>2, <4>3, <4>4, TypesDiffer, OpenOutcomes
      <3> QED BY <1>1, <1>5, <3>1, <3>2, <3>3, <3>4, OpenOutcomes
    <2> QED BY <2>2, <2>4, <2>5
  <1> QED BY <1>4, <1>5

\* An empty machine mirrors an empty history, and one that does not open.
LEMMA EmptyMirrors ==
  ASSUME NEW h \in Seq(Frames), StartsOnlyFirst(h), ~Opened(h)
  PROVE  Mirrors(EmptyState, h)
  BY DEF Mirrors, EmptyState

LEMMA StartMirrors ==
  ASSUME NEW r \in Inbox, r.type = "STREAM_START", NEW id \in Nat
  PROVE  Mirrors(Accept(machine, r, id), <<r>>)
  <1>1. r # Malformed /\ IsStart(r) /\ <<r>> \in Seq(Frames) /\ StartsOnlyFirst(<<r>>)
    BY InboxAssumption, MalformedAssumption DEF IsStart, Frames, StartsOnlyFirst
  <1>2. CASE CompatibilityProblem(r)
    <2>1. Accept(machine, r, id) = EmptyState
      BY <1>2 DEF Accept, Status
    <2> QED BY <1>1, <1>2, <2>1, EmptyMirrors DEF Opened
  <1>3. CASE ~CompatibilityProblem(r)
    <2>1. Status(machine, r) = "STREAM_STARTED"
      BY <1>3 DEF Status
    <2>2. Accept(machine, r, id) = [EmptyState EXCEPT !.stream = id]
      BY <2>1, <1>3 DEF Accept
    <2> DEFINE c == Accept(machine, r, id)
    <2>3. /\ c.stream = id /\ c.stream # None /\ c.battle = -1
          /\ c.raw = None /\ c.decision = None
      BY <2>2, NoneAssumption DEF EmptyState
    <2> HIDE DEF c
    <2>4. Opened(<<r>>)
      BY <1>1, <1>3 DEF Opened
    <2>5. Speaks(<<r>>) = {}
      BY DEF Speaks
    <2>6. Newest(c, <<r>>) = {}
      BY <2>5 DEF Newest
    <2>7. MirrorsStream(c, <<r>>)
      BY <2>3, <2>5, <2>6
         DEF MirrorsStream, StandsAtNewest, KnowsIdentity, AdvisesWhatStands
    <2> QED BY <1>1, <2>3, <2>4, <2>7 DEF Mirrors, c
  <1> QED BY <1>2, <1>3

LEMMA MalformedMirrors ==
  ASSUME IInv, NEW h, NEW g, g = Append(h, Malformed), Mirrors(machine, h)
  PROVE  Mirrors(ClearReadiness(machine), g)
  <1> DEFINE c == ClearReadiness(machine)
  <1>1. machine \in MachineState /\ h \in Seq(Frames) /\ StartsOnlyFirst(h)
    BY DEF IInv, TypeOK, Mirrors
  <1>2. c.stream = machine.stream
    BY <1>1 DEF ClearReadiness, MachineState
  <1>3. Malformed \in Frames /\ ~IsStart(Malformed)
    BY DEF Frames, IsStart
  <1>4. g \in Seq(Frames) /\ StartsOnlyFirst(g)
    BY <1>1, <1>3 DEF StartsOnlyFirst
  <1>5. Opened(g) <=> Opened(h)
    <2>1. CASE h = <<>>
      BY <1>3, <2>1 DEF Opened
    <2>2. CASE h # <<>>
      <3>1. g # <<>> /\ g[1] = h[1]
        BY <1>1, <2>2
      <3> QED BY <2>2, <3>1 DEF Opened
    <2> QED BY <2>1, <2>2
  <1>6. ASSUME machine.stream # None PROVE MirrorsStream(c, g)
    <2>1. Grown(h, Malformed, g) /\ MirrorsStream(machine, h)
      BY <1>1, <1>3, <1>6 DEF Grown, Mirrors, Opened
    <2> QED BY <1>1, <2>1, NoDecisionMirrors
  <1> HIDE DEF c
  <1>7. Mirrors(c, g)
    BY <1>2, <1>4, <1>5, <1>6 DEF Mirrors
  <1> QED BY <1>7 DEF c

LEMMA InitHInv == HInit => HInv
  <1> SUFFICES ASSUME HInit PROVE HInv
    OBVIOUS
  <1>1. IInv
    BY InitIInv DEF HInit
  <1>2. history \in Seq(Frames) /\ StartsOnlyFirst(history) /\ ~Opened(history)
    BY DEF HInit, StartsOnlyFirst, Opened
  <1>3. machine = EmptyState
    BY DEF HInit, Init
  <1> QED BY <1>1, <1>2, <1>3, EmptyMirrors DEF HInv

LEMMA NextHInv == HInv /\ [HNext]_<<vars, history>> => HInv'
  <1> SUFFICES ASSUME HInv, [HNext]_<<vars, history>> PROVE HInv'
    OBVIOUS
  <1>1. [Next]_vars
    BY DEF HNext, Next
  <1>2. IInv /\ IInv'
    BY <1>1, NextIInv DEF HInv
  <1> SUFFICES ASSUME history' # Untold PROVE Mirrors(machine, history)'
    BY <1>2 DEF HInv
  <1>3. ASSUME NEW r \in Inbox, ReceiveStart(r), history' = <<r>>
        PROVE  Mirrors(machine, history)'
    <2>1. minted + 1 \in Nat /\ machine' = Accept(machine, r, minted + 1)
      BY <1>2, <1>3 DEF IInv, TypeOK, ReceiveStart
    <2>2. Mirrors(machine', <<r>>)
      BY <1>3, <2>1, StartMirrors DEF ReceiveStart
    <2> QED BY <1>3, <2>2 DEF Mirrors, Opened, MirrorsStream, StandsAtNewest,
            KnowsIdentity, AdvisesWhatStands, Newest, Standing, Readies, Established, First
  <1>4. ASSUME NEW r \in Inbox, ReceiveReady(r) \/ ReceiveInvalidated(r), Note(r)
        PROVE  Mirrors(machine, history)'
    <2>1. history # Untold /\ history' = Append(history, r)
      BY <1>4 DEF Note
    <2>2. r.type # "STREAM_START" /\ machine' = Accept(machine, r, minted + 1)
      BY <1>4, TypesDiffer DEF ReceiveReady, ReceiveInvalidated
    <2>3. Mirrors(machine, history)
      BY <2>1 DEF HInv
    <2>4. Mirrors(machine', history')
      BY <1>2, <2>1, <2>2, <2>3, DecisionMirrors
    <2> QED BY <2>4
  <1>5. CASE ReceiveMalformed /\ Note(Malformed)
    <2>1. history # Untold /\ history' = Append(history, Malformed)
      BY <1>5 DEF Note
    <2>2. Mirrors(machine', history')
      BY <1>2, <1>5, <2>1, MalformedMirrors DEF HInv, ReceiveMalformed
    <2> QED BY <2>2
  <1>6. CASE Discontinuity /\ history' = <<>>
    <2>1. <<>> \in Seq(Frames) /\ StartsOnlyFirst(<<>>) /\ ~Opened(<<>>)
      BY DEF StartsOnlyFirst, Opened
    <2>2. Mirrors(machine', history')
      BY <1>6, <2>1, EmptyMirrors DEF Discontinuity
    <2> QED BY <2>2
  <1>7. CASE machine' = machine /\ history' = history
    <2>1. Mirrors(machine', history')
      BY <1>7 DEF HInv
    <2> QED BY <2>1
  <1>8. CASE Restart /\ UNCHANGED history
    BY <1>2, <1>7, <1>8, RoundTrip DEF Restart, RestartIsTransparent
  <1> QED BY <1>3, <1>4, <1>5, <1>6, <1>7, <1>8 DEF HNext, vars
-----------------------------------------------------------------------------
(* The mirror and the reference definition *)

\* The positions the reference definition looks at are those of the mirror.
LEMMA ReferencePositions ==
  ASSUME NEW h \in Seq(Frames), StartsOnlyFirst(h)
  PROVE  /\ StreamOpen(h) <=> Opened(h)
         /\ Opened(h) => Body(h) = 2..Len(h) /\ Decisive(h) = Speaks(h)
  <1>1. CASE Starts(h) = {}
    BY <1>1 DEF Starts, StreamOpen, Opened
  <1>2. CASE Starts(h) # {}
    <2>1. Starts(h) = {1} /\ h # <<>> /\ IsStart(h[1])
      BY <1>2 DEF Starts, StartsOnlyFirst
    <2>2. Latest(Starts(h)) = 1
      BY <2>1 DEF Latest
    <2>3. Body(h) = 2..Len(h)
      BY <2>2 DEF Body
    <2> QED BY <2>1, <2>2, <2>3 DEF StreamOpen, Opened, Decisive, Speaks
  <1> QED BY <1>1, <1>2

LEMMA ReferenceNewest ==
  ASSUME NEW m \in MachineState, NEW h \in Seq(Frames), StartsOnlyFirst(h), Opened(h),
         StandsAtNewest(m, h)
  PROVE  OfNewest(h) = Newest(m, h)
  <1>1. Decisive(h) = Speaks(h)
    BY ReferencePositions
  <1>2. \A i \in Speaks(h) : h[i].battle \in Nat /\ h[i].gen \in Nat
    BY SpeaksTyped
  <1>3. m.battle \in Int /\ m.gen \in Int
    BY DEF MachineState
  <1>4. ASSUME NEW i \in Newest(m, h) PROVE i \in OfNewest(h)
    BY <1>1, <1>4 DEF Newest, OfNewest, StandsAtNewest
  <1>5. ASSUME NEW i \in OfNewest(h) PROVE i \in Newest(m, h)
    <2>1. i \in Speaks(h)
      BY <1>1 DEF OfNewest
    <2>2. PICK k \in Newest(m, h) : TRUE
      BY <2>1 DEF StandsAtNewest
    <2>3. k \in Speaks(h) /\ h[k].battle = m.battle /\ h[k].gen = m.gen
      BY DEF Newest
    <2>4. ~KeyLess(h[i].battle, h[i].gen, m.battle, m.gen)
      BY <1>1, <2>3 DEF OfNewest
    <2>5. ~KeyLess(m.battle, m.gen, h[i].battle, h[i].gen)
      BY <2>1 DEF StandsAtNewest
    <2>6. h[i].battle = m.battle /\ h[i].gen = m.gen
      BY <1>2, <1>3, <2>1, <2>4, <2>5 DEF KeyLess
    <2> QED BY <2>1, <2>6 DEF Newest
  <1> QED BY <1>4, <1>5

\* What the reference definition says of a stream the machine mirrors.
LEMMA ReferenceValue ==
  ASSUME NEW m \in MachineState, NEW h \in Seq(Frames), StartsOnlyFirst(h), Opened(h),
         MirrorsStream(m, h)
  PROVE  /\ m.decision = None => ReferenceAdvice(h) = None
         /\ m.decision # None =>
               \E f \in Newest(m, h) :
                  /\ Established(m, h, f)
                  /\ ReferenceAdvice(h) = [battle |-> h[f].battle, gen |-> h[f].gen,
                                          fp |-> h[f].fp, payload |-> h[f].payload]
  <1>1. /\ StreamOpen(h) /\ Body(h) = 2..Len(h) /\ Decisive(h) = Speaks(h)
        /\ OfNewest(h) = Newest(m, h)
    BY ReferencePositions, ReferenceNewest DEF MirrorsStream
  <1>2. CASE Newest(m, h) = {}
    <2>1. m.decision = None
      BY <1>2 DEF MirrorsStream, KnowsIdentity, AdvisesWhatStands
    <2>2. Decisive(h) = {}
      BY <1>1, <1>2 DEF MirrorsStream, StandsAtNewest
    <2> QED BY <2>1, <2>2 DEF ReferenceAdvice
  <1>3. CASE Newest(m, h) # {}
    <2>1. Newest(m, h) \in SUBSET Nat /\ Decisive(h) # {}
      BY <1>1, <1>3 DEF Newest, Speaks
    <2>2. PICK f \in Newest(m, h) : First(m, h, f)
      BY <1>3, <2>1, LeastNatural DEF First
    <2>3. Earliest(Newest(m, h)) = f
      BY <2>1, <2>2 DEF Earliest, First
    <2>4. \A e \in Newest(m, h) : First(m, h, e) => e = f
      BY <2>1, <2>2 DEF First
    <2>5. { i \in Newest(m, h) : h[i].type = ReadyType } = Readies(m, h)
      BY DEF Readies
    <2> DEFINE after == { i \in 2..Len(h) : \A j \in Readies(m, h) : i > j }
    <2>6. Standing(m, h) <=> \A i \in after : Decision(h, i) /\ i \notin Newest(m, h)
      BY DEF Standing
    <2>7. Established(m, h, f) <=>
            h[f].type = ReadyType /\ \A i \in Readies(m, h) : SameContent(h[i], h[f])
      BY <2>2 DEF Established
    <2>8. ReferenceAdvice(h) =
            IF Established(m, h, f) /\ Standing(m, h)
            THEN [battle |-> h[f].battle, gen |-> h[f].gen,
                  fp |-> h[f].fp, payload |-> h[f].payload]
            ELSE None
      <3> DEFINE newest == OfNewest(h)
                 first == Earliest(newest)
                 ready == { i \in newest : h[i].type = ReadyType }
                 later == { i \in Body(h) : \A j \in ready : i > j }
      <3>1. newest = Newest(m, h) /\ first = f /\ ready = Readies(m, h)
        BY <1>1, <2>3, <2>5
      <3>2. later = after
        BY <1>1, <3>1
      <3>3. ReferenceAdvice(h) =
              IF /\ h[first].type = ReadyType
                 /\ \A i \in ready : SameContent(h[i], h[first])
                 /\ \A i \in later : Decision(h, i) /\ i \notin newest
              THEN [battle |-> h[first].battle, gen |-> h[first].gen,
                    fp |-> h[first].fp, payload |-> h[first].payload]
              ELSE None
        BY <1>1, <2>1, Zenon DEF ReferenceAdvice
      <3> HIDE DEF newest, first, ready, later, after
      <3> QED BY <2>6, <2>7, <3>1, <3>2, <3>3, Zenon
    <2>9. m.decision # None <=> Established(m, h, f) /\ Standing(m, h)
      <3>1. m.raw # None <=> Established(m, h, f)
        BY <2>4 DEF MirrorsStream, KnowsIdentity, Established
      <3> QED BY <3>1 DEF MirrorsStream, AdvisesWhatStands
    <2> QED BY <2>8, <2>9
  <1> QED BY <1>2, <1>3

LEMMA MirrorMatches == HInv => AdviceMatchesHistory
  <1> SUFFICES ASSUME HInv, history # Untold
               PROVE  Advised = ReferenceAdvice(history)
    BY DEF AdviceMatchesHistory
  <1>1. /\ machine \in MachineState /\ history \in Seq(Frames)
        /\ StartsOnlyFirst(history) /\ Mirrors(machine, history)
    BY DEF HInv, IInv, TypeOK, Mirrors
  <1>2. CASE machine.stream = None
    <2>1. machine.decision = None
      BY <1>2 DEF HInv, IInv, WellFormed, EmptyState
    <2>2. ~StreamOpen(history)
      BY <1>1, <1>2, ReferencePositions DEF Mirrors
    <2> QED BY <2>1, <2>2 DEF Advised, ReferenceAdvice
  <1>3. CASE machine.stream # None /\ machine.decision = None
    BY <1>1, <1>3, ReferenceValue DEF Mirrors, Advised
  <1>4. CASE machine.stream # None /\ machine.decision # None
    <2>1. PICK f \in Newest(machine, history) :
             /\ Established(machine, history, f)
             /\ ReferenceAdvice(history) =
                   [battle |-> history[f].battle, gen |-> history[f].gen,
                    fp |-> history[f].fp, payload |-> history[f].payload]
      BY <1>1, <1>4, ReferenceValue DEF Mirrors
    <2>2. /\ machine.raw.fp = history[f].fp
          /\ machine.digest = PayloadDigest(history[f].payload)
          /\ history[f].battle = machine.battle /\ history[f].gen = machine.gen
      BY <1>1, <1>4, <2>1 DEF Mirrors, MirrorsStream, KnowsIdentity, Newest
    <2> DEFINE r == machine.decision.record
    <2>3. /\ machine.raw = RawCaptureId(machine.stream, r)
          /\ machine.digest = PayloadDigest(r.payload)
          /\ machine.raw.battle = machine.battle /\ machine.raw.gen = machine.gen
      BY <1>4 DEF HInv, IInv, WellFormed, AcceptedDecision
    <2>4. r.battle = machine.battle /\ r.gen = machine.gen /\ r.fp = machine.raw.fp
      BY <2>3 DEF RawCaptureId
    <2>5. PayloadDigest(r.payload).sha256 = PayloadDigest(history[f].payload).sha256
      BY <2>2, <2>3
    <2>6. r.payload = history[f].payload
      BY <2>5 DEF PayloadDigest
    <2>7. Advised = [battle |-> r.battle, gen |-> r.gen, fp |-> r.fp, payload |-> r.payload]
      BY <1>4 DEF Advised
    <2> HIDE DEF r
    <2> QED BY <2>1, <2>2, <2>4, <2>6, <2>7
  <1> QED BY <1>2, <1>3, <1>4

\* Whatever frames arrive, and across restarts, what the receiver advises from
\* seven fields is what the rules give for the whole history of the stream.
THEOREM HistoryMatched == HSpec => []AdviceMatchesHistory
  <1>1. HSpec => []HInv
    BY InitHInv, NextHInv, PTL DEF HSpec
  <1> QED BY <1>1, MirrorMatches, PTL
=============================================================================
