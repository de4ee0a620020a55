------------------------- MODULE IngestMachineProofs -------------------------
(***************************************************************************)
(* What every module that runs the receiver's machine needs to know of its *)
(* operators: that accept keeps the type of the state and the agreement of *)
(* its fields, what each record makes of the advice, and that a saved      *)
(* state is restored as it was.  The facts about natural numbers at the    *)
(* end stand for the induction the histories and logs need.                *)
(***************************************************************************)
EXTENDS IngestMachine, FiniteSetTheorems, TLAPS

\* The fields of a machine agree with one another.
Coherent(m) ==
    /\ m.stream = None => m = EmptyState
    /\ (m.raw = None) <=> (m.digest = None)
    /\ m.raw # None =>
          /\ m.stream # None
          /\ m.raw.stream = m.stream
          /\ m.raw.battle = m.battle
          /\ m.raw.gen = m.gen
    /\ m.decision # None =>
          /\ m.raw # None
          /\ m.last = ReadyType
          /\ ~CompatibilityProblem(m.decision.record)
          /\ m.decision = AcceptedDecision(m.stream, m.decision.record)
          /\ m.raw = m.decision.raw
          /\ m.digest = m.decision.digest

Machines == { m \in MachineState : Coherent(m) }

LEMMA RecordTypes == /\ ReadyType # InvalidatedType
                     /\ ReadyType # "STREAM_START"
                     /\ InvalidatedType # "STREAM_START"
  BY DEF ReadyType, InvalidatedType

LEMMA DecisionRecord ==
  ASSUME NEW r \in LiveRecord, r.type # "STREAM_START"
  PROVE  /\ r.battle \in Nat /\ r.gen \in Nat
         /\ r.type \in {ReadyType, InvalidatedType}
         /\ r.type = ReadyType => r \in ReadyRecord
  BY RecordTypes DEF LiveRecord, StartRecord, ReadyRecord, InvalidatedRecord

LEMMA EmptyMachine == EmptyState \in Machines
  BY NoneAssumption DEF Machines, MachineState, EmptyState, Coherent

\* Advice names the generation the machine stands at, and repeats its content.
LEMMA AdviceAtMachine ==
  ASSUME NEW m \in Machines, m.decision # None
  PROVE  /\ m.decision.record \in ReadyRecord
         /\ m.decision.record # None
         /\ m.stream # None
         /\ m.raw = RawCaptureId(m.stream, m.decision.record)
         /\ m.digest = PayloadDigest(m.decision.record.payload)
         /\ m.decision.record.battle = m.battle
         /\ m.decision.record.gen = m.gen
         /\ Repeated(m.decision.record, m.decision.record)
  <1>1. m.decision \in Decisions /\ m.decision.record \in ReadyRecord
    BY DEF Machines, MachineState, Decisions
  <1>2. /\ m.raw = RawCaptureId(m.stream, m.decision.record)
        /\ m.digest = PayloadDigest(m.decision.record.payload)
    BY DEF Machines, Coherent, AcceptedDecision
  <1>3. m.decision.record.battle = m.battle /\ m.decision.record.gen = m.gen
    BY <1>2 DEF Machines, Coherent, RawCaptureId
  <1>4. Repeated(m.decision.record, m.decision.record)
    BY <1>1 DEF Repeated, ReadyRecord, Machines, Coherent
  <1> QED BY <1>1, <1>2, <1>3, <1>4, NoneAssumption DEF Machines, Coherent

LEMMA ClearedMachine ==
  ASSUME NEW m \in Machines
  PROVE  ClearReadiness(m) \in Machines /\ ClearReadiness(m).decision = None
  <1>1. ClearReadiness(m) = [m EXCEPT !.decision = None]
    BY DEF ClearReadiness
  <1>2. m = EmptyState => ClearReadiness(m) = EmptyState
    BY <1>1 DEF EmptyState
  <1> DEFINE c == ClearReadiness(m)
  <1>3. /\ c \in MachineState
        /\ c.stream = m.stream /\ c.battle = m.battle /\ c.gen = m.gen
        /\ c.raw = m.raw /\ c.digest = m.digest /\ c.decision = None
    BY <1>1 DEF Machines, MachineState
  <1> HIDE DEF c
  <1>4. Coherent(c)
    BY <1>2, <1>3 DEF Machines, Coherent, c
  <1> QED BY <1>3, <1>4 DEF Machines, c

\* A record that can change more than the advice.
Listens(m, r) == ~CompatibilityProblem(r) /\ m.stream # None /\ ~BehindMachine(m, r)

\* The six things a decision record can do to a machine.
LEMMA Outcomes ==
  ASSUME NEW m \in Machines, NEW r \in LiveRecord, r.type # "STREAM_START", NEW id
  PROVE  \/ CompatibilityProblem(r) /\ Accept(m, r, id) = ClearReadiness(m)
         \/ ~CompatibilityProblem(r) /\ ~Listens(m, r) /\ Accept(m, r, id) = m
         \/ /\ Listens(m, r) /\ r.type = InvalidatedType
            /\ Accept(m, r, id) = Invalidate(m, r)
         \/ /\ Listens(m, r) /\ r.type = ReadyType /\ AheadOfMachine(m, r)
            /\ Accept(m, r, id) = AcceptReady(m, r)
         \/ /\ Listens(m, r) /\ r.type = ReadyType /\ ~AheadOfMachine(m, r)
            /\ ~(m.raw # None /\ Repeats(m, r))
            /\ Accept(m, r, id) \in {ClearReadiness(m), Poison(m)}
         \/ /\ Listens(m, r) /\ r.type = ReadyType /\ ~AheadOfMachine(m, r)
            /\ m.raw # None /\ Repeats(m, r)
            /\ Accept(m, r, id) = Duplicate(m, r)
  <1>1. r.type \in {ReadyType, InvalidatedType}
    BY DecisionRecord
  <1>2. CASE CompatibilityProblem(r)
    <2>1. Status(m, r) = "REJECTED_INCOMPATIBLE"
      BY <1>2 DEF Status
    <2> QED BY <2>1, <1>2 DEF Accept
  <1>3. CASE ~CompatibilityProblem(r) /\ (m.stream = None \/ BehindMachine(m, r))
    <2>1. Status(m, r) = "REJECTED_STALE"
      BY <1>3, <1>1, RecordTypes DEF Status
    <2> QED BY <2>1, <1>3 DEF Accept, Listens
  <1>4. CASE Listens(m, r) /\ r.type = InvalidatedType
    <2>1. Status(m, r) = "INVALIDATED"
      BY <1>4, RecordTypes DEF Status, Listens
    <2> QED BY <2>1, <1>4 DEF Accept
  <1>5. CASE Listens(m, r) /\ r.type = ReadyType /\ AheadOfMachine(m, r)
    <2>1. Status(m, r) = "READY"
      BY <1>5, RecordTypes DEF Status, Listens
    <2> QED BY <2>1, <1>5 DEF Accept
  <1>6. CASE /\ Listens(m, r) /\ r.type = ReadyType /\ ~AheadOfMachine(m, r)
             /\ m.raw = None
    <2>1. Status(m, r) = "REJECTED_UNESTABLISHED"
      BY <1>6, RecordTypes DEF Status, Listens
    <2> QED BY <2>1, <1>6 DEF Accept
  <1>7. CASE /\ Listens(m, r) /\ r.type = ReadyType /\ ~AheadOfMachine(m, r)
             /\ m.raw # None /\ ~Repeats(m, r)
    <2>1. Status(m, r) = "REJECTED_CONFLICT"
      BY <1>7, RecordTypes DEF Status, Listens
    <2> QED BY <2>1, <1>7 DEF Accept
  <1>8. CASE /\ Listens(m, r) /\ r.type = ReadyType /\ ~AheadOfMachine(m, r)
             /\ m.raw # None /\ Repeats(m, r)
    <2>1. Status(m, r) = "DUPLICATE"
      BY <1>8, RecordTypes DEF Status, Listens
    <2> QED BY <2>1, <1>8 DEF Accept
  <1> QED BY <1>1, <1>2, <1>3, <1>4, <1>5, <1>6, <1>7, <1>8 DEF Listens

LEMMA StartedMachine ==
  ASSUME NEW m, NEW r, r.type = "STREAM_START", NEW id \in Nat
  PROVE  /\ Accept(m, r, id) \in Machines
         /\ Accept(m, r, id) = IF CompatibilityProblem(r) THEN EmptyState
                               ELSE [EmptyState EXCEPT !.stream = id]
         /\ Accept(m, r, id).decision = None
  <1>1. CASE CompatibilityProblem(r)
    <2>1. Status(m, r) = "REJECTED_INCOMPATIBLE"
      BY <1>1 DEF Status
    <2> QED BY <2>1, <1>1, EmptyMachine DEF Accept, EmptyState
  <1>2. CASE ~CompatibilityProblem(r)
    <2>1. Status(m, r) = "STREAM_STARTED"
      BY <1>2 DEF Status
    <2>2. Accept(m, r, id) = [EmptyState EXCEPT !.stream = id]
      BY <2>1 DEF Accept
    <2>3. [EmptyState EXCEPT !.stream = id] \in Machines
      BY NoneAssumption DEF Machines, MachineState, EmptyState, Coherent
    <2> QED BY <2>2, <2>3, <1>2 DEF EmptyState
  <1> QED BY <1>1, <1>2

LEMMA InvalidatedMachine ==
  ASSUME NEW m \in Machines, NEW r \in LiveRecord, r.type = InvalidatedType, Listens(m, r)
  PROVE  /\ Invalidate(m, r) \in Machines
         /\ Invalidate(m, r).decision = None
         /\ Invalidate(m, r).stream = m.stream
         /\ Invalidate(m, r).battle = r.battle /\ Invalidate(m, r).gen = r.gen
         /\ Invalidate(m, r).raw = IF AheadOfMachine(m, r) THEN None ELSE m.raw
         /\ Invalidate(m, r).digest = IF AheadOfMachine(m, r) THEN None ELSE m.digest
  <1> DEFINE i == Invalidate(m, r)
  <1>1. r.battle \in Nat /\ r.gen \in Nat
    BY DecisionRecord, RecordTypes
  <1>2. ~AheadOfMachine(m, r) => r.battle = m.battle /\ r.gen = m.gen
    BY <1>1 DEF AheadOfMachine, BehindMachine, KeyLess, Listens, Machines, MachineState
  <1>3. /\ i \in MachineState /\ i.decision = None /\ i.stream = m.stream
        /\ i.battle = r.battle /\ i.gen = r.gen
        /\ i.raw = IF AheadOfMachine(m, r) THEN None ELSE m.raw
        /\ i.digest = IF AheadOfMachine(m, r) THEN None ELSE m.digest
    BY <1>1 DEF Invalidate, Machines, MachineState
  <1> HIDE DEF i
  <1>4. Coherent(i)
    BY <1>2, <1>3 DEF Machines, Coherent, Listens
  <1> QED BY <1>3, <1>4 DEF Machines, i

LEMMA PoisonedMachine ==
  ASSUME NEW m \in Machines, m.stream # None
  PROVE  /\ Poison(m) \in Machines /\ Poison(m).decision = None
         /\ Poison(m).raw = None /\ Poison(m).stream = m.stream
         /\ Poison(m).battle = m.battle /\ Poison(m).gen = m.gen
  <1> DEFINE p == Poison(m)
  <1>1. /\ p \in MachineState /\ p.decision = None /\ p.stream = m.stream
        /\ p.battle = m.battle /\ p.gen = m.gen /\ p.raw = None /\ p.digest = None
    BY DEF Poison, Machines, MachineState
  <1> HIDE DEF p
  <1>2. Coherent(p)
    BY <1>1 DEF Coherent
  <1> QED BY <1>1, <1>2 DEF Machines, p

LEMMA ReadyMachine ==
  ASSUME NEW m \in Machines, NEW r \in LiveRecord, r.type = ReadyType, Listens(m, r)
  PROVE  /\ AcceptReady(m, r) \in Machines
         /\ AcceptReady(m, r).stream = m.stream
         /\ AcceptReady(m, r).decision # None
         /\ AcceptReady(m, r).decision.record = r
  <1> DEFINE a == AcceptReady(m, r)
  <1>1. r \in ReadyRecord /\ r.battle \in Nat /\ r.gen \in Nat
    BY DecisionRecord, RecordTypes
  <1>2. m.stream \in Nat /\ m.stream # None
    BY DEF Listens, Machines, MachineState
  <1>3. /\ RawCaptureId(m.stream, r) \in RawIds
        /\ PayloadDigest(r.payload) \in Digests
    BY <1>1, <1>2 DEF RawCaptureId, RawIds, PayloadDigest, Digests, ReadyRecord
  <1>4. AcceptedDecision(m.stream, r) \in Decisions
    BY <1>1, <1>2, <1>3 DEF AcceptedDecision, Decisions
  <1>5. /\ a \in MachineState /\ a.stream = m.stream
        /\ a.battle = r.battle /\ a.gen = r.gen /\ a.last = ReadyType
        /\ a.raw = RawCaptureId(m.stream, r) /\ a.digest = PayloadDigest(r.payload)
        /\ a.decision = AcceptedDecision(m.stream, r)
    BY <1>1, <1>3, <1>4 DEF AcceptReady, Machines, MachineState
  <1> HIDE DEF a
  <1>6. /\ a.raw # None /\ a.digest # None /\ a.decision # None /\ a.decision.record = r
        /\ a.raw = a.decision.raw /\ a.digest = a.decision.digest
    BY <1>3, <1>4, <1>5, NoneAssumption DEF AcceptedDecision
  <1>7. Coherent(a)
    BY <1>2, <1>5, <1>6 DEF Coherent, RawCaptureId, Listens
  <1> QED BY <1>5, <1>6, <1>7 DEF Machines, a

LEMMA DuplicateMachine ==
  ASSUME NEW m \in Machines, NEW r \in LiveRecord, r.type = ReadyType, Listens(m, r),
         m.raw # None, Repeats(m, r)
  PROVE  /\ Duplicate(m, r) \in Machines
         /\ Duplicate(m, r).stream = m.stream
         /\ Duplicate(m, r).raw = m.raw /\ Duplicate(m, r).digest = m.digest
         /\ Duplicate(m, r).battle = m.battle /\ Duplicate(m, r).gen = m.gen
         /\ Duplicate(m, r).decision # None
         /\ Repeated(r, Duplicate(m, r).decision.record)
  <1> DEFINE d == Duplicate(m, r)
  <1>1. r \in ReadyRecord /\ m.stream \in Nat /\ m.stream # None
    BY DecisionRecord, RecordTypes DEF Listens, Machines, MachineState
  <1>2. m.raw = RawCaptureId(m.stream, r) /\ m.digest = PayloadDigest(r.payload)
    BY DEF Repeats
  <1>3. AcceptedDecision(m.stream, r) \in Decisions
    BY <1>1 DEF RawCaptureId, RawIds, PayloadDigest, Digests, ReadyRecord,
               AcceptedDecision, Decisions
  <1>4. /\ d \in MachineState /\ d.stream = m.stream /\ d.raw = m.raw
        /\ d.digest = m.digest /\ d.battle = m.battle /\ d.gen = m.gen
        /\ d.last = ReadyType
        /\ d.decision = IF m.decision = None THEN AcceptedDecision(m.stream, r)
                        ELSE m.decision
    BY <1>3 DEF Duplicate, Machines, MachineState
  <1> HIDE DEF d
  <1>5. CASE m.decision = None
    <2>1. /\ d.decision # None /\ d.decision.record = r
          /\ d.decision.raw = m.raw /\ d.decision.digest = m.digest
          /\ d.decision = AcceptedDecision(m.stream, r)
      BY <1>2, <1>3, <1>4, <1>5, NoneAssumption DEF AcceptedDecision
    <2>2. Coherent(d)
      BY <1>1, <1>4, <2>1 DEF Coherent, Machines, Listens
    <2>3. Repeated(r, d.decision.record)
      BY <2>1 DEF Repeated, Listens
    <2> QED BY <1>4, <2>1, <2>2, <2>3 DEF Machines, d
  <1>6. CASE m.decision # None
    <2>1. Coherent(d)
      BY <1>1, <1>4, <1>6 DEF Coherent, Machines
    <2>2. /\ m.decision.record.battle = r.battle /\ m.decision.record.gen = r.gen
          /\ m.decision.record.fp = r.fp /\ m.decision.record.payload = r.payload
      <3>1. /\ m.raw = RawCaptureId(m.stream, m.decision.record)
            /\ m.digest = PayloadDigest(m.decision.record.payload)
        BY <1>6, AdviceAtMachine
      <3>2. /\ m.raw.battle = r.battle /\ m.raw.gen = r.gen /\ m.raw.fp = r.fp
            /\ m.digest.sha256 = r.payload
        BY <1>2 DEF RawCaptureId, PayloadDigest
      <3>3. /\ m.raw.battle = m.decision.record.battle
            /\ m.raw.gen = m.decision.record.gen
            /\ m.raw.fp = m.decision.record.fp
            /\ m.digest.sha256 = m.decision.record.payload
        BY <3>1 DEF RawCaptureId, PayloadDigest
      <3> QED BY <3>2, <3>3
    <2>3. Repeated(r, d.decision.record)
      BY <1>4, <1>6, <2>2 DEF Repeated, Listens
    <2> QED BY <1>4, <1>6, <2>1, <2>3 DEF Machines, d
  <1> QED BY <1>5, <1>6

\* accept keeps the machine in order, and after a decision record the advice,
\* if any, is what that record says, unless the record came too late.
LEMMA Accepted ==
  ASSUME NEW m \in Machines, NEW r \in LiveRecord, NEW id \in Nat
  PROVE  /\ Accept(m, r, id) \in Machines
         /\ Accept(m, r, id).decision # None =>
               \/ /\ Accept(m, r, id) = m /\ r.type # "STREAM_START"
                  /\ BehindMachine(m, r)
               \/ Repeated(r, Accept(m, r, id).decision.record)
  <1>1. CASE r.type = "STREAM_START"
    BY <1>1, StartedMachine
  <1>2. CASE r.type # "STREAM_START" /\ CompatibilityProblem(r)
    BY <1>2, Outcomes, ClearedMachine DEF Listens
  <1>3. CASE r.type # "STREAM_START" /\ ~CompatibilityProblem(r) /\ ~Listens(m, r)
    <2>1. Accept(m, r, id) = m
      BY <1>3, Outcomes
    <2> QED BY <1>3, <2>1, AdviceAtMachine DEF Listens
  <1>4. CASE Listens(m, r) /\ r.type = InvalidatedType
    <2>1. Accept(m, r, id) = Invalidate(m, r)
      BY <1>4, Outcomes, RecordTypes DEF Listens
    <2> QED BY <1>4, <2>1, InvalidatedMachine
  <1>5. CASE Listens(m, r) /\ r.type = ReadyType
    <2>1. m.stream # None /\ ~CompatibilityProblem(r)
      BY <1>5 DEF Listens
    <2>2. CASE Accept(m, r, id) = AcceptReady(m, r)
      BY <1>5, <2>1, <2>2, ReadyMachine DEF Repeated
    <2>3. CASE Accept(m, r, id) \in {ClearReadiness(m), Poison(m)}
      BY <2>1, <2>3, ClearedMachine, PoisonedMachine
    <2>4. CASE m.raw # None /\ Repeats(m, r) /\ Accept(m, r, id) = Duplicate(m, r)
      BY <1>5, <2>4, DuplicateMachine
    <2> QED BY <1>5, <2>1, <2>2, <2>3, <2>4, Outcomes, RecordTypes
  <1> QED BY <1>1, <1>2, <1>3, <1>4, <1>5, DecisionRecord

\* Saving and loading give the same machine.
LEMMA Restored ==
  ASSUME NEW m \in Machines
  PROVE  Restorable(ToPersisted(m)) /\ FromPersisted(ToPersisted(m)) = m
  <1>0. m \in MachineState
    BY DEF Machines
  <1>1. CASE m.decision = None
    <2>1. ToPersisted(m).ready = None
      BY <1>1 DEF ToPersisted
    <2>2. Restorable(ToPersisted(m))
      BY <1>1 DEF ToPersisted, Restorable, Machines, Coherent, EmptyState
    <2>3. FromPersisted(ToPersisted(m)) = m
      BY <1>0, <1>1, <2>1 DEF FromPersisted, ToPersisted, MachineState
    <2> QED BY <2>2, <2>3
  <1>2. CASE m.decision # None
    <2>1. ToPersisted(m).ready = m.decision.record /\ m.decision.record # None
      BY <1>2, AdviceAtMachine DEF ToPersisted
    <2>2. /\ m.raw # None /\ m.digest # None /\ m.last = ReadyType
          /\ m.decision = AcceptedDecision(m.stream, m.decision.record)
          /\ ~CompatibilityProblem(m.decision.record)
      BY <1>2 DEF Machines, Coherent
    <2>3. Restorable(ToPersisted(m))
      BY <1>2, <2>1, <2>2, AdviceAtMachine DEF Restorable, ToPersisted
    <2>4. FromPersisted(ToPersisted(m)) = m
      BY <1>0, <2>1, <2>2 DEF FromPersisted, ToPersisted, MachineState
    <2> QED BY <2>3, <2>4
  <1> QED BY <1>1, <1>2

-----------------------------------------------------------------------------
(* Natural numbers *)

\* A set of natural numbers has a least element, because 0..n shrinks with n.
LEMMA LeastNatural ==
  ASSUME NEW S \in SUBSET Nat, S # {}
  PROVE  \E x \in S : \A y \in S : x <= y
  <1> DEFINE Below == { 0..n : n \in S }
  <1>1. IsWellFoundedOn(StrictSubsetOrdering(Nat), FiniteSubsetsOf(Nat))
    BY FS_StrictSubsetOrderingWellFounded
  <1>2. Below \subseteq FiniteSubsetsOf(Nat)
    <2>1. ASSUME NEW n \in S PROVE 0..n \in FiniteSubsetsOf(Nat)
      <3>1. IsFiniteSet(0..n)
        BY FS_Interval
      <3>2. 0..n \in SUBSET Nat
        OBVIOUS
      <3> QED BY <3>1, <3>2 DEF FiniteSubsetsOf
    <2> QED BY <2>1
  <1>3. Below # {}
    OBVIOUS
  <1>4. \E b \in Below : \A c \in Below : ~ (<<c, b>> \in StrictSubsetOrdering(Nat))
    <2> HIDE DEF Below
    <2> QED BY <1>1, <1>2, <1>3, WFMin
  <1>5. PICK b \in Below : \A c \in Below : ~ (<<c, b>> \in StrictSubsetOrdering(Nat))
    BY <1>4
  <1>6. PICK x \in S : b = 0..x
    OBVIOUS
  <1>7. ASSUME NEW y \in S, y < x PROVE FALSE
    <2>1. 0..y \in Below /\ 0..y \subseteq 0..x /\ 0..y # 0..x
      <3>1. x \in Nat /\ y \in Nat /\ y < x
        BY <1>7
      <3>2. x \in 0..x /\ x \notin 0..y /\ \A i \in 0..y : i \in 0..x
        BY <3>1
      <3>3. 0..y # 0..x
        BY <3>2, Zenon
      <3>4. 0..y \in Below
        BY Zenon
      <3> QED BY <3>2, <3>3, <3>4, Zenon
    <2>2. 0..y \in SUBSET Nat /\ 0..x \in SUBSET Nat
      OBVIOUS
    <2>3. <<0..y, 0..x>> \in StrictSubsetOrdering(Nat)
      BY <2>1, <2>2, Zenon DEF StrictSubsetOrdering
    <2> QED BY <1>5, <1>6, <2>1, <2>3
  <1> QED BY <1>7

\* Induction, of a set rather than of a predicate.
LEMMA SetInduction ==
  ASSUME NEW S \in SUBSET Nat, 0 \in S, \A n \in S : n + 1 \in S
  PROVE  S = Nat
  <1> SUFFICES ASSUME Nat \ S # {} PROVE FALSE
    OBVIOUS
  <1>1. PICK x \in Nat \ S : \A y \in Nat \ S : x <= y
    BY LeastNatural
  <1>2. x # 0 /\ x - 1 \in Nat
    BY <1>1
  <1>3. x - 1 \in S
    BY <1>1, <1>2
  <1> QED BY <1>1, <1>3

\* A set of positions that is not empty has a greatest element.
LEMMA GreatestPosition ==
  ASSUME NEW n \in Nat, NEW S \in SUBSET (1..n), S # {}
  PROVE  \E x \in S : \A y \in S : x >= y
  <1> DEFINE B == { b \in Nat : \A y \in S : y <= b }
  <1>1. n \in B
    OBVIOUS
  <1>2. PICK b \in B : \A c \in B : b <= c
    BY <1>1, LeastNatural
  <1>3. b \in S
    <2>1. SUFFICES ASSUME b \notin S PROVE FALSE
      OBVIOUS
    <2>2. \A y \in S : y <= b - 1
      BY <2>1
    <2>3. b - 1 \in Nat
      <3>1. PICK y \in S : TRUE
        OBVIOUS
      <3> QED BY <2>2, <3>1, y \in 1..n
    <2> QED BY <1>2, <2>2, <2>3
  <1> QED BY <1>3
=============================================================================
