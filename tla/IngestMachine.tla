---------------------------- MODULE IngestMachine ----------------------------
(***************************************************************************)
(* The ordering, duplicate and invalidation policy of the host receiver    *)
(* (LiveIngestMachine in src/src/bb_agent/live_ingest.py) as operators on  *)
(* the machine's state: what one accepted record does to it, what is       *)
(* written to disk, and what a restart accepts from disk.  The module has  *)
(* no variables; LiveIngest, LogTailer and LivePipeline run it.            *)
(*                                                                         *)
(* SHA-256 is idealised as an injective constructor: a digest is a record  *)
(* of what was hashed.                                                     *)
(***************************************************************************)
EXTENDS Integers

CONSTANTS Fingerprints,   \* values of raw_source_fingerprint
          Payloads,       \* canonical payloads of a READY record
          AllowDebug,     \* LiveCompatibility.allow_debug
          None            \* Python's None

Profiles == {"player_legal", "omniscient_debug"}
ReadyType == "DECISION_READY"
InvalidatedType == "DECISION_INVALIDATED"

StartRecord == [type: {"STREAM_START"}, compatible: BOOLEAN]

ReadyRecord == [type: {ReadyType}, compatible: BOOLEAN,
                battle: Nat, gen: Nat,
                fp: Fingerprints, profile: Profiles, payload: Payloads]

InvalidatedRecord == [type: {InvalidatedType}, compatible: BOOLEAN,
                      battle: Nat, gen: Nat]

LiveRecord == StartRecord \cup ReadyRecord \cup InvalidatedRecord

PayloadDigest(payload) == [sha256 |-> payload]

RawCaptureId(stream, record) ==
    [stream |-> stream, battle |-> record.battle, gen |-> record.gen,
     fp |-> record.fp]

AcceptedDecision(stream, record) ==
    [stream |-> stream,
     raw    |-> RawCaptureId(stream, record),
     digest |-> PayloadDigest(record.payload),
     record |-> record]

-----------------------------------------------------------------------------
(* The state of the machine *)

RawIds == [stream: Nat, battle: Nat, gen: Nat, fp: Fingerprints]
Digests == [sha256: Payloads]
Decisions == [stream: Nat, raw: RawIds, digest: Digests, record: ReadyRecord]

MachineState ==
    [stream:   Nat \cup {None},
     battle:   Nat \cup {-1},
     gen:      Nat \cup {-1},
     raw:      RawIds \cup {None},
     digest:   Digests \cup {None},
     last:     {ReadyType, InvalidatedType, None},
     decision: Decisions \cup {None}]

ASSUME NoneAssumption == /\ None \notin Nat /\ None \notin STRING
                         /\ None \notin RawIds /\ None \notin Digests
                         /\ None \notin Decisions /\ None \notin ReadyRecord
ASSUME DebugAssumption == AllowDebug \in BOOLEAN

EmptyState ==
    [stream |-> None, battle |-> -1, gen |-> -1, raw |-> None,
     digest |-> None, last |-> None, decision |-> None]

\* invalidate_current_readiness: advice goes, stream and generation stay.
ClearReadiness(m) == [m EXCEPT !.decision = None]

-----------------------------------------------------------------------------
(* accept *)

\* The game, ruleset, mod and kernel identities a record claims are one
\* Boolean; the debug profile is refused unless the receiver allows it.
CompatibilityProblem(r) ==
    \/ ~r.compatible
    \/ r.type = ReadyType /\ r.profile = "omniscient_debug" /\ ~AllowDebug

\* Record d is an acceptable READY that says what READY r says.
Repeated(d, r) ==
    /\ d.type = ReadyType /\ ~CompatibilityProblem(d)
    /\ d.battle = r.battle /\ d.gen = r.gen /\ d.fp = r.fp /\ d.payload = r.payload

KeyLess(b1, g1, b2, g2) == b1 < b2 \/ (b1 = b2 /\ g1 < g2)

\* Mutant of BehindMachine: battles restart their generations, forgotten.
BehindByGeneration(m, r) == r.gen < m.gen

BehindMachine(m, r) == KeyLess(r.battle, r.gen, m.battle, m.gen)
AheadOfMachine(m, r) == KeyLess(m.battle, m.gen, r.battle, r.gen)

\* READY of the generation the machine already stands at.
Repeats(m, r) ==
    /\ m.raw = RawCaptureId(m.stream, r)
    /\ m.digest = PayloadDigest(r.payload)

Status(m, r) ==
    CASE CompatibilityProblem(r)                  -> "REJECTED_INCOMPATIBLE"
      [] ~CompatibilityProblem(r) /\ r.type = "STREAM_START"
                                                  -> "STREAM_STARTED"
      [] OTHER ->
           IF m.stream = None \/ BehindMachine(m, r) THEN "REJECTED_STALE"
           ELSE IF r.type = InvalidatedType       THEN "INVALIDATED"
           ELSE IF AheadOfMachine(m, r)           THEN "READY"
           ELSE IF m.raw = None                   THEN "REJECTED_UNESTABLISHED"
           ELSE IF ~Repeats(m, r)                 THEN "REJECTED_CONFLICT"
           ELSE "DUPLICATE"

\* Mutant of Invalidate: the advice stays.
InvalidateKeepsAdvice(m, r) ==
    [m EXCEPT !.raw = None, !.digest = None, !.battle = r.battle, !.gen = r.gen,
              !.last = InvalidatedType]

Invalidate(m, r) ==
    LET newer == AheadOfMachine(m, r) IN
    [m EXCEPT !.raw    = IF newer THEN None ELSE @,
              !.digest = IF newer THEN None ELSE @,
              !.battle = r.battle, !.gen = r.gen,
              !.last = InvalidatedType, !.decision = None]

\* A generation that contradicted itself keeps its key and loses its identity.
Poison(m) == [m EXCEPT !.raw = None, !.digest = None, !.decision = None]

\* Mutants of Duplicate: a re-emission is dropped; the last type is not set.
DuplicateDropped(m, r) == m

DuplicateKeepsLast(m, r) ==
    [m EXCEPT !.decision = IF @ = None THEN AcceptedDecision(m.stream, r) ELSE @]

Duplicate(m, r) ==
    [m EXCEPT !.decision = IF @ = None THEN AcceptedDecision(m.stream, r) ELSE @,
              !.last = ReadyType]

\* Mutant of AcceptReady: the payload is kept where its digest belongs.
AcceptReadyUnhashed(m, r) ==
    [m EXCEPT !.battle = r.battle, !.gen = r.gen,
              !.raw = RawCaptureId(m.stream, r),
              !.digest = r.payload,
              !.last = ReadyType,
              !.decision = AcceptedDecision(m.stream, r)]

AcceptReady(m, r) ==
    [m EXCEPT !.battle = r.battle, !.gen = r.gen,
              !.raw = RawCaptureId(m.stream, r),
              !.digest = PayloadDigest(r.payload),
              !.last = ReadyType,
              !.decision = AcceptedDecision(m.stream, r)]

\* The state after accept(r); newId is the id the stream_id_factory returns.
Accept(m, r, newId) ==
    CASE Status(m, r) = "REJECTED_INCOMPATIBLE" ->
           IF r.type = "STREAM_START" THEN EmptyState ELSE ClearReadiness(m)
      [] Status(m, r) = "STREAM_STARTED" -> [EmptyState EXCEPT !.stream = newId]
      [] Status(m, r) = "REJECTED_STALE" -> m
      [] Status(m, r) = "INVALIDATED" -> Invalidate(m, r)
      [] Status(m, r) = "READY" -> AcceptReady(m, r)
      [] Status(m, r) = "REJECTED_UNESTABLISHED" -> ClearReadiness(m)
      [] Status(m, r) = "REJECTED_CONFLICT" -> Poison(m)
      [] Status(m, r) = "DUPLICATE" -> Duplicate(m, r)

-----------------------------------------------------------------------------
(* to_persisted_dict and from_persisted_dict *)

ToPersisted(m) ==
    [stream |-> m.stream, battle |-> m.battle, gen |-> m.gen,
     raw |-> m.raw, digest |-> m.digest, last |-> m.last,
     ready |-> IF m.decision = None THEN None ELSE m.decision.record]

\* Every check from_persisted_dict makes before it rebuilds the machine.
Restorable(p) ==
    /\ p.stream = None => /\ p.raw = None /\ p.digest = None /\ p.last = None
                          /\ p.battle = -1 /\ p.gen = -1
    /\ (p.raw = None) <=> (p.digest = None)
    /\ p.ready # None =>
          /\ ~CompatibilityProblem(p.ready)
          /\ p.stream # None /\ p.raw # None
          /\ p.ready.battle = p.battle /\ p.ready.gen = p.gen
          /\ p.raw = RawCaptureId(p.stream, p.ready)
          /\ p.digest = PayloadDigest(p.ready.payload)
          /\ p.last = ReadyType

FromPersisted(p) ==
    [stream |-> p.stream, battle |-> p.battle, gen |-> p.gen,
     raw |-> p.raw, digest |-> p.digest, last |-> p.last,
     decision |-> IF p.ready = None THEN None
                  ELSE AcceptedDecision(p.stream, p.ready)]
=============================================================================
