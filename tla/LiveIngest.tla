----------------------------- MODULE LiveIngest -----------------------------
(***************************************************************************)
(* The receiver as a state machine: any record of Inbox may arrive at any  *)
(* time, in any order and any number of times; frames may be malformed,    *)
(* the log may be replaced, and the process may be restarted from the      *)
(* state it persisted.  LogTailer adds the file and the cursor; here the   *)
(* question is only whether the advice the machine exposes can be trusted  *)
(* whatever the producer says.                                             *)
(***************************************************************************)
EXTENDS IngestMachine

CONSTANTS Inbox,       \* the records a producer may send
          MaxStreams   \* bound on the stream ids minted

ASSUME InboxAssumption == Inbox \subseteq LiveRecord
ASSUME BoundAssumption == MaxStreams \in Nat

VARIABLES machine,   \* LiveIngestMachine._state
          minted,    \* stream ids returned by the factory so far
          offered,   \* history: every compatible READY sent to an open stream
          heard,     \* history: the keys of every compatible decision record
          voided     \* history: keys invalidated before any READY named them

vars == <<machine, minted, offered, heard, voided>>

Key(r) == [stream |-> machine.stream, battle |-> r.battle, gen |-> r.gen]

Offer(r) == [key |-> Key(r), fp |-> r.fp, payload |-> r.payload]

Keys == [stream: Nat, battle: Nat, gen: Nat]
Offers == [key: Keys, fp: Fingerprints, payload: Payloads]

Listened(r) == machine.stream # None /\ ~CompatibilityProblem(r)

Init == /\ machine = EmptyState
        /\ minted = 0
        /\ offered = {} /\ heard = {} /\ voided = {}

-----------------------------------------------------------------------------

\* accept(STREAM_START), compatible or not.
ReceiveStart(r) ==
    /\ r.type = "STREAM_START"
    /\ minted < MaxStreams
    /\ machine' = Accept(machine, r, minted + 1)
    /\ minted' = IF CompatibilityProblem(r) THEN minted ELSE minted + 1
    /\ UNCHANGED <<offered, heard, voided>>

ReceiveReady(r) ==
    /\ r.type = ReadyType
    /\ machine' = Accept(machine, r, minted + 1)
    /\ offered' = IF Listened(r) THEN offered \cup {Offer(r)} ELSE offered
    /\ heard' = IF Listened(r) THEN heard \cup {Key(r)} ELSE heard
    /\ UNCHANGED <<minted, voided>>

ReceiveInvalidated(r) ==
    /\ r.type = InvalidatedType
    /\ machine' = Accept(machine, r, minted + 1)
    /\ heard' = IF Listened(r) THEN heard \cup {Key(r)} ELSE heard
    /\ voided' = IF Listened(r) /\ \A o \in offered : o.key # Key(r)
                 THEN voided \cup {Key(r)} ELSE voided
    /\ UNCHANGED <<minted, offered>>

\* A frame that does not decode (_read_complete_divs, except ValueError).
ReceiveMalformed ==
    /\ machine' = ClearReadiness(machine)
    /\ UNCHANGED <<minted, offered, heard, voided>>

\* The tailer lost the log it was reading.
Discontinuity ==
    /\ machine' = EmptyState
    /\ UNCHANGED <<minted, offered, heard, voided>>

\* The process restarts on its own persisted state; from_persisted_dict
\* raises, and the receiver cannot start, when the state is not Restorable.
Restart ==
    /\ Restorable(ToPersisted(machine))
    /\ machine' = FromPersisted(ToPersisted(machine))
    /\ UNCHANGED <<minted, offered, heard, voided>>

Next == \/ \E r \in Inbox : \/ ReceiveStart(r)
                            \/ ReceiveReady(r)
                            \/ ReceiveInvalidated(r)
        \/ ReceiveMalformed
        \/ Discontinuity
        \/ Restart

Spec == Init /\ [][Next]_vars

-----------------------------------------------------------------------------
(* Properties *)

\* Every variable has its type.
TypeOK == /\ machine \in MachineState
          /\ minted \in Nat
          /\ offered \subseteq Offers
          /\ heard \subseteq Keys
          /\ voided \subseteq Keys

Advice == machine.decision

AdviceKey == [stream |-> Advice.stream, battle |-> Advice.record.battle,
              gen |-> Advice.record.gen]

\* While advice is exposed, everything the producer ever said about its
\* generation agrees with it: a generation that was once offered with another
\* fingerprint or payload never becomes advice again ("poisons that
\* generation", docs/LIVE_INGEST.md), also after invalidations and restarts.
UnequivocalAdvice ==
    Advice # None =>
        \A o \in offered : o.key = AdviceKey =>
            o.fp = Advice.raw.fp /\ o.payload = Advice.record.payload

\* A generation whose first record was an INVALIDATED is never advised.
NoAdviceFromVoided == Advice # None => AdviceKey \notin voided

\* Advice is never older than a decision record the open stream has carried,
\* and always belongs to the open stream.
AdviceIsNewest ==
    Advice # None =>
        /\ Advice.stream = machine.stream
        /\ \A k \in heard : k.stream = Advice.stream =>
               ~KeyLess(AdviceKey.battle, AdviceKey.gen, k.battle, k.gen)

\* The three together: advice is the one unequivocal word on the newest
\* generation the open stream has named, and that word was a READY.
SoundAdvice == UnequivocalAdvice /\ NoAdviceFromVoided /\ AdviceIsNewest

\* Whatever the receiver has seen, what it would write to disk is accepted
\* by its own strict loader and restores exactly the same machine: a restart
\* neither refuses to start nor changes what is advised.
RestartIsTransparent ==
    /\ Restorable(ToPersisted(machine))
    /\ FromPersisted(ToPersisted(machine)) = machine

\* Within a stream the machine's generation never goes back: a late, repeated
\* or contradictory record, a malformed frame and a restart leave it where the
\* newest record put it, so an older generation can never be advised anew.
NeverBackward ==
    [][ machine'.stream = machine.stream =>
          ~KeyLess(machine'.battle, machine'.gen, machine.battle, machine.gen) ]_vars
=============================================================================
