------------------------------ MODULE LogTailer ------------------------------
(***************************************************************************)
(* LiveLogTailer: the receiver's machine behind a file, a byte cursor and  *)
(* a state file.  poll opens the log several times (stat, anchor, read,    *)
(* new anchor); each opening is a step here, so the game may write, and    *)
(* the log may be replaced or removed, in between.  The process may crash  *)
(* at any step and the state file may fail to be written.                  *)
(*                                                                         *)
(* The log is a sequence of text divs.  Offsets count half divs: 2k is the *)
(* end of div k, 2k - 1 lies inside it.  The 256 anchor bytes before an    *)
(* offset lie within one frame, so the anchor is the content of the div    *)
(* there; other log lines carry the time and differ between sessions.      *)
(***************************************************************************)
EXTENDS IngestMachine, SequencesExt

CONSTANTS Divs,               \* what the game can write: frames and noise
          FileIds,            \* file identities (a log may be rewritten in place)
          MaxSessions,        \* bound on logs created
          MaxDivs,            \* bound on divs in a log
          MaxCrashes,         \* bound on receiver crashes
          ReplaceDuringPoll   \* may the log be replaced while poll runs

Noise == [type |-> "noise"]
Malformed == [type |-> "malformed"]

ASSUME DivsAssumption == Divs \subseteq LiveRecord \cup {Noise, Malformed}
ASSUME TailerBounds == /\ MaxSessions \in Nat /\ MaxDivs \in Nat /\ MaxCrashes \in Nat
                       /\ ReplaceDuringPoll \in BOOLEAN

VARIABLES file,      \* the log, or None
          sessions,  \* logs created so far
          pc,        \* where poll is
          stat,      \* poll's locals: the identity, and the offset to move to
          machine,   \* _machine
          cursor,    \* _cursor
          disk,      \* the state file
          crashes,
          quiet      \* history: the log was not replaced since poll began

vars == <<file, sessions, pc, stat, machine, cursor, disk, crashes, quiet>>
tailer == <<pc, stat, machine, cursor, disk, crashes>>

NoStat == [id |-> None, offset |-> 0]

Init == /\ file = None /\ sessions = 0
        /\ pc = "idle" /\ stat = NoStat
        /\ machine = EmptyState /\ cursor = None
        /\ disk = None /\ crashes = 0 /\ quiet = TRUE

-----------------------------------------------------------------------------
(* The game's side of the log *)

Size(f) == 2 * Len(f.divs) - IF f.partial THEN 1 ELSE 0

IsDecision(d) == d.type \in {ReadyType, InvalidatedType}

IsFrame(d) == d \notin {Noise, Malformed}

\* What the producer can write next: one STREAM_START before all decisions,
\* and never an older generation (Capture's KeysNeverGoBack).
Writable(f, d) ==
    LET frames == { i \in DOMAIN f.divs : IsFrame(f.divs[i]) } IN
    \/ ~IsFrame(d)
    \/ d.type = "STREAM_START" /\ frames = {}
    \/ /\ IsDecision(d) /\ frames # {}
       /\ \A i \in frames : IsDecision(f.divs[i]) =>
             ~KeyLess(d.battle, d.gen, f.divs[i].battle, f.divs[i].gen)

\* A line reaches the file whole, or its beginning does first.
Write(d) ==
    /\ file # None /\ ~file.partial /\ Len(file.divs) < MaxDivs
    /\ Writable(file, d)
    /\ \E p \in BOOLEAN :
          file' = [file EXCEPT !.divs = Append(@, d), !.partial = p]
    /\ UNCHANGED <<sessions, tailer, quiet>>

FinishLine ==
    /\ file # None /\ file.partial
    /\ file' = [file EXCEPT !.partial = FALSE]
    /\ UNCHANGED <<sessions, tailer, quiet>>

BetweenPolls == pc \in {"idle", "polled", "down"}

\* A game start truncates the log in place or puts a new file in its place.
NewLog(id) ==
    /\ ReplaceDuringPoll \/ BetweenPolls
    /\ sessions < MaxSessions
    /\ sessions' = sessions + 1
    /\ file' = [session |-> sessions + 1, id |-> id, divs |-> <<>>, partial |-> FALSE]
    /\ quiet' = BetweenPolls
    /\ UNCHANGED tailer

RemoveLog ==
    /\ ReplaceDuringPoll \/ BetweenPolls
    /\ file # None /\ file' = None
    /\ quiet' = BetweenPolls
    /\ UNCHANGED <<sessions, tailer>>

-----------------------------------------------------------------------------
(* Reading the log *)

\* The anchor bytes before offset o of log f.
Anchor(f, o) ==
    IF o = 0 THEN <<"empty">>
    ELSE IF o > Size(f) THEN <<"short">>
    ELSE LET d == f.divs[(o + 1) \div 2] IN
         <<d, o % 2, IF d = Noise THEN f.session ELSE 0>>

CursorAt(id, f, o) == [id |-> id, offset |-> o, anchor |-> Anchor(f, o)]

CompleteDivs(f) == Len(f.divs) - IF f.partial THEN 1 ELSE 0

\* accept, or the except clause; lines that are not frames are passed over.
Hear(m, d) ==
    IF d = Noise THEN m
    ELSE IF d = Malformed THEN ClearReadiness(m) ELSE Accept(m, d, 1)

\* _read_complete_divs: a div whose opening tag lies before the cursor is
\* passed over.
ReadFrom(m, f, o) ==
    FoldLeft(Hear, m, SubSeq(f.divs, ((o + 1) \div 2) + 1, CompleteDivs(f)))

\* Mutant of ConsumedFrom: a partial line counts as read.
ConsumedAll(f, o) == Size(f)

ConsumedFrom(f, o) == IF 2 * CompleteDivs(f) > o THEN 2 * CompleteDivs(f) ELSE o

\* _persist_state, which may raise; the caller's assignments stand either way.
Persist(m, c) ==
    /\ stat' = NoStat
    /\ \/ disk' = [machine |-> ToPersisted(m), cursor |-> c] /\ pc' = "polled"
       \/ UNCHANGED disk /\ pc' = "idle"

Raises == pc' = "idle" /\ stat' = NoStat /\ UNCHANGED <<machine, cursor, disk>>

-----------------------------------------------------------------------------
(* poll *)

Ready == pc \in {"idle", "polled"}

\* Mutant of PollMissing: a tailer that has no cursor yet saves none.
PollMissingSaves ==
    /\ Ready /\ file = None
    /\ machine' = EmptyState /\ Persist(EmptyState, cursor)
    /\ quiet' = TRUE
    /\ UNCHANGED <<file, sessions, cursor, crashes>>

PollMissing ==
    /\ Ready /\ file = None
    /\ IF cursor = None
       THEN pc' = "polled" /\ UNCHANGED <<stat, machine, disk>>
       ELSE machine' = EmptyState /\ Persist(EmptyState, cursor)
    /\ quiet' = TRUE
    /\ UNCHANGED <<file, sessions, cursor, crashes>>

Fits == cursor = None \/ (file.id = cursor.id /\ Size(file) >= cursor.offset)

PollStat ==
    /\ Ready /\ file # None
    /\ stat' = [id |-> file.id, offset |-> Size(file)]
    /\ cursor' = IF cursor = None THEN CursorAt(file.id, file, 0) ELSE cursor
    /\ IF Fits THEN pc' = "anchor" /\ UNCHANGED machine
               ELSE pc' = "move" /\ machine' = EmptyState
    /\ quiet' = TRUE
    /\ UNCHANGED <<file, sessions, disk, crashes>>

\* Mutant of PollAnchor: the anchor is not compared.
PollAnchorTrusts ==
    /\ pc = "anchor"
    /\ IF file = None THEN Raises
       ELSE pc' = "read" /\ UNCHANGED <<stat, machine, cursor, disk>>
    /\ UNCHANGED <<file, sessions, crashes, quiet>>

PollAnchor ==
    /\ pc = "anchor"
    /\ \/ file = None /\ Raises
       \/ /\ file # None /\ Anchor(file, cursor.offset) = cursor.anchor
          /\ pc' = "read" /\ UNCHANGED <<stat, machine, cursor, disk>>
       \/ /\ file # None /\ Anchor(file, cursor.offset) # cursor.anchor
          /\ pc' = "move" /\ machine' = EmptyState
          /\ UNCHANGED <<stat, cursor, disk>>
    /\ UNCHANGED <<file, sessions, crashes, quiet>>

PollRead ==
    /\ pc = "read"
    /\ \/ file = None /\ Raises
       \/ /\ file # None
          /\ machine' = ReadFrom(machine, file, cursor.offset)
          /\ IF ConsumedFrom(file, cursor.offset) = cursor.offset
             THEN pc' = "polled" /\ stat' = NoStat
             ELSE /\ pc' = "move"
                  /\ stat' = [stat EXCEPT !.offset = ConsumedFrom(file, cursor.offset)]
          /\ UNCHANGED <<cursor, disk>>
    /\ UNCHANGED <<file, sessions, crashes, quiet>>

\* _cursor_for_offset at the end of the log, or behind the divs just read.
PollMove ==
    /\ pc = "move"
    /\ \/ file = None /\ Raises
       \/ /\ file # None
          /\ cursor' = CursorAt(stat.id, file, stat.offset)
          /\ Persist(machine, cursor')
          /\ UNCHANGED machine
    /\ UNCHANGED <<file, sessions, crashes, quiet>>

Poll == PollMissing \/ PollStat \/ PollAnchor \/ PollRead \/ PollMove

Crash ==
    /\ pc # "down" /\ crashes < MaxCrashes
    /\ pc' = "down" /\ crashes' = crashes + 1
    /\ machine' = EmptyState /\ cursor' = None /\ stat' = NoStat
    /\ quiet' = TRUE
    /\ UNCHANGED <<file, sessions, disk>>

\* __init__ with or without a state file; a state that from_persisted_dict
\* refuses would leave the receiver down.
Restart ==
    /\ pc = "down"
    /\ IF disk = None THEN UNCHANGED <<machine, cursor>>
       ELSE /\ Restorable(disk.machine)
            /\ machine' = FromPersisted(disk.machine)
            /\ cursor' = disk.cursor
    /\ pc' = "idle"
    /\ UNCHANGED <<file, sessions, stat, disk, crashes, quiet>>

Game == \/ \E d \in Divs : Write(d)
        \/ FinishLine
        \/ \E id \in FileIds : NewLog(id)
        \/ RemoveLog

Next == Game \/ Poll \/ Crash \/ Restart

Spec == Init /\ [][Next]_vars

-----------------------------------------------------------------------------
(* Properties *)

Logs == [session: Nat, id: FileIds, divs: Seq(Divs), partial: BOOLEAN]
Anchors == {<<"empty">>, <<"short">>} \cup Divs \X {0, 1} \X Nat
Cursors == [id: FileIds, offset: Nat, anchor: Anchors]

ASSUME NoneIsNoPlace == None \notin Logs /\ None \notin Cursors

\* Every variable has its type.
TypeOK ==
    /\ file \in Logs \cup {None}
    /\ sessions \in 0..MaxSessions /\ crashes \in 0..MaxCrashes
    /\ pc \in {"idle", "polled", "anchor", "read", "move", "down"}
    /\ stat \in [id: FileIds \cup {None}, offset: Nat]
    /\ machine \in MachineState
    /\ cursor \in Cursors \cup {None}
    /\ disk # None => disk.cursor \in Cursors
    /\ quiet \in BOOLEAN

\* The log's first n divs hold this READY, and only repeat it after that.
StandsIn(f, n, r) ==
    \E i \in 1..n :
        /\ Repeated(f.divs[i], r)
        /\ \A j \in (i + 1)..n :
              IsDecision(f.divs[j]) => Repeated(f.divs[j], r)

AdviceStandsInTheLog ==
    machine.decision # None =>
        /\ file # None
        /\ StandsIn(file, cursor.offset \div 2, machine.decision.record)

\* When a poll during which the log was not replaced returns, what is advised
\* is the last word of the log that is there now: nothing survives a log that
\* was removed, replaced, rewritten in place, or read again after a crash or a
\* failed save ("prefers lost advice to advice attached to an ambiguous game session",
\* docs/LIVE_INGEST.md:96).
PolledAdviceStandsInTheLog ==
    [][pc' = "polled" /\ pc # "polled" /\ quiet' => AdviceStandsInTheLog']_vars

\* As long as the first log is never replaced, the machine is exactly what
\* reading that log from its beginning to the cursor gives: a crash between
\* accepting and saving, a save that fails, a partial last line and a restart
\* neither skip nor double a frame.
NothingSkippedOrDoubled ==
    pc = "polled" /\ file # None /\ file.session = 1 /\ cursor # None =>
        machine = FoldLeft(Hear, EmptyState, SubSeq(file.divs, 1, cursor.offset \div 2))
=============================================================================
