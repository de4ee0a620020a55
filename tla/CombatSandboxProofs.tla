------------------------- MODULE CombatSandboxProofs -------------------------
(***************************************************************************)
(* That the staged snapshot is sound for any number of records, sizes of   *)
(* shards, battles and generations, under every fault.  A step rewrites    *)
(* the sandbox state twice, begin and pump, so its invariant is stated of  *)
(* a sandbox state and each of the two is shown to keep it.                *)
(***************************************************************************)
EXTENDS CombatSandbox, FiniteSetTheorems, SequenceTheorems, TLAPS

RecordIds == {"oracle", "legal", "manifest", "manifest_expected"} \X Nat

Jobs == [kind: {"record"}, id: RecordIds]
        \cup [kind: {"discover"}, id: {"oracle"} \X Nat]
        \cup {Build}

Sandboxes == [key: Keys, signature: Sources, jobs: Seq(Jobs), cursor: Nat,
              expected: Seq(RecordIds), shards: Seq(RecordIds),
              finalizing: BOOLEAN, scheduled: BOOLEAN, complete: BOOLEAN]

LogRecords == [key: Keys, id: RecordIds, ok: BOOLEAN, list: Seq(RecordIds), count: Nat]

\* The jobs still to be processed
Pending(s) == { i \in DOMAIN s.jobs : i > s.cursor }
Waits(s, job) == \E i \in Pending(s) : s.jobs[i] = job

Expects(s, id) == \E i \in DOMAIN s.expected : s.expected[i] = id

\* Each phase of the queue starts with its own flag.
PhasesInOrder(s) ==
    /\ ~s.scheduled => ~s.complete /\ \A i \in DOMAIN s.jobs : s.jobs[i] # Build
    /\ ~s.complete => ~s.finalizing
    /\ ~s.finalizing =>
          \A i \in DOMAIN s.jobs :
             s.jobs[i].kind = "record" => s.jobs[i].id[1] \in {"oracle", "legal"}

\* Until it is scheduled the player-legal build waits for the discovery to end.
DiscoveryGoesOn(s) ==
    \E d \in 1..(Oracle + 1) :
       /\ \A i \in 0..(d - 1) : Expects(s, <<"oracle", i>>)
       /\ d <= Oracle => Waits(s, Discover(d))

\* What is expected by the time each phase ends
NothingForgotten(s) ==
    /\ IF s.scheduled THEN \A i \in 0..Oracle : Expects(s, <<"oracle", i>>)
                      ELSE DiscoveryGoesOn(s)
    /\ s.scheduled /\ ~s.complete => Waits(s, Build)
    /\ s.complete => Expects(s, <<"legal", 0>>)

ShardIds(s) == [i \in 1..ShardCount(s) |-> Shard(i - 1)]

\* A manifest that waits to be written lists what is expected now, and nothing
\* before it in the queue adds to that.
ManifestFits(s) ==
    \A r \in Pending(s) :
       s.jobs[r] = Record(Root) =>
          /\ s.complete /\ s.finalizing
          /\ s.shards = ShardIds(s)
          /\ \A i \in Pending(s) : i <= r => s.jobs[i].kind = "record"

Sound(s) ==
    /\ s \in Sandboxes
    /\ s.cursor <= Len(s.jobs)
    /\ PhasesInOrder(s)
    /\ NothingForgotten(s)
    /\ ManifestFits(s)

\* What the log says of the snapshot in hand: its first record, no manifest yet,
\* and shards that fit the manifest to come.
LogFits(s) ==
    /\ \E e \in emitted : e.key = s.key /\ e.id = <<"oracle", 0>>
    /\ ~duplicated =>
          \A e \in emitted : e.key = s.key =>
             /\ e.id = Root => ~e.ok
             /\ e.id[1] = "manifest_expected" =>
                   /\ s.finalizing
                   /\ Waits(s, Record(Root)) => e.list = ShardPart(s, e.id[2])

\* A written manifest goes back to a sandbox state in which nothing is forgotten.
Backed(e) ==
    \E s \in Sandboxes :
       /\ \A i \in 0..Oracle : Expects(s, <<"oracle", i>>)
       /\ Expects(s, <<"legal", 0>>)
       /\ e.list = ShardIds(s)
       /\ \A f \in emitted :
             f.key = e.key /\ f.id[1] = "manifest_expected" => f.list = ShardPart(s, f.id[2])

LogSound ==
    /\ emitted \in SUBSET LogRecords
    /\ \A e \in emitted : \E f \in emitted : f.key = e.key /\ f.id = <<"oracle", 0>>
    /\ ~duplicated =>
          /\ \A e, f \in emitted : e.key = f.key /\ e.id = f.id => e = f
          /\ \A e \in emitted : e.id = Root /\ e.ok => Backed(e)

\* Every generation counted so far is a staged one.
CaptureSound ==
    /\ source \in Sources /\ commandReady \in BOOLEAN
    /\ cap \in [battle: 1..MaxBattles, gen: -1..MaxStaged, isReady: BOOLEAN,
                signature: Sources \cup {None}]
    /\ cap.signature # None => cap.gen >= 0
    /\ staged \subseteq Keys
    /\ \A g \in 0..cap.gen : <<cap.battle, g>> \in staged
    /\ lastKey \in Keys \cup {None}
    /\ duplicated \in BOOLEAN /\ disturbed \in BOOLEAN
    /\ status.kind \in {"none", "staged", "progress", "cancelled", "complete"}

SInv ==
    /\ CaptureSound
    /\ LogSound
    /\ sb # None => Sound(sb) /\ LogFits(sb)

-----------------------------------------------------------------------------
(* begin *)

LEMMA FieldTypes ==
    ASSUME NEW s, Sound(s)
    PROVE  /\ s.key \in Keys /\ s.signature \in Sources
           /\ s.jobs \in Seq(Jobs) /\ s.cursor \in Nat /\ s.cursor <= Len(s.jobs)
           /\ s.expected \in Seq(RecordIds) /\ s.shards \in Seq(RecordIds)
           /\ s.finalizing \in BOOLEAN /\ s.scheduled \in BOOLEAN /\ s.complete \in BOOLEAN
           /\ Len(s.jobs) \in Nat /\ DOMAIN s.jobs = 1..Len(s.jobs)
           /\ Len(s.expected) \in Nat /\ DOMAIN s.expected = 1..Len(s.expected)
  BY DEF Sound, Sandboxes

LEMMA JobTypes ==
    /\ Build \in Jobs
    /\ \A id \in RecordIds : Record(id) \in Jobs
    /\ \A n \in Nat : Discover(n) \in Jobs
    /\ \A j \in Jobs : /\ j.kind \in {"record", "discover", "player_legal_build"}
                       /\ j.kind = "record" => j = Record(j.id) /\ j.id \in RecordIds
                       /\ j.kind = "discover" => j.id[2] \in Nat /\ j.id[1] = "oracle"
                       /\ j.kind = "player_legal_build" => j = Build
  BY DEF Jobs, Record, Discover, Build, RecordIds

LEMMA KindsDiffer ==
    ASSUME NEW id, NEW n
    PROVE  /\ Record(id) # Build /\ Discover(n) # Build /\ Record(id) # Discover(n)
           /\ Record(id).kind = "record" /\ Record(id).id = id
           /\ Discover(n).kind = "discover" /\ Discover(n).id = <<"oracle", n>>
           /\ Build.kind = "player_legal_build"
           /\ Root = <<"manifest", 0>>
  BY DEF Record, Discover, Build, Root

LEMMA StagedSound ==
    ASSUME NEW c, Key(c) \in Keys, c.signature \in Sources
    PROVE  Sound(Staged(c))
  <1> DEFINE s == Staged(c)
  <1>1. /\ s.key = Key(c) /\ s.signature = c.signature
        /\ s.jobs = <<Record(<<"oracle", 0>>), Discover(1)>> /\ s.cursor = 0
        /\ s.expected = << <<"oracle", 0>> >> /\ s.shards = <<>>
        /\ s.finalizing = FALSE /\ s.scheduled = FALSE /\ s.complete = FALSE
    BY DEF Staged
  <1>2. s \in Sandboxes
    <2>1. <<"oracle", 0>> \in RecordIds
      BY DEF RecordIds
    <2>2. /\ s.jobs \in Seq(Jobs) /\ s.expected \in Seq(RecordIds)
          /\ s.shards \in Seq(RecordIds)
      BY <1>1, <2>1, JobTypes
    <2>3. << <<"oracle", 0>> >> \in Seq(RecordIds) /\ <<>> \in Seq(RecordIds)
          /\ <<Record(<<"oracle", 0>>), Discover(1)>> \in Seq(Jobs)
      BY <1>1, <2>2
    <2> QED BY <2>3 DEF Staged, Sandboxes
  <1> HIDE DEF s
  <1>3. /\ DOMAIN s.jobs = {1, 2} /\ Len(s.jobs) = 2
        /\ s.jobs[1] = Record(<<"oracle", 0>>) /\ s.jobs[2] = Discover(1)
    BY <1>1
  <1>4. PhasesInOrder(s)
    BY <1>1, <1>3, KindsDiffer DEF PhasesInOrder
  <1>5. DiscoveryGoesOn(s)
    <2>1. Waits(s, Discover(1))
      BY <1>1, <1>3 DEF Waits, Pending
    <2>2. DOMAIN s.expected = {1} /\ s.expected[1] = <<"oracle", 0>>
      BY <1>1
    <2>3. \A i \in 0..0 : Expects(s, <<"oracle", i>>)
      BY <2>2 DEF Expects
    <2> QED BY <2>1, <2>3, SandboxSizes DEF DiscoveryGoesOn
  <1>6. NothingForgotten(s)
    BY <1>1, <1>5 DEF NothingForgotten
  <1>7. ManifestFits(s)
    BY <1>1, <1>3, KindsDiffer DEF ManifestFits, Pending
  <1> QED BY <1>1, <1>2, <1>3, <1>4, <1>6, <1>7 DEF Sound, s

\* c is a with b behind it.
Joins(a, b, c) ==
    /\ Len(c) = Len(a) + Len(b)
    /\ \A j \in 1..Len(a) : c[j] = a[j]
    /\ \A j \in 1..Len(b) : c[Len(a) + j] = b[j]
    /\ \A j \in 1..Len(c) :
          \/ j \in 1..Len(a)
          \/ j - Len(a) \in 1..Len(b) /\ j = Len(a) + (j - Len(a))

LEMMA Joined ==
    ASSUME NEW S, NEW a \in Seq(S), NEW b \in Seq(S)
    PROVE  a \o b \in Seq(S) /\ Joins(a, b, a \o b)
  <1>1. /\ a \o b \in Seq(S) /\ Len(a \o b) = Len(a) + Len(b)
        /\ Len(a) \in Nat /\ Len(b) \in Nat
    OBVIOUS
  <1>2. \A j \in 1..Len(a) : (a \o b)[j] = a[j]
    OBVIOUS
  <1>3. \A j \in 1..Len(b) : (a \o b)[Len(a) + j] = b[j]
    OBVIOUS
  <1>4. \A j \in 1..(Len(a) + Len(b)) :
           \/ j \in 1..Len(a)
           \/ j - Len(a) \in 1..Len(b) /\ j = Len(a) + (j - Len(a))
    BY <1>1
  <1> QED BY <1>1, <1>2, <1>3, <1>4 DEF Joins

\* c has no other places than those of a and those of b.
Covered(a, b, c) ==
    \A j \in DOMAIN c : j \in DOMAIN a \/ \E h \in DOMAIN b : j = Len(a) + h

LEMMA JoinedPlaces ==
    ASSUME NEW S, NEW a \in Seq(S), NEW b \in Seq(S), NEW c \in Seq(S), Joins(a, b, c)
    PROVE  /\ \A j \in DOMAIN a : j \in DOMAIN c /\ c[j] = a[j]
           /\ \A j \in DOMAIN b : Len(a) + j \in DOMAIN c /\ c[Len(a) + j] = b[j]
           /\ Covered(a, b, c)
  <1>1. /\ DOMAIN a = 1..Len(a) /\ DOMAIN b = 1..Len(b) /\ DOMAIN c = 1..Len(c)
        /\ Len(a) \in Nat /\ Len(b) \in Nat
    OBVIOUS
  <1>2. Len(c) = Len(a) + Len(b)
    BY DEF Joins
  <1>3. ASSUME NEW j \in DOMAIN b PROVE Len(a) + j \in DOMAIN c /\ c[Len(a) + j] = b[j]
    BY <1>1, <1>2 DEF Joins
  <1>4. ASSUME NEW j \in DOMAIN a PROVE j \in DOMAIN c /\ c[j] = a[j]
    BY <1>1, <1>2 DEF Joins
  <1>5. ASSUME NEW j \in DOMAIN c, j \notin DOMAIN a
        PROVE  \E h \in DOMAIN b : j = Len(a) + h
    <2>1. j - Len(a) \in 1..Len(b) /\ j = Len(a) + (j - Len(a))
      BY <1>1, <1>5 DEF Joins
    <2> QED BY <1>1, <2>1
  <1> QED BY <1>3, <1>4, <1>5 DEF Covered

\* Element i of a sequence moved behind the others, as e
Shifted(q, m, i, e) ==
    /\ Len(m) = Len(q)
    /\ \A j \in 1..Len(q) : j < i => m[j] = q[j]
    /\ \A j \in 1..Len(q) : i <= j /\ j < Len(q) => m[j] = q[j + 1]
    /\ m[Len(q)] = e

LEMMA MovedLast ==
    ASSUME NEW S, NEW q \in Seq(S), NEW i \in DOMAIN q, NEW e \in S
    PROVE  /\ Append(RemoveAt(q, i), e) \in Seq(S)
           /\ Shifted(q, Append(RemoveAt(q, i), e), i, e)
  <1> DEFINE a == SubSeq(q, 1, i - 1)
             b == SubSeq(q, i + 1, Len(q))
             m == Append(RemoveAt(q, i), e)
  <1>1. i \in 1..Len(q) /\ Len(q) \in Nat
    OBVIOUS
  <1>2. /\ a \in Seq(S) /\ Len(a) = i - 1 /\ \A j \in 1..(i - 1) : a[j] = q[j]
    BY <1>1
  <1>3. /\ b \in Seq(S) /\ Len(b) = Len(q) - i
        /\ \A j \in 1..(Len(q) - i) : b[j] = q[j + i]
    BY <1>1
  <1>4. m = Append(a \o b, e)
    BY DEF RemoveAt
  <1> HIDE DEF a, b, m
  <1>5. a \o b \in Seq(S) /\ Len(a \o b) = Len(q) - 1
    BY <1>1, <1>2, <1>3
  <1>6. \A j \in 1..(Len(q) - 1) : m[j] = (a \o b)[j]
    BY <1>1, <1>4, <1>5
  <1>7. \A j \in 1..Len(q) : j < i => m[j] = q[j]
    <2>1. \A j \in 1..(i - 1) : (a \o b)[j] = a[j] /\ j \in 1..(Len(q) - 1)
      BY <1>1, <1>2, <1>3
    <2>2. \A j \in 1..Len(q) : j < i => j \in 1..(i - 1)
      BY <1>1
    <2>3. ASSUME NEW j \in 1..(i - 1) PROVE m[j] = q[j]
      BY <1>2, <1>6, <2>1
    <2> QED BY <2>2, <2>3
  <1>8. \A j \in 1..Len(q) : i <= j /\ j < Len(q) => m[j] = q[j + 1]
    <2> SUFFICES ASSUME NEW j \in 1..Len(q), i <= j, j < Len(q) PROVE m[j] = q[j + 1]
      OBVIOUS
    <2>1. j \in 1..(Len(q) - 1) /\ j - (i - 1) \in 1..(Len(q) - i) /\ j > i - 1
      BY <1>1
    <2>2. (a \o b)[j] = b[j - (i - 1)]
      <3>1. (a \o b)[Len(a) + (j - (i - 1))] = b[j - (i - 1)]
        BY <1>2, <1>3, <2>1, Joined DEF Joins
      <3>2. Len(a) + (j - (i - 1)) = j
        BY <1>1, <1>2
      <3> QED BY <3>1, <3>2
    <2>3. b[j - (i - 1)] = q[j - (i - 1) + i]
      BY <1>3, <2>1
    <2>4. j - (i - 1) + i = j + 1
      BY <1>1
    <2> QED BY <1>6, <2>1, <2>2, <2>3, <2>4
  <1>9. m \in Seq(S) /\ Len(m) = Len(q) /\ m[Len(q)] = e
    BY <1>1, <1>4, <1>5
  <1> QED BY <1>7, <1>8, <1>9 DEF Shifted, m

\* Moving the build leaves everything else as it was, and at most skips a job.
LEMMA BuildLastMoves ==
    ASSUME NEW s, Sound(s), \E i \in DOMAIN s.jobs : s.jobs[i] = Build
    PROVE  /\ BuildLast(s) = [s EXCEPT !.jobs = BuildLast(s).jobs]
           /\ BuildLast(s).jobs \in Seq(Jobs)
           /\ \E i \in DOMAIN s.jobs :
                 s.jobs[i] = Build /\ Shifted(s.jobs, BuildLast(s).jobs, i, Build)
  <1> DEFINE i == CHOOSE j \in DOMAIN s.jobs : s.jobs[j] = Build
             m == Append(RemoveAt(s.jobs, i), Build)
  <1>1. i \in DOMAIN s.jobs /\ s.jobs[i] = Build
    OBVIOUS
  <1>2. Build \in Range(s.jobs)
    BY <1>1 DEF Range
  <1>3. BuildLast(s) = [s EXCEPT !.jobs = m]
    BY <1>2 DEF BuildLast
  <1> HIDE DEF i
  <1>4. m \in Seq(Jobs) /\ Shifted(s.jobs, m, i, Build)
    BY <1>1, FieldTypes, JobTypes, MovedLast
  <1> HIDE DEF m
  <1>5. BuildLast(s).jobs = m
    BY <1>3 DEF Sound, Sandboxes
  <1> QED BY <1>1, <1>3, <1>4, <1>5

\* What begin may do to the state of a snapshot under way.
Reordered(s, t) ==
    /\ t \in Sandboxes
    /\ t.key = s.key /\ t.signature = s.signature /\ t.cursor = s.cursor
    /\ t.expected = s.expected /\ t.shards = s.shards /\ t.finalizing = s.finalizing
    /\ t.scheduled = s.scheduled /\ t.complete = s.complete
    /\ Len(t.jobs) = Len(s.jobs)

LEMMA BuildLastSound ==
    ASSUME NEW s, Sound(s)
    PROVE  /\ Sound(BuildLast(s)) /\ Reordered(s, BuildLast(s))
           /\ Waits(BuildLast(s), Record(Root)) => Waits(s, Record(Root))
  <1>1. CASE \A i \in DOMAIN s.jobs : s.jobs[i] # Build
    <2>1. BuildLast(s) = s
      BY <1>1 DEF BuildLast, Range
    <2> QED BY <2>1 DEF Sound, Reordered
  <1>2. CASE \E i \in DOMAIN s.jobs : s.jobs[i] = Build
    <2> DEFINE t == BuildLast(s)
    <2>1. Reordered(s, t)
      <3>1. \A q \in Seq(Jobs) : Len(q) = Len(s.jobs) => Reordered(s, [s EXCEPT !.jobs = q])
        BY DEF Sound, Sandboxes, Reordered
      <3> QED BY <1>2, <3>1, BuildLastMoves DEF Shifted
    <2>2. PICK i \in DOMAIN s.jobs :
             /\ s.jobs[i] = Build
             /\ \A j \in 1..Len(s.jobs) :
                   /\ j < i => t.jobs[j] = s.jobs[j]
                   /\ i <= j /\ j < Len(s.jobs) => t.jobs[j] = s.jobs[j + 1]
             /\ t.jobs[Len(s.jobs)] = Build
      BY <1>2, BuildLastMoves, FieldTypes DEF Shifted
    <2>3. t.jobs \in Seq(Jobs)
      BY <2>1 DEF Reordered, Sandboxes
    <2> HIDE DEF t
    <2>4. /\ DOMAIN t.jobs = 1..Len(s.jobs) /\ DOMAIN s.jobs = 1..Len(s.jobs)
          /\ Len(s.jobs) \in Nat /\ s.cursor \in Nat /\ Len(t.jobs) = Len(s.jobs)
          /\ t.cursor = s.cursor
      BY <2>1, <2>3, FieldTypes DEF Reordered
    <2>5. /\ Pending(s) = (s.cursor + 1)..Len(s.jobs)
          /\ Pending(t) = (s.cursor + 1)..Len(s.jobs)
      BY <2>4 DEF Pending
    \* Each job was there before, no earlier than it is now.
    <2>6. \A j \in 1..Len(s.jobs) :
             \/ j = Len(s.jobs) /\ t.jobs[j] = Build
             \/ t.jobs[j] = s.jobs[j] /\ j < i
             \/ j + 1 \in 1..Len(s.jobs) /\ t.jobs[j] = s.jobs[j + 1]
      BY <2>2, <2>4
    <2>7. s.scheduled /\ t.scheduled
      BY <1>2, <2>1, FieldTypes DEF Sound, PhasesInOrder, Reordered
    <2>8. PhasesInOrder(t)
      <3>1. \A j \in 1..Len(s.jobs) :
               t.jobs[j].kind = "record" => \E h \in 1..Len(s.jobs) : t.jobs[j] = s.jobs[h]
        BY <2>6, KindsDiffer
      <3>2. ~s.finalizing => \A j \in 1..Len(s.jobs) :
               s.jobs[j].kind = "record" => s.jobs[j].id[1] \in {"oracle", "legal"}
        BY <2>4 DEF Sound, PhasesInOrder
      <3>3. ~t.finalizing => \A j \in 1..Len(s.jobs) :
               t.jobs[j].kind = "record" => t.jobs[j].id[1] \in {"oracle", "legal"}
        BY <2>1, <3>1, <3>2 DEF Reordered
      <3> QED BY <2>1, <2>4, <2>7, <3>3 DEF Sound, PhasesInOrder, Reordered
    <2>9. Waits(s, Build) => Waits(t, Build)
      <3>1. Pending(s) # {} => Len(s.jobs) \in Pending(t)
        BY <2>4, <2>5
      <3>2. Len(s.jobs) >= 1 => t.jobs[Len(s.jobs)] = Build
        BY <2>2, <2>4
      <3> QED BY <2>4, <2>5, <3>1, <3>2 DEF Waits
    <2>10. NothingForgotten(t)
      BY <2>1, <2>7, <2>9 DEF Sound, NothingForgotten, Expects, Reordered
    <2>11. ASSUME NEW r \in Pending(t), t.jobs[r] = Record(Root)
           PROVE  /\ Waits(s, Record(Root))
                  /\ s.complete /\ s.finalizing /\ s.shards = ShardIds(s)
                  /\ \A j \in Pending(t) : j <= r => t.jobs[j].kind = "record"
      <3>1. CASE r < i
        <4>1. r \in Pending(s) /\ s.jobs[r] = Record(Root)
          BY <2>2, <2>5, <2>11, <3>1, <2>4
        <4>2. \A j \in Pending(s) : j <= r => s.jobs[j].kind = "record" /\ t.jobs[j] = s.jobs[j]
          BY <2>2, <2>4, <2>5, <3>1, <4>1 DEF Sound, ManifestFits
        <4> QED BY <2>5, <4>1, <4>2 DEF Sound, ManifestFits, Waits
      <3>2. CASE ~(r < i)
        <4>1. r + 1 \in Pending(s) /\ s.jobs[r + 1] = Record(Root) /\ r \in Int /\ i \in Int
          <5>1. /\ r \in Int /\ i \in Int /\ i <= r /\ r \in 1..Len(s.jobs)
                /\ s.cursor + 1 <= r
            BY <2>4, <2>5, <3>2
          <5>2. r < Len(s.jobs)
            BY <2>2, <2>4, <2>11, <5>1, KindsDiffer
          <5>3. t.jobs[r] = s.jobs[r + 1]
            BY <2>2, <5>1, <5>2
          <5> QED BY <2>4, <2>5, <2>11, <5>1, <5>2, <5>3
        <4>2. /\ s.complete /\ s.finalizing /\ s.shards = ShardIds(s)
              /\ \A j \in Pending(s) : j <= r + 1 => s.jobs[j].kind = "record"
          BY <4>1 DEF Sound, ManifestFits
        <4>3. ASSUME NEW j \in Pending(t), j <= r PROVE t.jobs[j].kind = "record"
          <5>1. j \in Pending(s) /\ j + 1 \in Pending(s) /\ j < Len(s.jobs)
            BY <2>4, <2>5, <4>1, <4>3
          <5>2. t.jobs[j] = s.jobs[j] \/ t.jobs[j] = s.jobs[j + 1]
            BY <2>2, <2>4, <2>5, <5>1
          <5> QED BY <4>1, <4>2, <4>3, <5>1, <5>2, <2>5
        <4> QED BY <4>1, <4>2, <4>3 DEF Waits
      <3> QED BY <3>1, <3>2
    <2>12. ManifestFits(t)
      <3>1. ShardIds(t) = ShardIds(s)
        BY <2>1 DEF ShardIds, ShardCount, Reordered
      <3> QED BY <2>1, <2>11, <3>1 DEF ManifestFits, Reordered
    <2>13. Waits(t, Record(Root)) => Waits(s, Record(Root))
      BY <2>11 DEF Waits
    <2>14. Sound(t)
      BY <2>1, <2>4, <2>8, <2>10, <2>12, FieldTypes DEF Sound, Reordered
    <2> QED BY <2>1, <2>13, <2>14 DEF t
  <1> QED BY <1>1, <1>2

-----------------------------------------------------------------------------
(* pump: refilling a drained queue *)

LEMMA ShardCounts ==
    ASSUME NEW s, s.expected \in Seq(RecordIds)
    PROVE  /\ ShardCount(s) \in Nat
           /\ ShardIds(s) \in Seq(RecordIds) /\ Len(ShardIds(s)) = ShardCount(s)
  <1>1. Len(s.expected) \in Nat /\ ShardSize \in Nat /\ ShardSize > 0
    BY SandboxSizes
  <1>2. \A a, b \in Nat : b > 0 => (a + b - 1) \div b \in Nat
    OBVIOUS
  <1>3. ShardCount(s) \in Nat
    BY <1>1, <1>2 DEF ShardCount
  <1>4. \A i \in 1..ShardCount(s) : Shard(i - 1) \in RecordIds
    BY <1>3 DEF Shard, RecordIds
  <1> QED BY <1>3, <1>4 DEF ShardIds

\* What refilling leaves as it was
Refills(s, t) ==
    /\ t.key = s.key /\ t.signature = s.signature /\ t.cursor = s.cursor
    /\ t.expected = s.expected
    /\ s.finalizing => t = s
    /\ Waits(t, Record(Root)) => t = s \/ ~s.finalizing

\* The build is released once nothing is left to discover.
LEMMA BuildReleased ==
    ASSUME NEW s, Sound(s), Drained(s), ~s.scheduled,
           NEW t, t = [s EXCEPT !.scheduled = TRUE, !.jobs = Append(@, Build)]
    PROVE  Sound(t) /\ Refills(s, t)
  <1>1. /\ t \in Sandboxes
        /\ t.key = s.key /\ t.signature = s.signature /\ t.cursor = s.cursor
        /\ t.expected = s.expected /\ t.finalizing = s.finalizing
        /\ t.scheduled = TRUE /\ t.complete = s.complete
        /\ t.jobs = Append(s.jobs, Build)
    <2>1. Append(s.jobs, Build) \in Seq(Jobs)
      BY FieldTypes, JobTypes
    <2>2. t = [s EXCEPT !.scheduled = TRUE, !.jobs = Append(s.jobs, Build)]
      BY DEF Sound, Sandboxes
    <2> QED BY <2>1, <2>2 DEF Sound, Sandboxes
  <1>2. ~s.complete /\ ~s.finalizing
    BY DEF Sound, PhasesInOrder
  <1>3. /\ s.jobs \in Seq(Jobs) /\ Len(s.jobs) \in Nat /\ s.cursor = Len(s.jobs)
        /\ DOMAIN s.jobs = 1..Len(s.jobs)
    BY FieldTypes DEF Drained
  <1>4. /\ Len(t.jobs) = Len(s.jobs) + 1 /\ DOMAIN t.jobs = 1..(Len(s.jobs) + 1)
        /\ t.jobs[Len(s.jobs) + 1] = Build
        /\ \A i \in DOMAIN s.jobs : t.jobs[i] = s.jobs[i]
    BY <1>1, <1>3
  <1>5. Pending(s) = {} /\ Pending(t) = {Len(s.jobs) + 1}
    BY <1>1, <1>3, <1>4 DEF Pending
  <1>6. PhasesInOrder(t)
    <2>1. \A i \in DOMAIN t.jobs : i \in DOMAIN s.jobs \/ t.jobs[i] = Build
      BY <1>3, <1>4
    <2>2. \A i \in DOMAIN s.jobs :
             s.jobs[i].kind = "record" => s.jobs[i].id[1] \in {"oracle", "legal"}
      BY <1>2 DEF Sound, PhasesInOrder
    <2>3. \A i \in DOMAIN t.jobs :
             t.jobs[i].kind = "record" => t.jobs[i].id[1] \in {"oracle", "legal"}
      BY <1>4, <2>1, <2>2, KindsDiffer
    <2> QED BY <1>1, <1>2, <2>3 DEF PhasesInOrder
  <1>7. \A i \in 0..Oracle : Expects(t, <<"oracle", i>>)
    <2>1. DiscoveryGoesOn(s)
      BY DEF Sound, NothingForgotten
    <2>2. PICK d \in 1..(Oracle + 1) :
             /\ \A i \in 0..(d - 1) : Expects(s, <<"oracle", i>>)
             /\ d <= Oracle => Waits(s, Discover(d))
      BY <2>1 DEF DiscoveryGoesOn
    <2>3. d = Oracle + 1
      BY <1>5, <2>2, SandboxSizes DEF Waits
    <2>4. \A i \in 0..Oracle : Expects(s, <<"oracle", i>>)
      <3>1. \A i \in 0..Oracle : i \in 0..(d - 1)
        BY <2>3, SandboxSizes
      <3> QED BY <2>2, <3>1
    <2> QED BY <1>1, <2>4 DEF Expects
  <1>8. Waits(t, Build)
    BY <1>4, <1>5 DEF Waits
  <1>9. NothingForgotten(t)
    BY <1>1, <1>2, <1>7, <1>8 DEF NothingForgotten
  <1>10. ~Waits(t, Record(Root))
    BY <1>4, <1>5, KindsDiffer DEF Waits
  <1>11. ManifestFits(t)
    BY <1>10 DEF ManifestFits, Waits
  <1> QED BY <1>1, <1>2, <1>3, <1>4, <1>6, <1>9, <1>10, <1>11 DEF Sound, Refills

LEMMA Beyond ==
    ASSUME NEW a \in Nat, NEW b \in Nat, NEW i \in Nat, i > a, i <= a + b + 1, i # a + b + 1
    PROVE  \E j \in 1..b : i = a + j
  <1>1. i - a \in 1..b /\ i = a + (i - a)
    OBVIOUS
  <1> QED BY <1>1

WrittenManifest(s) ==
    [s EXCEPT !.finalizing = TRUE, !.shards = ShardIds(s),
              !.jobs = @ \o [i \in DOMAIN ShardIds(s) |-> Record(ShardIds(s)[i])]
                         \o <<Record(Root)>>]

\* Where the jobs of the manifest are.
LEMMA ManifestJobs ==
    ASSUME NEW s, Sound(s)
    PROVE  LET t == WrittenManifest(s) IN
           /\ t.jobs \in Seq(Jobs) /\ Len(t.jobs) = Len(s.jobs) + ShardCount(s) + 1
           /\ \A i \in 1..Len(s.jobs) : t.jobs[i] = s.jobs[i]
           /\ \A i \in 1..ShardCount(s) : t.jobs[Len(s.jobs) + i] = Record(Shard(i - 1))
           /\ t.jobs[Len(s.jobs) + ShardCount(s) + 1] = Record(Root)
  <1> DEFINE shards == ShardIds(s)
             part == [i \in DOMAIN shards |-> Record(shards[i])]
             front == s.jobs \o part
  <1>1. /\ s.jobs \in Seq(Jobs) /\ Len(s.jobs) \in Nat
        /\ shards \in Seq(RecordIds) /\ Len(shards) = ShardCount(s) /\ ShardCount(s) \in Nat
    BY FieldTypes, ShardCounts
  <1>2. part \in Seq(Jobs) /\ Len(part) = ShardCount(s)
        /\ \A i \in 1..ShardCount(s) : part[i] = Record(Shard(i - 1))
    <2>1. \A i \in 1..ShardCount(s) : shards[i] = Shard(i - 1) /\ shards[i] \in RecordIds
      BY <1>1 DEF ShardIds
    <2>2. DOMAIN shards = 1..ShardCount(s)
      BY <1>1
    <2> HIDE DEF shards
    <2>3. part = [i \in 1..ShardCount(s) |-> Record(shards[i])]
      BY <2>2
    <2>4. \A i \in 1..ShardCount(s) : Record(shards[i]) \in Jobs
      BY <2>1, JobTypes
    <2> HIDE DEF part
    <2>5. part \in [1..ShardCount(s) -> Jobs]
      BY <2>3, <2>4
    <2>6. part \in Seq(Jobs) /\ Len(part) = ShardCount(s)
      BY <1>1, <2>5
    <2>7. \A i \in 1..ShardCount(s) : part[i] = Record(Shard(i - 1))
      BY <2>1, <2>3
    <2> QED BY <2>6, <2>7
  <1>3. WrittenManifest(s).jobs = front \o <<Record(Root)>>
    BY DEF WrittenManifest, Sound, Sandboxes
  <1> HIDE DEF shards, part
  <1>4. /\ front \in Seq(Jobs) /\ Len(front) = Len(s.jobs) + ShardCount(s)
        /\ \A i \in 1..Len(s.jobs) : front[i] = s.jobs[i]
        /\ \A i \in 1..ShardCount(s) : front[Len(s.jobs) + i] = part[i]
    <2>1. front \in Seq(Jobs) /\ Joins(s.jobs, part, front)
      BY <1>1, <1>2, Joined
    <2> HIDE DEF front
    <2> QED BY <1>2, <2>1 DEF Joins
  <1> HIDE DEF front
  <1>5. Record(Root) \in Jobs
    BY JobTypes DEF Root, RecordIds
  <1>6. PICK t : t = front \o <<Record(Root)>>
    OBVIOUS
  <1>7. /\ t \in Seq(Jobs) /\ Len(t) = Len(front) + 1
        /\ t[Len(front) + 1] = Record(Root)
        /\ \A i \in 1..Len(front) : t[i] = front[i]
    BY <1>4, <1>5, <1>6
  <1>8. /\ \A i \in 1..Len(s.jobs) : i \in 1..Len(front)
        /\ \A i \in 1..ShardCount(s) : Len(s.jobs) + i \in 1..Len(front)
    BY <1>1, <1>4
  <1>9. /\ \A i \in 1..Len(s.jobs) : t[i] = s.jobs[i]
        /\ \A i \in 1..ShardCount(s) : t[Len(s.jobs) + i] = Record(Shard(i - 1))
    BY <1>2, <1>4, <1>7, <1>8
  <1> QED BY <1>3, <1>4, <1>6, <1>7, <1>9

LEMMA ManifestSound ==
    ASSUME NEW s, Sound(s), Drained(s), s.complete, ~s.finalizing
    PROVE  Sound(WrittenManifest(s)) /\ Refills(s, WrittenManifest(s))
  <1> DEFINE t == WrittenManifest(s)
  <1>1. t.jobs \in Seq(Jobs)
    BY ManifestJobs
  <1>2. /\ t \in Sandboxes
        /\ t.key = s.key /\ t.signature = s.signature /\ t.cursor = s.cursor
        /\ t.expected = s.expected /\ t.finalizing = TRUE
        /\ t.scheduled = s.scheduled /\ t.complete = s.complete
        /\ t.shards = ShardIds(s)
    <2>1. /\ s \in Sandboxes /\ ShardIds(s) \in Seq(RecordIds)
      BY FieldTypes, ShardCounts DEF Sound
    <2>2. t = [s EXCEPT !.finalizing = TRUE, !.shards = ShardIds(s), !.jobs = t.jobs]
      BY <2>1 DEF WrittenManifest, Sandboxes
    <2> HIDE DEF t
    <2>3. PICK q \in Seq(Jobs) : q = t.jobs
      BY <1>1
    <2>4. PICK h \in Seq(RecordIds) : h = ShardIds(s)
      BY <2>1
    <2>5. t = [s EXCEPT !.finalizing = TRUE, !.shards = h, !.jobs = q]
      BY <2>2, <2>3, <2>4
    <2>6. /\ t \in Sandboxes
          /\ t.key = s.key /\ t.signature = s.signature /\ t.cursor = s.cursor
          /\ t.expected = s.expected /\ t.finalizing = TRUE
          /\ t.scheduled = s.scheduled /\ t.complete = s.complete
          /\ t.shards = h
      BY <2>1, <2>5 DEF Sandboxes
    <2> QED BY <2>4, <2>6
  <1>3. /\ Len(t.jobs) = Len(s.jobs) + ShardCount(s) + 1
        /\ \A i \in 1..ShardCount(s) : t.jobs[Len(s.jobs) + i] = Record(Shard(i - 1))
        /\ t.jobs[Len(s.jobs) + ShardCount(s) + 1] = Record(Root)
    BY ManifestJobs
  <1> HIDE DEF t
  <1>4. /\ s.scheduled /\ s.cursor = Len(s.jobs) /\ Len(s.jobs) \in Nat /\ ShardCount(s) \in Nat
    BY FieldTypes, ShardCounts DEF Sound, PhasesInOrder, Drained
  <1>5. \A i \in Pending(t) : t.jobs[i].kind = "record"
    <2>1. \A i \in Pending(t) : i \in Nat /\ i > Len(s.jobs)
                                /\ i <= Len(s.jobs) + ShardCount(s) + 1
      BY <1>1, <1>2, <1>3, <1>4 DEF Pending
    <2>2. \A i \in Pending(t) : \/ i = Len(s.jobs) + ShardCount(s) + 1
                                \/ \E j \in 1..ShardCount(s) : i = Len(s.jobs) + j
      <3> SUFFICES ASSUME NEW i \in Pending(t), i # Len(s.jobs) + ShardCount(s) + 1
                   PROVE  \E j \in 1..ShardCount(s) : i = Len(s.jobs) + j
        OBVIOUS
      <3>1. i \in Nat /\ i > Len(s.jobs) /\ i <= Len(s.jobs) + ShardCount(s) + 1
        BY <2>1
      <3> QED BY <1>4, <3>1, Beyond
    <2>3. \A j \in 1..ShardCount(s) : t.jobs[Len(s.jobs) + j].kind = "record"
      <3>1. ASSUME NEW j \in 1..ShardCount(s) PROVE t.jobs[Len(s.jobs) + j].kind = "record"
        <4>1. t.jobs[Len(s.jobs) + j] = Record(Shard(j - 1))
          BY <1>3
        <4> QED BY <4>1, KindsDiffer
      <3> QED BY <3>1
    <2>4. t.jobs[Len(s.jobs) + ShardCount(s) + 1].kind = "record"
      BY <1>3, KindsDiffer
    <2> QED BY <2>2, <2>3, <2>4
  <1>6. PhasesInOrder(t)
    BY <1>2, <1>4 DEF PhasesInOrder
  <1>7. NothingForgotten(t)
    BY <1>2, <1>4 DEF Sound, NothingForgotten, Expects
  <1>8. ShardIds(t) = ShardIds(s)
    BY <1>2 DEF ShardIds, ShardCount
  <1>9. ManifestFits(t)
    BY <1>2, <1>5, <1>8 DEF ManifestFits
  <1> QED BY <1>2, <1>3, <1>4, <1>6, <1>7, <1>9 DEF Sound, Refills, t

LEMMA RefilledSound ==
    ASSUME NEW s, Sound(s)
    PROVE  Sound(Refilled(s)) /\ Refills(s, Refilled(s))
  <1>1. CASE Refilled(s) = s
    BY <1>1 DEF Refills
  <1>2. CASE Drained(s) /\ ~s.finalizing /\ ~s.complete /\ ~s.scheduled
    BY <1>2, BuildReleased DEF Refilled, WithManifest
  <1>3. CASE Drained(s) /\ ~s.finalizing /\ s.complete
    <2>1. Refilled(s) = WrittenManifest(s)
      BY <1>3 DEF Refilled, WithManifest, WrittenManifest, ShardIds
    <2> QED BY <1>3, <2>1, ManifestSound
  <1> QED BY <1>1, <1>2, <1>3 DEF Refilled, WithManifest

-----------------------------------------------------------------------------
(* pump: processing a job *)

Job(s) == s.jobs[s.cursor + 1]

\* The job at the cursor of s was processed; it added jobs and expected ids.
Progress(s, t, more, ids) ==
    /\ t \in Sandboxes
    /\ t.key = s.key /\ t.signature = s.signature /\ t.cursor = s.cursor + 1
    /\ t.shards = s.shards /\ t.finalizing = s.finalizing /\ t.scheduled = s.scheduled
    /\ more \in Seq(Jobs) /\ Joins(s.jobs, more, t.jobs)
    /\ ids \in Seq(RecordIds) /\ Joins(s.expected, ids, t.expected)

\* What a job may add, by its kind
Allowed(s, t, more, ids) ==
    /\ Job(s).kind = "record" =>
          t.jobs = s.jobs /\ t.expected = s.expected /\ t.complete = s.complete
    /\ \A j \in DOMAIN more :
          /\ more[j] # Build
          /\ more[j].kind = "record" => more[j].id[1] \in {"oracle", "legal"}
    /\ Job(s) # Build => t.complete = s.complete
    /\ Job(s) = Build => t.complete /\ \E j \in DOMAIN ids : ids[j] = <<"legal", 0>>
    /\ \A d \in 1..Oracle : Job(s) = Discover(d) =>
          /\ \E j \in DOMAIN ids : ids[j] = <<"oracle", d>>
          /\ \E j \in DOMAIN more : more[j] = Discover(d + 1)

LEMMA ProgressSound ==
    ASSUME NEW s, Sound(s), s.cursor < Len(s.jobs), NEW t, NEW more, NEW ids,
           Progress(s, t, more, ids), Allowed(s, t, more, ids)
    PROVE  /\ Sound(t)
           /\ Waits(t, Record(Root)) => Waits(s, Record(Root)) /\ t.expected = s.expected
  <1>1. /\ s.jobs \in Seq(Jobs) /\ Len(s.jobs) \in Nat /\ s.cursor \in Nat
        /\ DOMAIN s.jobs = 1..Len(s.jobs)
        /\ s.expected \in Seq(RecordIds) /\ Len(s.expected) \in Nat
        /\ DOMAIN s.expected = 1..Len(s.expected)
    BY FieldTypes
  <1>2. /\ t \in Sandboxes /\ t.cursor = s.cursor + 1
        /\ t.shards = s.shards /\ t.finalizing = s.finalizing /\ t.scheduled = s.scheduled
    BY DEF Progress
  <1>3. /\ t.jobs \in Seq(Jobs) /\ Len(t.jobs) = Len(s.jobs) + Len(more)
        /\ DOMAIN t.jobs = 1..(Len(s.jobs) + Len(more))
        /\ DOMAIN more = 1..Len(more) /\ Len(more) \in Nat
        /\ \A j \in 1..Len(s.jobs) : t.jobs[j] = s.jobs[j]
        /\ \A j \in 1..Len(more) : t.jobs[Len(s.jobs) + j] = more[j]
    BY <1>2 DEF Progress, Joins, Sandboxes
  <1>4. /\ \A j \in DOMAIN s.jobs : j \in DOMAIN t.jobs /\ t.jobs[j] = s.jobs[j]
        /\ \A j \in DOMAIN more : /\ Len(s.jobs) + j \in DOMAIN t.jobs
                                   /\ t.jobs[Len(s.jobs) + j] = more[j]
        /\ \A j \in DOMAIN t.jobs :
              \/ j \in DOMAIN s.jobs /\ t.jobs[j] = s.jobs[j]
              \/ \E h \in DOMAIN more : j = Len(s.jobs) + h /\ t.jobs[j] = more[h]
    <2>1. more \in Seq(Jobs) /\ Joins(s.jobs, more, t.jobs)
      BY DEF Progress
    <2>2. /\ \A j \in DOMAIN s.jobs : j \in DOMAIN t.jobs /\ t.jobs[j] = s.jobs[j]
          /\ \A j \in DOMAIN more : /\ Len(s.jobs) + j \in DOMAIN t.jobs
                                     /\ t.jobs[Len(s.jobs) + j] = more[j]
      BY <1>1, <1>3, <2>1, JoinedPlaces
    <2>3. Covered(s.jobs, more, t.jobs)
      BY <1>1, <1>3, <2>1, JoinedPlaces
    <2> QED BY <2>2, <2>3 DEF Covered
  <1>5. /\ s.cursor + 1 \in Pending(s)
        /\ \A j \in Pending(s) : j # s.cursor + 1 => j \in Pending(t) /\ t.jobs[j] = s.jobs[j]
        /\ \A j \in DOMAIN more : Len(s.jobs) + j \in Pending(t)
        /\ \A j \in Pending(t) : j \in DOMAIN s.jobs => j \in Pending(s)
    <2>1. s.cursor + 1 \in Pending(s)
      BY <1>1 DEF Pending
    <2>2. \A j \in Pending(s) : j # s.cursor + 1 => j \in Pending(t) /\ t.jobs[j] = s.jobs[j]
      BY <1>1, <1>2, <1>4 DEF Pending
    <2>3. \A j \in DOMAIN more : Len(s.jobs) + j \in Pending(t)
      <3> SUFFICES ASSUME NEW j \in DOMAIN more PROVE Len(s.jobs) + j > s.cursor + 1
        BY <1>2, <1>4 DEF Pending
      <3>1. j \in Nat /\ j >= 1
        BY <1>3
      <3> QED BY <1>1, <3>1
    <2>4. \A j \in Pending(t) : j \in DOMAIN s.jobs => j \in Pending(s)
      BY <1>1, <1>2 DEF Pending
    <2> QED BY <2>1, <2>2, <2>3, <2>4
  <1>6. \A id : Expects(s, id) => Expects(t, id)
    <2>1. \A j \in DOMAIN s.expected : j \in DOMAIN t.expected /\ t.expected[j] = s.expected[j]
      BY <1>1, <1>2, JoinedPlaces DEF Progress, Sandboxes
    <2> QED BY <2>1 DEF Expects
  <1>7. \A id : (\E j \in DOMAIN ids : ids[j] = id) => Expects(t, id)
    <2>1. \A j \in DOMAIN ids : /\ Len(s.expected) + j \in DOMAIN t.expected
                                /\ t.expected[Len(s.expected) + j] = ids[j]
      BY <1>1, <1>2, JoinedPlaces DEF Progress, Sandboxes
    <2> QED BY <2>1 DEF Expects
  <1>8. PhasesInOrder(t)
    <2>1. ~s.finalizing => \A j \in DOMAIN t.jobs :
             t.jobs[j].kind = "record" => t.jobs[j].id[1] \in {"oracle", "legal"}
      BY <1>4 DEF Sound, PhasesInOrder, Allowed
    <2>2. ~s.scheduled => \A j \in DOMAIN t.jobs : t.jobs[j] # Build
      BY <1>4 DEF Sound, PhasesInOrder, Allowed
    <2>3. Job(s) = s.jobs[s.cursor + 1] /\ s.cursor + 1 \in DOMAIN s.jobs
      BY <1>1 DEF Job
    <2>4. ~s.scheduled => ~t.complete
      BY <2>3 DEF Sound, PhasesInOrder, Allowed
    <2>5. ~t.complete => ~s.complete
      BY DEF Allowed
    <2> QED BY <1>2, <2>1, <2>2, <2>4, <2>5 DEF Sound, PhasesInOrder
  <1>9. ASSUME ~s.scheduled PROVE DiscoveryGoesOn(t)
    <2>1. PICK d \in 1..(Oracle + 1) :
             /\ \A i \in 0..(d - 1) : Expects(s, <<"oracle", i>>)
             /\ d <= Oracle => Waits(s, Discover(d))
      BY <1>9 DEF Sound, NothingForgotten, DiscoveryGoesOn
    <2>2. CASE d = Oracle + 1
      BY <1>6, <2>1, <2>2, SandboxSizes DEF DiscoveryGoesOn
    <2>3. CASE d <= Oracle /\ Job(s) # Discover(d)
      <3>1. Waits(t, Discover(d))
        BY <1>5, <2>1, <2>3 DEF Waits, Job
      <3> QED BY <1>6, <2>1, <3>1 DEF DiscoveryGoesOn
    <2>4. CASE d <= Oracle /\ Job(s) = Discover(d)
      <3>1. d \in 1..Oracle /\ d + 1 \in 1..(Oracle + 1)
        BY <2>4, SandboxSizes
      <3>2. Expects(t, <<"oracle", d>>)
        BY <1>7, <2>4, <3>1 DEF Allowed
      <3>3. Waits(t, Discover(d + 1))
        BY <1>3, <1>5, <2>4, <3>1 DEF Allowed, Waits
      <3>4. \A i \in 0..((d + 1) - 1) : i \in 0..(d - 1) \/ i = d
        BY <3>1
      <3>5. \A i \in 0..((d + 1) - 1) : Expects(t, <<"oracle", i>>)
        BY <1>6, <2>1, <3>2, <3>4
      <3> QED BY <3>1, <3>3, <3>5 DEF DiscoveryGoesOn
    <2> QED BY <2>2, <2>3, <2>4, SandboxSizes
  <1>10. ASSUME s.scheduled, ~t.complete PROVE Waits(t, Build)
    <2>1. Job(s) # Build /\ ~s.complete
      BY <1>10 DEF Allowed
    <2>2. Waits(s, Build)
      BY <1>10, <2>1 DEF Sound, NothingForgotten
    <2> QED BY <1>5, <2>1, <2>2 DEF Waits, Job
  <1>11. t.complete => Expects(t, <<"legal", 0>>)
    <2>1. CASE Job(s) = Build
      BY <1>7, <2>1 DEF Allowed
    <2>2. CASE Job(s) # Build
      BY <1>6, <2>2 DEF Allowed, Sound, NothingForgotten
    <2> QED BY <2>1, <2>2
  <1>12. NothingForgotten(t)
    <2>1. s.scheduled => \A i \in 0..Oracle : Expects(t, <<"oracle", i>>)
      BY <1>6 DEF Sound, NothingForgotten
    <2> QED BY <1>2, <1>9, <1>10, <1>11, <2>1 DEF NothingForgotten
  <1>13. ASSUME NEW r \in Pending(t), t.jobs[r] = Record(Root)
         PROVE  /\ r \in Pending(s) /\ s.jobs[r] = Record(Root)
                /\ t.jobs = s.jobs /\ t.expected = s.expected /\ t.complete = s.complete
    <2>1. r \in DOMAIN s.jobs /\ t.jobs[r] = s.jobs[r]
      <3>1. \A h \in DOMAIN more : more[h] # Record(Root)
        BY KindsDiffer DEF Allowed
      <3> QED BY <1>4, <1>13, <3>1 DEF Pending
    <2>2. r \in Pending(s) /\ s.jobs[r] = Record(Root) /\ s.cursor + 1 <= r
      BY <1>1, <1>2, <1>5, <1>13, <2>1 DEF Pending
    <2>3. Job(s).kind = "record"
      BY <1>5, <2>2 DEF Sound, ManifestFits, Job
    <2> QED BY <2>2, <2>3 DEF Allowed
  <1>14. ManifestFits(t)
    <2> SUFFICES ASSUME NEW r \in Pending(t), t.jobs[r] = Record(Root)
                 PROVE  /\ t.complete /\ t.finalizing /\ t.shards = ShardIds(t)
                        /\ \A i \in Pending(t) : i <= r => t.jobs[i].kind = "record"
      BY DEF ManifestFits
    <2>1. /\ r \in Pending(s) /\ s.jobs[r] = Record(Root)
          /\ t.jobs = s.jobs /\ t.expected = s.expected /\ t.complete = s.complete
      BY <1>13
    <2>2. /\ s.complete /\ s.finalizing /\ s.shards = ShardIds(s)
          /\ \A i \in Pending(s) : i <= r => s.jobs[i].kind = "record"
      BY <2>1 DEF Sound, ManifestFits
    <2>3. ShardIds(t) = ShardIds(s) /\ \A i \in Pending(t) : i \in Pending(s)
      BY <1>5, <2>1 DEF ShardIds, ShardCount, Pending
    <2> QED BY <1>2, <2>1, <2>2, <2>3
  <1>15. Waits(t, Record(Root)) => Waits(s, Record(Root)) /\ t.expected = s.expected
    BY <1>13 DEF Waits
  <1> QED BY <1>1, <1>2, <1>3, <1>8, <1>12, <1>14, <1>15 DEF Sound

After1(s) == [s EXCEPT !.cursor = @ + 1]

LEMMA CursorMoves ==
    ASSUME NEW s, Sound(s), s.cursor < Len(s.jobs)
    PROVE  /\ Progress(s, After1(s), <<>>, <<>>)
           /\ After1(s).jobs = s.jobs /\ After1(s).expected = s.expected
           /\ After1(s).complete = s.complete
           /\ Job(s) \in Jobs
  <1> DEFINE t == After1(s)
  <1>1. /\ t \in Sandboxes
        /\ t.key = s.key /\ t.signature = s.signature /\ t.cursor = s.cursor + 1
        /\ t.shards = s.shards /\ t.finalizing = s.finalizing /\ t.scheduled = s.scheduled
        /\ t.jobs = s.jobs /\ t.expected = s.expected /\ t.complete = s.complete
    <2>1. PICK n \in Nat : n = s.cursor + 1
      BY FieldTypes
    <2>2. t = [s EXCEPT !.cursor = n] /\ s \in Sandboxes
      BY <2>1 DEF Sound, Sandboxes, After1
    <2> HIDE DEF t
    <2> QED BY <2>1, <2>2 DEF Sandboxes
  <1> HIDE DEF t
  <1>2. s.jobs \in Seq(Jobs) /\ s.expected \in Seq(RecordIds)
        /\ s.cursor + 1 \in 1..Len(s.jobs)
    BY FieldTypes
  <1>3. \A S : \A q \in Seq(S) : Joins(q, <<>>, q)
    BY DEF Joins
  <1>4. Progress(s, t, <<>>, <<>>)
    BY <1>1, <1>2, <1>3 DEF Progress
  <1> QED BY <1>1, <1>2, <1>4 DEF t, Job

LEMMA RecordAllowed ==
    ASSUME NEW s, Sound(s), s.cursor < Len(s.jobs), Job(s).kind = "record"
    PROVE  Allowed(s, After1(s), <<>>, <<>>)
  BY CursorMoves, KindsDiffer DEF Allowed

\* The end of the discovery
LEMMA LastDiscovery ==
    ASSUME NEW s, Sound(s), s.cursor < Len(s.jobs), Job(s).kind = "discover",
           Job(s).id \notin OracleIds
    PROVE  Allowed(s, After1(s), <<>>, <<>>)
  <1>1. \A d \in 1..Oracle : Job(s) # Discover(d)
    BY KindsDiffer, SandboxSizes DEF OracleIds
  <1> QED BY <1>1, CursorMoves, KindsDiffer DEF Allowed

\* What Enqueue makes of a state whose cursor has moved.
LEMMA Enqueued ==
    ASSUME NEW s, Sound(s), s.cursor < Len(s.jobs), NEW ids \in Seq(RecordIds),
           NEW records, records = [i \in DOMAIN ids |-> Record(ids[i])]
    PROVE  LET t == Enqueue(After1(s), ids) IN
           /\ Progress(s, t, records, ids)
           /\ t.complete = s.complete
           /\ t = [After1(s) EXCEPT !.jobs = t.jobs, !.expected = t.expected]
  <1> DEFINE a == After1(s)
             t == Enqueue(a, ids)
  <1>1. /\ Progress(s, a, <<>>, <<>>) /\ a.jobs = s.jobs /\ a.expected = s.expected
        /\ a.complete = s.complete /\ a \in Sandboxes
    BY CursorMoves DEF Progress
  <1> HIDE DEF a
  <1>2. s.jobs \in Seq(Jobs) /\ s.expected \in Seq(RecordIds)
    BY FieldTypes
  <1>3. records \in Seq(Jobs)
    <2>1. \A i \in DOMAIN ids : Record(ids[i]) \in Jobs
      BY JobTypes
    <2>2. DOMAIN ids = 1..Len(ids) /\ Len(ids) \in Nat
      OBVIOUS
    <2> QED BY <2>1, <2>2
  <1>a. s.jobs \o records \in Seq(Jobs) /\ s.expected \o ids \in Seq(RecordIds)
    BY <1>2, <1>3, Joined
  <1>4. PICK q \in Seq(Jobs) : q = s.jobs \o records
    BY <1>a
  <1>5. PICK x \in Seq(RecordIds) : x = s.expected \o ids
    BY <1>a
  <1>6. t = [a EXCEPT !.jobs = q, !.expected = x]
    BY <1>1, <1>4, <1>5 DEF Enqueue, Sandboxes
  <1> HIDE DEF t
  <1>7. /\ t \in Sandboxes /\ t.jobs = q /\ t.expected = x
        /\ t.key = a.key /\ t.signature = a.signature /\ t.cursor = a.cursor
        /\ t.shards = a.shards /\ t.finalizing = a.finalizing /\ t.scheduled = a.scheduled
        /\ t.complete = a.complete
    BY <1>1, <1>6 DEF Sandboxes
  <1>8. Joins(s.jobs, records, q) /\ Joins(s.expected, ids, x)
    BY <1>2, <1>3, <1>4, <1>5, Joined
  <1>9. Progress(s, t, records, ids)
    BY <1>1, <1>3, <1>7, <1>8 DEF Progress
  <1> QED BY <1>1, <1>6, <1>7, <1>9 DEF t, a

LEMMA Discovered ==
    ASSUME NEW s, Sound(s), s.cursor < Len(s.jobs), NEW d \in 0..Oracle, Job(s) = Discover(d),
           NEW t, t = [Enqueue(After1(s), << <<"oracle", d>> >>) EXCEPT
                         !.jobs = Append(@, Discover(d + 1))]
    PROVE  /\ Progress(s, t, <<Record(<<"oracle", d>>), Discover(d + 1)>>, << <<"oracle", d>> >>)
           /\ Allowed(s, t, <<Record(<<"oracle", d>>), Discover(d + 1)>>, << <<"oracle", d>> >>)
           /\ t.complete = s.complete
  <1> DEFINE ids == << <<"oracle", d>> >>
             records == <<Record(<<"oracle", d>>)>>
             more == <<Record(<<"oracle", d>>), Discover(d + 1)>>
  <1>1. <<"oracle", d>> \in RecordIds /\ d + 1 \in Nat /\ ids \in Seq(RecordIds)
    BY SandboxSizes DEF RecordIds
  <1>2. /\ Record(<<"oracle", d>>) \in Jobs /\ Discover(d + 1) \in Jobs
        /\ more \in Seq(Jobs) /\ records \in Seq(Jobs)
    BY <1>1, JobTypes
  <1>3. records = [i \in DOMAIN ids |-> Record(ids[i])]
    OBVIOUS
  <1>4. PICK u : u = Enqueue(After1(s), ids)
    OBVIOUS
  <1>5. Progress(s, u, records, ids) /\ u.complete = s.complete
    BY <1>1, <1>3, <1>4, Enqueued
  <1>6. t = [u EXCEPT !.jobs = Append(u.jobs, Discover(d + 1))]
    BY <1>4, <1>5 DEF Progress, Sandboxes
  <1>7. /\ Len(more) = 2 /\ Len(records) = 1
        /\ more[1] = Record(<<"oracle", d>>) /\ more[2] = Discover(d + 1)
        /\ records[1] = Record(<<"oracle", d>>) /\ DOMAIN more = {1, 2}
        /\ DOMAIN ids = {1} /\ ids[1] = <<"oracle", d>>
    OBVIOUS
  <1> HIDE DEF ids, records, more
  <1>a. u.jobs \in Seq(Jobs)
    BY <1>5 DEF Progress, Sandboxes
  <1>b. Append(u.jobs, Discover(d + 1)) \in Seq(Jobs)
    BY <1>2, <1>a
  <1>8. PICK q \in Seq(Jobs) : q = Append(u.jobs, Discover(d + 1))
    BY <1>b
  <1>9. /\ t \in Sandboxes /\ t.jobs = q /\ t.expected = u.expected
        /\ t.key = u.key /\ t.signature = u.signature /\ t.cursor = u.cursor
        /\ t.shards = u.shards /\ t.finalizing = u.finalizing /\ t.scheduled = u.scheduled
        /\ t.complete = u.complete
    BY <1>5, <1>6, <1>8 DEF Progress, Sandboxes
  <1>10. Joins(s.jobs, more, q)
    <2>1. /\ s.jobs \in Seq(Jobs) /\ u.jobs \in Seq(Jobs) /\ Joins(s.jobs, records, u.jobs)
      BY <1>5, FieldTypes DEF Progress, Sandboxes
    <2>2. /\ Len(u.jobs) = Len(s.jobs) + 1 /\ Len(s.jobs) \in Nat
          /\ \A j \in 1..Len(s.jobs) : u.jobs[j] = s.jobs[j]
          /\ u.jobs[Len(s.jobs) + 1] = Record(<<"oracle", d>>)
      BY <1>7, <2>1 DEF Joins
    <2>3. /\ Len(q) = Len(s.jobs) + 2
          /\ \A j \in 1..Len(u.jobs) : q[j] = u.jobs[j]
          /\ q[Len(s.jobs) + 2] = Discover(d + 1)
      BY <1>2, <1>8, <2>1, <2>2
    <2>4. /\ \A j \in 1..Len(s.jobs) : q[j] = s.jobs[j]
          /\ q[Len(s.jobs) + 1] = Record(<<"oracle", d>>)
      BY <2>2, <2>3
    <2>5. \A j \in 1..Len(more) : q[Len(s.jobs) + j] = more[j]
      BY <1>7, <2>3, <2>4
    <2>6. \A j \in 1..Len(q) :
             \/ j \in 1..Len(s.jobs)
             \/ j - Len(s.jobs) \in 1..Len(more) /\ j = Len(s.jobs) + (j - Len(s.jobs))
      BY <1>7, <2>2, <2>3
    <2> QED BY <1>7, <2>3, <2>4, <2>5, <2>6 DEF Joins
  <1>11. Progress(s, t, more, ids)
    BY <1>2, <1>5, <1>9, <1>10 DEF Progress
  <1>12. Allowed(s, t, more, ids)
    <2>1. ASSUME NEW c \in 1..Oracle, Job(s) = Discover(c) PROVE c = d
      <3>1. Discover(c).id = <<"oracle", c>> /\ Discover(d).id = <<"oracle", d>>
        BY KindsDiffer
      <3> QED BY <2>1, <3>1
    <2>2. /\ more[2] # Build /\ more[1] # Build
          /\ more[1].kind = "record" /\ more[1].id[1] = "oracle"
          /\ more[2].kind # "record"
      BY <1>7, KindsDiffer
    <2>3. Job(s) # Build /\ Job(s).kind # "record" /\ t.complete = s.complete
      BY <1>5, <1>9, KindsDiffer
    <2> QED BY <1>7, <2>1, <2>2, <2>3 DEF Allowed
  <1> QED BY <1>5, <1>9, <1>11, <1>12 DEF ids, more

LEMMA LegalRecords ==
    /\ LegalSeq \in Seq(RecordIds) /\ <<LegalSeq[1]>> \in Seq(RecordIds)
    /\ DOMAIN LegalSeq = 1..(Legal + 1) /\ LegalSeq[1] = <<"legal", 0>>
    /\ \A i \in 1..(Legal + 1) : LegalSeq[i] = <<"legal", i - 1>>
  <1>1. 1 \in 1..(Legal + 1) /\ \A i \in 1..(Legal + 1) : <<"legal", i - 1>> \in RecordIds
    BY SandboxSizes DEF RecordIds
  <1> QED BY <1>1, SandboxSizes DEF LegalSeq

LEMMA BuildDone ==
    ASSUME NEW s, Sound(s), s.cursor < Len(s.jobs), Job(s) = Build,
           NEW ids \in {LegalSeq, <<LegalSeq[1]>>},
           NEW records, records = [i \in DOMAIN ids |-> Record(ids[i])],
           NEW t, t = [Enqueue(After1(s), ids) EXCEPT !.complete = TRUE]
    PROVE  Progress(s, t, records, ids) /\ Allowed(s, t, records, ids) /\ t.complete = TRUE
  <1>1. /\ ids \in Seq(RecordIds) /\ 1 \in DOMAIN ids /\ ids[1] = <<"legal", 0>>
        /\ \A i \in DOMAIN ids : ids[i][1] = "legal"
    <2>1. CASE ids = LegalSeq
      BY <2>1, LegalRecords, SandboxSizes
    <2>2. CASE ids = <<LegalSeq[1]>>
      BY <2>2, LegalRecords
    <2> QED BY <2>1, <2>2
  <1>2. PICK u : u = Enqueue(After1(s), ids)
    OBVIOUS
  <1>3. Progress(s, u, records, ids)
    BY <1>1, <1>2, Enqueued
  <1>4. /\ t \in Sandboxes /\ t.jobs = u.jobs /\ t.expected = u.expected
        /\ t.key = u.key /\ t.signature = u.signature /\ t.cursor = u.cursor
        /\ t.shards = u.shards /\ t.finalizing = u.finalizing /\ t.scheduled = u.scheduled
        /\ t.complete = TRUE
    BY <1>2, <1>3 DEF Progress, Sandboxes
  <1>5. Progress(s, t, records, ids)
    BY <1>3, <1>4 DEF Progress
  <1>6. Allowed(s, t, records, ids)
    <2>1. \A j \in DOMAIN records : /\ records[j] # Build /\ records[j].kind = "record"
                                    /\ records[j].id[1] = "legal"
      BY <1>1, KindsDiffer
    <2>2. /\ Job(s).kind # "record" /\ \A d \in 1..Oracle : Job(s) # Discover(d)
      BY KindsDiffer
    <2> QED BY <1>1, <1>4, <2>1, <2>2 DEF Allowed
  <1> QED BY <1>4, <1>5, <1>6

-----------------------------------------------------------------------------
(* pump: what a job writes *)

\* begin has just staged it: nothing of it was written.
Fresh(s) == s.cursor < Len(s.jobs) /\ Job(s) = Record(<<"oracle", 0>>)

LEMMA Products == \A m, n \in Nat : m * n \in Nat
  OBVIOUS

LEMMA ShardParts ==
    ASSUME NEW s, s.expected \in Seq(RecordIds), NEW i \in Nat
    PROVE  ShardPart(s, i) \in Seq(RecordIds)
  <1> DEFINE first == i * ShardSize + 1
             end == (i + 1) * ShardSize
             last == IF end < Len(s.expected) THEN end ELSE Len(s.expected)
  <1>1. first \in Nat \ {0} /\ end \in Nat
    BY SandboxSizes, Products
  <1> HIDE DEF first, end
  <1>2. last \in Nat /\ last <= Len(s.expected)
    BY <1>1
  <1> HIDE DEF last
  <1>3. SubSeq(s.expected, first, last) \in Seq(RecordIds)
    BY <1>1, <1>2
  <1> QED BY <1>3 DEF ShardPart, first, end, last

\* What a job writes of the sandbox state
LEMMA Bodies ==
    ASSUME NEW s, Sound(s), s.cursor < Len(s.jobs), NEW id \in RecordIds, NEW ok \in BOOLEAN
    PROVE  LET body == Body(After1(s), id, ok) IN
           /\ body \in LogRecords
           /\ body.key = s.key /\ body.id = id /\ body.ok = ok
           /\ ok /\ id = Root => body.list = s.shards
           /\ id[1] = "manifest_expected" => body.list = ShardPart(s, id[2])
           /\ id = Root => body.count = Len(s.expected)
  <1> DEFINE a == After1(s)
             list == CASE ok /\ id = Root -> a.shards
                       [] id[1] = "manifest_expected" -> ShardPart(a, id[2])
                       [] OTHER -> <<>>
             count == IF id = Root THEN Len(a.expected) ELSE 0
  <1>1. /\ a.key = s.key /\ a.shards = s.shards /\ a.expected = s.expected
        /\ s.key \in Keys /\ s.shards \in Seq(RecordIds) /\ s.expected \in Seq(RecordIds)
    BY CursorMoves, FieldTypes DEF Progress
  <1>2. ShardPart(a, id[2]) = ShardPart(s, id[2])
    BY <1>1 DEF ShardPart
  <1>3. id[2] \in Nat /\ ShardPart(s, id[2]) \in Seq(RecordIds)
    BY <1>1, ShardParts DEF RecordIds
  <1>4. Root[1] = "manifest"
    BY DEF Root
  <1> HIDE DEF a
  <1>5. /\ list \in Seq(RecordIds)
        /\ ok /\ id = Root => list = s.shards
        /\ id[1] = "manifest_expected" => list = ShardPart(s, id[2])
    BY <1>1, <1>2, <1>3, <1>4
  <1>6. count \in Nat /\ (id = Root => count = Len(s.expected))
    BY <1>1
  <1>7. Body(a, id, ok) = [key |-> s.key, id |-> id, ok |-> ok, list |-> list, count |-> count]
    BY <1>1 DEF Body
  <1> HIDE DEF list, count
  <1> QED BY <1>1, <1>5, <1>6, <1>7 DEF a, LogRecords

\* A record is written of a snapshot that the log fits, or that starts over.
LEMMA RecordLogged ==
    ASSUME NEW s, Sound(s), s.cursor < Len(s.jobs), Job(s).kind = "record",
           LogSound, LogFits(s) \/ Fresh(s), duplicated \in BOOLEAN,
           NEW ok \in BOOLEAN, Emit(Body(After1(s), Job(s).id, ok))
    PROVE  /\ LogSound' /\ duplicated' \in BOOLEAN
           /\ (ok /\ Job(s).id = Root) \/ LogFits(After1(s))'
  <1>1. /\ s.cursor + 1 \in Pending(s) /\ Job(s) = s.jobs[s.cursor + 1]
        /\ Job(s) = Record(Job(s).id) /\ Job(s).id \in RecordIds
    BY CursorMoves, JobTypes, FieldTypes DEF Pending, Job
  <1>2. PICK id \in RecordIds : id = Job(s).id
    BY <1>1
  <1>3. PICK body \in LogRecords :
           /\ body = Body(After1(s), Job(s).id, ok)
           /\ body.key = s.key /\ body.id = id /\ body.ok = ok
           /\ ok /\ id = Root => body.list = s.shards
           /\ id[1] = "manifest_expected" => body.list = ShardPart(s, id[2])
    BY <1>2, Bodies
  <1>4. /\ emitted' = emitted \cup {body}
        /\ ~duplicated' => /\ ~duplicated
                           /\ \A e \in emitted : ~(e.key = s.key /\ e.id = id)
        /\ duplicated' \in BOOLEAN
    BY <1>3 DEF Emit
  <1>5. Fresh(s) => id = <<"oracle", 0>>
    BY <1>1, <1>2, KindsDiffer DEF Fresh
  \* Starting over on a generation that is in the log doubles its first record.
  <1>6. ASSUME ~duplicated', Fresh(s) PROVE \A e \in emitted : e.key # s.key
    BY <1>4, <1>5, <1>6 DEF LogSound
  <1>7. \E f \in emitted' : f.key = s.key /\ f.id = <<"oracle", 0>>
    BY <1>3, <1>4, <1>5 DEF LogFits
  <1>8. ASSUME ~duplicated', NEW e \in emitted, e.key = s.key
        PROVE  /\ e.id = Root => ~e.ok
               /\ e.id[1] = "manifest_expected" =>
                     /\ s.finalizing
                     /\ Waits(s, Record(Root)) => e.list = ShardPart(s, e.id[2])
    BY <1>4, <1>6, <1>8 DEF LogFits
  <1>9. Root[1] = "manifest" /\ Root # <<"oracle", 0>>
    BY DEF Root
  <1>10. ASSUME id = Root
         PROVE  /\ s.complete /\ s.finalizing /\ s.shards = ShardIds(s) /\ s.scheduled
                /\ \A i \in 0..Oracle : Expects(s, <<"oracle", i>>)
                /\ Expects(s, <<"legal", 0>>)
                /\ Waits(s, Record(Root))
    BY <1>1, <1>2, <1>10 DEF Sound, ManifestFits, NothingForgotten, PhasesInOrder, Waits
  <1>11. LogSound'
    <2>1. emitted' \in SUBSET LogRecords
      BY <1>4 DEF LogSound
    <2>2. \A e \in emitted' : \E f \in emitted' : f.key = e.key /\ f.id = <<"oracle", 0>>
      BY <1>3, <1>4, <1>7 DEF LogSound
    <2>3. ~duplicated' => \A e, f \in emitted' : e.key = f.key /\ e.id = f.id => e = f
      BY <1>3, <1>4 DEF LogSound
    <2>4. ASSUME ~duplicated', NEW e \in emitted', e.id = Root, e.ok PROVE Backed(e)'
      <3>1. CASE e = body
        <4>1. id = Root /\ ok /\ e.key = s.key /\ e.list = ShardIds(s)
          BY <1>3, <1>10, <2>4, <3>1
        <4>2. \A f \in emitted' :
                 f.key = e.key /\ f.id[1] = "manifest_expected" => f.list = ShardPart(s, f.id[2])
          BY <1>3, <1>4, <1>8, <1>9, <1>10, <2>4, <4>1
        <4>3. s \in Sandboxes
          BY DEF Sound
        <4> QED BY <1>10, <4>1, <4>2, <4>3 DEF Backed
      <3>2. CASE e # body
        <4>1. e \in emitted /\ Backed(e) /\ e.key # s.key
          BY <1>4, <1>8, <2>4, <3>2 DEF LogSound
        <4> QED BY <1>3, <1>4, <4>1 DEF Backed
      <3> QED BY <3>1, <3>2
    <2> QED BY <2>1, <2>2, <2>3, <2>4 DEF LogSound
  <1>12. ASSUME ~(ok /\ id = Root) PROVE LogFits(After1(s))'
    <2>1. PICK t : t = After1(s)
      OBVIOUS
    <2>2. /\ t.key = s.key /\ t.finalizing = s.finalizing
          /\ \A i : ShardPart(t, i) = ShardPart(s, i)
          /\ Waits(t, Record(Root)) => Waits(s, Record(Root))
      BY <2>1, CursorMoves, RecordAllowed, ProgressSound DEF Progress, ShardPart
    <2>3. id[1] = "manifest_expected" => s.finalizing
      BY <1>1, <1>2 DEF Sound, PhasesInOrder, Pending
    <2>4. ASSUME ~duplicated', NEW e \in emitted', e.key = t.key
          PROVE  /\ e.id = Root => ~e.ok
                 /\ e.id[1] = "manifest_expected" =>
                       /\ t.finalizing
                       /\ Waits(t, Record(Root)) => e.list = ShardPart(t, e.id[2])
      <3>1. CASE e = body
        BY <1>3, <1>12, <2>2, <2>3, <3>1
      <3>2. CASE e \in emitted
        BY <1>8, <2>2, <2>4, <3>2
      <3> QED BY <1>4, <2>4, <3>1, <3>2
    <2>5. LogFits(t)'
      BY <1>7, <2>2, <2>4 DEF LogFits
    <2> QED BY <2>1, <2>5
  <1> QED BY <1>2, <1>4, <1>11, <1>12

\* What writes nothing keeps what the log says.
LEMMA LogKept ==
    ASSUME NEW s, NEW t, LogFits(s), t.key = s.key, s.finalizing => t.finalizing,
           s.finalizing /\ Waits(t, Record(Root)) =>
              Waits(s, Record(Root)) /\ t.expected = s.expected
    PROVE  LogFits(t)
  <1>1. t.expected = s.expected => \A i : ShardPart(t, i) = ShardPart(s, i)
    BY DEF ShardPart
  <1> QED BY <1>1 DEF LogFits

-----------------------------------------------------------------------------
(* Steps *)

\* A sandbox state that pump may come upon.
Ready(s) == s # None => Sound(s) /\ (LogFits(s) \/ Fresh(s))

\* What a step leaves to the next one
Left ==
    /\ LogSound /\ duplicated \in BOOLEAN
    /\ sb # None => Sound(sb) /\ LogFits(sb)
    /\ lastKey \in Keys \cup {None}
    /\ status.kind \in {"none", "staged", "progress", "cancelled", "complete"}

LEMMA NothingWritten ==
    ASSUME UNCHANGED output, LogSound, duplicated \in BOOLEAN
    PROVE  /\ LogSound' /\ duplicated' \in BOOLEAN
           /\ \A s : LogFits(s) => LogFits(s)'
  <1>1. LogSound'
    BY DEF output, LogSound, Backed
  <1>2. \A s : LogFits(s) => LogFits(s)'
    BY DEF output, LogFits
  <1> QED BY <1>1, <1>2 DEF output

LEMMA CancelLeaves ==
    ASSUME NEW s, Cancel(s), UNCHANGED <<output, lastKey>>, Left
    PROVE  Left'
  BY NothingWritten DEF Cancel, Line, Left, output

LEMMA IdleLeaves ==
    ASSUME NEW s, Idle(s), Left, s # None => Sound(s) /\ LogFits(s)
    PROVE  Left'
  <1>1. UNCHANGED output /\ sb' = s /\ lastKey' = lastKey
    BY DEF Idle, output
  <1>2. LogSound' /\ duplicated' \in BOOLEAN /\ (LogFits(s) => LogFits(s)')
    BY <1>1, NothingWritten DEF Left
  <1>3. status'.kind \in {"none", "staged", "progress", "cancelled", "complete"}
    BY DEF Idle, Line, Left
  <1>4. sb' # None => Sound(sb)' /\ LogFits(sb)'
    <2>1. LogFits(s)' => LogFits(sb)'
      BY <1>1 DEF LogFits, Waits, Pending, ShardPart
    <2>2. Sound(s) => Sound(sb)'
      BY <1>1 DEF Sound, PhasesInOrder, NothingForgotten, DiscoveryGoesOn, ManifestFits,
                  Waits, Expects, Pending, ShardIds, ShardCount
    <2> QED BY <1>1, <1>2, <2>1, <2>2
  <1> QED BY <1>1, <1>2, <1>3, <1>4 DEF Left

LEMMA HandedOver ==
    ASSUME NEW t, sb' = t, Sound(t), LogFits(t)'
    PROVE  (Sound(sb) /\ LogFits(sb))'
  <1>1. LogFits(sb)'
    BY DEF LogFits, Waits, Pending, ShardPart
  <1>2. Sound(sb)'
    BY DEF Sound, PhasesInOrder, NothingForgotten, DiscoveryGoesOn, ManifestFits,
           Waits, Expects, Pending, ShardIds, ShardCount
  <1> QED BY <1>1, <1>2

\* A job other than a record writes nothing and hands over a sound state.
LEMMA QuietJob ==
    ASSUME NEW s, Sound(s), s.cursor < Len(s.jobs), LogFits(s), Left,
           NEW t, NEW more, NEW ids, Progress(s, t, more, ids), Allowed(s, t, more, ids),
           sb' = t, status' = Line("progress", s.key), UNCHANGED <<output, lastKey>>
    PROVE  Left'
  <1>1. Sound(t) /\ (Waits(t, Record(Root)) => Waits(s, Record(Root)) /\ t.expected = s.expected)
    BY ProgressSound
  <1>2. LogFits(t)
    BY <1>1, LogKept DEF Progress
  <1>3. LogSound' /\ duplicated' \in BOOLEAN /\ LogFits(t)'
    BY <1>2, NothingWritten DEF Left, output
  <1>4. (Sound(sb) /\ LogFits(sb))'
    BY <1>1, <1>3, HandedOver
  <1> QED BY <1>3, <1>4 DEF Left, Line

LEMMA FreshRecord ==
    ASSUME NEW s, Fresh(s)
    PROVE  Job(s).kind = "record" /\ Job(s).id = <<"oracle", 0>>
  BY KindsDiffer DEF Fresh

LEMMA ProcessLeaves ==
    ASSUME NEW s, Sound(s), s.cursor < Len(s.jobs), LogFits(s) \/ Fresh(s), Left, Process(s)
    PROVE  Left'
  <1>1. PICK a : a = After1(s)
    OBVIOUS
  <1>2. PICK job \in Jobs : job = Job(s)
    BY CursorMoves
  <1>3. /\ Progress(s, a, <<>>, <<>>) /\ a.key = s.key
        /\ s.key \in Keys
    BY <1>1, CursorMoves, FieldTypes DEF Progress
  <1>4. JobRecord(a, job) \/ JobTransportError(a, job) \/ JobDiscover(a, job) \/ JobBuild(a, job)
    BY <1>1, <1>2 DEF Process, After1, Job
  <1>5. CASE Cancel(a) /\ UNCHANGED <<output, lastKey>>
    BY <1>5, CancelLeaves
  <1>6. CASE JobRecord(a, job)
    <2>1. PICK ok \in BOOLEAN :
             /\ Emit(Body(a, job.id, ok))
             /\ IF ok /\ job.id = Root
                THEN sb' = None /\ lastKey' = a.key /\ status' = Line("complete", a.key)
                ELSE sb' = a /\ status' = Line("progress", a.key) /\ UNCHANGED lastKey
      BY <1>6 DEF JobRecord
    <2>2. Job(s).kind = "record"
      BY <1>2, <1>6 DEF JobRecord
    <2>3. /\ LogSound' /\ duplicated' \in BOOLEAN
          /\ (ok /\ job.id = Root) \/ LogFits(a)'
      <3>1. Emit(Body(After1(s), Job(s).id, ok))
        BY <1>1, <1>2, <2>1
      <3>2. /\ LogSound' /\ duplicated' \in BOOLEAN
            /\ (ok /\ Job(s).id = Root) \/ LogFits(After1(s))'
        BY <2>2, <3>1, RecordLogged DEF Left
      <3> QED BY <1>1, <1>2, <3>2
    <2>4. Sound(a)
      BY <1>1, <2>2, CursorMoves, RecordAllowed, ProgressSound
    <2>5. CASE ok /\ job.id = Root
      BY <1>3, <2>1, <2>3, <2>5 DEF Left, Line
    <2>6. CASE ~(ok /\ job.id = Root)
      <3>1. (Sound(sb) /\ LogFits(sb))'
        BY <2>1, <2>3, <2>4, <2>6, HandedOver
      <3> QED BY <2>1, <2>3, <2>6, <3>1 DEF Left, Line
    <2> QED BY <2>5, <2>6
  <1>7. ASSUME job.kind # "record" PROVE LogFits(s)
    BY <1>2, <1>7, FreshRecord
  <1>8. CASE JobDiscover(a, job) /\ ~(Cancel(a) /\ UNCHANGED <<output, lastKey>>)
    <2>1. /\ job.kind = "discover" /\ UNCHANGED <<output, lastKey>>
          /\ status' = Line("progress", s.key)
          /\ sb' = IF job.id \in OracleIds
                   THEN [Enqueue(a, <<job.id>>) EXCEPT !.jobs = Append(@, Discover(job.id[2] + 1))]
                   ELSE a
      BY <1>3, <1>8 DEF JobDiscover
    <2>2. LogFits(s)
      BY <1>7, <2>1
    <2>3. CASE job.id \notin OracleIds
      <3>1. Allowed(s, a, <<>>, <<>>)
        BY <1>1, <1>2, <2>1, <2>3, LastDiscovery
      <3> QED BY <1>3, <2>1, <2>2, <2>3, <3>1, QuietJob
    <2>4. CASE job.id \in OracleIds
      <3>1. PICK d \in 0..Oracle : job.id = <<"oracle", d>>
        BY <2>4 DEF OracleIds
      <3>2. job = Discover(d)
        BY <2>1, <3>1 DEF Jobs, Discover, Build
      <3>3. PICK t : t = [Enqueue(After1(s), << <<"oracle", d>> >>) EXCEPT
                            !.jobs = Append(@, Discover(d + 1))]
        OBVIOUS
      <3>4. sb' = t
        BY <1>1, <2>1, <2>4, <3>1, <3>3
      <3>5. PICK more, ids : Progress(s, t, more, ids) /\ Allowed(s, t, more, ids)
        BY <1>2, <3>2, <3>3, Discovered
      <3> QED BY <2>1, <2>2, <3>4, <3>5, QuietJob
    <2> QED BY <2>3, <2>4
  <1>9. CASE JobBuild(a, job)
    <2>1. PICK ids \in {LegalSeq, <<LegalSeq[1]>>} :
             /\ sb' = [Enqueue(a, ids) EXCEPT !.complete = TRUE]
             /\ status' = Line("progress", s.key)
             /\ UNCHANGED <<output, lastKey>>
      BY <1>3, <1>9 DEF JobBuild
    <2>2. job = Build /\ LogFits(s)
      BY <1>7, <1>9, JobTypes DEF JobBuild
    <2>3. PICK t : t = [Enqueue(After1(s), ids) EXCEPT !.complete = TRUE]
      OBVIOUS
    <2>4. PICK records : records = [i \in DOMAIN ids |-> Record(ids[i])]
      OBVIOUS
    <2>5. Progress(s, t, records, ids) /\ Allowed(s, t, records, ids)
      BY <1>2, <2>2, <2>3, <2>4, BuildDone
    <2> QED BY <1>1, <2>1, <2>2, <2>3, <2>5, QuietJob
  <1> QED BY <1>4, <1>5, <1>6, <1>8, <1>9 DEF JobTransportError

\* Refilling keeps what the log says of the snapshot.
LEMMA RefilledFits ==
    ASSUME NEW s, Sound(s), LogFits(s)
    PROVE  LogFits(Refilled(s))
  <1>1. PICK t : t = Refilled(s)
    OBVIOUS
  <1>2. Refills(s, t)
    BY <1>1, RefilledSound
  <1>3. LogFits(t)
    <2>1. CASE s.finalizing
      BY <1>2, <2>1 DEF Refills
    <2>2. CASE ~s.finalizing
      BY <1>2, <2>2, LogKept DEF Refills
    <2> QED BY <2>1, <2>2
  <1> QED BY <1>1, <1>3

\* pump on a state that begin has just staged goes to work at once.
LEMMA PumpLeaves ==
    ASSUME NEW s, NEW c, Ready(s), Left, Pump(s, c),
           s # None /\ ~LogFits(s) =>
              s.key = Key(c) /\ commandReady /\ s.signature = c.signature
    PROVE  Left'
  <1>1. CASE s = None
    BY <1>1, IdleLeaves DEF Pump
  <1>2. CASE s # None /\ Cancel(s) /\ UNCHANGED <<output, lastKey>>
    BY <1>2, CancelLeaves
  <1>3. CASE s # None /\ Idle(s)
    <2>1. Sound(s)
      BY <1>3 DEF Ready
    <2>2. CASE LogFits(s)
      BY <1>3, <2>1, <2>2, IdleLeaves
    <2>3. CASE ~LogFits(s)
      <3>1. Fresh(s) /\ s.cursor < Len(s.jobs) /\ s.key = Key(c) /\ commandReady
            /\ s.signature = c.signature
        BY <1>3, <2>3 DEF Ready, Fresh
      <3>2. ~Drained(s) /\ Refilled(s) = s
        BY <2>1, <3>1, FieldTypes DEF Drained, Refilled
      <3>3. Process(s)
        BY <1>3, <3>1, <3>2 DEF Pump
      <3> QED BY <2>1, <3>1, <3>3, ProcessLeaves
    <2> QED BY <2>2, <2>3
  <1>4. CASE s # None /\ ~Drained(Refilled(s)) /\ Process(Refilled(s))
    <2>1. PICK t : t = Refilled(s)
      OBVIOUS
    <2>2. Sound(s) /\ Sound(t)
      BY <1>4, <2>1, RefilledSound DEF Ready
    <2>3. t.cursor < Len(t.jobs)
      BY <1>4, <2>1, <2>2, FieldTypes DEF Drained
    <2>4. LogFits(t) \/ Fresh(t)
      <3>1. CASE LogFits(s)
        BY <2>1, <2>2, <3>1, RefilledFits
      <3>2. CASE Fresh(s)
        <4>1. t = s
          BY <2>1, <2>2, <3>2, FieldTypes DEF Fresh, Refilled, Drained
        <4> QED BY <3>2, <4>1
      <3> QED BY <1>4, <3>1, <3>2 DEF Ready
    <2> QED BY <1>4, <2>1, <2>2, <2>3, <2>4, ProcessLeaves
  <1> QED BY <1>1, <1>2, <1>3, <1>4 DEF Pump

LEMMA GenerationsCounted ==
    ASSUME CaptureSound
    PROVE  /\ IsFiniteSet(staged) /\ Cardinality(staged) \in Nat
           /\ cap.gen + 1 <= Cardinality(staged)
  <1>1. cap.gen \in Int /\ cap.gen >= -1
    BY SandboxSizes DEF CaptureSound
  <1>2. IsFiniteSet(Keys)
    <2>1. IsFiniteSet(1..MaxBattles) /\ IsFiniteSet(0..MaxStaged)
      <3>1. MaxBattles \in Int /\ MaxStaged \in Int
        BY SandboxSizes
      <3> QED BY <3>1, FS_Interval
    <2>2. IsFiniteSet((1..MaxBattles) \X (0..MaxStaged))
      BY <2>1, FS_Product
    <2> QED BY <2>2 DEF Keys
  <1>3. IsFiniteSet(staged) /\ Cardinality(staged) \in Nat
    BY <1>2, FS_Subset, FS_CardinalityType DEF CaptureSound
  <1>4. CASE cap.gen = -1
    BY <1>3, <1>4
  <1>5. CASE cap.gen >= 0
    <2> DEFINE G == 0..cap.gen
               f == [g \in G |-> <<cap.battle, g>>]
    <2>1. \A g \in G : <<cap.battle, g>> \in staged
      BY DEF CaptureSound
    <2>2. f \in Injection(G, staged)
      BY <2>1 DEF Injection, IsInjective
    <2>3. Cardinality(G) = cap.gen + 1
      BY <1>1, <1>5, FS_Interval
    <2> HIDE DEF G, f
    <2> QED BY <1>3, <2>2, <2>3, FS_Injection
  <1> QED BY <1>1, <1>3, <1>4, <1>5

\* What observe leaves
LEMMA Observes ==
    ASSUME CaptureSound, WithinBounds
    PROVE  /\ Observed \in [battle: 1..MaxBattles, gen: -1..MaxStaged, isReady: BOOLEAN,
                            signature: Sources \cup {None}]
           /\ Observed.signature # None => Observed.gen >= 0
           /\ Observed.battle = cap.battle
           /\ \/ Observed.gen = cap.gen
              \/ Observed.gen = cap.gen + 1 /\ Opens
           /\ Opens => /\ commandReady /\ Observed.signature = source
                       /\ Key(Observed) \in Keys
  <1>1. /\ cap \in [battle: 1..MaxBattles, gen: -1..MaxStaged, isReady: BOOLEAN,
                    signature: Sources \cup {None}]
        /\ source \in Sources /\ source # None
        /\ cap.gen \in Int /\ cap.gen >= -1 /\ MaxStaged \in Nat
        /\ cap.signature # None => cap.gen >= 0
    BY SandboxSizes DEF CaptureSound
  <1>2. CASE ~commandReady
    BY <1>1, <1>2 DEF Observed, Opens
  <1>3. CASE commandReady /\ cap.signature = source
    <2>1. /\ Observed.gen = cap.gen /\ Observed.battle = cap.battle
          /\ Observed.signature = source
          /\ Observed \in [battle: 1..MaxBattles, gen: -1..MaxStaged, isReady: BOOLEAN,
                           signature: Sources \cup {None}]
      BY <1>1, <1>3 DEF Observed
    <2>2. <<cap.battle, cap.gen>> \in Keys
      BY <1>1, <1>3 DEF Keys
    <2> QED BY <1>1, <1>3, <2>1, <2>2 DEF Key
  <1>4. CASE commandReady /\ cap.signature # source
    <2>1. PICK n : n = cap.gen + 1
      OBVIOUS
    <2>2. Observed = [cap EXCEPT !.gen = n, !.signature = source, !.isReady = TRUE]
      BY <1>1, <1>4, <2>1 DEF Observed
    <2>3. n \in Int /\ n >= 0 /\ n # cap.gen /\ n > cap.gen
      BY <1>1, <2>1
    <2>4. Observed.gen = n /\ Observed.battle = cap.battle /\ Observed.signature = source
      BY <1>1, <2>2
    <2>5. n <= MaxStaged
      BY <1>1, <2>1, <2>3, <2>4, GenerationsCounted DEF WithinBounds
    <2>6. n \in -1..MaxStaged /\ n \in 0..MaxStaged
      BY <1>1, <2>3, <2>5
    <2>7. Observed \in [battle: 1..MaxBattles, gen: -1..MaxStaged, isReady: BOOLEAN,
                        signature: Sources \cup {None}]
      BY <1>1, <2>2, <2>6
    <2>8. <<cap.battle, n>> \in Keys
      BY <1>1, <2>6 DEF Keys
    <2> QED BY <1>4, <2>1, <2>3, <2>4, <2>7, <2>8 DEF Opens, Key
  <1> QED BY <1>2, <1>3, <1>4

LEMMA StagedFresh ==
    ASSUME NEW c
    PROVE  /\ Fresh(Staged(c)) /\ Staged(c).key = Key(c)
           /\ Staged(c).signature = c.signature
  BY DEF Fresh, Staged, Job

\* What begin hands to pump
LEMMA BegunReady ==
    ASSUME SInv, NEW c, Key(c) \in Keys, c.signature \in Sources
    PROVE  /\ Ready(Begun(sb, c))
           /\ \/ Begun(sb, c) = None
              \/ LogFits(Begun(sb, c))
              \/ Begun(sb, c).key = Key(c) /\ Begun(sb, c).signature = c.signature
  <1>1. CASE ~Known(sb, c)
    BY <1>1, StagedSound, StagedFresh DEF Begun, Ready
  <1>2. CASE Known(sb, c) /\ sb = None
    BY <1>2 DEF Begun, Ready
  <1>3. CASE Known(sb, c) /\ sb # None
    <2>1. PICK s : s = sb
      OBVIOUS
    <2>2. PICK t : t = BuildLast(s)
      OBVIOUS
    <2>3. Sound(s) /\ LogFits(s)
      BY <1>3, <2>1 DEF SInv
    <2>4. /\ Sound(t) /\ Reordered(s, t)
          /\ Waits(t, Record(Root)) => Waits(s, Record(Root))
      BY <2>2, <2>3, BuildLastSound
    <2>5. LogFits(t)
      BY <2>3, <2>4, LogKept DEF Reordered
    <2> QED BY <1>3, <2>1, <2>2, <2>4, <2>5 DEF Begun, Ready
  <1> QED BY <1>1, <1>2, <1>3

LEMMA OnUpdateSound == SInv /\ OnUpdate => SInv'
  <1> SUFFICES ASSUME SInv, OnUpdate PROVE SInv'
    OBVIOUS
  <1>1. PICK c : c = Observed
    OBVIOUS
  <1>2. CaptureSound /\ WithinBounds /\ cap' = c /\ UNCHANGED env /\ Left
    BY <1>1 DEF OnUpdate, SInv, CaptureSound, Left
  <1>3. /\ c \in [battle: 1..MaxBattles, gen: -1..MaxStaged, isReady: BOOLEAN,
                  signature: Sources \cup {None}]
        /\ c.signature # None => c.gen >= 0
        /\ c.battle = cap.battle
        /\ c.gen = cap.gen \/ (c.gen = cap.gen + 1 /\ Opens)
        /\ Opens => commandReady /\ c.signature = source /\ Key(c) \in Keys
    BY <1>1, <1>2, Observes
  <1>4. /\ source \in Sources /\ commandReady \in BOOLEAN /\ staged \subseteq Keys
        /\ disturbed \in BOOLEAN
        /\ \A g \in 0..cap.gen : <<cap.battle, g>> \in staged
        /\ cap.gen \in Int
    BY <1>2 DEF CaptureSound
  <1>5. Left'
    <2>1. CASE Opens
      <3>1. PICK s : s = Begun(sb, c)
        OBVIOUS
      <3>2. Ready(s) /\ (s = None \/ LogFits(s) \/ (s.key = Key(c) /\ s.signature = c.signature))
        BY <1>3, <1>4, <2>1, <3>1, BegunReady
      <3>3. Pump(s, c)
        BY <1>1, <2>1, <3>1 DEF OnUpdate
      <3> QED BY <1>2, <1>3, <2>1, <3>2, <3>3, PumpLeaves
    <2>2. CASE ~Opens
      <3>1. PICK s : s = sb
        OBVIOUS
      <3>2. Pump(s, c)
        BY <1>1, <2>2, <3>1 DEF OnUpdate
      <3>3. Ready(s) /\ (s # None => LogFits(s))
        BY <3>1 DEF SInv, Ready
      <3> QED BY <1>2, <3>2, <3>3, PumpLeaves
    <2> QED BY <2>1, <2>2
  <1>6. CaptureSound'
    <2>1. /\ staged' \subseteq Keys /\ staged \subseteq staged'
          /\ Opens => Key(c) \in staged'
      BY <1>1, <1>3, <1>4 DEF OnUpdate
    <2>2. disturbed' \in BOOLEAN
      BY <1>4 DEF OnUpdate
    <2>3. \A g \in 0..c.gen : <<c.battle, g>> \in staged'
      <3>1. CASE c.gen = cap.gen
        BY <1>3, <1>4, <2>1, <3>1
      <3>2. CASE c.gen = cap.gen + 1 /\ Opens
        <4>1. \A g \in 0..c.gen : g \in 0..cap.gen \/ g = c.gen
          BY <1>4, <3>2
        <4> QED BY <1>3, <1>4, <2>1, <3>2, <4>1 DEF Key
      <3> QED BY <1>3, <3>1, <3>2
    <2> QED BY <1>2, <1>3, <1>4, <1>5, <2>1, <2>2, <2>3 DEF CaptureSound, Left, env
  <1> QED BY <1>5, <1>6 DEF SInv, Left

LEMMA NextSound == SInv /\ [Next]_vars => SInv'
  <1> SUFFICES ASSUME SInv, [Next]_vars PROVE SInv'
    OBVIOUS
  <1>1. Left /\ CaptureSound
    BY DEF SInv, CaptureSound, Left
  <1>2. ASSUME UNCHANGED <<sb, output, lastKey, status>> PROVE Left'
    <2>1. PICK s : s = sb
      OBVIOUS
    <2>2. s # None => Sound(s) /\ LogFits(s)'
      BY <1>1, <1>2, <2>1, NothingWritten DEF Left
    <2>3. (sb # None => Sound(sb) /\ LogFits(sb))'
      BY <1>2, <2>1, <2>2, HandedOver
    <2> QED BY <1>1, <1>2, <2>3, NothingWritten DEF Left
  <1>3. ASSUME UNCHANGED <<output, lastKey>>, Cancel(sb) PROVE Left'
    <2>1. PICK s : s = sb
      OBVIOUS
    <2>2. Cancel(s)
      BY <1>3, <2>1
    <2> QED BY <1>1, <1>3, <2>2, CancelLeaves
  <1>4. CASE OnUpdate
    BY <1>4, OnUpdateSound
  <1>5. CASE Abandon
    <2>1. Left'
      BY <1>3, <1>5 DEF Abandon
    <2>2. CaptureSound'
      BY <1>1, <1>5, <2>1 DEF Abandon, CaptureSound, Left, env
    <2> QED BY <2>1, <2>2 DEF SInv, Left
  <1>6. CASE NextBattle
    <2>1. Left'
      BY <1>2, <1>3, <1>6 DEF NextBattle
    <2>2. /\ cap' \in [battle: 1..MaxBattles, gen: -1..MaxStaged, isReady: BOOLEAN,
                       signature: Sources \cup {None}]
          /\ cap'.gen = -1 /\ cap'.signature = None
      <3>1. cap.battle + 1 \in 1..MaxBattles /\ -1 \in -1..MaxStaged
        BY <1>1, <1>6, SandboxSizes DEF NextBattle, CaptureSound
      <3> QED BY <1>6, <3>1 DEF NextBattle
    <2>3. 0..-1 = {}
      OBVIOUS
    <2>4. CaptureSound'
      BY <1>1, <1>6, <2>1, <2>2, <2>3 DEF NextBattle, CaptureSound, Left, env
    <2> QED BY <2>1, <2>4 DEF SInv, Left
  <1>7. CASE ToggleReadiness
    <2>1. Left'
      BY <1>2, <1>7 DEF ToggleReadiness
    <2>2. CaptureSound'
      BY <1>1, <1>7, <2>1 DEF ToggleReadiness, CaptureSound, Left
    <2> QED BY <2>1, <2>2 DEF SInv, Left
  <1>8. CASE ChangeSource
    <2>1. Left'
      BY <1>2, <1>8 DEF ChangeSource
    <2>2. CaptureSound'
      BY <1>1, <1>8, <2>1 DEF ChangeSource, CaptureSound, Left
    <2> QED BY <2>1, <2>2 DEF SInv, Left
  <1>9. CASE UNCHANGED vars
    <2>1. Left'
      BY <1>2, <1>9 DEF vars, output
    <2>2. CaptureSound'
      BY <1>1, <1>9, <2>1 DEF vars, CaptureSound, Left
    <2> QED BY <2>1, <2>2 DEF SInv, Left
  <1> QED BY <1>4, <1>5, <1>6, <1>7, <1>8, <1>9 DEF Next

LEMMA InitSound == Init => SInv
  <1> SUFFICES ASSUME Init PROVE SInv
    OBVIOUS
  <1>1. 0..-1 = {} /\ -1 \in -1..MaxStaged
    BY SandboxSizes
  <1>2. 1 \in 1..MaxBattles
    BY SandboxSizes
  <1>3. CaptureSound
    BY <1>1, <1>2 DEF Init, CaptureSound, Line
  <1>4. LogSound
    BY DEF Init, LogSound
  <1> QED BY <1>3, <1>4 DEF Init, SInv

\* The staged snapshot is sound in every reachable state: the queue, what is
\* expected and the log fit together whatever failed, was cancelled, restaged or
\* reordered.
THEOREM SandboxSound == Spec => []SInv
  BY InitSound, NextSound, PTL DEF Spec

-----------------------------------------------------------------------------
(* What the theorems of SandboxSound say *)

\* Every variable has its type.
THEOREM SnapshotTypeCorrect == Spec => []TypeOK
  <1>1. SInv => TypeOK
    <2> SUFFICES ASSUME SInv PROVE TypeOK
      OBVIOUS
    <2>1. sb # None => /\ sb.key \in Keys /\ sb.signature \in Sources
                       /\ sb.cursor \in 0..Len(sb.jobs)
      BY FieldTypes DEF SInv
    <2>2. \A e \in emitted : e.key \in Keys
             /\ e.id[1] \in {"oracle", "legal", "manifest", "manifest_expected"}
      BY DEF SInv, LogSound, LogRecords, RecordIds
    <2> QED BY <2>1, <2>2 DEF SInv, CaptureSound, TypeOK
  <1> QED BY <1>1, SandboxSound, PTL

\* pump's loop ends: whatever the state of the queue, a drained one is given more
\* jobs, or the snapshot is over.
THEOREM PumpAlwaysEnds == Spec => []PumpNeverSpins
  <1>1. SInv => PumpNeverSpins
    <2> SUFFICES ASSUME SInv, sb # None, Spins(sb) PROVE FALSE
      BY DEF PumpNeverSpins
    <2>1. PICK s : s = sb
      OBVIOUS
    <2>2. Sound(s) /\ Drained(s) /\ ~s.finalizing /\ WithManifest(s) = s
      BY <2>1 DEF SInv, Spins
    <2>3. CASE s.complete
      <3>1. WithManifest(s).finalizing = TRUE
        BY <2>2, <2>3 DEF WithManifest, Sound, Sandboxes
      <3> QED BY <2>2, <3>1
    <2>4. CASE ~s.complete /\ ~s.scheduled
      <3>1. WithManifest(s).scheduled = TRUE
        BY <2>2, <2>4 DEF WithManifest, Sound, Sandboxes
      <3> QED BY <2>2, <2>4, <3>1
    <2>5. CASE ~s.complete /\ s.scheduled
      <3>1. Waits(s, Build)
        BY <2>2, <2>5 DEF Sound, NothingForgotten
      <3> QED BY <2>2, <3>1, FieldTypes DEF Waits, Pending, Drained
    <2> QED BY <2>3, <2>4, <2>5
  <1> QED BY <1>1, SandboxSound, PTL

LEMMA WrittenNow ==
    ASSUME OnUpdate, NEW e \in emitted' \ emitted
    PROVE  commandReady /\ e.key = Key(cap') /\ source = cap'.signature
  <1>1. PICK c : c = Observed /\ c = cap'
    BY DEF OnUpdate
  <1>2. PICK s : Pump(s, c)
    BY <1>1 DEF OnUpdate
  <1>3. /\ commandReady /\ s.key = Key(c) /\ Process(Refilled(s))
    BY <1>2 DEF Pump, Idle, output
  <1>4. PICK t : t = Refilled(s)
    OBVIOUS
  <1>5. PICK a, job : a.key = t.key /\ JobRecord(a, job)
    <2>1. PICK a, job : /\ a = [t EXCEPT !.cursor = @ + 1]
                        /\ JobRecord(a, job) \/ JobTransportError(a, job)
                           \/ JobDiscover(a, job) \/ JobBuild(a, job)
      BY <1>3, <1>4 DEF Process
    <2>2. JobRecord(a, job)
      BY <2>1 DEF JobTransportError, JobDiscover, JobBuild, output
    <2>3. a.key = t.key
      BY <2>1
    <2> QED BY <2>2, <2>3
  <1>6. e.key = a.key
    BY <1>5 DEF JobRecord, Emit, Body
  <1>7. t.key = s.key
    BY <1>4 DEF Refilled, WithManifest
  <1>8. c.signature = source
    BY <1>1, <1>3 DEF Observed
  <1> QED BY <1>1, <1>3, <1>5, <1>6, <1>7, <1>8

\* A record is only written while commands are accepted, of the generation and on
\* the source of the READY it belongs to: pump asks for all three before a job.
THEOREM RecordsKeepTheirGeneration == Spec => RecordsDescribeTheirGeneration
  <1>1. ASSUME OnUpdate, NEW e \in emitted' \ emitted
        PROVE  commandReady /\ e.key = Key(cap') /\ source = cap'.signature
    BY <1>1, WrittenNow
  <1>2. ASSUME [Next]_vars, NEW e \in emitted' \ emitted PROVE OnUpdate
    BY <1>2 DEF Next, Abandon, NextBattle, ToggleReadiness, ChangeSource, vars, output
  <1>3. [Next]_vars =>
           [ \A e \in emitted' \ emitted :
               /\ commandReady /\ e.key = Key(cap')
               /\ source = cap'.signature ]_vars
    BY <1>1, <1>2
  <1> QED BY <1>3, PTL DEF Spec, RecordsDescribeTheirGeneration

-----------------------------------------------------------------------------
(* The extractor *)

\* A set of natural numbers has a least element, because 0..n shrinks with n.
LEMMA LeastNatural ==
  ASSUME NEW S \in SUBSET Nat, S # {}
  PROVE  \E x \in S : \A y \in S : x <= y
  <1> DEFINE Below == { 0..n : n \in S }
  <1>1. IsWellFoundedOn(StrictSubsetOrdering(Nat), FiniteSubsetsOf(Nat))
    BY FS_StrictSubsetOrderingWellFounded
  <1>2. Below \subseteq FiniteSubsetsOf(Nat)
    <2>1. ASSUME NEW n \in S PROVE 0..n \in FiniteSubsetsOf(Nat)
      <3>1. IsFiniteSet(0..n)
        BY FS_Interval
      <3>2. 0..n \in SUBSET Nat
        OBVIOUS
      <3> QED BY <3>1, <3>2 DEF FiniteSubsetsOf
    <2> QED BY <2>1
  <1>3. Below # {}
    OBVIOUS
  <1>4. \E b \in Below : \A c \in Below : ~ (<<c, b>> \in StrictSubsetOrdering(Nat))
    <2> HIDE DEF Below
    <2> QED BY <1>1, <1>2, <1>3, WFMin
  <1>5. PICK b \in Below : \A c \in Below : ~ (<<c, b>> \in StrictSubsetOrdering(Nat))
    BY <1>4
  <1>6. PICK x \in S : b = 0..x
    OBVIOUS
  <1>7. ASSUME NEW y \in S, y < x PROVE FALSE
    <2>1. 0..y \in Below /\ 0..y \subseteq 0..x /\ 0..y # 0..x
      <3>1. x \in Nat /\ y \in Nat /\ y < x
        BY <1>7
      <3>2. x \in 0..x /\ x \notin 0..y /\ \A i \in 0..y : i \in 0..x
        BY <3>1
      <3>3. 0..y # 0..x
        BY <3>2, Zenon
      <3>4. 0..y \in Below
        BY Zenon
      <3> QED BY <3>2, <3>3, <3>4, Zenon
    <2>2. 0..y \in SUBSET Nat /\ 0..x \in SUBSET Nat
      OBVIOUS
    <2>3. <<0..y, 0..x>> \in StrictSubsetOrdering(Nat)
      BY <2>1, <2>2, Zenon DEF StrictSubsetOrdering
    <2> QED BY <1>5, <1>6, <2>1, <2>3
  <1> QED BY <1>7


\* Induction, of a set rather than of a predicate.
LEMMA SetInduction ==
  ASSUME NEW S \in SUBSET Nat, 0 \in S, \A n \in S : n + 1 \in S
  PROVE  S = Nat
  <1> SUFFICES ASSUME Nat \ S # {} PROVE FALSE
    OBVIOUS
  <1>1. PICK x \in Nat \ S : \A y \in Nat \ S : x <= y
    BY LeastNatural
  <1>2. x # 0 /\ x - 1 \in Nat
    BY <1>1
  <1>3. x - 1 \in S
    BY <1>1, <1>2
  <1> QED BY <1>1, <1>3


LEMMA GreatestBelow ==
  ASSUME NEW n \in Nat, NEW S \in SUBSET (0..n), S # {}
  PROVE  \E x \in S : \A y \in S : x >= y
  <1> DEFINE B == { b \in Nat : \A y \in S : y <= b }
  <1>1. n \in B
    OBVIOUS
  <1>2. PICK b \in B : \A c \in B : b <= c
    BY <1>1, LeastNatural
  <1>3. b \in S
    <2>1. SUFFICES ASSUME b \notin S PROVE FALSE
      OBVIOUS
    <2>2. \A y \in S : y <= b - 1
      BY <2>1
    <2>3. b - 1 \in Nat
      <3>1. PICK y \in S : TRUE
        OBVIOUS
      <3> QED BY <2>2, <3>1, y \in 0..n
    <2> QED BY <1>2, <2>2, <2>3
  <1> QED BY <1>3

\* There is a newest generation among those that assemble.
LEMMA NewestAssembles ==
    ASSUME LogSound, Complete # {}
    PROVE  \E k \in Complete : \A j \in Complete : j = k \/ After(k, j)
  <1>1. Complete \subseteq Keys
    BY DEF Complete, LogSound, LogRecords
  <1>2. /\ MaxBattles \in Nat /\ MaxStaged \in Nat
        /\ \A k \in Complete : /\ k = <<k[1], k[2]>>
                               /\ k[1] \in 0..MaxBattles /\ k[2] \in 0..MaxStaged
    BY <1>1, SandboxSizes DEF Keys
  <1> HIDE DEF Complete
  <1> DEFINE B == { k[1] : k \in Complete }
  <1>a. B # {} /\ B \in SUBSET (0..MaxBattles)
    BY <1>2
  <1>3. PICK b \in B : \A y \in B : b >= y
    BY <1>2, <1>a, GreatestBelow
  <1> DEFINE G == { k[2] : k \in { j \in Complete : j[1] = b } }
  <1>4. G # {} /\ G \in SUBSET (0..MaxStaged)
    BY <1>2
  <1>5. PICK g \in G : \A y \in G : g >= y
    BY <1>2, <1>4, GreatestBelow
  <1>6. PICK k \in Complete : k[1] = b /\ k[2] = g
    OBVIOUS
  <1>7. ASSUME NEW j \in Complete PROVE j = k \/ After(k, j)
    <2>1. b >= j[1] /\ (j[1] = b => g >= j[2])
      BY <1>3, <1>5
    <2>2. j = <<j[1], j[2]>> /\ k = <<b, g>> /\ j[1] \in Nat /\ j[2] \in Nat
          /\ b \in Nat /\ g \in Nat
      BY <1>2, <1>6
    <2> QED BY <1>6, <2>1, <2>2 DEF After
  <1> QED BY <1>7

\* The recursive function behind FoldLeft, over the positions of s up to n.
Folding(m, s, n, it) ==
    it = [t \in SUBSET (1..n) |->
            IF t = {} THEN m ELSE Join(it[t \ {Max(t)}], s[Max(t)])]

LEMMA MaxOfPositions ==
  ASSUME NEW n \in Nat, NEW t \in SUBSET (1..n), t # {}
  PROVE  /\ Max(t) \in t /\ \A y \in t : Max(t) >= y
         /\ \A x \in t : (\A y \in t : x >= y) => x = Max(t)
  <1>1. \E x \in t : \A y \in t : x >= y
    <2>1. t \in SUBSET (0..n)
      OBVIOUS
    <2> QED BY <2>1, GreatestBelow
  <1>2. Max(t) \in t /\ \A y \in t : Max(t) >= y
    BY <1>1 DEF Max
  <1>3. ASSUME NEW x \in t, \A y \in t : x >= y PROVE x = Max(t)
    BY <1>2, <1>3, x \in 1..n, Max(t) \in 1..n
  <1> QED BY <1>2, <1>3

LEMMA FoldingExists ==
  ASSUME NEW m, NEW s
  PROVE  \A n \in Nat : \E it : Folding(m, s, n, it)
  <1> DEFINE S == { n \in Nat : \E it : Folding(m, s, n, it) }
  <1>1. 0 \in S
    <2> DEFINE g == [t \in SUBSET (1..0) |-> m]
    <2>1. \A t \in SUBSET (1..0) : t = {}
      OBVIOUS
    <2>2. g = [t \in SUBSET (1..0) |->
                 IF t = {} THEN m ELSE Join(g[t \ {Max(t)}], s[Max(t)])]
      BY <2>1
    <2>3. Folding(m, s, 0, g)
      BY <2>2 DEF Folding
    <2> HIDE DEF g
    <2> QED BY <2>3
  <1>2. ASSUME NEW n \in S PROVE n + 1 \in S
    <2>1. PICK h : Folding(m, s, n, h)
      OBVIOUS
    <2> DEFINE g == [t \in SUBSET (1..(n + 1)) |->
                       IF n + 1 \in t THEN Join(h[t \ {n + 1}], s[n + 1]) ELSE h[t]]
    <2>2. \A t \in SUBSET (1..n) :
             h[t] = IF t = {} THEN m ELSE Join(h[t \ {Max(t)}], s[Max(t)])
      BY <2>1, Zenon DEF Folding
    <2>3. ASSUME NEW t \in SUBSET (1..(n + 1))
          PROVE  g[t] = IF t = {} THEN m ELSE Join(g[t \ {Max(t)}], s[Max(t)])
      <3>1. CASE n + 1 \in t
        <4>1. \A y \in t : n + 1 >= y
          OBVIOUS
        <4>2. Max(t) = n + 1
          BY <3>1, <4>1, MaxOfPositions
        <4>3. /\ t \ {n + 1} \in SUBSET (1..(n + 1)) /\ n + 1 \notin t \ {n + 1}
              /\ t # {}
          BY <3>1
        <4>4. g[t \ {n + 1}] = h[t \ {n + 1}]
          BY <4>3
        <4>5. g[t] = Join(h[t \ {n + 1}], s[n + 1])
          BY <3>1
        <4> QED BY <4>2, <4>3, <4>4, <4>5
      <3>2. CASE n + 1 \notin t /\ t # {}
        <4>1. t \in SUBSET (1..n)
          BY <3>2
        <4>2. /\ t \ {Max(t)} \in SUBSET (1..(n + 1))
              /\ n + 1 \notin t \ {Max(t)}
          BY <3>2
        <4>3. g[t] = h[t] /\ g[t \ {Max(t)}] = h[t \ {Max(t)}]
          BY <3>2, <4>2
        <4> HIDE DEF g
        <4> QED BY <2>2, <3>2, <4>1, <4>3
      <3>3. CASE t = {}
        <4>1. t \in SUBSET (1..n) /\ n + 1 \notin t
          BY <3>3
        <4>2. g[t] = h[t]
          BY <4>1
        <4> QED BY <2>2, <3>3, <4>1, <4>2
      <3> QED BY <3>1, <3>2, <3>3
    <2>4. g = [t \in SUBSET (1..(n + 1)) |->
                 IF t = {} THEN m ELSE Join(g[t \ {Max(t)}], s[Max(t)])]
      BY <2>3
    <2>5. Folding(m, s, n + 1, g)
      BY <2>4 DEF Folding
    <2> HIDE DEF g
    <2> QED BY <2>5
  <1> HIDE DEF S
  <1>3. S = Nat
    BY <1>1, <1>2, SetInduction DEF S
  <1> QED BY <1>3 DEF S

\* What the fold has joined after k shards.
Stepwise(m, s, n, it) ==
    /\ it[1..0] = m
    /\ \A k \in 0..n : k < n => it[1..(k + 1)] = Join(it[1..k], s[k + 1])

LEMMA FoldingStep ==
  ASSUME NEW m, NEW s, NEW n \in Nat, NEW it, Folding(m, s, n, it)
  PROVE  Stepwise(m, s, n, it)
  <1>1. \A t \in SUBSET (1..n) :
           it[t] = IF t = {} THEN m ELSE Join(it[t \ {Max(t)}], s[Max(t)])
    BY Zenon DEF Folding
  <1>2. it[1..0] = m
    <2>1. 1..0 = {} /\ 1..0 \in SUBSET (1..n)
      OBVIOUS
    <2> QED BY <1>1, <2>1
  <1>3. ASSUME NEW k \in 0..n, k < n
        PROVE  it[1..(k + 1)] = Join(it[1..k], s[k + 1])
    <2>1. /\ 1..(k + 1) \in SUBSET (1..n) /\ k + 1 \in 1..(k + 1)
          /\ \A y \in 1..(k + 1) : k + 1 >= y
          /\ (1..(k + 1)) \ {k + 1} = 1..k
      BY <1>3
    <2>2. 1..(k + 1) # {}
      BY <2>1
    <2>3. Max(1..(k + 1)) = k + 1
      BY <2>1, <2>2, MaxOfPositions
    <2> QED BY <1>1, <2>1, <2>2, <2>3
  <1> QED BY <1>2, <1>3 DEF Stepwise

LEMMA FoldIsFolding ==
  ASSUME NEW m, NEW S, NEW s \in Seq(S)
  PROVE  \E it : Folding(m, s, Len(s), it) /\ FoldLeft(Join, m, s) = it[1..Len(s)]
  <1>1. DOMAIN s = 1..Len(s) /\ Len(s) \in Nat
    OBVIOUS
  <1>2. FoldLeft(Join, m, s) = (CHOOSE it : Folding(m, s, Len(s), it))[1..Len(s)]
    BY <1>1, Zenon DEF Folding, FoldLeft, MapThenFoldSet
  <1>3. Folding(m, s, Len(s), CHOOSE it : Folding(m, s, Len(s), it))
    BY <1>1, FoldingExists
  <1> QED BY <1>2, <1>3

\* What FoldLeft(Join, ...) makes of lists: each is in the result, in its order.
JoinsUp(s, it) ==
    /\ it[0] = <<>>
    /\ \A k \in 0..Len(s) : k < Len(s) => it[k + 1] = it[k] \o s[k + 1]

LEMMA JoinedUp ==
  ASSUME NEW S, NEW s \in Seq(S)
  PROVE  \E it : JoinsUp(s, it) /\ FoldLeft(Join, <<>>, s) = it[Len(s)]
  <1>1. Len(s) \in Nat
    OBVIOUS
  <1>2. PICK f : Folding(<<>>, s, Len(s), f) /\ FoldLeft(Join, <<>>, s) = f[1..Len(s)]
    BY FoldIsFolding
  <1>3. Stepwise(<<>>, s, Len(s), f)
    BY <1>1, <1>2, FoldingStep
  <1> DEFINE it == [k \in 0..Len(s) |-> f[1..k]]
  <1>4. \A k \in 0..Len(s) : it[k] = f[1..k]
    OBVIOUS
  <1>5. 0 \in 0..Len(s) /\ Len(s) \in 0..Len(s)
        /\ \A k \in 0..Len(s) : k < Len(s) => k + 1 \in 0..Len(s)
    BY <1>1
  <1> HIDE DEF it
  <1>6. JoinsUp(s, it)
    BY <1>3, <1>4, <1>5 DEF Stepwise, JoinsUp, Join
  <1> QED BY <1>2, <1>4, <1>5, <1>6

\* Every shard in the log is in the list that the extractor reads.
LEMMA NothingLost ==
  ASSUME NEW s \in Seq(Seq(RecordIds)), NEW i \in DOMAIN s, NEW p \in DOMAIN s[i]
  PROVE  s[i][p] \in Range(FoldLeft(Join, <<>>, s))
  <1>1. Len(s) \in Nat /\ DOMAIN s = 1..Len(s) /\ \A k \in 1..Len(s) : s[k] \in Seq(RecordIds)
    OBVIOUS
  <1>2. PICK it : JoinsUp(s, it) /\ FoldLeft(Join, <<>>, s) = it[Len(s)]
    BY JoinedUp
  <1> DEFINE Held(k) == /\ it[k] \in Seq(RecordIds)
                        /\ \A j \in 1..k : \A q \in DOMAIN s[j] :
                              \E h \in DOMAIN it[k] : it[k][h] = s[j][q]
             K == { k \in Nat : k <= Len(s) => Held(k) }
  <1>3. 0 \in K
    <2>1. it[0] = <<>> /\ 1..0 = {}
      BY <1>2 DEF JoinsUp
    <2>2. Held(0)
      BY <2>1
    <2> QED BY <2>2
  <1>4. ASSUME NEW k \in K PROVE k + 1 \in K
    <2>1. SUFFICES ASSUME k + 1 <= Len(s) PROVE Held(k + 1)
      OBVIOUS
    <2>2. /\ Held(k) /\ k + 1 \in 1..Len(s) /\ k \in 0..Len(s) /\ k < Len(s)
      BY <1>1, <2>1
    <2>3. it[k + 1] = it[k] \o s[k + 1] /\ s[k + 1] \in Seq(RecordIds)
      BY <1>1, <1>2, <2>2 DEF JoinsUp
    <2>4. PICK a \in Seq(RecordIds) : a = it[k]
      BY <2>2
    <2>5. PICK b \in Seq(RecordIds) : b = s[k + 1]
      BY <2>3
    <2>6. PICK c : c = it[k + 1]
      OBVIOUS
    <2>7. c = a \o b
      BY <2>3, <2>4, <2>5, <2>6
    <2>8. c \in Seq(RecordIds) /\ Joins(a, b, c)
      BY <2>7, Joined
    <2>9. /\ \A j \in DOMAIN a : j \in DOMAIN c /\ c[j] = a[j]
          /\ \A j \in DOMAIN b : Len(a) + j \in DOMAIN c /\ c[Len(a) + j] = b[j]
      BY <2>8, JoinedPlaces
    <2>10. ASSUME NEW j \in 1..(k + 1), NEW q \in DOMAIN s[j]
           PROVE  \E h \in DOMAIN c : c[h] = s[j][q]
      <3>1. CASE j = k + 1
        BY <2>5, <2>9, <3>1
      <3>2. CASE j # k + 1
        <4>1. j \in 1..k
          BY <3>2
        <4>2. PICK h \in DOMAIN a : a[h] = s[j][q]
          BY <2>2, <2>4, <4>1
        <4> QED BY <2>9, <4>2
      <3> QED BY <3>1, <3>2
    <2> QED BY <2>6, <2>8, <2>10
  <1> HIDE DEF K
  <1>5. K = Nat
    BY <1>3, <1>4, SetInduction DEF K
  <1>6. Held(Len(s))
    BY <1>1, <1>5 DEF K
  <1>7. PICK h \in DOMAIN it[Len(s)] : it[Len(s)][h] = s[i][p]
    BY <1>1, <1>6
  <1> QED BY <1>2, <1>7 DEF Range

LEMMA ProductsGrow ==
    ASSUME NEW a \in Nat, NEW b \in Nat, NEW c \in Nat, a <= b
    PROVE  a * c <= b * c
  OBVIOUS

LEMMA Quotients ==
    ASSUME NEW a \in Nat, NEW c \in Nat, c > 0
    PROVE  /\ a \div c \in Nat
           /\ (a \div c) * c <= a /\ a < ((a \div c) + 1) * c
  OBVIOUS

\* The shard that holds position p of what is expected.
LEMMA ShardOf ==
    ASSUME NEW s, s.expected \in Seq(RecordIds), NEW p \in 1..Len(s.expected)
    PROVE  \E i \in 0..(ShardCount(s) - 1) :
              \E q \in DOMAIN ShardPart(s, i) : ShardPart(s, i)[q] = s.expected[p]
  <1> DEFINE L == Len(s.expected)
             i == (p - 1) \div ShardSize
             m == ShardCount(s)
  <1>1. L \in Nat /\ p \in Nat /\ p >= 1 /\ p <= L /\ ShardSize \in Nat /\ ShardSize > 0
        /\ p - 1 \in Nat /\ L + ShardSize - 1 \in Nat
    BY SandboxSizes
  <1>2. i \in Nat /\ i * ShardSize <= p - 1 /\ p - 1 < (i + 1) * ShardSize
    BY <1>1, Quotients
  <1>3. m \in Nat /\ L + ShardSize - 1 < (m + 1) * ShardSize
    BY <1>1, Quotients DEF ShardCount
  <1> HIDE DEF i, m, L
  <1>4. /\ i * ShardSize \in Nat /\ m * ShardSize \in Nat
        /\ (m + 1) * ShardSize = m * ShardSize + ShardSize
    BY <1>1, <1>2, <1>3
  <1>5. i < m
    <2>1. SUFFICES ASSUME m <= i PROVE FALSE
      BY <1>2, <1>3
    <2>2. m * ShardSize <= i * ShardSize
      BY <1>1, <1>2, <1>3, <2>1, ProductsGrow
    <2> QED BY <1>1, <1>2, <1>3, <1>4, <2>2
  <1> DEFINE first == i * ShardSize + 1
             end == (i + 1) * ShardSize
             last == IF end < L THEN end ELSE L
  <1>6. first \in Nat /\ first >= 1 /\ first <= p /\ end \in Nat /\ p <= end
    BY <1>1, <1>2, <1>4, Products
  <1> HIDE DEF first, end
  <1>7. last \in Nat /\ p <= last /\ last <= L
    BY <1>1, <1>6
  <1> HIDE DEF last
  <1>8. ShardPart(s, i) = SubSeq(s.expected, first, last)
    BY DEF ShardPart, first, end, last, L
  <1>9. /\ DOMAIN SubSeq(s.expected, first, last) = 1..(last - first + 1)
        /\ \A q \in 1..(last - first + 1) :
              SubSeq(s.expected, first, last)[q] = s.expected[first + q - 1]
    BY <1>1, <1>6, <1>7 DEF L
  <1>10. p - first + 1 \in 1..(last - first + 1) /\ first + (p - first + 1) - 1 = p
    BY <1>1, <1>6, <1>7
  <1>11. i \in 0..(m - 1)
    BY <1>2, <1>3, <1>5
  <1> QED BY <1>8, <1>9, <1>10, <1>11 DEF m

LEMMA OfItsRecord ==
    ASSUME NEW e \in emitted,
           \A f, g \in emitted : f.key = g.key /\ f.id = g.id => f = g
    PROVE  Of(e.key, e.id) = e
  BY DEF Of, RecordsOf

\* The extractor never hands out a partial snapshot: a manifest in the log goes
\* back to a sandbox state in which nothing was forgotten, its shards spell out
\* what that state expected, and each of those records has to be in the log.
THEOREM ExtractedIsWhole == Spec => []SnapshotIsWhole
  <1>1. SInv => SnapshotIsWhole
    <2> SUFFICES ASSUME SInv, Extracted # None
                 PROVE  OracleIds \cup {LegalSeq[1]} \subseteq Ids(RecordsOf(Extracted))
      BY DEF SnapshotIsWhole
    <2>1. PICK k : k = Extracted
      OBVIOUS
    <2>2. ~duplicated /\ LogSound /\ Complete # {}
      BY DEF SInv, Extracted
    <2>3. k \in Complete /\ Assembles(k)
      BY <2>1, <2>2, NewestAssembles DEF Extracted, Complete
    <2>4. PICK root \in emitted : root.key = k /\ root.id = Root
      BY <2>3 DEF Assembles, Ids, RecordsOf
    <2>5. /\ emitted \in SUBSET LogRecords
          /\ \A e, f \in emitted : e.key = f.key /\ e.id = f.id => e = f
          /\ \A e \in emitted : e.id = Root /\ e.ok => Backed(e)
      BY <2>2 DEF LogSound
    <2>6. Of(k, Root) = root
      BY <2>4, <2>5, OfItsRecord
    <2>7. root.ok /\ Backed(root)
      BY <2>3, <2>4, <2>5, <2>6 DEF Assembles
    <2>8. PICK s \in Sandboxes :
             /\ \A i \in 0..Oracle : Expects(s, <<"oracle", i>>)
             /\ Expects(s, <<"legal", 0>>)
             /\ root.list = ShardIds(s)
             /\ \A f \in emitted :
                   f.key = k /\ f.id[1] = "manifest_expected" => f.list = ShardPart(s, f.id[2])
      BY <2>4, <2>7 DEF Backed
    <2>9. PICK shards \in Seq(RecordIds) : shards = ShardIds(s)
      BY <2>8, ShardCounts DEF Sandboxes
    <2>10. /\ DOMAIN shards = 1..ShardCount(s) /\ ShardCount(s) \in Nat
           /\ \A i \in 1..ShardCount(s) : shards[i] = Shard(i - 1)
      BY <2>8, <2>9, ShardCounts DEF Sandboxes, ShardIds
    <2>11. ASSUME NEW i \in 1..ShardCount(s)
           PROVE  Of(k, shards[i]).list = ShardPart(s, i - 1)
      <3>1. shards[i] \in Ids(RecordsOf(k))
        BY <2>3, <2>6, <2>8, <2>9, <2>10 DEF Assembles
      <3>2. PICK e \in emitted : e.key = k /\ e.id = shards[i]
        BY <3>1 DEF Ids, RecordsOf
      <3>3. Of(k, shards[i]) = e
        BY <2>5, <3>2, OfItsRecord
      <3>4. e.id[1] = "manifest_expected" /\ e.id[2] = i - 1
        BY <2>10, <3>2 DEF Shard
      <3> QED BY <2>8, <3>2, <3>3, <3>4
    <2>12. PICK lists : lists = [i \in DOMAIN shards |-> Of(k, shards[i]).list]
      OBVIOUS
    <2>13. lists \in Seq(Seq(RecordIds)) /\ DOMAIN lists = 1..ShardCount(s)
           /\ \A i \in 1..ShardCount(s) : lists[i] = ShardPart(s, i - 1)
      <3>1. \A i \in 1..ShardCount(s) : ShardPart(s, i - 1) \in Seq(RecordIds)
        BY <2>8, <2>10, ShardParts DEF Sandboxes
      <3>2. lists \in [1..ShardCount(s) -> Seq(RecordIds)]
        BY <2>10, <2>11, <2>12, <3>1
      <3> QED BY <2>10, <2>11, <2>12, <3>2
    <2>14. Listed(k, shards) = FoldLeft(Join, <<>>, lists)
      BY <2>12 DEF Listed
    <2>15. ASSUME NEW id, Expects(s, id) PROVE id \in Ids(RecordsOf(k))
      <3>1. PICK p \in 1..Len(s.expected) : s.expected[p] = id
        BY <2>8, <2>15 DEF Expects, Sandboxes
      <3>2. PICK i \in 0..(ShardCount(s) - 1) :
               \E q \in DOMAIN ShardPart(s, i) : ShardPart(s, i)[q] = s.expected[p]
        BY <2>8, ShardOf DEF Sandboxes
      <3>3. i + 1 \in 1..ShardCount(s) /\ (i + 1) - 1 = i
        BY <2>10
      <3>4. lists[i + 1] = ShardPart(s, i)
        BY <2>13, <3>3
      <3>5. id \in Range(FoldLeft(Join, <<>>, lists))
        BY <2>13, <3>1, <3>2, <3>3, <3>4, NothingLost
      <3>6. \A x \in Range(Listed(k, shards)) : x \in Ids(RecordsOf(k))
        BY <2>3, <2>6, <2>8, <2>9 DEF Assembles
      <3> QED BY <2>14, <3>5, <3>6
    <2>16. ASSUME NEW id \in OracleIds PROVE Expects(s, id)
      BY <2>8 DEF OracleIds
    <2> QED BY <2>1, <2>8, <2>15, <2>16, LegalRecords
  <1> QED BY <1>1, SandboxSound, PTL

-----------------------------------------------------------------------------
(* A snapshot that begin did not disturb *)

\* One build and one discovery at a time, the build after the discovery.
OneAtATime(s) ==
    /\ \A i, j \in Pending(s) :
          s.jobs[i].kind # "record" /\ s.jobs[j].kind = s.jobs[i].kind => i = j
    /\ s.complete => ~Waits(s, Build)
    /\ s.scheduled => \A i \in Pending(s) : s.jobs[i].kind # "discover"

\* No record is queued twice.
RecordsDiffer(s) ==
    /\ \A i, j \in DOMAIN s.jobs :
          s.jobs[i].kind = "record" /\ s.jobs[i] = s.jobs[j] => i = j
    /\ \A i, j \in DOMAIN s.expected : s.expected[i] = s.expected[j] => i = j

\* Oracle records come in the order of their discovery, the legal ones after them.
DiscoveryInOrder(s) ==
    /\ \A i \in DOMAIN s.jobs, j \in Pending(s) :
          /\ s.jobs[i].kind = "record" /\ s.jobs[i].id[1] = "oracle"
          /\ s.jobs[j].kind = "discover"
          => s.jobs[i].id[2] < s.jobs[j].id[2]
    /\ ~s.complete => \A i \in DOMAIN s.jobs :
          s.jobs[i].kind = "record" => s.jobs[i].id[1] = "oracle"

\* What is expected is queued, the manifest behind it all.
QueueHoldsAll(s) ==
    /\ \A i \in DOMAIN s.expected : \E j \in DOMAIN s.jobs : s.jobs[j] = Record(s.expected[i])
    /\ s.finalizing =>
          /\ s.shards = ShardIds(s)
          /\ \A i \in DOMAIN s.shards : \E j \in DOMAIN s.jobs : s.jobs[j] = Record(s.shards[i])
          /\ \A j \in DOMAIN s.jobs : s.jobs[j] = Record(Root) => j = Len(s.jobs)

\* The log holds the records that were processed, and no others.
LogFollows(s) ==
    /\ \A e \in emitted : e.key = s.key =>
          \E i \in DOMAIN s.jobs : i <= s.cursor /\ s.jobs[i] = Record(e.id)
    /\ \A i \in DOMAIN s.jobs : i <= s.cursor /\ s.jobs[i].kind = "record" =>
          \E e \in emitted : e.key = s.key /\ e.id = s.jobs[i].id /\ (e.id # Root => e.ok)

Undisturbed(s) ==
    /\ OneAtATime(s) /\ RecordsDiffer(s) /\ DiscoveryInOrder(s)
    /\ QueueHoldsAll(s) /\ LogFollows(s)

UInv ==
    /\ \A e \in emitted :
          /\ e.key \in staged
          /\ e.key = Key(cap) \/ After(Key(cap), e.key)
    /\ ~disturbed =>
          /\ ~duplicated
          /\ sb # None => Undisturbed(sb)
          /\ \A k : status.kind = "complete" /\ status.key = k =>
                /\ Assembles(k)
                /\ \A e \in emitted : e.key = k \/ After(k, e.key)

LEMMA StagedUndisturbed ==
    ASSUME NEW c, \A e \in emitted : e.key # Key(c)
    PROVE  Undisturbed(Staged(c))
  <1> DEFINE s == Staged(c)
  <1>1. /\ s.key = Key(c) /\ s.cursor = 0
        /\ s.jobs = <<Record(<<"oracle", 0>>), Discover(1)>>
        /\ s.expected = << <<"oracle", 0>> >>
        /\ s.finalizing = FALSE /\ s.scheduled = FALSE /\ s.complete = FALSE
    BY DEF Staged
  <1> HIDE DEF s
  <1>2. /\ DOMAIN s.jobs = {1, 2} /\ Pending(s) = {1, 2}
        /\ s.jobs[1] = Record(<<"oracle", 0>>) /\ s.jobs[2] = Discover(1)
        /\ DOMAIN s.expected = {1} /\ s.expected[1] = <<"oracle", 0>>
    BY <1>1 DEF Pending
  <1>3. /\ s.jobs[1].kind = "record" /\ s.jobs[1].id[1] = "oracle" /\ s.jobs[1].id[2] = 0
        /\ s.jobs[2].kind = "discover" /\ s.jobs[2].id[2] = 1
    BY <1>2, KindsDiffer
  <1>4. OneAtATime(s)
    BY <1>1, <1>2, <1>3 DEF OneAtATime
  <1>5. RecordsDiffer(s) /\ DiscoveryInOrder(s)
    BY <1>1, <1>2, <1>3 DEF RecordsDiffer, DiscoveryInOrder
  <1>6. QueueHoldsAll(s)
    BY <1>1, <1>2 DEF QueueHoldsAll
  <1>7. LogFollows(s)
    BY <1>1, <1>2 DEF LogFollows
  <1> QED BY <1>4, <1>5, <1>6, <1>7 DEF Undisturbed, s

LEMMA BuildLastUndisturbed ==
    ASSUME NEW s, Sound(s), Undisturbed(s), Build \notin Processed(s)
    PROVE  Undisturbed(BuildLast(s))
  <1>1. CASE \A i \in DOMAIN s.jobs : s.jobs[i] # Build
    <2>1. BuildLast(s) = s
      BY <1>1 DEF BuildLast, Range
    <2> QED BY <2>1
  <1>2. CASE \E i \in DOMAIN s.jobs : s.jobs[i] = Build
    <2>1. PICK t : t = BuildLast(s)
      OBVIOUS
    <2>2. Reordered(s, t)
      BY <2>1, BuildLastSound
    <2>3. PICK i \in DOMAIN s.jobs : s.jobs[i] = Build /\ Shifted(s.jobs, t.jobs, i, Build)
      BY <1>2, <2>1, BuildLastMoves
    <2>4. PICK n \in Nat : n = Len(s.jobs)
      BY FieldTypes
    <2>5. /\ s.jobs \in Seq(Jobs) /\ t.jobs \in Seq(Jobs) /\ s.cursor \in Nat
          /\ DOMAIN s.jobs = 1..n /\ DOMAIN t.jobs = 1..n /\ i \in 1..n
          /\ t.key = s.key /\ t.cursor = s.cursor /\ t.expected = s.expected
          /\ t.shards = s.shards /\ t.finalizing = s.finalizing
          /\ t.scheduled = s.scheduled /\ t.complete = s.complete
      BY <2>2, <2>4, FieldTypes DEF Reordered, Sandboxes
    <2>6. i > s.cursor
      BY <2>3, <2>5 DEF Processed
    <2>7. Waits(s, Build)
      BY <2>3, <2>5, <2>6 DEF Waits, Pending
    <2>8. ~s.complete /\ ~s.finalizing /\ s.scheduled
      BY <2>3, <2>7 DEF Undisturbed, OneAtATime, Sound, PhasesInOrder
    <2>9. /\ \A j \in 1..n : j < i => t.jobs[j] = s.jobs[j]
          /\ \A j \in 1..n : i <= j /\ j < n => t.jobs[j] = s.jobs[j + 1]
          /\ t.jobs[n] = Build
      BY <2>3, <2>4 DEF Shifted
    <2> DEFINE From(j) == IF j < i THEN j ELSE j + 1
    <2>10. \A j \in 1..n : j # n =>
              From(j) \in 1..n /\ From(j) # i /\ From(j) >= j /\ t.jobs[j] = s.jobs[From(j)]
      BY <2>5, <2>9
    <2>11. \A j, h \in 1..n : From(j) = From(h) => j = h
      BY <2>5
    <2>12. \A h \in 1..n : h # i => \E j \in 1..n : t.jobs[j] = s.jobs[h]
      <3> SUFFICES ASSUME NEW h \in 1..n, h # i PROVE \E j \in 1..n : t.jobs[j] = s.jobs[h]
        OBVIOUS
      <3>1. CASE h < i
        BY <2>9, <3>1
      <3>2. CASE h > i
        <4>1. h - 1 \in 1..n /\ i <= h - 1 /\ h - 1 < n /\ (h - 1) + 1 = h
          BY <2>5, <3>2
        <4> QED BY <2>9, <4>1
      <3> QED BY <2>5, <3>1, <3>2
    <2> HIDE DEF From
    <2>13. \A j \in Pending(t) : j # n => From(j) \in Pending(s) /\ t.jobs[j] = s.jobs[From(j)]
      BY <2>5, <2>10 DEF Pending
    <2>14. \A j \in Pending(t) : t.jobs[j].kind # "discover"
      <3>1. \A j \in Pending(s) : s.jobs[j].kind # "discover"
        BY <2>8 DEF Undisturbed, OneAtATime
      <3> QED BY <2>9, <2>13, <3>1, KindsDiffer
    <2>15. \A j \in Pending(t) : t.jobs[j].kind = "record" \/ j = n
      <3> SUFFICES ASSUME NEW j \in Pending(t), t.jobs[j].kind # "record", j # n PROVE FALSE
        OBVIOUS
      <3>1. From(j) \in Pending(s) /\ From(j) # i /\ t.jobs[j] = s.jobs[From(j)]
        BY <2>5, <2>10, <2>13 DEF Pending
      <3>2. t.jobs[j] \in Jobs
        BY <2>5 DEF Pending
      <3>3. s.jobs[From(j)].kind = s.jobs[i].kind /\ s.jobs[From(j)].kind # "record"
        BY <2>3, <2>14, <3>1, <3>2, JobTypes
      <3>4. i \in Pending(s)
        BY <2>5, <2>6 DEF Pending
      <3> QED BY <3>1, <3>3, <3>4 DEF Undisturbed, OneAtATime
    <2>16. OneAtATime(t)
      BY <2>5, <2>8, <2>14, <2>15 DEF OneAtATime
    <2>17. \A j \in 1..n : t.jobs[j].kind = "record" =>
              j # n /\ From(j) \in 1..n /\ t.jobs[j] = s.jobs[From(j)]
      BY <2>9, <2>10, KindsDiffer
    <2>18. RecordsDiffer(t)
      <3>1. ASSUME NEW j \in 1..n, NEW h \in 1..n, t.jobs[j].kind = "record", t.jobs[j] = t.jobs[h]
            PROVE  j = h
        <4>1. /\ From(j) \in 1..n /\ t.jobs[j] = s.jobs[From(j)]
              /\ From(h) \in 1..n /\ t.jobs[h] = s.jobs[From(h)]
          BY <2>17, <3>1
        <4>2. From(j) = From(h)
          BY <2>5, <3>1, <4>1 DEF Undisturbed, RecordsDiffer
        <4> QED BY <2>11, <4>2
      <3> QED BY <2>5, <3>1 DEF Undisturbed, RecordsDiffer
    <2>19. DiscoveryInOrder(t)
      BY <2>5, <2>14, <2>17 DEF Undisturbed, DiscoveryInOrder
    <2>20. QueueHoldsAll(t)
      <3>1. \A j \in 1..n : s.jobs[j].kind = "record" => j # i
        BY <2>3, KindsDiffer
      <3>2. ASSUME NEW k \in DOMAIN s.expected
            PROVE  \E j \in 1..n : t.jobs[j] = Record(s.expected[k])
        <4>1. PICK h \in 1..n : s.jobs[h] = Record(s.expected[k])
          BY <2>5 DEF Undisturbed, QueueHoldsAll
        <4>2. h # i
          BY <3>1, <4>1, KindsDiffer
        <4> QED BY <2>12, <4>1, <4>2
      <3> QED BY <2>5, <2>8, <3>2 DEF QueueHoldsAll
    <2>21. LogFollows(t)
      <3>1. \A j \in 1..n : j <= s.cursor => t.jobs[j] = s.jobs[j]
        BY <2>5, <2>6, <2>9
      <3> QED BY <2>5, <3>1 DEF Undisturbed, LogFollows
    <2> QED BY <2>1, <2>16, <2>18, <2>19, <2>20, <2>21 DEF Undisturbed
  <1> QED BY <1>1, <1>2

LEMMA SameLog ==
    ASSUME NEW s, NEW t, LogFollows(s), t.key = s.key, t.cursor = s.cursor,
           \A i \in DOMAIN s.jobs : i \in DOMAIN t.jobs /\ t.jobs[i] = s.jobs[i],
           \A i \in DOMAIN t.jobs : i <= s.cursor => i \in DOMAIN s.jobs
    PROVE  LogFollows(t)
  BY DEF LogFollows

LEMMA ReleasedUndisturbed ==
    ASSUME NEW s, Sound(s), Undisturbed(s), Drained(s), ~s.scheduled,
           NEW t, t = [s EXCEPT !.scheduled = TRUE, !.jobs = Append(@, Build)]
    PROVE  Undisturbed(t)
  <1>1. PICK n \in Nat : n = Len(s.jobs)
    BY FieldTypes
  <1>2. /\ s.jobs \in Seq(Jobs) /\ s.cursor = n /\ DOMAIN s.jobs = 1..n
    BY <1>1, FieldTypes DEF Drained
  <1>a. Append(s.jobs, Build) \in Seq(Jobs)
    BY <1>2, JobTypes
  <1>3. PICK q \in Seq(Jobs) : q = Append(s.jobs, Build)
    BY <1>a
  <1>4. /\ t.key = s.key /\ t.cursor = n /\ t.expected = s.expected
        /\ t.shards = s.shards /\ t.finalizing = s.finalizing
        /\ t.scheduled = TRUE /\ t.complete = s.complete /\ t.jobs = q
    <2>1. t = [s EXCEPT !.scheduled = TRUE, !.jobs = q] /\ s \in Sandboxes
      BY <1>3 DEF Sound, Sandboxes
    <2> QED BY <1>2, <2>1 DEF Sandboxes
  <1>5. /\ DOMAIN t.jobs = 1..(n + 1) /\ t.jobs[n + 1] = Build
        /\ \A j \in 1..n : t.jobs[j] = s.jobs[j] /\ j \in 1..(n + 1)
        /\ \A j \in 1..(n + 1) : j \in 1..n \/ j = n + 1
        /\ Pending(t) = {n + 1}
    <2>1. /\ DOMAIN t.jobs = 1..(n + 1) /\ t.jobs[n + 1] = Build
          /\ \A j \in 1..n : t.jobs[j] = s.jobs[j]
      BY <1>1, <1>2, <1>3, <1>4
    <2>2. Pending(t) = {n + 1}
      BY <1>4, <2>1 DEF Pending
    <2> QED BY <2>1, <2>2
  <1>6. ~s.complete /\ ~s.finalizing
    BY DEF Sound, PhasesInOrder
  <1>7. OneAtATime(t)
    BY <1>4, <1>5, <1>6, KindsDiffer DEF OneAtATime
  <1>8. \A j \in 1..(n + 1) : t.jobs[j].kind = "record" => j \in 1..n /\ t.jobs[j] = s.jobs[j]
    BY <1>5, KindsDiffer
  <1>9. RecordsDiffer(t)
    BY <1>2, <1>4, <1>5, <1>8 DEF Undisturbed, RecordsDiffer
  <1>10. DiscoveryInOrder(t)
    <2>1. \A j \in Pending(t) : t.jobs[j].kind # "discover"
      BY <1>5, KindsDiffer
    <2> QED BY <1>2, <1>4, <1>5, <1>8, <2>1 DEF Undisturbed, DiscoveryInOrder
  <1>11. QueueHoldsAll(t)
    BY <1>2, <1>4, <1>5, <1>6 DEF Undisturbed, QueueHoldsAll
  <1>12. LogFollows(t)
    BY <1>2, <1>4, <1>5, <1>8 DEF Undisturbed, LogFollows
  <1> QED BY <1>7, <1>9, <1>10, <1>11, <1>12 DEF Undisturbed

LEMMA ManifestUndisturbed ==
    ASSUME NEW s, Sound(s), Undisturbed(s), Drained(s), s.complete, ~s.finalizing
    PROVE  Undisturbed(WrittenManifest(s))
  <1>1. PICK n, m \in Nat : n = Len(s.jobs) /\ m = ShardCount(s)
    BY FieldTypes, ShardCounts
  <1>2. s.jobs \in Seq(Jobs) /\ s.cursor = n /\ DOMAIN s.jobs = 1..n /\ s.scheduled
    BY <1>1, FieldTypes DEF Drained, Sound, PhasesInOrder
  <1>3. PICK t : t = WrittenManifest(s)
    OBVIOUS
  <1>4. /\ t \in Sandboxes /\ t.key = s.key /\ t.cursor = n /\ t.expected = s.expected
        /\ t.finalizing = TRUE /\ t.complete = TRUE /\ t.shards = ShardIds(s)
    <2>1. t \in Sandboxes /\ Refills(s, t)
      BY <1>3, ManifestSound DEF Sound
    <2>2. t.finalizing = TRUE /\ t.complete = s.complete /\ t.shards = ShardIds(s)
      BY <1>3 DEF WrittenManifest, Sound, Sandboxes
    <2>3. s.complete \in BOOLEAN
      BY FieldTypes
    <2> QED BY <1>2, <2>1, <2>2, <2>3 DEF Refills
  <1>5. /\ t.jobs \in Seq(Jobs) /\ Len(t.jobs) = n + m + 1
        /\ \A i \in 1..n : t.jobs[i] = s.jobs[i]
        /\ \A i \in 1..m : t.jobs[n + i] = Record(Shard(i - 1))
        /\ t.jobs[n + m + 1] = Record(Root)
    BY <1>1, <1>3, ManifestJobs
  <1>6. /\ DOMAIN t.jobs = 1..(n + m + 1)
        /\ \A j \in 1..(n + m + 1) : \/ j \in 1..n
                                     \/ j = n + m + 1
                                     \/ \E i \in 1..m : j = n + i
    <2>1. ASSUME NEW j \in 1..(n + m + 1), j \notin 1..n, j # n + m + 1
          PROVE  \E i \in 1..m : j = n + i
      BY <2>1, Beyond
    <2> QED BY <1>5, <2>1
  <1>7. /\ \A i \in 1..m : Record(Shard(i - 1)).kind = "record" /\ Record(Shard(i - 1)).id = <<"manifest_expected", i - 1>>
        /\ Record(Root).kind = "record" /\ Record(Root).id = <<"manifest", 0>>
    BY KindsDiffer DEF Shard, Root
  <1>8. \A j \in 1..n : s.jobs[j].kind = "record" => s.jobs[j].id[1] \in {"oracle", "legal"}
    BY <1>2 DEF Sound, PhasesInOrder
  \* What each of the new places holds
  <1>a. ASSUME NEW j \in 1..(n + m + 1), j \notin 1..n
        PROVE  /\ t.jobs[j].kind = "record"
               /\ \/ j = n + m + 1 /\ t.jobs[j].id = <<"manifest", 0>>
                  \/ \E i \in 1..m : j = n + i /\ t.jobs[j].id = <<"manifest_expected", i - 1>>
    <2>1. CASE j = n + m + 1
      BY <1>5, <1>7, <2>1
    <2>2. CASE j # n + m + 1
      <3>1. PICK i \in 1..m : j = n + i
        BY <1>a, <1>6, <2>2
      <3>2. t.jobs[j] = Record(Shard(i - 1))
        BY <1>5, <3>1
      <3> QED BY <1>7, <3>1, <3>2
    <2> QED BY <2>1, <2>2
  <1>9. \A j \in Pending(t) : t.jobs[j].kind = "record"
    <2>1. \A j \in Pending(t) : j \in 1..(n + m + 1) /\ j \notin 1..n
      BY <1>4, <1>6 DEF Pending
    <2> QED BY <1>a, <2>1
  <1>10. OneAtATime(t)
    BY <1>9, KindsDiffer DEF OneAtATime, Waits
  <1>11. RecordsDiffer(t)
    <2>1. ASSUME NEW j \in 1..(n + m + 1), NEW h \in 1..(n + m + 1), t.jobs[j] = t.jobs[h],
                 t.jobs[j].kind = "record"
          PROVE  j = h
      <3>1. CASE j \in 1..n /\ h \in 1..n
        BY <1>2, <1>5, <2>1, <3>1 DEF Undisturbed, RecordsDiffer
      <3>2. CASE j \in 1..n /\ h \notin 1..n
        <4>1. t.jobs[h].id[1] \in {"manifest_expected", "manifest"}
          <5>1. \/ t.jobs[h].id = <<"manifest", 0>>
                \/ \E i \in 1..m : t.jobs[h].id = <<"manifest_expected", i - 1>>
            BY <1>a, <3>2
          <5> QED BY <5>1
        <4> QED BY <1>5, <1>8, <2>1, <3>2, <4>1
      <3>3. CASE j \notin 1..n /\ h \in 1..n
        <4>1. t.jobs[j].id[1] \in {"manifest_expected", "manifest"}
          <5>1. \/ t.jobs[j].id = <<"manifest", 0>>
                \/ \E i \in 1..m : t.jobs[j].id = <<"manifest_expected", i - 1>>
            BY <1>a, <3>3
          <5> QED BY <5>1
        <4> QED BY <1>5, <1>8, <2>1, <3>3, <4>1
      <3>4. CASE j \notin 1..n /\ h \notin 1..n
        <4>1. CASE j = n + m + 1 \/ h = n + m + 1
          <5>1. \A k \in 1..(n + m + 1) : k \notin 1..n /\ t.jobs[k].id[1] = "manifest" => k = n + m + 1
            <6> SUFFICES ASSUME NEW k \in 1..(n + m + 1), k \notin 1..n, k # n + m + 1
                         PROVE  t.jobs[k].id[1] # "manifest"
              OBVIOUS
            <6>1. \E i \in 1..m : t.jobs[k].id = <<"manifest_expected", i - 1>>
              BY <1>a
            <6> QED BY <6>1
          <5>2. t.jobs[j].id[1] = "manifest"
            BY <1>5, <1>7, <2>1, <4>1
          <5> QED BY <2>1, <3>4, <5>1, <5>2
        <4>2. CASE j # n + m + 1 /\ h # n + m + 1
          <5>1. PICK a \in 1..m, b \in 1..m : j = n + a /\ h = n + b
            BY <1>6, <3>4, <4>2
          <5>2. t.jobs[j].id = <<"manifest_expected", a - 1>> /\ t.jobs[h].id = <<"manifest_expected", b - 1>>
            BY <1>5, <1>7, <5>1
          <5>3. a - 1 = b - 1
            BY <2>1, <5>2
          <5> QED BY <5>1, <5>3
        <4> QED BY <4>1, <4>2
      <3> QED BY <3>1, <3>2, <3>3, <3>4
    <2> QED BY <1>4, <1>6, <2>1 DEF Undisturbed, RecordsDiffer
  <1>12. DiscoveryInOrder(t)
    BY <1>4, <1>9 DEF DiscoveryInOrder
  <1>13. ShardIds(t) = ShardIds(s)
    BY <1>4 DEF ShardIds, ShardCount
  <1>14. QueueHoldsAll(t)
    <2>1. ASSUME NEW i \in DOMAIN t.expected
          PROVE  \E j \in DOMAIN t.jobs : t.jobs[j] = Record(t.expected[i])
      <3>1. PICK j \in 1..n : s.jobs[j] = Record(s.expected[i])
        BY <1>2, <1>4, <2>1 DEF Undisturbed, QueueHoldsAll
      <3> QED BY <1>4, <1>5, <1>6, <3>1
    <2>2. ASSUME NEW i \in DOMAIN t.shards
          PROVE  \E j \in DOMAIN t.jobs : t.jobs[j] = Record(t.shards[i])
      <3>1. i \in 1..m /\ t.shards[i] = Shard(i - 1)
        BY <1>1, <1>4, <2>2 DEF ShardIds
      <3>2. n + i \in 1..(n + m + 1)
        BY <3>1
      <3> QED BY <1>5, <1>6, <3>1, <3>2
    <2>3. ASSUME NEW j \in DOMAIN t.jobs, t.jobs[j] = Record(Root) PROVE j = Len(t.jobs)
      <3>1. t.jobs[j].kind = "record" /\ t.jobs[j].id[1] = "manifest"
        BY <1>7, <2>3
      <3>2. j \notin 1..n
        BY <1>5, <1>8, <3>1
      <3>3. CASE j # n + m + 1
        <4>1. \E i \in 1..m : t.jobs[j].id = <<"manifest_expected", i - 1>>
          BY <1>a, <1>6, <2>3, <3>2, <3>3
        <4> QED BY <3>1, <4>1
      <3> QED BY <1>5, <3>3
    <2> QED BY <1>4, <1>13, <2>1, <2>2, <2>3 DEF QueueHoldsAll
  <1>15. LogFollows(t)
    <2>1. \A j \in 1..(n + m + 1) : j <= n => j \in 1..n
      OBVIOUS
    <2>2. \A j \in 1..n : j \in 1..(n + m + 1) /\ t.jobs[j] = s.jobs[j]
      BY <1>5
    <2>3. s.cursor = n /\ t.cursor = n /\ t.key = s.key /\ DOMAIN s.jobs = 1..n
          /\ DOMAIN t.jobs = 1..(n + m + 1) /\ LogFollows(s)
      BY <1>2, <1>4, <1>6 DEF Undisturbed
    <2> QED BY <2>1, <2>2, <2>3, SameLog
  <1> QED BY <1>3, <1>10, <1>11, <1>12, <1>14, <1>15 DEF Undisturbed

LEMMA RefilledUndisturbed ==
    ASSUME NEW s, Sound(s), Undisturbed(s)
    PROVE  Undisturbed(Refilled(s))
  <1>1. CASE Refilled(s) = s
    BY <1>1
  <1>2. CASE Drained(s) /\ ~s.finalizing /\ ~s.complete /\ ~s.scheduled
    BY <1>2, ReleasedUndisturbed DEF Refilled, WithManifest
  <1>3. CASE Drained(s) /\ ~s.finalizing /\ s.complete
    <2>1. Refilled(s) = WrittenManifest(s)
      BY <1>3 DEF Refilled, WithManifest, WrittenManifest, ShardIds
    <2> QED BY <1>3, <2>1, ManifestUndisturbed
  <1> QED BY <1>1, <1>2, <1>3 DEF Refilled, WithManifest

\* Where the jobs and ids are that a job added.
Placed(s, t, more, ids) ==
    /\ \A j \in DOMAIN s.jobs : j \in DOMAIN t.jobs /\ t.jobs[j] = s.jobs[j]
    /\ \A h \in DOMAIN more : /\ Len(s.jobs) + h \in DOMAIN t.jobs
                              /\ t.jobs[Len(s.jobs) + h] = more[h]
    /\ \A j \in DOMAIN t.jobs :
          \/ j \in DOMAIN s.jobs
          \/ \E h \in DOMAIN more : j = Len(s.jobs) + h /\ t.jobs[j] = more[h]
    /\ \A j \in DOMAIN s.expected : t.expected[j] = s.expected[j]
    /\ \A j \in DOMAIN t.expected :
          \/ j \in DOMAIN s.expected
          \/ \E h \in DOMAIN ids : j = Len(s.expected) + h /\ t.expected[j] = ids[h]
    /\ s.cursor + 1 \in Pending(s) /\ Job(s) = s.jobs[s.cursor + 1]
    /\ \A j \in Pending(t) : j \in DOMAIN s.jobs => j \in Pending(s) /\ j # s.cursor + 1
    /\ \A j \in DOMAIN t.jobs : j <= t.cursor =>
          j \in DOMAIN s.jobs /\ (j <= s.cursor \/ j = s.cursor + 1)

LEMMA ProgressPlaces ==
    ASSUME NEW s, Sound(s), s.cursor < Len(s.jobs), NEW t, NEW more, NEW ids,
           Progress(s, t, more, ids)
    PROVE  Placed(s, t, more, ids)
  <1>1. /\ s.jobs \in Seq(Jobs) /\ t.jobs \in Seq(Jobs) /\ more \in Seq(Jobs)
        /\ s.expected \in Seq(RecordIds) /\ t.expected \in Seq(RecordIds)
        /\ ids \in Seq(RecordIds) /\ t.cursor = s.cursor + 1 /\ s.cursor \in Nat
        /\ Joins(s.jobs, more, t.jobs) /\ Joins(s.expected, ids, t.expected)
        /\ Len(s.jobs) \in Nat /\ DOMAIN s.jobs = 1..Len(s.jobs)
        /\ DOMAIN t.jobs \subseteq Nat
    BY FieldTypes DEF Progress, Sandboxes
  <1>2. /\ \A j \in DOMAIN s.jobs : j \in DOMAIN t.jobs /\ t.jobs[j] = s.jobs[j]
        /\ \A h \in DOMAIN more : /\ Len(s.jobs) + h \in DOMAIN t.jobs
                                  /\ t.jobs[Len(s.jobs) + h] = more[h]
        /\ Covered(s.jobs, more, t.jobs)
    BY <1>1, JoinedPlaces
  <1>3. /\ \A j \in DOMAIN s.expected : t.expected[j] = s.expected[j]
        /\ \A h \in DOMAIN ids : t.expected[Len(s.expected) + h] = ids[h]
        /\ Covered(s.expected, ids, t.expected)
    BY <1>1, JoinedPlaces
  <1>4. s.cursor + 1 \in Pending(s) /\ Job(s) = s.jobs[s.cursor + 1]
    BY <1>1 DEF Pending, Job
  <1>5. \A j \in Pending(t) : j \in DOMAIN s.jobs => j \in Pending(s) /\ j # s.cursor + 1
    BY <1>1 DEF Pending
  <1>6. \A j \in DOMAIN t.jobs : j <= t.cursor =>
           j \in DOMAIN s.jobs /\ (j <= s.cursor \/ j = s.cursor + 1)
    <2> SUFFICES ASSUME NEW j \in DOMAIN t.jobs, j <= t.cursor
                 PROVE  j \in DOMAIN s.jobs /\ (j <= s.cursor \/ j = s.cursor + 1)
      OBVIOUS
    <2>1. j \in Nat /\ j >= 1
      BY <1>1
    <2> QED BY <1>1, <2>1
  <1> QED BY <1>2, <1>3, <1>4, <1>5, <1>6 DEF Placed, Covered

\* What a job other than a record may add without disturbing the snapshot
Grows(s, t, more, ids) ==
    /\ \A h, g \in DOMAIN more : more[h].kind = "record" /\ more[h] = more[g] => h = g
    /\ \A h \in DOMAIN more, i \in DOMAIN s.jobs :
          more[h].kind = "record" => s.jobs[i] # more[h]
    /\ \A h, g \in DOMAIN ids : ids[h] = ids[g] => h = g
    /\ \A h \in DOMAIN ids : \E g \in DOMAIN more : more[g] = Record(ids[h])
    /\ \A h, g \in DOMAIN more : more[h].kind # "record" /\ more[g].kind # "record" => h = g
    /\ \A h \in DOMAIN more :
          /\ more[h].kind \in {"record", "discover"}
          /\ more[h].kind = "discover" =>
                /\ ~s.scheduled
                /\ \A i \in DOMAIN s.jobs : s.jobs[i].kind = "record" /\ s.jobs[i].id[1] = "oracle"
                                           => s.jobs[i].id[2] < more[h].id[2]
                /\ \A g \in DOMAIN more : more[g].kind = "record" /\ more[g].id[1] = "oracle"
                                         => more[g].id[2] < more[h].id[2]
          /\ ~t.complete /\ more[h].kind = "record" => more[h].id[1] = "oracle"

LEMMA OthersAreRecords ==
    ASSUME NEW s, Sound(s), Undisturbed(s), s.cursor < Len(s.jobs), Job(s).kind # "record"
    PROVE  /\ ~s.complete /\ ~s.finalizing
           /\ Job(s).kind = "discover" => ~s.scheduled
           /\ \A j \in Pending(s) : j # s.cursor + 1 => s.jobs[j].kind = "record"
  <1>1. s.cursor + 1 \in Pending(s) /\ Job(s) = s.jobs[s.cursor + 1]
    BY FieldTypes DEF Pending, Job
  <1>2. \A j \in Pending(s) : s.jobs[j] \in Jobs
    BY FieldTypes DEF Pending
  <1>3. OneAtATime(s) /\ PhasesInOrder(s)
    BY DEF Undisturbed, Sound
  <1>4. Job(s) = Build \/ Job(s).kind = "discover"
    BY <1>1, <1>2, JobTypes
  <1>5. CASE Job(s).kind = "discover"
    <2>1. ~s.scheduled
      BY <1>1, <1>3, <1>5 DEF OneAtATime
    <2>2. \A j \in Pending(s) : s.jobs[j] # Build
      BY <1>3, <2>1 DEF PhasesInOrder, Pending
    <2>3. \A j \in Pending(s) : j # s.cursor + 1 => s.jobs[j].kind = "record"
      BY <1>1, <1>2, <1>3, <1>5, <2>2, JobTypes DEF OneAtATime
    <2> QED BY <1>3, <2>1, <2>3 DEF PhasesInOrder
  <1>6. CASE Job(s) = Build
    <2>1. s.scheduled /\ ~s.complete
      BY <1>1, <1>3, <1>6 DEF OneAtATime, PhasesInOrder, Waits, Pending
    <2>2. \A j \in Pending(s) : s.jobs[j].kind # "discover"
      BY <1>3, <2>1 DEF OneAtATime
    <2>3. \A j \in Pending(s) : j # s.cursor + 1 => s.jobs[j].kind = "record"
      <3>1. Job(s).kind = "player_legal_build"
        BY <1>6, KindsDiffer
      <3>2. \A j \in Pending(s) : s.jobs[j].kind \in {"record", "discover", "player_legal_build"}
        BY <1>2, JobTypes
      <3> QED BY <1>1, <1>3, <2>2, <3>1, <3>2 DEF OneAtATime
    <2> QED BY <1>3, <1>6, <2>1, <2>3, KindsDiffer DEF PhasesInOrder
  <1> QED BY <1>4, <1>5, <1>6

LEMMA JobUndisturbed ==
    ASSUME NEW s, Sound(s), Undisturbed(s), s.cursor < Len(s.jobs), Job(s).kind # "record",
           NEW t, NEW more, NEW ids, Progress(s, t, more, ids), Grows(s, t, more, ids)
    PROVE  Undisturbed(t)
  <1>1. /\ t.key = s.key /\ t.cursor = s.cursor + 1 /\ t.finalizing = s.finalizing
        /\ t.scheduled = s.scheduled
    BY DEF Progress
  <1>2. Placed(s, t, more, ids)
    BY ProgressPlaces
  <1>3. /\ ~s.complete /\ ~s.finalizing
        /\ \A j \in Pending(s) : j # s.cursor + 1 => s.jobs[j].kind = "record"
    BY OthersAreRecords
  <1>4. ASSUME NEW j \in Pending(t), t.jobs[j].kind # "record"
        PROVE  \E h \in DOMAIN more : j = Len(s.jobs) + h /\ t.jobs[j] = more[h]
    <2>1. j \in DOMAIN t.jobs
      BY DEF Pending
    <2>2. j \notin DOMAIN s.jobs
      BY <1>2, <1>3, <1>4 DEF Placed
    <2> QED BY <1>2, <2>1, <2>2 DEF Placed
  <1>5. OneAtATime(t)
    <2>1. \A i, j \in Pending(t) :
             t.jobs[i].kind # "record" /\ t.jobs[j].kind = t.jobs[i].kind => i = j
      BY <1>4 DEF Grows
    <2>2. ~Waits(t, Build)
      BY <1>4, KindsDiffer DEF Waits, Grows
    <2>3. s.scheduled => \A i \in Pending(t) : t.jobs[i].kind # "discover"
      BY <1>4 DEF Grows
    <2> QED BY <1>1, <2>1, <2>2, <2>3 DEF OneAtATime
  <1>6. RecordsDiffer(t)
    <2>1. ASSUME NEW i \in DOMAIN t.jobs, NEW j \in DOMAIN t.jobs,
                 t.jobs[i].kind = "record", t.jobs[i] = t.jobs[j]
          PROVE  i = j
      <3>1. CASE i \in DOMAIN s.jobs /\ j \in DOMAIN s.jobs
        BY <1>2, <2>1, <3>1 DEF Placed, Undisturbed, RecordsDiffer
      <3>2. CASE i \notin DOMAIN s.jobs \/ j \notin DOMAIN s.jobs
        BY <1>2, <2>1, <3>2 DEF Placed, Grows
      <3> QED BY <3>1, <3>2
    <2>2. ASSUME NEW i \in DOMAIN s.expected, NEW h \in DOMAIN ids PROVE s.expected[i] # ids[h]
      <3>1. PICK j \in DOMAIN s.jobs : s.jobs[j] = Record(s.expected[i])
        BY DEF Undisturbed, QueueHoldsAll
      <3>2. PICK g \in DOMAIN more : more[g] = Record(ids[h])
        BY DEF Grows
      <3> QED BY <3>1, <3>2, KindsDiffer DEF Grows
    <2>3. ASSUME NEW i \in DOMAIN t.expected, NEW j \in DOMAIN t.expected,
                 t.expected[i] = t.expected[j]
          PROVE  i = j
      <3>1. CASE i \in DOMAIN s.expected /\ j \in DOMAIN s.expected
        BY <1>2, <2>3, <3>1 DEF Placed, Undisturbed, RecordsDiffer
      <3>2. CASE i \notin DOMAIN s.expected \/ j \notin DOMAIN s.expected
        BY <1>2, <2>2, <2>3, <3>2 DEF Placed, Grows
      <3> QED BY <3>1, <3>2
    <2> QED BY <2>1, <2>3 DEF RecordsDiffer
  <1>7. DiscoveryInOrder(t)
    <2>1. ASSUME NEW i \in DOMAIN t.jobs, NEW j \in Pending(t), t.jobs[i].kind = "record",
                 t.jobs[i].id[1] = "oracle", t.jobs[j].kind = "discover"
          PROVE  t.jobs[i].id[2] < t.jobs[j].id[2]
      <3>1. PICK h \in DOMAIN more : t.jobs[j] = more[h]
        BY <1>4, <2>1
      <3> QED BY <1>2, <2>1, <3>1 DEF Placed, Grows
    <2>2. ASSUME NEW i \in DOMAIN t.jobs, t.jobs[i].kind = "record", ~t.complete
          PROVE  t.jobs[i].id[1] = "oracle"
      BY <1>2, <1>3, <2>2 DEF Placed, Grows, Undisturbed, DiscoveryInOrder
    <2> QED BY <2>1, <2>2 DEF DiscoveryInOrder
  <1>8. QueueHoldsAll(t)
    <2>1. ASSUME NEW i \in DOMAIN t.expected
          PROVE  \E j \in DOMAIN t.jobs : t.jobs[j] = Record(t.expected[i])
      <3>1. CASE i \in DOMAIN s.expected
        BY <1>2, <3>1 DEF Placed, Undisturbed, QueueHoldsAll
      <3>2. CASE i \notin DOMAIN s.expected
        <4>1. PICK h \in DOMAIN ids : t.expected[i] = ids[h]
          BY <1>2, <3>2 DEF Placed
        <4>2. PICK g \in DOMAIN more : more[g] = Record(ids[h])
          BY DEF Grows
        <4> QED BY <1>2, <4>1, <4>2 DEF Placed
      <3> QED BY <3>1, <3>2
    <2> QED BY <1>1, <1>3, <2>1 DEF QueueHoldsAll
  <1>9. LogFollows(t)
    <2>1. \A j \in DOMAIN s.jobs : j <= s.cursor => j <= t.cursor
      BY <1>1, FieldTypes
    <2>2. LogFollows(s)
      BY DEF Undisturbed
    <2>3. ASSUME NEW e \in emitted, e.key = t.key
          PROVE  \E i \in DOMAIN t.jobs : i <= t.cursor /\ t.jobs[i] = Record(e.id)
      BY <1>1, <1>2, <2>1, <2>2, <2>3 DEF LogFollows, Placed
    <2>4. ASSUME NEW i \in DOMAIN t.jobs, i <= t.cursor, t.jobs[i].kind = "record"
          PROVE  \E e \in emitted : e.key = t.key /\ e.id = t.jobs[i].id /\ (e.id # Root => e.ok)
      <3>1. i \in DOMAIN s.jobs /\ i <= s.cursor /\ t.jobs[i] = s.jobs[i]
        BY <1>2, <2>4 DEF Placed
      <3> QED BY <1>1, <2>2, <2>4, <3>1 DEF LogFollows
    <2> QED BY <2>3, <2>4 DEF LogFollows
  <1> QED BY <1>5, <1>6, <1>7, <1>8, <1>9 DEF Undisturbed

LEMMA DiscoveryUndisturbed ==
    ASSUME NEW s, Sound(s), Undisturbed(s), s.cursor < Len(s.jobs),
           NEW d \in 0..Oracle, Job(s) = Discover(d),
           NEW t, t = [Enqueue(After1(s), << <<"oracle", d>> >>) EXCEPT
                         !.jobs = Append(@, Discover(d + 1))]
    PROVE  Undisturbed(t)
  <1>1. PICK more : more = <<Record(<<"oracle", d>>), Discover(d + 1)>>
    OBVIOUS
  <1>2. PICK ids : ids = << <<"oracle", d>> >>
    OBVIOUS
  <1>3. Progress(s, t, more, ids)
    BY <1>1, <1>2, Discovered
  <1>4. /\ DOMAIN more = {1, 2} /\ more[1] = Record(<<"oracle", d>>) /\ more[2] = Discover(d + 1)
        /\ DOMAIN ids = {1} /\ ids[1] = <<"oracle", d>>
    BY <1>1, <1>2
  <1>5. /\ more[1].kind = "record" /\ more[1].id = <<"oracle", d>>
        /\ more[2].kind = "discover" /\ more[2].id = <<"oracle", d + 1>>
        /\ Job(s).kind = "discover" /\ Job(s).id = <<"oracle", d>> /\ d \in Nat
    BY <1>4, KindsDiffer, SandboxSizes
  <1>6. s.cursor + 1 \in Pending(s) /\ Job(s) = s.jobs[s.cursor + 1]
    BY FieldTypes DEF Pending, Job
  <1>7. ~s.scheduled
    BY <1>5, OthersAreRecords
  <1>8. ASSUME NEW i \in DOMAIN s.jobs, s.jobs[i].kind = "record", s.jobs[i].id[1] = "oracle"
        PROVE  s.jobs[i].id[2] < d
    BY <1>5, <1>6, <1>8 DEF Undisturbed, DiscoveryInOrder
  <1>9. ASSUME NEW i \in DOMAIN s.jobs PROVE s.jobs[i] # more[1]
    BY <1>5, <1>8
  <1>10. ASSUME NEW i \in DOMAIN s.jobs, s.jobs[i].kind = "record", s.jobs[i].id[1] = "oracle"
         PROVE  s.jobs[i].id[2] < d + 1
    <2>1. s.jobs[i] \in Jobs
      BY FieldTypes
    <2>2. s.jobs[i].id[2] \in Nat
      BY <1>10, <2>1, JobTypes DEF RecordIds
    <2> QED BY <1>5, <1>8, <1>10, <2>2
  <1>11. Grows(s, t, more, ids)
    BY <1>4, <1>5, <1>7, <1>9, <1>10 DEF Grows
  <1> QED BY <1>3, <1>5, <1>11, JobUndisturbed

LEMMA NothingMore ==
    ASSUME NEW s, NEW t
    PROVE  Grows(s, t, <<>>, <<>>)
  BY DEF Grows

LEMMA BuildUndisturbed ==
    ASSUME NEW s, Sound(s), Undisturbed(s), s.cursor < Len(s.jobs), Job(s) = Build,
           NEW ids \in {LegalSeq, <<LegalSeq[1]>>},
           NEW t, t = [Enqueue(After1(s), ids) EXCEPT !.complete = TRUE]
    PROVE  Undisturbed(t)
  <1>1. PICK more : more = [i \in DOMAIN ids |-> Record(ids[i])]
    OBVIOUS
  <1>2. Progress(s, t, more, ids) /\ t.complete = TRUE
    BY <1>1, BuildDone
  <1>3. Job(s).kind # "record"
    BY KindsDiffer
  <1>4. /\ \A h \in DOMAIN ids : ids[h][1] = "legal"
        /\ \A h, g \in DOMAIN ids : ids[h] = ids[g] => h = g
    <2>1. CASE ids = LegalSeq
      <3>1. \A h, g \in 1..(Legal + 1) : h - 1 = g - 1 => h = g
        BY SandboxSizes
      <3>2. \A h \in 1..(Legal + 1) : ids[h] = <<"legal", h - 1>>
        BY <2>1, LegalRecords
      <3> QED BY <2>1, <3>1, <3>2, LegalRecords
    <2>2. CASE ids = <<LegalSeq[1]>>
      BY <2>2, LegalRecords
    <2> QED BY <2>1, <2>2
  <1>5. DOMAIN more = DOMAIN ids /\ \A h \in DOMAIN ids : more[h] = Record(ids[h])
    BY <1>1
  <1>6. \A h \in DOMAIN ids : more[h].kind = "record" /\ more[h].id = ids[h]
    BY <1>5, KindsDiffer
  <1>7. \A i \in DOMAIN s.jobs : s.jobs[i].kind = "record" => s.jobs[i].id[1] = "oracle"
    BY <1>3, OthersAreRecords DEF Undisturbed, DiscoveryInOrder
  <1>8. ASSUME NEW h \in DOMAIN ids, NEW i \in DOMAIN s.jobs PROVE s.jobs[i] # more[h]
    BY <1>4, <1>6, <1>7
  <1>9. Grows(s, t, more, ids)
    BY <1>2, <1>4, <1>5, <1>6, <1>8 DEF Grows
  <1> QED BY <1>2, <1>3, <1>9, JobUndisturbed

\* A record goes into the log once.
LEMMA RecordUndisturbed ==
    ASSUME NEW s, Sound(s), Undisturbed(s), s.cursor < Len(s.jobs), Job(s).kind = "record",
           NEW ok \in BOOLEAN, ok \/ Job(s).id = Root, ~duplicated,
           Emit(Body(After1(s), Job(s).id, ok))
    PROVE  ~duplicated' /\ Undisturbed(After1(s))'
  <1>1. /\ s.cursor + 1 \in Pending(s) /\ Job(s) = s.jobs[s.cursor + 1]
        /\ Job(s) = Record(Job(s).id) /\ Job(s).id \in RecordIds
        /\ s.cursor \in Nat /\ DOMAIN s.jobs \subseteq Nat
    BY CursorMoves, JobTypes, FieldTypes DEF Pending, Job
  <1>2. PICK id \in RecordIds : id = Job(s).id
    BY <1>1
  <1>3. PICK body \in LogRecords :
           /\ body = Body(After1(s), Job(s).id, ok)
           /\ body.key = s.key /\ body.id = id /\ body.ok = ok
    BY <1>2, Bodies
  <1>4. emitted' = emitted \cup {body}
    BY <1>3 DEF Emit
  <1>5. \A e \in emitted : e.key = s.key => e.id # id
    <2> SUFFICES ASSUME NEW e \in emitted, e.key = s.key, e.id = id PROVE FALSE
      OBVIOUS
    <2>1. PICK i \in DOMAIN s.jobs : i <= s.cursor /\ s.jobs[i] = Record(id)
      BY DEF Undisturbed, LogFollows
    <2>2. i = s.cursor + 1
      BY <1>1, <1>2, <2>1, KindsDiffer DEF Undisturbed, RecordsDiffer, Pending
    <2> QED BY <1>1, <2>1, <2>2
  <1>6. ~duplicated'
    BY <1>3, <1>5 DEF Emit
  <1>7. PICK t : t = After1(s)
    OBVIOUS
  <1>8. Progress(s, t, <<>>, <<>>) /\ t.jobs = s.jobs /\ t.expected = s.expected /\ t.complete = s.complete
    BY <1>7, CursorMoves
  <1>9. /\ t.key = s.key /\ t.cursor = s.cursor + 1 /\ t.finalizing = s.finalizing
        /\ t.scheduled = s.scheduled /\ t.shards = s.shards
        /\ \A i \in Pending(t) : i \in Pending(s)
        /\ ShardIds(t) = ShardIds(s)
    BY <1>1, <1>8 DEF Progress, Pending, ShardIds, ShardCount
  <1>10. OneAtATime(t) /\ RecordsDiffer(t) /\ DiscoveryInOrder(t) /\ QueueHoldsAll(t)
    <2>1. OneAtATime(t)
      BY <1>8, <1>9 DEF Undisturbed, OneAtATime, Waits
    <2>2. RecordsDiffer(t)
      BY <1>8 DEF Undisturbed, RecordsDiffer
    <2>3. DiscoveryInOrder(t)
      BY <1>8, <1>9 DEF Undisturbed, DiscoveryInOrder
    <2>4. QueueHoldsAll(t)
      BY <1>8, <1>9 DEF Undisturbed, QueueHoldsAll
    <2> QED BY <2>1, <2>2, <2>3, <2>4
  <1>11. LogFollows(t)'
    <2>1. ASSUME NEW e \in emitted', e.key = t.key
          PROVE  \E i \in DOMAIN t.jobs : i <= t.cursor /\ t.jobs[i] = Record(e.id)
      <3>1. CASE e = body
        BY <1>1, <1>2, <1>3, <1>8, <1>9, <3>1 DEF Pending
      <3>2. CASE e \in emitted
        <4>1. PICK i \in DOMAIN s.jobs : i <= s.cursor /\ s.jobs[i] = Record(e.id)
          BY <1>9, <2>1, <3>2 DEF Undisturbed, LogFollows
        <4>2. i <= t.cursor
          BY <1>1, <1>9, <4>1
        <4> QED BY <1>8, <4>1, <4>2
      <3> QED BY <1>4, <2>1, <3>1, <3>2
    <2>2. ASSUME NEW i \in DOMAIN t.jobs, i <= t.cursor, t.jobs[i].kind = "record"
          PROVE  \E e \in emitted' : e.key = t.key /\ e.id = t.jobs[i].id /\ (e.id # Root => e.ok)
      <3>1. CASE i = s.cursor + 1
        BY <1>1, <1>2, <1>3, <1>4, <1>8, <1>9, <3>1
      <3>2. CASE i # s.cursor + 1
        <4>1. i \in DOMAIN s.jobs /\ i <= s.cursor /\ s.jobs[i].kind = "record"
          BY <1>1, <1>8, <1>9, <2>2, <3>2
        <4> QED BY <1>4, <1>8, <1>9, <4>1 DEF Undisturbed, LogFollows
      <3> QED BY <3>1, <3>2
    <2> QED BY <2>1, <2>2 DEF LogFollows
  <1>12. Undisturbed(t)'
    BY <1>10, <1>11 DEF Undisturbed
  <1> QED BY <1>6, <1>7, <1>12

\* The shards spell out what is expected.
LEMMA AllListed ==
    ASSUME NEW s, s.expected \in Seq(RecordIds), NEW lists \in Seq(Seq(RecordIds)),
           Len(lists) = ShardCount(s),
           \A i \in 1..ShardCount(s) : lists[i] = ShardPart(s, i - 1)
    PROVE  FoldLeft(Join, <<>>, lists) = s.expected
  <1> DEFINE L == Len(s.expected)
             m == ShardCount(s)
             Upto(k) == IF k * ShardSize < L THEN k * ShardSize ELSE L
  <1>1. /\ L \in Nat /\ ShardSize \in Nat /\ ShardSize > 0 /\ m \in Nat
        /\ L + ShardSize - 1 \in Nat
    BY SandboxSizes, ShardCounts
  <1>2. m * ShardSize <= L + ShardSize - 1 /\ L + ShardSize - 1 < (m + 1) * ShardSize
    BY <1>1, Quotients DEF ShardCount
  <1> HIDE DEF L, m
  <1>3. \A k \in Nat : /\ k * ShardSize \in Nat /\ Upto(k) \in Nat /\ Upto(k) <= L
                      /\ (k + 1) * ShardSize = k * ShardSize + ShardSize
    BY <1>1, Products
  <1>4. L <= m * ShardSize
    BY <1>1, <1>2, <1>3
  <1>5. ASSUME NEW k \in Nat, k < m PROVE k * ShardSize < L
    <2>1. (k + 1) * ShardSize <= m * ShardSize
      <3>1. k + 1 \in Nat /\ k + 1 <= m
        BY <1>1, <1>5
      <3> QED BY <1>1, <3>1, ProductsGrow
    <2>2. PICK a, b \in Nat : a = k * ShardSize /\ b = m * ShardSize
      BY <1>1, <1>3
    <2>3. a + ShardSize <= b /\ b <= L + ShardSize - 1
      BY <1>2, <1>3, <2>1, <2>2
    <2> QED BY <1>1, <2>2, <2>3
  <1>6. PICK it : JoinsUp(lists, it) /\ FoldLeft(Join, <<>>, lists) = it[m]
    BY JoinedUp DEF m
  <1> DEFINE K == { k \in Nat : k <= m => it[k] = SubSeq(s.expected, 1, Upto(k)) }
  <1>7. 0 \in K
    <2>1. it[0] = <<>>
      BY <1>6 DEF JoinsUp
    <2>2. Upto(0) = 0
      BY <1>1
    <2>3. SubSeq(s.expected, 1, 0) = <<>>
      OBVIOUS
    <2> QED BY <2>1, <2>2, <2>3
  <1>8. ASSUME NEW k \in K PROVE k + 1 \in K
    <2>1. SUFFICES ASSUME k + 1 <= m PROVE it[k + 1] = SubSeq(s.expected, 1, Upto(k + 1))
      OBVIOUS
    <2>2. k \in Nat /\ k < m /\ it[k] = SubSeq(s.expected, 1, Upto(k)) /\ k + 1 \in 1..m
          /\ (k + 1) - 1 = k /\ k \in 0..m
      BY <1>1, <2>1
    <2>3. Upto(k) = k * ShardSize
      BY <1>5, <2>2
    <2>4. it[k + 1] = it[k] \o lists[k + 1] /\ lists[k + 1] = ShardPart(s, k)
      BY <1>6, <2>2 DEF JoinsUp, m
    <2>5. ShardPart(s, k) = SubSeq(s.expected, Upto(k) + 1, Upto(k + 1))
      BY <2>3 DEF ShardPart, L
    <2>6. Upto(k) <= Upto(k + 1)
      BY <1>1, <1>3, <2>2, <2>3
    <2>7. PICK a, b \in Nat : a = Upto(k) /\ b = Upto(k + 1)
      <3>1. k \in Nat /\ k + 1 \in Nat
        BY <2>2
      <3> QED BY <1>3, <3>1
    <2>8. a <= b /\ b <= L
      <3>1. k + 1 \in Nat
        BY <2>2
      <3> QED BY <1>3, <2>6, <2>7, <3>1
    <2> HIDE DEF Upto
    <2>9. SubSeq(s.expected, 1, a) \o SubSeq(s.expected, a + 1, b) = SubSeq(s.expected, 1, b)
      <3>1. /\ 1 \in 1..(Len(s.expected) + 1) /\ a \in (1 - 1)..Len(s.expected)
            /\ b \in a..Len(s.expected)
        BY <1>1, <2>7, <2>8 DEF L
      <3> QED BY <3>1, ConcatAdjacentSubSeq
    <2> QED BY <2>2, <2>4, <2>5, <2>7, <2>9
  <1> HIDE DEF K
  <1>9. K = Nat
    BY <1>7, <1>8, SetInduction DEF K
  <1>10. Upto(m) = L
    BY <1>1, <1>3, <1>4
  <1> HIDE DEF Upto
  <1>11. it[m] = SubSeq(s.expected, 1, L)
    BY <1>1, <1>9, <1>10 DEF K
  <1>12. SubSeq(s.expected, 1, L) = s.expected
    BY SubSeqFull DEF L
  <1> QED BY <1>6, <1>11, <1>12

LEMMA OfItsNewRecord ==
    ASSUME NEW e \in emitted',
           \A f, g \in emitted' : f.key = g.key /\ f.id = g.id => f = g
    PROVE  Of(e.key, e.id)' = e
  BY DEF Of, RecordsOf

\* When the manifest of an undisturbed snapshot is written, all it names is in
\* the log.
LEMMA ManifestCompletes ==
    ASSUME NEW s, Sound(s), Undisturbed(s), LogFits(s), LogSound, duplicated \in BOOLEAN,
           s.cursor < Len(s.jobs), Job(s).kind = "record", Job(s).id = Root, ~duplicated,
           Emit(Body(After1(s), Root, TRUE))
    PROVE  Assembles(s.key)'
  <1>1. /\ s.cursor + 1 \in Pending(s) /\ s.jobs[s.cursor + 1] = Record(Root)
        /\ DOMAIN s.jobs = 1..Len(s.jobs) /\ s.cursor \in Nat /\ Len(s.jobs) \in Nat
        /\ s.expected \in Seq(RecordIds)
    BY CursorMoves, JobTypes, FieldTypes DEF Pending, Job
  <1>2. /\ s.finalizing /\ s.shards = ShardIds(s) /\ s.cursor + 1 = Len(s.jobs)
        /\ Waits(s, Record(Root))
    BY <1>1 DEF Sound, ManifestFits, Undisturbed, QueueHoldsAll, Waits, Pending
  <1>3. Root \in RecordIds
    BY DEF Root, RecordIds
  <1>4. PICK k : k = s.key
    OBVIOUS
  <1>5. PICK body \in LogRecords :
           /\ body = Body(After1(s), Root, TRUE)
           /\ body.key = k /\ body.id = Root /\ body.ok /\ body.list = ShardIds(s)
           /\ body.count = Len(s.expected)
    <2>1. PICK ok \in BOOLEAN : ok = TRUE
      OBVIOUS
    <2>2. PICK body : body = Body(After1(s), Root, ok)
      OBVIOUS
    <2>3. /\ body \in LogRecords /\ body.key = s.key /\ body.id = Root /\ body.ok = ok
          /\ body.list = s.shards /\ body.count = Len(s.expected)
      BY <1>3, <2>1, <2>2, Bodies
    <2> QED BY <1>2, <1>4, <2>1, <2>2, <2>3
  <1>6. emitted' = emitted \cup {body}
    BY <1>5 DEF Emit
  <1>7. \A f, g \in emitted' : f.key = g.key /\ f.id = g.id => f = g
    <2>1. Emit(Body(After1(s), Job(s).id, TRUE))
      OBVIOUS
    <2>2. ~duplicated' /\ LogSound'
      BY <2>1, RecordUndisturbed, RecordLogged
    <2> QED BY <2>2 DEF LogSound
  <1>8. ASSUME NEW id, id # Root, NEW j \in DOMAIN s.jobs, s.jobs[j] = Record(id)
        PROVE  \E e \in emitted : e.key = k /\ e.id = id /\ e.ok
    <2>1. s.jobs[j].kind = "record" /\ s.jobs[j].id = id
      BY <1>8, KindsDiffer
    <2>2. j # s.cursor + 1
      BY <1>1, <1>8, <2>1, KindsDiffer
    <2>3. j <= s.cursor
      BY <1>1, <1>2, <2>2
    <2> QED BY <1>4, <1>8, <2>1, <2>3 DEF Undisturbed, LogFollows
  <1>9. PICK shards \in Seq(RecordIds) : shards = ShardIds(s)
    BY <1>1, ShardCounts
  <1>10. /\ DOMAIN shards = 1..ShardCount(s) /\ ShardCount(s) \in Nat
         /\ \A i \in 1..ShardCount(s) : shards[i] = Shard(i - 1)
    BY <1>1, <1>9, ShardCounts DEF ShardIds
  <1>11. ASSUME NEW i \in 1..ShardCount(s)
         PROVE  \E e \in emitted' : /\ e.key = k /\ e.id = shards[i] /\ e.ok
                                    /\ e.list = ShardPart(s, i - 1)
    <2>1. shards[i] = <<"manifest_expected", i - 1>> /\ shards[i] # Root
      BY <1>10 DEF Shard, Root
    <2>2. \E j \in DOMAIN s.jobs : s.jobs[j] = Record(shards[i])
      BY <1>2, <1>9, <1>10 DEF Undisturbed, QueueHoldsAll
    <2>3. PICK e \in emitted : e.key = k /\ e.id = shards[i] /\ e.ok
      BY <1>8, <2>1, <2>2
    <2>4. e.id[1] = "manifest_expected" /\ e.id[2] = i - 1
      BY <2>1, <2>3
    <2>5. e.list = ShardPart(s, i - 1)
      BY <1>2, <1>4, <2>3, <2>4 DEF LogFits
    <2> QED BY <1>6, <2>3, <2>5
  <1>12. ASSUME NEW i \in 1..ShardCount(s)
         PROVE  /\ shards[i] \in Ids(RecordsOf(k))'
                /\ Of(k, shards[i])'.ok /\ Of(k, shards[i])'.list = ShardPart(s, i - 1)
    <2>1. PICK e \in emitted' : /\ e.key = k /\ e.id = shards[i] /\ e.ok
                               /\ e.list = ShardPart(s, i - 1)
      BY <1>11
    <2>2. Of(k, shards[i])' = e
      BY <1>7, <2>1, OfItsNewRecord
    <2> QED BY <2>1, <2>2 DEF Ids, RecordsOf
  <1>13. Of(k, Root)' = body /\ Root \in Ids(RecordsOf(k))'
    <2>1. Of(k, Root)' = body
      BY <1>5, <1>6, <1>7, OfItsNewRecord
    <2> QED BY <1>5, <1>6, <2>1 DEF Ids, RecordsOf
  <1>14. Listed(k, shards)' = s.expected
    <2>1. PICK lists : lists = [i \in DOMAIN shards |-> Of(k, shards[i])'.list]
      OBVIOUS
    <2>2. \A i \in 1..ShardCount(s) : ShardPart(s, i - 1) \in Seq(RecordIds)
      BY <1>1, <1>10, ShardParts
    <2>3. lists \in [1..ShardCount(s) -> Seq(RecordIds)]
          /\ \A i \in 1..ShardCount(s) : lists[i] = ShardPart(s, i - 1)
      BY <1>10, <1>12, <2>1, <2>2
    <2>4. lists \in Seq(Seq(RecordIds)) /\ Len(lists) = ShardCount(s)
      BY <1>10, <2>3
    <2>5. FoldLeft(Join, <<>>, lists) = s.expected
      BY <1>1, <2>3, <2>4, AllListed
    <2> QED BY <2>1, <2>5 DEF Listed
  <1>15. \A i, j \in DOMAIN s.expected : s.expected[i] = s.expected[j] => i = j
    BY DEF Undisturbed, RecordsDiffer
  <1>16. ASSUME NEW i \in DOMAIN s.expected PROVE s.expected[i] \in Ids(RecordsOf(k))'
    <2>1. CASE s.expected[i] = Root
      BY <1>13, <2>1
    <2>2. CASE s.expected[i] # Root
      <3>1. \E j \in DOMAIN s.jobs : s.jobs[j] = Record(s.expected[i])
        BY DEF Undisturbed, QueueHoldsAll
      <3>2. PICK e \in emitted : e.key = k /\ e.id = s.expected[i]
        BY <1>8, <2>2, <3>1
      <3> QED BY <1>6, <3>2 DEF Ids, RecordsOf
    <2> QED BY <2>1, <2>2
  <1>17. Len(Listed(k, shards))' = body.count
    BY <1>5, <1>14
  <1>18. IsInjective(Listed(k, shards))'
    BY <1>14, <1>15 DEF IsInjective
  <1>19. (\A id \in Range(Listed(k, shards)) : id \in Ids(RecordsOf(k)))'
    BY <1>14, <1>16 DEF Range
  <1>20. body.ok /\ body.list = shards
    BY <1>5, <1>9
  <1>21. Assembles(k)'
    BY <1>10, <1>12, <1>13, <1>17, <1>18, <1>19, <1>20 DEF Assembles
  <1> QED BY <1>4, <1>21

LEMMA NothingAssembled ==
    ASSUME emitted' = emitted
    PROVE  /\ \A k : Assembles(k) => Assembles(k)'
           /\ \A s : Undisturbed(s) => Undisturbed(s)'
  <1>1. \A k : Assembles(k) => Assembles(k)'
    <2> SUFFICES ASSUME NEW k, Assembles(k) PROVE Assembles(k)'
      OBVIOUS
    <2>1. RecordsOf(k)' = RecordsOf(k)
      BY DEF RecordsOf
    <2>2. Ids(RecordsOf(k))' = Ids(RecordsOf(k))
      BY <2>1 DEF Ids
    <2>3. \A id : Of(k, id)' = Of(k, id)
      BY <2>1 DEF Of
    <2>4. Listed(k, Of(k, Root).list)' = Listed(k, Of(k, Root).list)
      <3>1. PICK shards : shards = Of(k, Root).list /\ shards = Of(k, Root)'.list
        BY <2>3
      <3>2. [i \in DOMAIN shards |-> Of(k, shards[i])'.list]
               = [i \in DOMAIN shards |-> Of(k, shards[i]).list]
        BY <2>3
      <3> QED BY <3>1, <3>2 DEF Listed
    <2> QED BY <2>2, <2>3, <2>4 DEF Assembles
  <1>2. \A s : Undisturbed(s) => Undisturbed(s)'
    BY DEF Undisturbed, LogFollows
  <1> QED BY <1>1, <1>2

LEMMA HandedUndisturbed ==
    ASSUME NEW t, sb' = t, Undisturbed(t)'
    PROVE  Undisturbed(sb)'
  BY DEF Undisturbed, OneAtATime, RecordsDiffer, DiscoveryInOrder, QueueHoldsAll, LogFollows,
         Waits, Pending, ShardIds, ShardCount

\* What an undisturbed step leaves to the next one
Kept ==
    /\ ~duplicated
    /\ sb # None => Undisturbed(sb)
    /\ \A k : status.kind = "complete" /\ status.key = k =>
          /\ Assembles(k)
          /\ \A e \in emitted : e.key = k \/ After(k, e.key)

LEMMA QuietlyKept ==
    ASSUME Kept, UNCHANGED output,
           status' = status \/ status'.kind # "complete",
           sb' # None => Undisturbed(sb)'
    PROVE  Kept'
  <1>1. emitted' = emitted /\ duplicated' = duplicated
    BY DEF output
  <1>2. \A k : status'.kind = "complete" /\ status'.key = k =>
           /\ Assembles(k)'
           /\ \A e \in emitted' : e.key = k \/ After(k, e.key)
    BY <1>1, NothingAssembled DEF Kept
  <1> QED BY <1>1, <1>2 DEF Kept

LEMMA ProcessKeeps ==
    ASSUME NEW s, Sound(s), s.cursor < Len(s.jobs), LogFits(s) \/ Fresh(s), Undisturbed(s),
           LogSound, duplicated \in BOOLEAN, Kept, Process(s),
           \A e \in emitted' : e.key = s.key \/ After(s.key, e.key)
    PROVE  Kept'
  <1>1. PICK a : a = After1(s)
    OBVIOUS
  <1>2. PICK job \in Jobs : job = Job(s)
    BY CursorMoves
  <1>3. Progress(s, a, <<>>, <<>>) /\ a.key = s.key
    BY <1>1, CursorMoves DEF Progress
  <1>4. JobRecord(a, job) \/ JobTransportError(a, job) \/ JobDiscover(a, job) \/ JobBuild(a, job)
    BY <1>1, <1>2 DEF Process, After1, Job
  <1>5. CASE Cancel(a) /\ UNCHANGED <<output, lastKey>>
    BY <1>5, QuietlyKept DEF Cancel, Line
  <1>6. CASE JobRecord(a, job)
    <2>1. PICK ok \in BOOLEAN :
             /\ ok \/ job.id = Root
             /\ Emit(Body(a, job.id, ok))
             /\ IF ok /\ job.id = Root
                THEN sb' = None /\ lastKey' = a.key /\ status' = Line("complete", a.key)
                ELSE sb' = a /\ status' = Line("progress", a.key) /\ UNCHANGED lastKey
      BY <1>6 DEF JobRecord
    <2>2. Job(s).kind = "record" /\ job.id = Job(s).id
      BY <1>2, <1>6 DEF JobRecord
    <2>3. ~duplicated' /\ Undisturbed(a)'
      <3>1. Emit(Body(After1(s), Job(s).id, ok)) /\ (ok \/ Job(s).id = Root) /\ ~duplicated
        BY <1>1, <2>1, <2>2 DEF Kept
      <3>2. ~duplicated' /\ Undisturbed(After1(s))'
        BY <2>2, <3>1, RecordUndisturbed
      <3> QED BY <1>1, <3>2
    <2>4. CASE ok /\ job.id = Root
      <3>1. Assembles(s.key)'
        <4>1. LogFits(s)
          <5>1. Job(s).id # <<"oracle", 0>>
            BY <2>2, <2>4 DEF Root
          <5> QED BY <5>1, FreshRecord
        <4>2. Emit(Body(After1(s), Root, TRUE)) /\ Job(s).id = Root /\ ~duplicated
          BY <1>1, <2>1, <2>2, <2>4 DEF Kept
        <4> QED BY <2>2, <4>1, <4>2, ManifestCompletes
      <3>2. PICK k : k = s.key
        OBVIOUS
      <3>3. Assembles(k)' /\ status'.key = k /\ sb' = None
        BY <1>3, <2>1, <2>4, <3>1, <3>2 DEF Line
      <3> QED BY <2>3, <3>2, <3>3 DEF Kept
    <2>5. CASE ~(ok /\ job.id = Root)
      <3>1. sb' = a /\ status'.kind = "progress"
        BY <2>1, <2>5 DEF Line
      <3>2. Undisturbed(sb)'
        BY <2>3, <3>1, HandedUndisturbed
      <3> QED BY <2>3, <3>1, <3>2 DEF Kept
    <2> QED BY <2>4, <2>5
  <1>7. ASSUME NEW t, sb' = t, Undisturbed(t), status'.kind = "progress", UNCHANGED output
        PROVE  Kept'
    <2>1. Undisturbed(t)'
      BY <1>7, NothingAssembled DEF output
    <2>2. Undisturbed(sb)'
      BY <1>7, <2>1, HandedUndisturbed
    <2> QED BY <1>7, <2>2, QuietlyKept
  <1>8. CASE JobDiscover(a, job) /\ ~(Cancel(a) /\ UNCHANGED <<output, lastKey>>)
    <2>1. /\ job.kind = "discover" /\ UNCHANGED output
          /\ status'.kind = "progress"
          /\ sb' = IF job.id \in OracleIds
                   THEN [Enqueue(a, <<job.id>>) EXCEPT !.jobs = Append(@, Discover(job.id[2] + 1))]
                   ELSE a
      BY <1>8 DEF JobDiscover, Line
    <2>2. CASE job.id \notin OracleIds
      <3>1. Undisturbed(a)
        BY <1>2, <1>3, <2>1, NothingMore, JobUndisturbed
      <3> QED BY <1>7, <2>1, <2>2, <3>1
    <2>3. CASE job.id \in OracleIds
      <3>1. PICK d \in 0..Oracle : job.id = <<"oracle", d>>
        BY <2>3 DEF OracleIds
      <3>2. job = Discover(d)
        BY <2>1, <3>1 DEF Jobs, Discover, Build
      <3>3. PICK t : t = [Enqueue(After1(s), << <<"oracle", d>> >>) EXCEPT
                            !.jobs = Append(@, Discover(d + 1))]
        OBVIOUS
      <3>4. sb' = t
        BY <1>1, <2>1, <2>3, <3>1, <3>3
      <3>5. Undisturbed(t)
        BY <1>2, <3>2, <3>3, DiscoveryUndisturbed
      <3> QED BY <1>7, <2>1, <3>4, <3>5
    <2> QED BY <2>2, <2>3
  <1>9. CASE JobBuild(a, job)
    <2>1. PICK ids \in {LegalSeq, <<LegalSeq[1]>>} :
             /\ sb' = [Enqueue(a, ids) EXCEPT !.complete = TRUE]
             /\ status'.kind = "progress"
             /\ UNCHANGED output
      BY <1>9 DEF JobBuild, Line
    <2>2. job = Build
      BY <1>9, JobTypes DEF JobBuild
    <2>3. PICK t : t = [Enqueue(After1(s), ids) EXCEPT !.complete = TRUE]
      OBVIOUS
    <2>4. Undisturbed(t)
      BY <1>2, <2>2, <2>3, BuildUndisturbed
    <2> QED BY <1>1, <1>7, <2>1, <2>3, <2>4
  <1> QED BY <1>4, <1>5, <1>6, <1>8, <1>9 DEF JobTransportError

\* pump on an undisturbed snapshot, or one it cancels
LEMMA PumpKeeps ==
    ASSUME NEW s, NEW c, Ready(s), s # None /\ s.key = Key(c) => Undisturbed(s),
           s # None /\ ~LogFits(s) =>
              s.key = Key(c) /\ commandReady /\ s.signature = c.signature,
           LogSound, duplicated \in BOOLEAN, Kept, Pump(s, c),
           \A e \in emitted' : e.key = Key(c) \/ After(Key(c), e.key)
    PROVE  Kept'
  <1>1. CASE s # None /\ Cancel(s) /\ UNCHANGED <<output, lastKey>>
    BY <1>1, QuietlyKept DEF Cancel, Line
  <1>2. CASE Idle(s) /\ (s # None => s.key = Key(c))
    <2>1. UNCHANGED output /\ sb' = s /\ (status' = status \/ status'.kind # "complete")
      BY <1>2 DEF Idle, Line
    <2>2. ASSUME sb' # None PROVE Undisturbed(sb)'
      <3>1. Undisturbed(s)
        BY <1>2, <2>1, <2>2
      <3>2. Undisturbed(s)'
        BY <2>1, <3>1, NothingAssembled DEF output
      <3> QED BY <2>1, <3>2, HandedUndisturbed
    <2> QED BY <2>1, <2>2, QuietlyKept
  <1>3. CASE s # None /\ s.key = Key(c) /\ ~Drained(Refilled(s)) /\ Process(Refilled(s))
    <2>1. PICK t : t = Refilled(s)
      OBVIOUS
    <2>2. Sound(s) /\ Sound(t) /\ t.key = Key(c)
      BY <1>3, <2>1, RefilledSound DEF Ready, Refills
    <2>3. t.cursor < Len(t.jobs)
      BY <1>3, <2>1, <2>2, FieldTypes DEF Drained
    <2>4. (LogFits(t) \/ Fresh(t)) /\ Undisturbed(t)
      <3>1. CASE LogFits(s)
        BY <1>3, <2>1, <2>2, <3>1, RefilledFits, RefilledUndisturbed
      <3>2. CASE Fresh(s)
        <4>1. t = s
          BY <2>1, <2>2, <3>2, FieldTypes DEF Fresh, Refilled, Drained
        <4> QED BY <1>3, <3>2, <4>1
      <3> QED BY <1>3, <3>1, <3>2 DEF Ready
    <2>5. Process(t)
      BY <1>3, <2>1
    <2>6. \A e \in emitted' : e.key = t.key \/ After(t.key, e.key)
      BY <2>2
    <2> QED BY <2>2, <2>3, <2>4, <2>5, <2>6, ProcessKeeps
  <1>4. CASE s = None
    BY <1>2, <1>4 DEF Pump
  <1> QED BY <1>1, <1>2, <1>3, <1>4 DEF Pump

\* The capture only moves on to newer generations, and the log follows it.
KeysFollow ==
    \A e \in emitted :
       /\ e.key \in staged
       /\ e.key = Key(cap) \/ After(Key(cap), e.key)

LEMMA KeysAdvance ==
    ASSUME CaptureSound, CaptureSound', KeysFollow, [Next]_vars
    PROVE  KeysFollow'
  <1>1. cap.battle \in Int /\ cap.gen \in Int /\ cap'.battle \in Int /\ cap'.gen \in Int
    BY DEF CaptureSound
  <1>2. staged \subseteq staged'
    BY DEF Next, OnUpdate, Abandon, NextBattle, ToggleReadiness, ChangeSource, vars
  <1>3. \/ cap'.battle = cap.battle /\ cap'.gen = cap.gen
        \/ cap'.battle = cap.battle /\ cap'.gen = cap.gen + 1
        \/ cap'.battle = cap.battle + 1
    <2>1. CASE OnUpdate
      BY <2>1, Observes DEF OnUpdate
    <2>2. CASE Abandon
      BY <2>2 DEF Abandon, CaptureSound
    <2>3. CASE NextBattle
      BY <2>3 DEF NextBattle
    <2>4. CASE UNCHANGED cap
      BY <2>4
    <2> QED BY <2>1, <2>2, <2>3, <2>4 DEF Next, ToggleReadiness, ChangeSource, vars
  <1>4. ASSUME NEW e \in emitted
        PROVE  e.key = Key(cap') \/ After(Key(cap'), e.key)
    <2>1. CASE e.key = Key(cap)
      BY <1>1, <1>3, <2>1 DEF Key, After
    <2>2. CASE After(Key(cap), e.key)
      <3>1. PICK b, g : e.key[1] = b /\ e.key[2] = g
        OBVIOUS
      <3>2. e.key \in Keys
        BY <1>4 DEF KeysFollow, CaptureSound
      <3>3. b \in Int /\ g \in Int
        BY <3>1, <3>2, SandboxSizes DEF Keys
      <3>4. cap.battle > b \/ (cap.battle = b /\ cap.gen > g)
        BY <2>2, <3>1 DEF After, Key
      <3>5. cap'.battle > b \/ (cap'.battle = b /\ cap'.gen > g)
        BY <1>1, <1>3, <3>3, <3>4
      <3> QED BY <3>1, <3>5 DEF After, Key
    <2> QED BY <1>4, <2>1, <2>2 DEF KeysFollow
  <1>5. ASSUME NEW e \in emitted' \ emitted
        PROVE  e.key = Key(cap') /\ e.key \in staged'
    <2>1. OnUpdate
      BY <1>5 DEF Next, Abandon, NextBattle, ToggleReadiness, ChangeSource, vars, output
    <2>2. e.key = Key(cap') /\ source = cap'.signature
      BY <1>5, <2>1, WrittenNow
    <2>3. cap'.signature # None
      BY <2>2, SandboxSizes DEF CaptureSound
    <2>4. cap'.gen \in 0..cap'.gen
      BY <1>1, <2>3 DEF CaptureSound
    <2> QED BY <2>2, <2>4 DEF CaptureSound, Key
  <1> QED BY <1>2, <1>4, <1>5 DEF KeysFollow

LEMMA UpdateKeeps ==
    ASSUME SInv, UInv, OnUpdate, KeysFollow', ~disturbed'
    PROVE  Kept'
  <1>1. PICK c : c = Observed
    OBVIOUS
  <1>2. /\ CaptureSound /\ WithinBounds /\ cap' = c /\ LogSound /\ duplicated \in BOOLEAN
    BY <1>1 DEF OnUpdate, SInv, CaptureSound
  <1>3. Opens => commandReady /\ c.signature = source /\ Key(c) \in Keys /\ source \in Sources
    BY <1>1, <1>2, Observes DEF CaptureSound
  <1>4. \A e \in emitted' : e.key = Key(c) \/ After(Key(c), e.key)
    BY <1>2 DEF KeysFollow
  <1>5. CASE Opens
    <2>1. PICK s : s = Begun(sb, c)
      OBVIOUS
    <2>2. Ready(s) /\ (s = None \/ LogFits(s) \/ (s.key = Key(c) /\ s.signature = c.signature))
      BY <1>3, <1>5, <2>1, BegunReady
    <2>3. Pump(s, c)
      BY <1>1, <1>5, <2>1 DEF OnUpdate
    <2>4. /\ ~disturbed
          /\ ~Known(sb, c) => Key(c) \notin staged
          /\ sb # None /\ sb.key = Key(c) => Build \notin Processed(sb)
      BY <1>1, <1>5 DEF OnUpdate
    <2>5. Kept
      BY <2>4 DEF UInv, Kept
    <2>6. ASSUME s # None, s.key = Key(c) PROVE Undisturbed(s)
      <3>1. CASE ~Known(sb, c)
        <4>1. \A e \in emitted : e.key # Key(c)
          BY <2>4, <3>1 DEF UInv
        <4> QED BY <2>1, <3>1, <4>1, StagedUndisturbed DEF Begun
      <3>2. CASE Known(sb, c)
        <4>1. PICK p : p = sb
          OBVIOUS
        <4>2. p # None /\ s = BuildLast(p)
          BY <2>1, <2>6, <3>2, <4>1 DEF Begun
        <4>3. Sound(p) /\ Undisturbed(p)
          BY <2>5, <4>1, <4>2 DEF SInv, Kept
        <4>4. p.key = Key(c)
          BY <2>6, <4>2, <4>3, BuildLastSound DEF Reordered
        <4> QED BY <2>4, <4>1, <4>2, <4>3, <4>4, BuildLastUndisturbed
      <3> QED BY <3>1, <3>2
    <2> QED BY <1>2, <1>3, <1>4, <1>5, <2>2, <2>3, <2>5, <2>6, PumpKeeps
  <1>6. CASE ~Opens
    <2>1. PICK s : s = sb
      OBVIOUS
    <2>2. Pump(s, c)
      BY <1>1, <1>6, <2>1 DEF OnUpdate
    <2>3. Kept
      BY <1>6 DEF OnUpdate, UInv, Kept
    <2>4. Ready(s) /\ (s # None => LogFits(s) /\ Undisturbed(s))
      BY <2>1, <2>3 DEF SInv, Ready, Kept
    <2> QED BY <1>2, <1>4, <2>2, <2>3, <2>4, PumpKeeps
  <1> QED BY <1>5, <1>6

LEMMA UndisturbedKept == SInv /\ SInv' /\ UInv /\ [Next]_vars => UInv'
  <1> SUFFICES ASSUME SInv, SInv', UInv, [Next]_vars PROVE UInv'
    OBVIOUS
  <1>1. KeysFollow'
    BY KeysAdvance DEF SInv, UInv, KeysFollow
  <1>2. ASSUME UNCHANGED <<sb, output, status>>, Kept PROVE Kept'
    <2>1. PICK s : s = sb
      OBVIOUS
    <2>2. s # None => Undisturbed(s)'
      BY <1>2, <2>1, NothingAssembled DEF Kept, output
    <2>3. sb' # None => Undisturbed(sb)'
      BY <1>2, <2>1, <2>2, HandedUndisturbed
    <2> QED BY <1>2, <2>3, QuietlyKept
  <1>3. ASSUME UNCHANGED output, Cancel(sb), Kept PROVE Kept'
    BY <1>3, QuietlyKept DEF Cancel, Line
  <1>4. ASSUME ~disturbed' PROVE Kept'
    <2>1. CASE OnUpdate
      BY <1>1, <1>4, <2>1, UpdateKeeps
    <2>2. CASE ~OnUpdate
      <3>1. Kept
        BY <1>4, <2>2 DEF UInv, Kept, Next, Abandon, NextBattle, ToggleReadiness,
                          ChangeSource, vars
      <3> QED BY <1>2, <1>3, <2>2, <3>1 DEF Next, Abandon, NextBattle, ToggleReadiness,
                                            ChangeSource, vars, output
    <2> QED BY <2>1, <2>2
  <1> QED BY <1>1, <1>4 DEF UInv, KeysFollow, Kept

\* The extractor delivers the very snapshot that was reported complete, unless
\* begin came upon work of its own generation.
THEOREM UndisturbedIsExtracted == Spec => []UndisturbedSnapshotIsExtracted
  <1>1. Init => UInv
    BY DEF Init, UInv, Line
  <1>2. Spec => []UInv
    BY <1>1, UndisturbedKept, SandboxSound, PTL DEF Spec
  <1>3. SInv /\ UInv => UndisturbedSnapshotIsExtracted
    <2> SUFFICES ASSUME SInv, UInv, ~disturbed, status.kind = "complete"
                 PROVE  Extracted = status.key
      BY DEF UndisturbedSnapshotIsExtracted, ReportedSnapshotIsExtracted
    <2>1. PICK k : k = status.key
      OBVIOUS
    <2>2. /\ ~duplicated /\ Assembles(k)
          /\ \A e \in emitted : e.key = k \/ After(k, e.key)
      BY <2>1 DEF UInv
    <2>3. \A e \in emitted : e.key \in Keys
      BY DEF SInv, LogSound, LogRecords
    <2>4. k \in Complete
      <3>1. PICK e \in emitted : e.key = k
        BY <2>2 DEF Assembles, Ids, RecordsOf
      <3> QED BY <2>2, <3>1 DEF Complete
    <2>5. \A j \in Complete : j \in Keys /\ (j = k \/ After(k, j))
      BY <2>2, <2>3 DEF Complete
    <2>6. \A j \in Complete : (\A i \in Complete : i = j \/ After(j, i)) => j = k
      <3> SUFFICES ASSUME NEW j \in Complete, After(j, k), After(k, j) PROVE FALSE
        BY <2>4, <2>5
      <3>1. j \in Keys /\ k \in Keys
        BY <2>4, <2>5
      <3>2. j[1] \in Int /\ j[2] \in Int /\ k[1] \in Int /\ k[2] \in Int
        BY <3>1, SandboxSizes DEF Keys
      <3> QED BY <3>2 DEF After
    <2>7. (CHOOSE j \in Complete : \A i \in Complete : i = j \/ After(j, i)) = k
      BY <2>4, <2>5, <2>6
    <2> QED BY <2>1, <2>2, <2>4, <2>7 DEF Extracted
  <1> QED BY <1>2, <1>3, SandboxSound, PTL

=============================================================================
