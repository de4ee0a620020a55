--------------------------- MODULE LogTailerProofs ---------------------------
(***************************************************************************)
(* Proofs about LogTailer for logs of any length, any number of sessions,  *)
(* crashes and failed saves.                                               *)
(***************************************************************************)
EXTENDS LogTailer, IngestMachineProofs, TLAPS

-----------------------------------------------------------------------------
(* Reading div by div: what FoldLeft(Hear, ...) gives *)

\* The recursive function behind FoldLeft, over the positions of s up to n.
Folding(m, s, n, it) ==
    it = [t \in SUBSET (1..n) |->
            IF t = {} THEN m ELSE Hear(it[t \ {Max(t)}], s[Max(t)])]

LEMMA MaxOfPositions ==
  ASSUME NEW n \in Nat, NEW t \in SUBSET (1..n), t # {}
  PROVE  /\ Max(t) \in t /\ \A y \in t : Max(t) >= y
         /\ \A x \in t : (\A y \in t : x >= y) => x = Max(t)
  <1>1. \E x \in t : \A y \in t : x >= y
    BY GreatestPosition
  <1>2. Max(t) \in t /\ \A y \in t : Max(t) >= y
    BY <1>1 DEF Max
  <1>3. ASSUME NEW x \in t, \A y \in t : x >= y PROVE x = Max(t)
    BY <1>2, <1>3, x \in 1..n, Max(t) \in 1..n
  <1> QED BY <1>2, <1>3

LEMMA FoldingExists ==
  ASSUME NEW m, NEW s
  PROVE  \A n \in Nat : \E it : Folding(m, s, n, it)
  <1> DEFINE S == { n \in Nat : \E it : Folding(m, s, n, it) }
  <1>1. 0 \in S
    <2> DEFINE g == [t \in SUBSET (1..0) |-> m]
    <2>1. \A t \in SUBSET (1..0) : t = {}
      OBVIOUS
    <2>2. g = [t \in SUBSET (1..0) |->
                 IF t = {} THEN m ELSE Hear(g[t \ {Max(t)}], s[Max(t)])]
      BY <2>1
    <2>3. Folding(m, s, 0, g)
      BY <2>2 DEF Folding
    <2> HIDE DEF g
    <2> QED BY <2>3
  <1>2. ASSUME NEW n \in S PROVE n + 1 \in S
    <2>1. PICK h : Folding(m, s, n, h)
      OBVIOUS
    <2> DEFINE g == [t \in SUBSET (1..(n + 1)) |->
                       IF n + 1 \in t THEN Hear(h[t \ {n + 1}], s[n + 1]) ELSE h[t]]
    <2>2. \A t \in SUBSET (1..n) :
             h[t] = IF t = {} THEN m ELSE Hear(h[t \ {Max(t)}], s[Max(t)])
      BY <2>1, Zenon DEF Folding
    <2>3. ASSUME NEW t \in SUBSET (1..(n + 1))
          PROVE  g[t] = IF t = {} THEN m ELSE Hear(g[t \ {Max(t)}], s[Max(t)])
      <3>1. CASE n + 1 \in t
        <4>1. \A y \in t : n + 1 >= y
          OBVIOUS
        <4>2. Max(t) = n + 1
          BY <3>1, <4>1, MaxOfPositions
        <4>3. /\ t \ {n + 1} \in SUBSET (1..(n + 1)) /\ n + 1 \notin t \ {n + 1}
              /\ t # {}
          BY <3>1
        <4>4. g[t \ {n + 1}] = h[t \ {n + 1}]
          BY <4>3
        <4>5. g[t] = Hear(h[t \ {n + 1}], s[n + 1])
          BY <3>1
        <4> QED BY <4>2, <4>3, <4>4, <4>5
      <3>2. CASE n + 1 \notin t /\ t # {}
        <4>1. t \in SUBSET (1..n)
          BY <3>2
        <4>2. /\ t \ {Max(t)} \in SUBSET (1..(n + 1))
              /\ n + 1 \notin t \ {Max(t)}
          BY <3>2
        <4>3. g[t] = h[t] /\ g[t \ {Max(t)}] = h[t \ {Max(t)}]
          BY <3>2, <4>2
        <4> HIDE DEF g
        <4> QED BY <2>2, <3>2, <4>1, <4>3
      <3>3. CASE t = {}
        <4>1. t \in SUBSET (1..n) /\ n + 1 \notin t
          BY <3>3
        <4>2. g[t] = h[t]
          BY <4>1
        <4> QED BY <2>2, <3>3, <4>1, <4>2
      <3> QED BY <3>1, <3>2, <3>3
    <2>4. g = [t \in SUBSET (1..(n + 1)) |->
                 IF t = {} THEN m ELSE Hear(g[t \ {Max(t)}], s[Max(t)])]
      BY <2>3
    <2>5. Folding(m, s, n + 1, g)
      BY <2>4 DEF Folding
    <2> HIDE DEF g
    <2> QED BY <2>5
  <1> HIDE DEF S
  <1>3. S = Nat
    BY <1>1, <1>2, SetInduction DEF S
  <1> QED BY <1>3 DEF S

\* What the fold has heard after k divs.
Stepwise(m, s, n, it) ==
    /\ it[1..0] = m
    /\ \A k \in 0..n : k < n => it[1..(k + 1)] = Hear(it[1..k], s[k + 1])

LEMMA FoldingStep ==
  ASSUME NEW m, NEW s, NEW n \in Nat, NEW it, Folding(m, s, n, it)
  PROVE  Stepwise(m, s, n, it)
  <1>1. \A t \in SUBSET (1..n) :
           it[t] = IF t = {} THEN m ELSE Hear(it[t \ {Max(t)}], s[Max(t)])
    BY Zenon DEF Folding
  <1>2. it[1..0] = m
    <2>1. 1..0 = {} /\ 1..0 \in SUBSET (1..n)
      OBVIOUS
    <2> QED BY <1>1, <2>1
  <1>3. ASSUME NEW k \in 0..n, k < n
        PROVE  it[1..(k + 1)] = Hear(it[1..k], s[k + 1])
    <2>1. /\ 1..(k + 1) \in SUBSET (1..n) /\ k + 1 \in 1..(k + 1)
          /\ \A y \in 1..(k + 1) : k + 1 >= y
          /\ (1..(k + 1)) \ {k + 1} = 1..k
      BY <1>3
    <2>2. 1..(k + 1) # {}
      BY <2>1
    <2>3. Max(1..(k + 1)) = k + 1
      BY <2>1, <2>2, MaxOfPositions
    <2> QED BY <1>1, <2>1, <2>2, <2>3
  <1> QED BY <1>2, <1>3 DEF Stepwise

LEMMA FoldIsFolding ==
  ASSUME NEW m, NEW s \in Seq(Divs)
  PROVE  \E it : Folding(m, s, Len(s), it) /\ FoldLeft(Hear, m, s) = it[1..Len(s)]
  <1>1. DOMAIN s = 1..Len(s) /\ Len(s) \in Nat
    OBVIOUS
  <1>2. FoldLeft(Hear, m, s) = (CHOOSE it : Folding(m, s, Len(s), it))[1..Len(s)]
    BY <1>1, Zenon DEF Folding, FoldLeft, MapThenFoldSet
  <1>3. Folding(m, s, Len(s), CHOOSE it : Folding(m, s, Len(s), it))
    BY <1>1, FoldingExists
  <1> QED BY <1>2, <1>3

LEMMA FoldEmpty ==
  ASSUME NEW m
  PROVE  FoldLeft(Hear, m, <<>>) = m
  <1>1. <<>> \in Seq(Divs) /\ Len(<<>>) = 0
    OBVIOUS
  <1>2. PICK it : Folding(m, <<>>, 0, it) /\ FoldLeft(Hear, m, <<>>) = it[1..0]
    BY <1>1, FoldIsFolding
  <1> QED BY <1>2, FoldingStep DEF Stepwise

\* Reading one div more.
LEMMA FoldOneMore ==
  ASSUME NEW m, NEW s \in Seq(Divs), NEW u \in Seq(Divs), Len(u) = Len(s) + 1,
         \A i \in 1..Len(s) : u[i] = s[i]
  PROVE  FoldLeft(Hear, m, u) = Hear(FoldLeft(Hear, m, s), u[Len(u)])
  <1>1. PICK a : Folding(m, s, Len(s), a) /\ FoldLeft(Hear, m, s) = a[1..Len(s)]
    BY FoldIsFolding
  <1>2. PICK b : Folding(m, u, Len(u), b) /\ FoldLeft(Hear, m, u) = b[1..Len(u)]
    BY FoldIsFolding
  <1>3. Stepwise(m, s, Len(s), a) /\ Stepwise(m, u, Len(u), b)
    <2>1. Len(s) \in Nat /\ Len(u) \in Nat
      OBVIOUS
    <2> QED BY <1>1, <1>2, <2>1, FoldingStep
  <1> DEFINE S == { k \in Nat : k <= Len(s) => a[1..k] = b[1..k] }
  <1>5. 0 \in S
    BY <1>3 DEF Stepwise
  <1>6. ASSUME NEW k \in S PROVE k + 1 \in S
    <2>1. SUFFICES ASSUME k + 1 <= Len(s) PROVE a[1..(k + 1)] = b[1..(k + 1)]
      OBVIOUS
    <2>2. a[1..k] = b[1..k] /\ s[k + 1] = u[k + 1]
      BY <2>1
    <2> QED BY <1>3, <2>1, <2>2 DEF Stepwise
  <1> HIDE DEF S
  <1>7. S = Nat
    BY <1>5, <1>6, SetInduction DEF S
  <1>8. a[1..Len(s)] = b[1..Len(s)]
    BY <1>7 DEF S
  <1> QED BY <1>1, <1>2, <1>3, <1>8 DEF Stepwise

\* Machine m after the divs of d behind position a up to position n.
ReadOn(m, d, a, n) == FoldLeft(Hear, m, SubSeq(d, a + 1, n))

LEMMA ReadNothing ==
  ASSUME NEW m, NEW d \in Seq(Divs), NEW a \in Nat, NEW n \in Nat, n <= a
  PROVE  ReadOn(m, d, a, n) = m
  <1>1. SubSeq(d, a + 1, n) = <<>>
    OBVIOUS
  <1> QED BY <1>1, FoldEmpty DEF ReadOn

LEMMA ReadOneMore ==
  ASSUME NEW m, NEW d \in Seq(Divs), NEW a \in Nat, NEW n \in Nat,
         a <= n, n < Len(d)
  PROVE  ReadOn(m, d, a, n + 1) = Hear(ReadOn(m, d, a, n), d[n + 1])
  <1> DEFINE s == SubSeq(d, a + 1, n)
             u == SubSeq(d, a + 1, n + 1)
  <1>1. /\ s \in Seq(Divs) /\ Len(s) = n - a
        /\ \A i \in 1..(n - a) : s[i] = d[a + i]
    OBVIOUS
  <1>2. /\ u \in Seq(Divs) /\ Len(u) = n + 1 - a
        /\ \A i \in 1..(n + 1 - a) : u[i] = d[a + i]
    OBVIOUS
  <1> HIDE DEF s, u
  <1>3. /\ Len(u) = Len(s) + 1 /\ \A i \in 1..Len(s) : u[i] = s[i]
        /\ u[Len(u)] = d[n + 1]
    BY <1>1, <1>2
  <1>4. FoldLeft(Hear, m, u) = Hear(FoldLeft(Hear, m, s), u[Len(u)])
    BY <1>1, <1>2, <1>3, FoldOneMore
  <1> QED BY <1>3, <1>4 DEF ReadOn, s, u

LEMMA DivKinds ==
  ASSUME NEW d \in Divs
  PROVE  /\ d # Noise /\ d # Malformed => d \in LiveRecord
         /\ IsDecision(d) => d \in LiveRecord /\ IsFrame(d)
         /\ d \in LiveRecord => IsFrame(d)
  BY DivsAssumption DEF Noise, Malformed, IsDecision, IsFrame, ReadyType, InvalidatedType,
                        LiveRecord, StartRecord, ReadyRecord, InvalidatedRecord

LEMMA HearKeeps ==
  ASSUME NEW m \in Machines, NEW d \in Divs
  PROVE  Hear(m, d) \in Machines
  BY DivKinds, ClearedMachine, Accepted DEF Hear

\* However much is read, the machine stays in order.
LEMMA ReadKeeps ==
  ASSUME NEW m \in Machines, NEW d \in Seq(Divs), NEW a \in Nat
  PROVE  \A n \in Nat : n <= Len(d) => ReadOn(m, d, a, n) \in Machines
  <1> DEFINE S == { n \in Nat : n <= Len(d) => ReadOn(m, d, a, n) \in Machines }
  <1>1. 0 \in S
    BY ReadNothing
  <1>2. ASSUME NEW n \in S PROVE n + 1 \in S
    <2>1. SUFFICES ASSUME n + 1 <= Len(d) PROVE ReadOn(m, d, a, n + 1) \in Machines
      OBVIOUS
    <2>2. CASE n + 1 <= a
      BY <2>2, ReadNothing
    <2>3. CASE a <= n
      <3>1. ReadOn(m, d, a, n) \in Machines /\ d[n + 1] \in Divs
        BY <2>1
      <3>2. ReadOn(m, d, a, n + 1) = Hear(ReadOn(m, d, a, n), d[n + 1])
        BY <2>1, <2>3, ReadOneMore
      <3> QED BY <3>1, <3>2, HearKeeps
    <2> QED BY <2>2, <2>3
  <1> HIDE DEF S
  <1>3. S = Nat
    BY <1>1, <1>2, SetInduction DEF S
  <1> QED BY <1>3 DEF S

\* Reading on from where reading stopped gives what reading at once gives.
LEMMA ReadContinues ==
  ASSUME NEW m, NEW d \in Seq(Divs), NEW k \in Nat
  PROVE  \A n \in Nat : k <= n /\ n <= Len(d) =>
            ReadOn(ReadOn(m, d, 0, k), d, k, n) = ReadOn(m, d, 0, n)
  <1> DEFINE v == ReadOn(m, d, 0, k)
             S == { n \in Nat : k <= n /\ n <= Len(d) =>
                       ReadOn(v, d, k, n) = ReadOn(m, d, 0, n) }
  <1> HIDE DEF v
  <1>1. 0 \in S
    BY ReadNothing DEF v
  <1>2. ASSUME NEW n \in S PROVE n + 1 \in S
    <2>1. SUFFICES ASSUME k <= n + 1, n + 1 <= Len(d)
                   PROVE  ReadOn(v, d, k, n + 1) = ReadOn(m, d, 0, n + 1)
      OBVIOUS
    <2>2. CASE k = n + 1
      BY <2>2, ReadNothing DEF v
    <2>3. CASE k <= n
      <3>1. ReadOn(v, d, k, n) = ReadOn(m, d, 0, n)
        BY <2>1, <2>3
      <3>2. ReadOn(v, d, k, n + 1) = Hear(ReadOn(v, d, k, n), d[n + 1])
        BY <2>1, <2>3, ReadOneMore
      <3>3. ReadOn(m, d, 0, n + 1) = Hear(ReadOn(m, d, 0, n), d[n + 1])
        BY <2>1, ReadOneMore
      <3> QED BY <3>1, <3>2, <3>3
    <2> QED BY <2>1, <2>2, <2>3
  <1> HIDE DEF S
  <1>3. S = Nat
    BY <1>1, <1>2, SetInduction DEF S
  <1> QED BY <1>3 DEF S, v

-----------------------------------------------------------------------------
(* Types, and what can always be restored *)

\* The decisions of a log are written in the order of their generations, and
\* only a line that was begun can be partial.
InOrder(f) ==
    /\ f.partial => f.divs # <<>>
    /\ \A i, j \in DOMAIN f.divs :
          i < j /\ IsDecision(f.divs[i]) /\ IsDecision(f.divs[j]) =>
              ~KeyLess(f.divs[j].battle, f.divs[j].gen, f.divs[i].battle, f.divs[i].gen)

UnderWay == pc \in {"anchor", "read", "move"}

TInv ==
    /\ TypeOK
    /\ machine \in Machines
    /\ cursor = None => machine = EmptyState
    /\ pc = "down" => cursor = None
    /\ UnderWay => cursor # None /\ stat.id \in FileIds
    /\ disk # None => \E m \in Machines : disk.machine = ToPersisted(m)
    /\ file # None => file.session = sessions /\ sessions > 0 /\ InOrder(file)

LEMMA LogSizes ==
  ASSUME NEW f \in Logs, InOrder(f)
  PROVE  /\ f.divs \in Seq(Divs) /\ Len(f.divs) \in Nat
         /\ Size(f) \in Nat /\ CompleteDivs(f) \in 0..Len(f.divs)
         /\ 2 * CompleteDivs(f) <= Size(f) /\ Size(f) <= 2 * CompleteDivs(f) + 1
         /\ Size(f) <= 2 * Len(f.divs)
  <1>1. f.divs \in Seq(Divs) /\ f.partial \in BOOLEAN /\ Len(f.divs) \in Nat
    BY DEF Logs
  <1>2. f.partial => Len(f.divs) > 0
    BY <1>1 DEF InOrder
  <1>3. CASE f.partial
    <2>1. Size(f) = 2 * Len(f.divs) - 1 /\ CompleteDivs(f) = Len(f.divs) - 1
      BY <1>3 DEF Size, CompleteDivs
    <2> QED BY <1>1, <1>2, <1>3, <2>1
  <1>4. CASE ~f.partial
    <2>1. Size(f) = 2 * Len(f.divs) - 0 /\ CompleteDivs(f) = Len(f.divs) - 0
      BY <1>4 DEF Size, CompleteDivs
    <2> QED BY <1>1, <2>1
  <1> QED BY <1>3, <1>4

LEMMA AnchorTyped ==
  ASSUME NEW f \in Logs, InOrder(f), NEW o \in Nat, NEW id \in FileIds
  PROVE  Anchor(f, o) \in Anchors /\ CursorAt(id, f, o) \in Cursors
  <1>1. Anchor(f, o) \in Anchors
    <2>1. CASE o = 0
      BY <2>1 DEF Anchor, Anchors
    <2>2. CASE o # 0 /\ o > Size(f)
      BY <2>2 DEF Anchor, Anchors
    <2>3. CASE o # 0 /\ ~(o > Size(f))
      <3>1. (o + 1) \div 2 \in 1..Len(f.divs)
        BY <2>3, LogSizes
      <3>2. f.divs[(o + 1) \div 2] \in Divs
        BY <3>1, LogSizes
      <3>3. o % 2 \in {0, 1} /\ f.session \in Nat
        BY DEF Logs
      <3> QED BY <2>3, <3>2, <3>3 DEF Anchor, Anchors
    <2> QED BY <2>1, <2>2, <2>3
  <1> QED BY <1>1 DEF CursorAt, Cursors

LEMMA InitTInv == Init => TInv
  <1> SUFFICES ASSUME Init PROVE TInv
    OBVIOUS
  <1>1. TypeOK
    BY EmptyMachine, TailerBounds DEF Init, TypeOK, NoStat, Machines
  <1> QED BY <1>1, EmptyMachine DEF Init, TInv, UnderWay

\* What each action leaves alone, for the actions of the game.
LEMMA WriteGrows ==
  ASSUME TInv, NEW d \in Divs, Write(d)
  PROVE  /\ file # None /\ ~file.partial /\ file' # None
         /\ file' \in Logs /\ InOrder(file')
         /\ file'.session = file.session /\ file'.id = file.id
         /\ file'.divs = Append(file.divs, d) /\ file.divs \in Seq(Divs)
         /\ UNCHANGED <<sessions, pc, stat, machine, cursor, disk, crashes, quiet>>
  <1>1. PICK p \in BOOLEAN :
           file' = [file EXCEPT !.divs = Append(file.divs, d), !.partial = p]
    BY DEF Write
  <1>2. file \in Logs /\ file # None /\ ~file.partial
    BY DEF TInv, TypeOK, Write
  <1>3. /\ file' \in Logs /\ file'.session = file.session /\ file'.id = file.id
        /\ file'.divs = Append(file.divs, d) /\ file.divs \in Seq(Divs)
    <2>1. file.divs \in Seq(Divs) /\ Append(file.divs, d) \in Seq(Divs)
      BY <1>2 DEF Logs
    <2> QED BY <1>1, <1>2, <2>1 DEF Logs
  <1>4. /\ Len(file'.divs) = Len(file.divs) + 1
        /\ \A i \in 1..Len(file.divs) : file'.divs[i] = file.divs[i]
        /\ file'.divs[Len(file.divs) + 1] = d
        /\ DOMAIN file'.divs = 1..(Len(file.divs) + 1)
        /\ DOMAIN file.divs = 1..Len(file.divs) /\ Len(file.divs) \in Nat
    BY <1>3
  <1>5. ASSUME NEW i \in DOMAIN file'.divs, NEW j \in DOMAIN file'.divs, i < j,
               IsDecision(file'.divs[i]), IsDecision(file'.divs[j])
        PROVE  ~KeyLess(file'.divs[j].battle, file'.divs[j].gen,
                        file'.divs[i].battle, file'.divs[i].gen)
    <2>1. i \in 1..Len(file.divs) /\ file'.divs[i] = file.divs[i]
      BY <1>4, <1>5
    <2>2. CASE j \in 1..Len(file.divs)
      BY <1>2, <1>4, <1>5, <2>1, <2>2 DEF TInv, InOrder
    <2>3. CASE j = Len(file.divs) + 1
      <3>1. file'.divs[j] = d /\ IsDecision(d) /\ file.divs[i] \in Divs
        BY <1>3, <1>4, <1>5, <2>1, <2>3
      <3>2. IsFrame(d) /\ IsFrame(file.divs[i])
        BY <1>5, <2>1, <3>1, DivKinds
      <3>3. d.type # "STREAM_START"
        BY <3>1, RecordTypes DEF IsDecision
      <3> QED BY <1>4, <1>5, <2>1, <3>1, <3>2, <3>3 DEF Write, Writable
    <2> QED BY <1>4, <2>2, <2>3
  <1>6. InOrder(file')
    <2>1. file'.divs # <<>>
      BY <1>4
    <2> QED BY <1>5, <2>1 DEF InOrder
  <1> QED BY <1>2, <1>3, <1>6, NoneIsNoPlace DEF Write, tailer

LEMMA FinishGrows ==
  ASSUME TInv, FinishLine
  PROVE  /\ file # None /\ file.partial /\ ~file'.partial /\ file' # None
         /\ file' \in Logs /\ InOrder(file') /\ file \in Logs
         /\ file'.session = file.session /\ file'.id = file.id
         /\ file'.divs = file.divs
         /\ UNCHANGED <<sessions, pc, stat, machine, cursor, disk, crashes, quiet>>
  <1>1. file \in Logs /\ file # None /\ file.partial /\ InOrder(file)
    BY DEF TInv, TypeOK, FinishLine
  <1>2. /\ file' \in Logs /\ file'.session = file.session /\ file'.id = file.id
        /\ file'.divs = file.divs /\ ~file'.partial
    BY <1>1 DEF FinishLine, Logs
  <1>3. InOrder(file')
    BY <1>1, <1>2 DEF InOrder
  <1> QED BY <1>1, <1>2, <1>3, NoneIsNoPlace DEF FinishLine, tailer

LEMMA NewLogFacts ==
  ASSUME TInv, NEW id \in FileIds, NewLog(id)
  PROVE  /\ file' \in Logs /\ file' # None /\ InOrder(file')
         /\ file'.session = sessions + 1 /\ sessions' = sessions + 1
         /\ sessions' \in 0..MaxSessions /\ sessions' > 0
         /\ file'.divs = <<>> /\ ~file'.partial
         /\ UNCHANGED <<pc, stat, machine, cursor, disk, crashes>>
         /\ ReplaceDuringPoll \/ BetweenPolls
  <1>1. file' = [session |-> sessions + 1, id |-> id, divs |-> <<>>, partial |-> FALSE]
    BY DEF NewLog
  <1>2. file' \in Logs /\ InOrder(file')
    BY <1>1 DEF Logs, InOrder, TInv, TypeOK
  <1>3. /\ file'.session = sessions + 1 /\ file'.divs = <<>> /\ ~file'.partial
        /\ sessions' = sessions + 1 /\ sessions' \in 0..MaxSessions /\ sessions' > 0
    BY <1>1, TailerBounds DEF NewLog, TInv, TypeOK
  <1>4. /\ UNCHANGED <<pc, stat, machine, cursor, disk, crashes>>
        /\ ReplaceDuringPoll \/ BetweenPolls
    BY DEF NewLog, tailer
  <1>5. file' # None
    BY <1>2, NoneIsNoPlace
  <1> QED BY <1>2, <1>3, <1>4, <1>5

LEMMA ReadFromIs ==
  ASSUME NEW m, NEW f, NEW o
  PROVE  ReadFrom(m, f, o) = ReadOn(m, f.divs, (o + 1) \div 2, CompleteDivs(f))
  BY DEF ReadFrom, ReadOn

LEMMA ConsumedTyped ==
  ASSUME NEW f \in Logs, InOrder(f), NEW o \in Nat
  PROVE  /\ ConsumedFrom(f, o) \in Nat
         /\ ConsumedFrom(f, o) = o \/ ConsumedFrom(f, o) = 2 * CompleteDivs(f)
         /\ ConsumedFrom(f, o) = o <=> 2 * CompleteDivs(f) <= o
  BY LogSizes DEF ConsumedFrom

LEMMA PersistTyped ==
  ASSUME NEW m \in Machines, NEW c \in Cursors, Persist(m, c), TInv
  PROVE  /\ stat' = NoStat /\ pc' \in {"idle", "polled"}
         /\ disk' # None => /\ disk'.cursor \in Cursors
                            /\ \E n \in Machines : disk'.machine = ToPersisted(n)
  <1>1. CASE disk' = [machine |-> ToPersisted(m), cursor |-> c] /\ pc' = "polled"
    BY <1>1 DEF Persist
  <1>2. CASE UNCHANGED disk /\ pc' = "idle"
    BY <1>2 DEF Persist, TInv, TypeOK
  <1> QED BY <1>1, <1>2 DEF Persist

LEMMA NoStatTyped == NoStat \in [id: FileIds \cup {None}, offset: Nat]
  BY DEF NoStat

LEMMA GameKeepsTInv ==
  ASSUME TInv, Game
  PROVE  TInv'
  <1>1. ASSUME NEW d \in Divs, Write(d) PROVE TInv'
    <2>1. /\ file' # None /\ file' \in Logs /\ InOrder(file')
          /\ file'.session = file.session /\ file # None
          /\ UNCHANGED <<sessions, pc, stat, machine, cursor, disk, crashes, quiet>>
      BY <1>1, WriteGrows
    <2> QED BY <2>1 DEF TInv, TypeOK, UnderWay
  <1>2. CASE FinishLine
    <2>1. /\ file' # None /\ file' \in Logs /\ InOrder(file')
          /\ file'.session = file.session /\ file # None
          /\ UNCHANGED <<sessions, pc, stat, machine, cursor, disk, crashes, quiet>>
      BY <1>2, FinishGrows
    <2> QED BY <2>1 DEF TInv, TypeOK, UnderWay
  <1>3. ASSUME NEW id \in FileIds, NewLog(id) PROVE TInv'
    <2>1. /\ file' \in Logs /\ file' # None /\ InOrder(file')
          /\ file'.session = sessions' /\ sessions' \in 0..MaxSessions /\ sessions' > 0
          /\ UNCHANGED <<pc, stat, machine, cursor, disk, crashes>>
      BY <1>3, NewLogFacts
    <2>2. quiet' \in BOOLEAN
      BY <1>3 DEF NewLog, BetweenPolls
    <2> QED BY <2>1, <2>2 DEF TInv, TypeOK, UnderWay
  <1>4. CASE RemoveLog
    <2>1. quiet' \in BOOLEAN
      BY <1>4 DEF RemoveLog, BetweenPolls
    <2> QED BY <1>4, <2>1 DEF RemoveLog, tailer, TInv, TypeOK, UnderWay
  <1> QED BY <1>1, <1>2, <1>3, <1>4 DEF Game

\* The log and the session counter belong to the game.
LEMMA PollKeepsTInv ==
  ASSUME TInv, Poll
  PROVE  TInv'
  <1>1. CASE PollMissing /\ cursor = None
    BY <1>1 DEF PollMissing, Ready, TInv, TypeOK, UnderWay
  <1>2. CASE PollMissing /\ cursor # None
    <2>1. /\ machine' = EmptyState /\ Persist(EmptyState, cursor) /\ quiet' = TRUE
          /\ UNCHANGED <<file, sessions, cursor, crashes>> /\ cursor \in Cursors
      BY <1>2 DEF PollMissing, TInv, TypeOK
    <2>2. /\ stat' = NoStat /\ pc' \in {"idle", "polled"}
          /\ disk' # None => /\ disk'.cursor \in Cursors
                             /\ \E n \in Machines : disk'.machine = ToPersisted(n)
      BY <2>1, EmptyMachine, PersistTyped
    <2> QED BY <1>2, <2>1, <2>2, EmptyMachine, NoStatTyped
            DEF TInv, TypeOK, UnderWay, Machines
  <1>3. CASE PollStat
    <2>1. /\ file # None /\ file \in Logs /\ InOrder(file) /\ file.id \in FileIds
          /\ Size(file) \in Nat
      BY <1>3, LogSizes DEF PollStat, TInv, TypeOK, Logs
    <2>2. stat' \in [id: FileIds \cup {None}, offset: Nat] /\ stat'.id \in FileIds
      BY <1>3, <2>1 DEF PollStat
    <2>3. CursorAt(file.id, file, 0) \in Cursors
      BY <2>1, AnchorTyped
    <2>4. cursor' \in Cursors /\ cursor' # None
      BY <1>3, <2>3, NoneIsNoPlace DEF PollStat, TInv, TypeOK
    <2>5. /\ machine' \in Machines /\ pc' \in {"anchor", "move"}
          /\ machine' \in MachineState
      BY <1>3, EmptyMachine DEF PollStat, TInv, TypeOK, Machines
    <2> QED BY <1>3, <2>2, <2>4, <2>5 DEF PollStat, TInv, TypeOK, UnderWay
  <1>4. CASE PollAnchor
    <2>1. CASE Raises
      BY <1>4, <2>1, NoStatTyped DEF PollAnchor, Raises, TInv, TypeOK, UnderWay
    <2>2. CASE pc' = "read" /\ UNCHANGED <<stat, machine, cursor, disk>>
      BY <1>4, <2>2 DEF PollAnchor, TInv, TypeOK, UnderWay
    <2>3. CASE pc' = "move" /\ machine' = EmptyState /\ UNCHANGED <<stat, cursor, disk>>
      BY <1>4, <2>3, EmptyMachine DEF PollAnchor, TInv, TypeOK, UnderWay, Machines
    <2> QED BY <1>4, <2>1, <2>2, <2>3 DEF PollAnchor
  <1>5. CASE PollRead
    <2>1. CASE Raises
      BY <1>5, <2>1, NoStatTyped DEF PollRead, Raises, TInv, TypeOK, UnderWay
    <2>2. CASE ~Raises
      <3>1. /\ file # None /\ file \in Logs /\ InOrder(file) /\ machine \in Machines
            /\ cursor \in Cursors /\ cursor # None /\ cursor.offset \in Nat
            /\ stat.id \in FileIds
        BY <1>5, <2>2 DEF PollRead, TInv, TypeOK, UnderWay, Cursors
      <3>2. machine' = ReadOn(machine, file.divs, (cursor.offset + 1) \div 2,
                              CompleteDivs(file))
        BY <1>5, <2>2, ReadFromIs DEF PollRead
      <3>3. (cursor.offset + 1) \div 2 \in Nat
        BY <3>1
      <3>4. machine' \in Machines
        BY <3>1, <3>2, <3>3, LogSizes, ReadKeeps
      <3>5. /\ stat' \in [id: FileIds \cup {None}, offset: Nat]
            /\ pc' \in {"polled", "move"} /\ (pc' = "move" => stat'.id \in FileIds)
        <4>1. CASE pc' = "polled" /\ stat' = NoStat
          BY <4>1, NoStatTyped
        <4>2. CASE /\ pc' = "move"
                   /\ stat' = [stat EXCEPT !.offset = ConsumedFrom(file, cursor.offset)]
          BY <4>2, <3>1, ConsumedTyped DEF TInv, TypeOK
        <4> QED BY <1>5, <2>2, <4>1, <4>2 DEF PollRead
      <3>6. UNCHANGED <<cursor, disk, file, sessions, crashes, quiet>>
        BY <1>5, <2>2 DEF PollRead
      <3> QED BY <3>1, <3>4, <3>5, <3>6 DEF TInv, TypeOK, UnderWay, Machines
    <2> QED BY <2>1, <2>2
  <1>6. CASE PollMove
    <2>1. CASE Raises
      BY <1>6, <2>1, NoStatTyped DEF PollMove, Raises, TInv, TypeOK, UnderWay
    <2>2. CASE ~Raises
      <3>1. /\ file # None /\ file \in Logs /\ InOrder(file) /\ machine \in Machines
            /\ stat.id \in FileIds /\ stat.offset \in Nat
        BY <1>6, <2>2 DEF PollMove, TInv, TypeOK, UnderWay
      <3>2. cursor' \in Cursors /\ cursor' # None
        BY <1>6, <2>2, <3>1, AnchorTyped, NoneIsNoPlace DEF PollMove
      <3>3. Persist(machine, cursor') /\ UNCHANGED <<machine, file, sessions, crashes, quiet>>
        BY <1>6, <2>2 DEF PollMove
      <3>4. /\ stat' = NoStat /\ pc' \in {"idle", "polled"}
            /\ disk' # None => /\ disk'.cursor \in Cursors
                               /\ \E n \in Machines : disk'.machine = ToPersisted(n)
        BY <3>1, <3>2, <3>3, PersistTyped
      <3> QED BY <3>1, <3>2, <3>3, <3>4, NoStatTyped DEF TInv, TypeOK, UnderWay
    <2> QED BY <2>1, <2>2
  <1> QED BY <1>1, <1>2, <1>3, <1>4, <1>5, <1>6 DEF Poll

\* A restart finds the machine that was saved.
LEMMA RestartFinds ==
  ASSUME TInv, Restart, disk # None
  PROVE  /\ machine' = FromPersisted(disk.machine) /\ machine' \in Machines
         /\ cursor' = disk.cursor /\ cursor' \in Cursors
         /\ pc' = "idle" /\ UNCHANGED <<file, sessions, stat, disk, crashes, quiet>>
  <1>1. PICK m \in Machines : disk.machine = ToPersisted(m)
    BY DEF TInv
  <1>2. FromPersisted(disk.machine) \in Machines
    BY <1>1, Restored
  <1> QED BY <1>2 DEF Restart, TInv, TypeOK

LEMMA NextTInv == TInv /\ [Next]_vars => TInv'
  <1> SUFFICES ASSUME TInv, [Next]_vars PROVE TInv'
    OBVIOUS
  <1>1. CASE Game
    BY <1>1, GameKeepsTInv
  <1>2. CASE Poll
    BY <1>2, PollKeepsTInv
  <1>3. CASE Crash
    <2>1. crashes' \in 0..MaxCrashes
      BY <1>3, TailerBounds DEF Crash, TInv, TypeOK
    <2> QED BY <1>3, <2>1, EmptyMachine, NoStatTyped
            DEF Crash, TInv, TypeOK, UnderWay, Machines
  <1>4. CASE Restart /\ disk = None
    BY <1>4 DEF Restart, TInv, TypeOK, UnderWay
  <1>5. CASE Restart /\ disk # None
    BY <1>5, RestartFinds, NoneIsNoPlace DEF TInv, TypeOK, UnderWay, Machines
  <1>6. CASE UNCHANGED vars
    BY <1>6 DEF vars, TInv, TypeOK, UnderWay
  <1> QED BY <1>1, <1>2, <1>3, <1>4, <1>5, <1>6 DEF Next

LEMMA AlwaysTInv == Spec => []TInv
  BY InitTInv, NextTInv, PTL DEF Spec

\* The variables keep their types whatever the game writes, however often the
\* receiver crashes and whichever of its saves fail.
THEOREM TailerTypeCorrect == Spec => []TypeOK
  <1>1. TInv => TypeOK
    BY DEF TInv
  <1> QED BY <1>1, AlwaysTInv, PTL

-----------------------------------------------------------------------------
(* The first log *)

\* What reading the first k divs of log f gives.
Read(f, k) == ReadOn(EmptyState, f.divs, 0, k)

\* Cursor c stands behind k whole divs of f, and m is what reading them gave.
Exact(f, m, c) ==
    \E k \in 0..CompleteDivs(f) : c = CursorAt(f.id, f, 2 * k) /\ m = Read(f, k)

FirstLog == file # None /\ file.session = 1

FirstInv ==
    /\ sessions = 0 => file = None /\ cursor = None /\ disk = None /\ ~UnderWay
    /\ FirstLog =>
          /\ pc # "move" /\ cursor # None => Exact(file, machine, cursor)
          /\ UnderWay => stat.id = file.id
          /\ pc = "move" => Exact(file, machine, CursorAt(file.id, file, stat.offset))
          /\ disk # None => Exact(file, FromPersisted(disk.machine), disk.cursor)

\* Log g is log f written further.
Grown(f, g) ==
    /\ f \in Logs /\ g \in Logs /\ InOrder(f) /\ InOrder(g)
    /\ g.id = f.id /\ g.session = f.session
    /\ CompleteDivs(f) <= CompleteDivs(g) /\ Size(f) <= Size(g)
    /\ Len(f.divs) <= Len(g.divs)
    /\ \A i \in 1..Len(f.divs) : g.divs[i] = f.divs[i]

LEMMA WritingGrows ==
  ASSUME TInv, (\E d \in Divs : Write(d)) \/ FinishLine
  PROVE  /\ Grown(file, file') /\ file # None /\ file' # None
         /\ UNCHANGED <<sessions, pc, stat, machine, cursor, disk, crashes, quiet>>
  <1>1. file # None /\ file \in Logs /\ InOrder(file)
    BY DEF Write, FinishLine, TInv, TypeOK
  <1>2. ASSUME NEW d \in Divs, Write(d) PROVE Grown(file, file')
    <2>1. /\ file' \in Logs /\ InOrder(file') /\ ~file.partial
          /\ file'.session = file.session /\ file'.id = file.id
          /\ file'.divs = Append(file.divs, d) /\ file.divs \in Seq(Divs)
      BY <1>2, WriteGrows
    <2>2. /\ Len(file'.divs) = Len(file.divs) + 1 /\ Len(file.divs) \in Nat
          /\ \A i \in 1..Len(file.divs) : file'.divs[i] = file.divs[i]
      BY <2>1
    <2>3. CompleteDivs(file) = Len(file.divs) - 0 /\ Size(file) = 2 * Len(file.divs) - 0
      BY <2>1 DEF CompleteDivs, Size
    <2>4. /\ CompleteDivs(file') \in {Len(file'.divs) - 0, Len(file'.divs) - 1}
          /\ Size(file') \in {2 * Len(file'.divs) - 0, 2 * Len(file'.divs) - 1}
      BY DEF CompleteDivs, Size
    <2> QED BY <1>1, <2>1, <2>2, <2>3, <2>4 DEF Grown
  <1>3. ASSUME FinishLine PROVE Grown(file, file')
    <2>1. /\ file' \in Logs /\ InOrder(file') /\ file.partial /\ ~file'.partial
          /\ file'.session = file.session /\ file'.id = file.id
          /\ file'.divs = file.divs
      BY <1>3, FinishGrows
    <2>2. /\ CompleteDivs(file) = Len(file.divs) - 1 /\ Size(file) = 2 * Len(file.divs) - 1
          /\ CompleteDivs(file') = Len(file.divs) - 0 /\ Size(file') = 2 * Len(file.divs) - 0
          /\ Len(file.divs) \in Nat
      BY <1>1, <2>1 DEF CompleteDivs, Size, Logs
    <2> QED BY <1>1, <2>1, <2>2 DEF Grown
  <1>4. /\ file' # None
        /\ UNCHANGED <<sessions, pc, stat, machine, cursor, disk, crashes, quiet>>
    <2>1. ASSUME NEW d \in Divs, Write(d)
          PROVE  /\ file' # None
                 /\ UNCHANGED <<sessions, pc, stat, machine, cursor, disk, crashes, quiet>>
      BY <2>1, WriteGrows
    <2>2. CASE FinishLine
      BY <2>2, FinishGrows
    <2> QED BY <2>1, <2>2
  <1>5. Grown(file, file')
    BY <1>2, <1>3
  <1> QED BY <1>1, <1>4, <1>5

\* An anchor that does not lie in a partial line stays.
LEMMA AnchorStays ==
  ASSUME NEW f, NEW g, Grown(f, g), NEW k \in 0..CompleteDivs(f)
  PROVE  Anchor(g, 2 * k) = Anchor(f, 2 * k)
  <1>1. CASE k = 0
    BY <1>1 DEF Anchor
  <1>2. CASE k # 0
    <2>1. /\ CompleteDivs(f) \in 0..Len(f.divs) /\ 2 * CompleteDivs(f) <= Size(f)
          /\ Size(f) \in Nat /\ Size(g) \in Nat /\ Size(f) <= Size(g)
          /\ Len(f.divs) \in Nat
      BY LogSizes DEF Grown
    <2>2. /\ 2 * k # 0 /\ ~(2 * k > Size(f)) /\ ~(2 * k > Size(g))
          /\ (2 * k + 1) \div 2 = k /\ k \in 1..Len(f.divs)
      BY <1>2, <2>1
    <2>3. g.divs[k] = f.divs[k] /\ g.session = f.session
      BY <2>2 DEF Grown
    <2> QED BY <2>2, <2>3 DEF Anchor
  <1> QED BY <1>1, <1>2

LEMMA ExactStays ==
  ASSUME NEW f, NEW g, Grown(f, g), NEW m, NEW c, Exact(f, m, c)
  PROVE  Exact(g, m, c)
  <1>1. PICK k \in 0..CompleteDivs(f) : c = CursorAt(f.id, f, 2 * k) /\ m = Read(f, k)
    BY DEF Exact
  <1>2. /\ CompleteDivs(f) \in 0..Len(f.divs) /\ f.divs \in Seq(Divs) /\ g.divs \in Seq(Divs)
        /\ CompleteDivs(g) \in Nat /\ CompleteDivs(f) <= CompleteDivs(g)
    BY LogSizes DEF Grown
  <1>3. k \in 0..CompleteDivs(g)
    BY <1>2
  <1>4. CursorAt(g.id, g, 2 * k) = c
    BY <1>1, AnchorStays DEF CursorAt, Grown
  <1>5. SubSeq(g.divs, 0 + 1, k) = SubSeq(f.divs, 0 + 1, k)
    <2>1. k <= Len(f.divs) /\ k <= Len(g.divs) /\ \A i \in 1..k : g.divs[i] = f.divs[i]
      BY <1>2 DEF Grown
    <2> QED BY <1>2, <2>1
  <1>6. Read(g, k) = m
    BY <1>1, <1>5 DEF Read, ReadOn
  <1> QED BY <1>3, <1>4, <1>6 DEF Exact

LEMMA InitFirstInv == Init => FirstInv
  BY DEF Init, FirstInv, FirstLog, UnderWay

LEMMA GameKeepsFirstInv ==
  ASSUME TInv, FirstInv, Game
  PROVE  FirstInv'
  <1>1. CASE (\E d \in Divs : Write(d)) \/ FinishLine
    <2>1. /\ Grown(file, file') /\ file # None /\ file' # None
          /\ UNCHANGED <<sessions, pc, stat, machine, cursor, disk, crashes, quiet>>
      BY <1>1, WritingGrows
    <2>2. sessions # 0
      BY <2>1 DEF FirstInv
    <2>3. SUFFICES ASSUME FirstLog' PROVE FirstInv'
      BY <2>1, <2>2 DEF FirstInv
    <2>4. FirstLog /\ file'.id = file.id
      BY <2>1, <2>3 DEF FirstLog, Grown
    <2>5. pc = "move" => CursorAt(file'.id, file', stat.offset)
                            = CursorAt(file.id, file, stat.offset)
      <3>1. SUFFICES ASSUME pc = "move"
                     PROVE  Anchor(file', stat.offset) = Anchor(file, stat.offset)
        BY <2>4 DEF CursorAt
      <3>2. PICK k \in 0..CompleteDivs(file) :
               CursorAt(file.id, file, stat.offset) = CursorAt(file.id, file, 2 * k)
        BY <2>4, <3>1 DEF FirstInv, Exact
      <3>3. stat.offset = 2 * k
        BY <3>2 DEF CursorAt
      <3> QED BY <2>1, <3>3, AnchorStays
    <2>6. /\ pc # "move" /\ cursor # None => Exact(file', machine, cursor)
          /\ disk # None => Exact(file', FromPersisted(disk.machine), disk.cursor)
      BY <2>1, <2>4, ExactStays DEF FirstInv
    <2>7. pc = "move" => Exact(file', machine, CursorAt(file'.id, file', stat.offset))
      BY <2>1, <2>4, <2>5, ExactStays DEF FirstInv
    <2> QED BY <2>1, <2>2, <2>4, <2>6, <2>7 DEF FirstInv, UnderWay
  <1>2. ASSUME NEW id \in FileIds, NewLog(id) PROVE FirstInv'
    <2>1. /\ file'.session = sessions + 1 /\ sessions' = sessions + 1 /\ sessions \in Nat
          /\ UNCHANGED <<pc, stat, machine, cursor, disk, crashes>>
      BY <1>2, NewLogFacts DEF TInv, TypeOK
    <2>2. sessions' # 0
      BY <2>1
    <2>3. CASE sessions = 0
      BY <2>1, <2>2, <2>3 DEF FirstInv, UnderWay
    <2>4. CASE sessions # 0
      BY <2>1, <2>2, <2>4 DEF FirstInv, FirstLog
    <2> QED BY <2>3, <2>4
  <1>3. CASE RemoveLog
    BY <1>3 DEF RemoveLog, tailer, FirstInv, FirstLog, UnderWay
  <1> QED BY <1>1, <1>2, <1>3 DEF Game

LEMMA PollKeepsFirstInv ==
  ASSUME TInv, FirstInv, Poll
  PROVE  FirstInv'
  <1>1. CASE PollMissing
    <2>1. file' = None /\ sessions' = sessions /\ cursor' = cursor
      BY <1>1 DEF PollMissing
    <2>2. cursor = None => disk' = disk /\ pc' = "polled"
      BY <1>1 DEF PollMissing
    <2> QED BY <2>1, <2>2 DEF FirstInv, FirstLog, UnderWay
  <1>2. SUFFICES ASSUME ~PollMissing PROVE FirstInv'
    BY <1>1
  <1>3. file' = file /\ sessions' = sessions
    BY <1>2 DEF Poll, PollStat, PollAnchor, PollRead, PollMove
  <1>4. CASE file = None
    <2>1. Raises /\ UnderWay
      BY <1>2, <1>4 DEF Poll, PollStat, PollAnchor, PollRead, PollMove, UnderWay
    <2> QED BY <1>3, <1>4, <2>1 DEF FirstInv, FirstLog
  <1>5. CASE file # None /\ ~FirstLog
    <2>1. sessions # 0
      BY <1>5 DEF FirstInv
    <2> QED BY <1>3, <1>5, <2>1 DEF FirstInv, FirstLog
  <1>6. CASE FirstLog
    <2>1. /\ file # None /\ file \in Logs /\ InOrder(file) /\ sessions # 0
          /\ CompleteDivs(file) \in Nat /\ Size(file) \in Nat
          /\ 2 * CompleteDivs(file) <= Size(file) /\ FirstLog' /\ sessions' # 0
      BY <1>3, <1>6, LogSizes DEF FirstLog, FirstInv, TInv, TypeOK
    <2>2. CASE PollStat
      <3>1. CASE cursor = None
        <4>1. /\ cursor' = CursorAt(file.id, file, 0) /\ machine' = machine
              /\ pc' = "anchor" /\ stat'.id = file.id /\ disk' = disk
          BY <2>2, <3>1 DEF PollStat, Fits
        <4>2. machine = Read(file, 0)
          BY <2>1, <3>1, ReadNothing DEF TInv, Read, Logs
        <4>3. Exact(file, machine, CursorAt(file.id, file, 2 * 0))
          BY <2>1, <4>2 DEF Exact
        <4> QED BY <1>3, <1>6, <2>1, <4>1, <4>3 DEF FirstInv, UnderWay
      <3>2. CASE cursor # None
        <4>1. PICK k \in 0..CompleteDivs(file) : cursor = CursorAt(file.id, file, 2 * k)
          BY <1>6, <2>2, <3>2 DEF FirstInv, Exact, PollStat, Ready
        <4>2. Fits
          BY <2>1, <4>1 DEF Fits, CursorAt
        <4>3. /\ cursor' = cursor /\ machine' = machine
              /\ pc' = "anchor" /\ stat'.id = file.id /\ disk' = disk
          BY <2>2, <3>2, <4>2 DEF PollStat
        <4>4. pc # "move"
          BY <2>2 DEF PollStat, Ready
        <4> QED BY <1>3, <1>6, <2>1, <3>2, <4>3, <4>4 DEF FirstInv, UnderWay
      <3> QED BY <3>1, <3>2
    <2>3. CASE PollAnchor
      <3>1. Exact(file, machine, cursor) /\ cursor # None /\ stat.id = file.id
        BY <1>6, <2>3 DEF PollAnchor, FirstInv, UnderWay, TInv
      <3>2. Anchor(file, cursor.offset) = cursor.anchor
        BY <3>1 DEF Exact, CursorAt
      <3>3. pc' = "read" /\ UNCHANGED <<stat, machine, cursor, disk>>
        BY <2>1, <2>3, <3>2 DEF PollAnchor
      <3> QED BY <1>3, <1>6, <2>1, <3>1, <3>3 DEF FirstInv, UnderWay
    <2>4. CASE PollRead
      <3>1. /\ Exact(file, machine, cursor) /\ cursor # None /\ stat.id = file.id
            /\ stat \in [id: FileIds \cup {None}, offset: Nat]
        BY <1>6, <2>4 DEF PollRead, FirstInv, UnderWay, TInv, TypeOK
      <3>2. PICK k \in 0..CompleteDivs(file) :
               cursor = CursorAt(file.id, file, 2 * k) /\ machine = Read(file, k)
        BY <3>1 DEF Exact
      <3>3. cursor.offset = 2 * k /\ (cursor.offset + 1) \div 2 = k
        BY <2>1, <3>2 DEF CursorAt
      <3>4. machine' = Read(file, CompleteDivs(file))
        <4>1. machine' = ReadOn(machine, file.divs, k, CompleteDivs(file))
          BY <2>1, <2>4, <3>3, ReadFromIs DEF PollRead, Raises
        <4>2. file.divs \in Seq(Divs) /\ CompleteDivs(file) <= Len(file.divs)
          BY <2>1, LogSizes
        <4> QED BY <2>1, <3>2, <4>1, <4>2, ReadContinues DEF Read
      <3>5. cursor' = cursor /\ disk' = disk
        BY <2>1, <2>4 DEF PollRead
      <3>6. CASE k = CompleteDivs(file)
        <4>1. pc' = "polled"
          BY <2>1, <2>4, <3>3, <3>6, ConsumedTyped DEF PollRead
        <4>2. Exact(file, machine', cursor)
          BY <3>1, <3>2, <3>4, <3>6
        <4> QED BY <1>3, <1>6, <2>1, <2>4, <3>5, <4>1, <4>2 DEF FirstInv, UnderWay
      <3>7. CASE k # CompleteDivs(file)
        <4>1. ConsumedFrom(file, cursor.offset) = 2 * CompleteDivs(file)
          BY <2>1, <3>3, <3>7 DEF ConsumedFrom
        <4>2. /\ pc' = "move" /\ stat'.offset = 2 * CompleteDivs(file)
              /\ stat'.id = file.id
          BY <2>1, <2>4, <3>1, <3>3, <3>7, <4>1 DEF PollRead
        <4>3. Exact(file, machine', CursorAt(file.id, file, stat'.offset))
          BY <2>1, <3>4, <4>2 DEF Exact
        <4> QED BY <1>3, <1>6, <2>1, <2>4, <3>5, <4>2, <4>3 DEF FirstInv, UnderWay
      <3> QED BY <3>6, <3>7
    <2>5. CASE PollMove
      <3>1. /\ Exact(file, machine, CursorAt(file.id, file, stat.offset))
            /\ stat.id = file.id
        BY <1>6, <2>5 DEF PollMove, FirstInv, UnderWay
      <3>2. /\ cursor' = CursorAt(file.id, file, stat.offset)
            /\ Persist(machine, cursor') /\ machine' = machine
        BY <2>1, <2>5, <3>1 DEF PollMove
      <3>3. FromPersisted(ToPersisted(machine)) = machine
        BY Restored DEF TInv
      <3>4. CASE disk' = [machine |-> ToPersisted(machine), cursor |-> cursor'] /\ pc' = "polled"
        <4>1. disk'.machine = ToPersisted(machine) /\ disk'.cursor = cursor'
          BY <3>4
        <4> QED BY <1>3, <2>1, <3>1, <3>2, <3>3, <3>4, <4>1 DEF FirstInv, UnderWay
      <3>5. CASE UNCHANGED disk /\ pc' = "idle"
        BY <1>3, <1>6, <2>1, <3>1, <3>2, <3>5 DEF FirstInv, UnderWay
      <3> QED BY <3>2, <3>4, <3>5 DEF Persist
    <2> QED BY <1>2, <2>2, <2>3, <2>4, <2>5 DEF Poll
  <1> QED BY <1>4, <1>5, <1>6

LEMMA NextFirstInv == TInv /\ FirstInv /\ [Next]_vars => FirstInv'
  <1> SUFFICES ASSUME TInv, FirstInv, [Next]_vars PROVE FirstInv'
    OBVIOUS
  <1>1. CASE Game
    BY <1>1, GameKeepsFirstInv
  <1>2. CASE Poll
    BY <1>2, PollKeepsFirstInv
  <1>3. CASE Crash
    BY <1>3 DEF Crash, FirstInv, FirstLog, UnderWay
  <1>4. CASE Restart /\ disk = None
    BY <1>4 DEF Restart, FirstInv, FirstLog, UnderWay, TInv
  <1>5. CASE Restart /\ disk # None
    BY <1>5, RestartFinds DEF FirstInv, FirstLog, UnderWay
  <1>6. CASE UNCHANGED vars
    BY <1>6 DEF vars, FirstInv, FirstLog, UnderWay
  <1> QED BY <1>1, <1>2, <1>3, <1>4, <1>5, <1>6 DEF Next

\* As long as the first log is there, the machine is what reading that log from
\* its beginning to the cursor gives: polls that fail half-way, crashes, failed
\* saves and restarts neither skip a frame nor read one twice.
THEOREM EveryFrameOnce == Spec => []NothingSkippedOrDoubled
  <1>1. TInv /\ FirstInv => NothingSkippedOrDoubled
    <2> SUFFICES ASSUME TInv, FirstInv, pc = "polled", FirstLog, cursor # None
                 PROVE  machine = FoldLeft(Hear, EmptyState,
                                           SubSeq(file.divs, 1, cursor.offset \div 2))
      BY DEF NothingSkippedOrDoubled, FirstLog
    <2>1. PICK k \in 0..CompleteDivs(file) :
             cursor = CursorAt(file.id, file, 2 * k) /\ machine = Read(file, k)
      BY DEF FirstInv, Exact
    <2>2. CompleteDivs(file) \in Nat
      BY LogSizes DEF FirstLog, TInv, TypeOK
    <2>3. cursor.offset \div 2 = k /\ 0 + 1 = 1
      BY <2>1, <2>2 DEF CursorAt
    <2> QED BY <2>1, <2>3 DEF Read, ReadOn
  <1>2. Spec => []FirstInv
    BY AlwaysTInv, InitFirstInv, NextFirstInv, PTL DEF Spec
  <1> QED BY <1>1, <1>2, AlwaysTInv, PTL

-----------------------------------------------------------------------------
(* Any log, when none is replaced while it is read *)

\* READY r stands in log f at div k, which repeats it or is noise.
StandsAt(f, k, r) ==
    /\ k \in 1..CompleteDivs(f)
    /\ f.divs[k] = Noise \/ Repeated(f.divs[k], r)
    /\ StandsIn(f, k, r)

AdviceAt(f, m, o) ==
    m.decision # None => \E k \in Nat : o = 2 * k /\ StandsAt(f, k, m.decision.record)

\* The anchor recognises a log in which the advice of m stands: by the READY
\* itself, or by a line that only the log it was read from can hold; f is the
\* present log and n the number of logs there were.
VouchedAt(f, n, m, c, k) ==
    /\ c.offset = 2 * k
    /\ \/ \E d \in Divs : Repeated(d, m.decision.record) /\ c.anchor = <<d, 0, 0>>
       \/ \E s \in 1..n :
             /\ c.anchor = <<Noise, 0, s>>
             /\ f # None /\ f.session = s => StandsAt(f, k, m.decision.record)

Vouched(f, n, m, c) ==
    m.decision # None => \E k \in Nat \ {0} : VouchedAt(f, n, m, c, k)

AdviceInv ==
    /\ UnderWay => file # None /\ stat.id = file.id
    /\ pc # "move" /\ cursor # None => Vouched(file, sessions, machine, cursor)
    /\ pc \in {"anchor", "read"} => cursor.offset <= Size(file)
    /\ pc = "read" => AdviceAt(file, machine, cursor.offset)
    /\ pc = "move" => AdviceAt(file, machine, stat.offset)
    /\ disk # None => Vouched(file, sessions, FromPersisted(disk.machine), disk.cursor)

LEMMA RepeatedIsDecision ==
  ASSUME NEW d \in Divs, NEW r, Repeated(d, r)
  PROVE  IsDecision(d) /\ d # Noise
  BY RecordTypes, DivKinds DEF Repeated, IsDecision, Noise, ReadyType

LEMMA StandsAtStays ==
  ASSUME NEW f, NEW g, Grown(f, g), NEW k, NEW r, StandsAt(f, k, r)
  PROVE  StandsAt(g, k, r)
  <1>1. /\ CompleteDivs(f) \in 0..Len(f.divs) /\ Len(f.divs) \in Nat
        /\ CompleteDivs(g) \in Nat /\ CompleteDivs(f) <= CompleteDivs(g)
    BY LogSizes DEF Grown
  <1>2. k \in 1..CompleteDivs(g) /\ k \in 1..Len(f.divs)
    BY <1>1 DEF StandsAt
  <1>3. \A i \in 1..k : g.divs[i] = f.divs[i]
    BY <1>1, <1>2 DEF Grown
  <1>4. StandsIn(g, k, r)
    <2>1. PICK i \in 1..k : /\ Repeated(f.divs[i], r)
                            /\ \A j \in (i + 1)..k :
                                  IsDecision(f.divs[j]) => Repeated(f.divs[j], r)
      BY DEF StandsAt, StandsIn
    <2>2. \A j \in (i + 1)..k : j \in 1..k
      BY <1>2
    <2> QED BY <1>3, <2>1, <2>2 DEF StandsIn
  <1>5. g.divs[k] = f.divs[k]
    BY <1>2, <1>3
  <1> QED BY <1>2, <1>4, <1>5 DEF StandsAt

LEMMA VouchedStays ==
  ASSUME NEW f, NEW g, Grown(f, g), f # None, NEW n, NEW m, NEW c, Vouched(f, n, m, c)
  PROVE  Vouched(g, n, m, c)
  <1> SUFFICES ASSUME m.decision # None
               PROVE  \E k \in Nat \ {0} : VouchedAt(g, n, m, c, k)
    BY DEF Vouched
  <1>1. PICK k \in Nat \ {0} : VouchedAt(f, n, m, c, k)
    BY DEF Vouched
  <1>2. VouchedAt(g, n, m, c, k)
    BY <1>1, StandsAtStays DEF VouchedAt, Grown
  <1> QED BY <1>2

\* A log that is new, or gone, contradicts no voucher.
LEMMA VouchedElsewhere ==
  ASSUME NEW f, NEW g, NEW n \in Nat, NEW u \in Nat, n <= u,
         g = None \/ g.session = n + 1,
         NEW m, NEW c, Vouched(f, n, m, c)
  PROVE  Vouched(g, u, m, c)
  <1> SUFFICES ASSUME m.decision # None
               PROVE  \E k \in Nat \ {0} : VouchedAt(g, u, m, c, k)
    BY DEF Vouched
  <1>1. PICK k \in Nat \ {0} : VouchedAt(f, n, m, c, k)
    BY DEF Vouched
  <1>2. CASE \E d \in Divs : Repeated(d, m.decision.record) /\ c.anchor = <<d, 0, 0>>
    BY <1>1, <1>2 DEF VouchedAt
  <1>3. CASE \E s \in 1..n : c.anchor = <<Noise, 0, s>>
    <2>1. PICK s \in 1..n : c.anchor = <<Noise, 0, s>>
      BY <1>3
    <2>2. s \in 1..u /\ ~(g # None /\ g.session = s)
      BY <2>1
    <2>3. VouchedAt(g, u, m, c, k)
      BY <1>1, <2>1, <2>2 DEF VouchedAt
    <2> QED BY <2>3
  <1> QED BY <1>1, <1>2, <1>3 DEF VouchedAt

LEMMA AnchorAtDiv ==
  ASSUME NEW f \in Logs, InOrder(f), NEW k \in Nat \ {0}, 2 * k <= Size(f)
  PROVE  /\ k \in 1..CompleteDivs(f) /\ f.divs[k] \in Divs
         /\ Anchor(f, 2 * k) = <<f.divs[k], 0, IF f.divs[k] = Noise THEN f.session ELSE 0>>
  <1>1. /\ k \in 1..CompleteDivs(f) /\ k \in 1..Len(f.divs) /\ f.divs \in Seq(Divs)
        /\ Size(f) \in Nat
    BY LogSizes
  <1>2. 2 * k # 0 /\ ~(2 * k > Size(f)) /\ (2 * k + 1) \div 2 = k /\ (2 * k) % 2 = 0
    BY <1>1
  <1> QED BY <1>1, <1>2 DEF Anchor

\* A log that the anchor recognises holds the advice.
LEMMA Recognised ==
  ASSUME NEW f \in Logs, InOrder(f), f # None, NEW n, NEW m, NEW c,
         Vouched(f, n, m, c), c.offset <= Size(f), Anchor(f, c.offset) = c.anchor
  PROVE  AdviceAt(f, m, c.offset)
  <1> SUFFICES ASSUME m.decision # None
               PROVE  \E k \in Nat : c.offset = 2 * k /\ StandsAt(f, k, m.decision.record)
    BY DEF AdviceAt
  <1> DEFINE r == m.decision.record
  <1>1. PICK k \in Nat \ {0} : VouchedAt(f, n, m, c, k)
    BY DEF Vouched
  <1>2. c.offset = 2 * k
    BY <1>1 DEF VouchedAt
  <1>3. /\ k \in 1..CompleteDivs(f) /\ f.divs[k] \in Divs
        /\ c.anchor = <<f.divs[k], 0, IF f.divs[k] = Noise THEN f.session ELSE 0>>
    BY <1>2, AnchorAtDiv
  <1>4. CASE \E d \in Divs : Repeated(d, r) /\ c.anchor = <<d, 0, 0>>
    <2>1. Repeated(f.divs[k], r)
      BY <1>3, <1>4
    <2>2. k \in 1..k /\ (k + 1)..k = {}
      BY <1>1
    <2>3. StandsIn(f, k, r)
      BY <2>1, <2>2 DEF StandsIn
    <2> QED BY <1>2, <1>3, <2>1, <2>3 DEF StandsAt
  <1>5. CASE \E s \in 1..n : /\ c.anchor = <<Noise, 0, s>>
                             /\ f # None /\ f.session = s => StandsAt(f, k, r)
    <2>1. PICK s \in 1..n : /\ c.anchor = <<Noise, 0, s>>
                            /\ f # None /\ f.session = s => StandsAt(f, k, r)
      BY <1>5
    <2>2. f.divs[k] = Noise
      BY <1>3, <2>1
    <2>3. f.session = s
      BY <1>3, <2>1, <2>2
    <2> QED BY <1>2, <2>1, <2>3
  <1> QED BY <1>1, <1>4, <1>5 DEF VouchedAt

\* The anchor taken behind a div at which the advice stands vouches for it.
LEMMA AnchorVouches ==
  ASSUME NEW f \in Logs, InOrder(f), NEW n \in Nat, f.session \in 1..n,
         NEW m, NEW o, AdviceAt(f, m, o), NEW id
  PROVE  Vouched(f, n, m, CursorAt(id, f, o))
  <1> DEFINE c == CursorAt(id, f, o)
             r == m.decision.record
  <1> SUFFICES ASSUME m.decision # None
               PROVE  \E k \in Nat \ {0} : VouchedAt(f, n, m, c, k)
    BY DEF Vouched
  <1>1. PICK k \in Nat : o = 2 * k /\ StandsAt(f, k, r)
    BY DEF AdviceAt
  <1>2. k \in Nat \ {0} /\ 2 * k <= Size(f)
    BY <1>1, LogSizes DEF StandsAt
  <1>3. /\ f.divs[k] \in Divs /\ c.offset = 2 * k
        /\ c.anchor = <<f.divs[k], 0, IF f.divs[k] = Noise THEN f.session ELSE 0>>
    BY <1>1, <1>2, AnchorAtDiv DEF CursorAt
  <1> HIDE DEF c
  <1>4. CASE f.divs[k] = Noise
    <2>1. c.anchor = <<Noise, 0, f.session>>
      BY <1>3, <1>4
    <2>2. VouchedAt(f, n, m, c, k)
      BY <1>1, <1>3, <2>1 DEF VouchedAt
    <2> QED BY <1>2, <2>2
  <1>5. CASE f.divs[k] # Noise
    <2>1. Repeated(f.divs[k], r) /\ c.anchor = <<f.divs[k], 0, 0>>
      BY <1>1, <1>3, <1>5 DEF StandsAt
    <2>2. VouchedAt(f, n, m, c, k)
      BY <1>3, <2>1 DEF VouchedAt
    <2> QED BY <1>2, <2>2
  <1> QED BY <1>4, <1>5

\* One div more: the advice still stands, or is that div's, or is withdrawn.
LEMMA HearStands ==
  ASSUME NEW f \in Logs, InOrder(f), NEW m \in Machines, NEW n \in Nat,
         n < CompleteDivs(f),
         m.decision # None => StandsAt(f, n, m.decision.record),
         Hear(m, f.divs[n + 1]).decision # None
  PROVE  StandsAt(f, n + 1, Hear(m, f.divs[n + 1]).decision.record)
  <1> DEFINE d == f.divs[n + 1]
  <1>1. /\ n + 1 \in 1..CompleteDivs(f) /\ n + 1 \in 1..Len(f.divs) /\ d \in Divs
        /\ f.divs \in Seq(Divs)
    BY LogSizes
  <1>2. CASE d = Noise
    <2>1. Hear(m, d) = m
      BY <1>2 DEF Hear
    <2>2. StandsAt(f, n, m.decision.record)
      BY <2>1
    <2>3. PICK i \in 1..n :
             /\ Repeated(f.divs[i], m.decision.record)
             /\ \A j \in (i + 1)..n :
                   IsDecision(f.divs[j]) => Repeated(f.divs[j], m.decision.record)
      BY <2>2 DEF StandsAt, StandsIn
    <2>4. ~IsDecision(d)
      BY <1>2, RecordTypes DEF IsDecision, Noise, ReadyType, InvalidatedType
    <2>5. ASSUME NEW j \in (i + 1)..(n + 1), IsDecision(f.divs[j])
          PROVE  Repeated(f.divs[j], m.decision.record)
      BY <2>3, <2>4, <2>5, j = n + 1 \/ j \in (i + 1)..n
    <2>6. i \in 1..(n + 1)
      OBVIOUS
    <2>7. StandsIn(f, n + 1, m.decision.record)
      BY <2>3, <2>5, <2>6 DEF StandsIn
    <2> QED BY <1>1, <1>2, <2>1, <2>7 DEF StandsAt
  <1>3. CASE d = Malformed
    <2>1. Hear(m, d) = ClearReadiness(m)
      BY <1>3 DEF Hear, Malformed, Noise
    <2> QED BY <2>1, ClearedMachine
  <1>4. CASE d # Noise /\ d # Malformed
    <2>1. Hear(m, d) = Accept(m, d, 1) /\ d \in LiveRecord
      BY <1>1, <1>4, DivKinds DEF Hear
    <2>2. \/ /\ Accept(m, d, 1) = m /\ d.type # "STREAM_START" /\ BehindMachine(m, d)
          \/ Repeated(d, Accept(m, d, 1).decision.record)
      BY <2>1, Accepted
    <2>3. CASE Repeated(d, Accept(m, d, 1).decision.record)
      <3>1. n + 1 \in 1..(n + 1) /\ (n + 1 + 1)..(n + 1) = {}
        OBVIOUS
      <3>2. StandsIn(f, n + 1, Accept(m, d, 1).decision.record)
        BY <2>3, <3>1 DEF StandsIn
      <3> QED BY <1>1, <2>1, <2>3, <3>2 DEF StandsAt
    <2>4. CASE Accept(m, d, 1) = m /\ d.type # "STREAM_START" /\ BehindMachine(m, d)
      <3> DEFINE r == m.decision.record
      <3>1. m.decision # None
        BY <2>1, <2>4
      <3>2. PICK i \in 1..n : Repeated(f.divs[i], r)
        BY <3>1 DEF StandsAt, StandsIn
      <3>3. /\ i < n + 1 /\ i \in DOMAIN f.divs /\ n + 1 \in DOMAIN f.divs
            /\ f.divs[i] \in Divs
        BY <1>1
      <3>4. IsDecision(f.divs[i])
        BY <3>2, <3>3, RepeatedIsDecision
      <3>5. IsDecision(d)
        BY <2>1, <2>4, DecisionRecord DEF IsDecision
      <3>6. ~KeyLess(d.battle, d.gen, f.divs[i].battle, f.divs[i].gen)
        BY <3>3, <3>4, <3>5 DEF InOrder
      <3>7. f.divs[i].battle = m.battle /\ f.divs[i].gen = m.gen
        BY <3>1, <3>2, AdviceAtMachine DEF Repeated
      <3> QED BY <2>4, <3>6, <3>7 DEF BehindMachine
    <2> QED BY <2>2, <2>3, <2>4
  <1> QED BY <1>2, <1>3, <1>4

\* Reading to the end of the whole divs: what is advised stands there.
LEMMA ReadingStands ==
  ASSUME NEW f \in Logs, InOrder(f), NEW m \in Machines, NEW o \in Nat,
         AdviceAt(f, m, o), (o + 1) \div 2 <= CompleteDivs(f)
  PROVE  AdviceAt(f, ReadOn(m, f.divs, (o + 1) \div 2, CompleteDivs(f)),
                  2 * CompleteDivs(f))
  <1> DEFINE a == (o + 1) \div 2
             e == CompleteDivs(f)
             v(n) == ReadOn(m, f.divs, a, n)
             S == { n \in Nat : a <= n /\ n <= e /\ v(n).decision # None =>
                                    StandsAt(f, n, v(n).decision.record) }
  <1>1. /\ a \in Nat /\ e \in Nat /\ e <= Len(f.divs) /\ f.divs \in Seq(Divs)
        /\ Len(f.divs) \in Nat /\ a <= e
    BY LogSizes
  <1> HIDE DEF a, e
  <1>2. ASSUME NEW n \in Nat, n = a, v(n).decision # None
        PROVE  StandsAt(f, n, v(n).decision.record)
    <2>1. v(n) = m
      BY <1>1, <1>2, ReadNothing
    <2>2. PICK k \in Nat : o = 2 * k /\ StandsAt(f, k, m.decision.record)
      BY <1>2, <2>1 DEF AdviceAt
    <2>3. n = k
      BY <1>2, <2>2 DEF a
    <2> QED BY <2>1, <2>2, <2>3
  <1>3. 0 \in S
    BY <1>1, <1>2, a <= 0 => a = 0
  <1>4. ASSUME NEW n \in S PROVE n + 1 \in S
    <2>1. SUFFICES ASSUME a <= n + 1, n + 1 <= e, v(n + 1).decision # None
                   PROVE  StandsAt(f, n + 1, v(n + 1).decision.record)
      OBVIOUS
    <2>2. CASE n + 1 = a
      BY <1>2, <2>1, <2>2
    <2>3. CASE a <= n
      <3>1. n \in Nat /\ n < Len(f.divs) /\ n <= Len(f.divs) /\ n < e /\ n <= e
        BY <1>1, <2>1
      <3>2. v(n + 1) = Hear(v(n), f.divs[n + 1])
        BY <1>1, <2>3, <3>1, ReadOneMore
      <3>3. v(n) \in Machines
        BY <1>1, <3>1, ReadKeeps
      <3>4. v(n).decision # None => StandsAt(f, n, v(n).decision.record)
        BY <2>3, <3>1
      <3> HIDE DEF v
      <3> QED BY <2>1, <3>1, <3>2, <3>3, <3>4, HearStands DEF e
    <2> QED BY <1>1, <2>1, <2>2, <2>3
  <1> HIDE DEF S
  <1>5. S = Nat
    BY <1>3, <1>4, SetInduction DEF S
  <1>6. v(e).decision # None => StandsAt(f, e, v(e).decision.record)
    BY <1>1, <1>5 DEF S
  <1> QED BY <1>1, <1>6 DEF AdviceAt, a, e

LEMMA InitAdviceInv == Init => AdviceInv
  BY DEF Init, AdviceInv, UnderWay

LEMMA GameKeepsAdviceInv ==
  ASSUME TInv, AdviceInv, Game, ~ReplaceDuringPoll
  PROVE  AdviceInv'
  <1>1. CASE (\E d \in Divs : Write(d)) \/ FinishLine
    <2>1. /\ Grown(file, file') /\ file # None /\ file' # None
          /\ UNCHANGED <<sessions, pc, stat, machine, cursor, disk, crashes, quiet>>
      BY <1>1, WritingGrows
    <2>2. \A k, r : StandsAt(file, k, r) => StandsAt(file', k, r)
      BY <2>1, StandsAtStays
    <2>3. /\ pc = "read" => AdviceAt(file', machine, cursor.offset)
          /\ pc = "move" => AdviceAt(file', machine, stat.offset)
      BY <2>2 DEF AdviceInv, AdviceAt
    <2>4. \A m, c : Vouched(file, sessions, m, c) => Vouched(file', sessions, m, c)
      BY <2>1, VouchedStays
    <2>5. pc \in {"anchor", "read"} => cursor.offset <= Size(file')
      <3>1. SUFFICES ASSUME pc \in {"anchor", "read"} PROVE cursor.offset <= Size(file')
        OBVIOUS
      <3>2. cursor.offset \in Nat /\ cursor.offset <= Size(file)
        BY <3>1 DEF AdviceInv, TInv, TypeOK, UnderWay, Cursors
      <3>3. Size(file) <= Size(file') /\ Size(file) \in Nat /\ Size(file') \in Nat
        BY <2>1, LogSizes DEF Grown
      <3> QED BY <3>2, <3>3
    <2>6. file'.id = file.id
      BY <2>1 DEF Grown
    <2>7. /\ pc # "move" /\ cursor # None => Vouched(file', sessions, machine, cursor)
          /\ disk # None => Vouched(file', sessions, FromPersisted(disk.machine), disk.cursor)
      BY <2>4 DEF AdviceInv
    <2>8. UnderWay => stat.id = file'.id
      BY <2>6 DEF AdviceInv
    <2> QED BY <2>1, <2>3, <2>5, <2>7, <2>8 DEF AdviceInv, UnderWay
  <1>2. CASE (\E id \in FileIds : NewLog(id)) \/ RemoveLog
    <2>1. /\ UNCHANGED <<pc, stat, machine, cursor, disk, crashes>>
          /\ ~UnderWay /\ sessions \in Nat /\ sessions' \in Nat /\ sessions <= sessions'
          /\ file' = None \/ file'.session = sessions + 1
      <3>1. ASSUME NEW id \in FileIds, NewLog(id)
            PROVE  /\ UNCHANGED <<pc, stat, machine, cursor, disk, crashes>>
                   /\ ~UnderWay /\ sessions \in Nat /\ sessions' \in Nat
                   /\ sessions <= sessions' /\ file'.session = sessions + 1
        BY <3>1, NewLogFacts DEF BetweenPolls, UnderWay, TInv, TypeOK
      <3>2. CASE RemoveLog
        BY <3>2 DEF RemoveLog, BetweenPolls, UnderWay, tailer, TInv, TypeOK
      <3> QED BY <1>2, <3>1, <3>2
    <2>2. \A m, c : Vouched(file, sessions, m, c) => Vouched(file', sessions', m, c)
      BY <2>1, VouchedElsewhere
    <2>3. /\ pc # "move" /\ cursor # None => Vouched(file', sessions', machine, cursor)
          /\ disk # None => Vouched(file', sessions', FromPersisted(disk.machine), disk.cursor)
      BY <2>2 DEF AdviceInv
    <2> QED BY <2>1, <2>3 DEF AdviceInv, UnderWay
  <1> QED BY <1>1, <1>2 DEF Game

\* A machine without advice needs no voucher, and stands anywhere.
LEMMA NoAdvice ==
  ASSUME NEW m, m.decision = None
  PROVE  /\ \A f, n, c : Vouched(f, n, m, c)
         /\ \A f, o : AdviceAt(f, m, o)
  BY DEF Vouched, AdviceAt

LEMMA EmptySaved ==
  /\ EmptyState.decision = None
  /\ FromPersisted(ToPersisted(EmptyState)) = EmptyState
  BY EmptyMachine, Restored DEF EmptyState

\* What a poll without a log in place leaves.
LEMMA MissingKeepsAdviceInv ==
  ASSUME TInv, AdviceInv, PollMissing
  PROVE  AdviceInv' /\ machine'.decision = None
  <1>1. file' = file /\ sessions' = sessions /\ cursor' = cursor
    BY DEF PollMissing
  <1>2. CASE cursor = None
    <2>1. pc' = "polled" /\ UNCHANGED <<machine, disk>> /\ machine = EmptyState
      BY <1>2 DEF PollMissing, TInv
    <2> QED BY <1>1, <1>2, <2>1, EmptySaved DEF AdviceInv, UnderWay
  <1>3. CASE cursor # None
    <2>1. machine' = EmptyState /\ Persist(EmptyState, cursor)
      BY <1>3 DEF PollMissing
    <2>2. machine'.decision = None
      BY <2>1, EmptySaved
    <2>3. pc' \in {"idle", "polled"}
      BY <2>1 DEF Persist
    <2>4. disk' # None =>
             Vouched(file, sessions, FromPersisted(disk'.machine), disk'.cursor)
      <3>1. CASE disk' = [machine |-> ToPersisted(EmptyState), cursor |-> cursor]
        BY <3>1, EmptySaved, NoAdvice
      <3>2. CASE disk' = disk
        BY <3>2 DEF AdviceInv
      <3> QED BY <2>1, <3>1, <3>2 DEF Persist
    <2>5. Vouched(file, sessions, machine', cursor)
      BY <2>2, NoAdvice
    <2> QED BY <1>1, <2>2, <2>3, <2>4, <2>5 DEF AdviceInv, UnderWay
  <1> QED BY <1>2, <1>3

\* A poll that finds a log, which stays where it is until the poll returns.
LEMMA PollKeepsAdviceInv ==
  ASSUME TInv, AdviceInv, PollStat \/ PollAnchor \/ PollRead \/ PollMove
  PROVE  /\ AdviceInv'
         /\ pc' = "polled" => AdviceAt(file', machine', cursor'.offset)
  <1>1. /\ file' = file /\ sessions' = sessions /\ file # None /\ file \in Logs
        /\ InOrder(file) /\ machine \in Machines /\ sessions \in Nat
        /\ file.session = sessions /\ file.session \in 1..sessions
        /\ Size(file) \in Nat /\ CompleteDivs(file) \in Nat
        /\ Size(file) <= 2 * CompleteDivs(file) + 1
    <2>1. file # None
      BY DEF PollStat, PollAnchor, PollRead, PollMove, AdviceInv, UnderWay
    <2>2. file' = file /\ sessions' = sessions
      BY DEF PollStat, PollAnchor, PollRead, PollMove
    <2>3. /\ file \in Logs /\ InOrder(file) /\ machine \in Machines /\ sessions \in Nat
          /\ file.session = sessions /\ sessions > 0
      BY <2>1 DEF TInv, TypeOK
    <2> QED BY <2>1, <2>2, <2>3, LogSizes
  <1>2. CASE PollStat
    <2>1. disk' = disk /\ stat'.id = file.id /\ pc # "move"
      BY <1>2 DEF PollStat, Ready
    <2>2. CASE Fits
      <3>1. pc' = "anchor" /\ machine' = machine
        BY <1>2, <2>2 DEF PollStat
      <3>2. CASE cursor = None
        <4>1. machine'.decision = None /\ cursor' = CursorAt(file.id, file, 0)
          BY <1>2, <3>1, <3>2, EmptySaved DEF PollStat, TInv
        <4>2. cursor'.offset = 0
          BY <4>1 DEF CursorAt
        <4>3. Vouched(file, sessions, machine', cursor')
          BY <4>1, NoAdvice
        <4> QED BY <1>1, <2>1, <3>1, <4>2, <4>3 DEF AdviceInv, UnderWay
      <3>3. CASE cursor # None
        <4>1. cursor' = cursor /\ cursor.offset \in Nat
          BY <1>2, <3>3 DEF PollStat, TInv, TypeOK, Cursors
        <4>2. cursor.offset <= Size(file)
          BY <1>1, <2>2, <3>3, <4>1 DEF Fits
        <4> QED BY <1>1, <2>1, <3>1, <3>3, <4>1, <4>2 DEF AdviceInv, UnderWay
      <3> QED BY <3>2, <3>3
    <2>3. CASE ~Fits
      <3>1. pc' = "move" /\ machine' = EmptyState
        BY <1>2, <2>3 DEF PollStat
      <3>2. AdviceAt(file, machine', stat'.offset)
        BY <3>1, EmptySaved, NoAdvice
      <3> QED BY <1>1, <2>1, <3>1, <3>2 DEF AdviceInv, UnderWay
    <2> QED BY <2>2, <2>3
  <1>3. CASE PollAnchor
    <2>1. /\ UNCHANGED <<stat, cursor, disk>> /\ stat.id = file.id /\ cursor # None
          /\ cursor.offset <= Size(file) /\ Vouched(file, sessions, machine, cursor)
      BY <1>1, <1>3 DEF PollAnchor, AdviceInv, UnderWay, TInv
    <2>2. CASE Anchor(file, cursor.offset) = cursor.anchor
      <3>1. pc' = "read" /\ machine' = machine
        BY <1>1, <1>3, <2>2 DEF PollAnchor
      <3>2. AdviceAt(file, machine, cursor.offset)
        BY <1>1, <2>1, <2>2, Recognised
      <3> QED BY <1>1, <2>1, <3>1, <3>2 DEF AdviceInv, UnderWay
    <2>3. CASE Anchor(file, cursor.offset) # cursor.anchor
      <3>1. pc' = "move" /\ machine' = EmptyState
        BY <1>1, <1>3, <2>3 DEF PollAnchor
      <3>2. AdviceAt(file, machine', stat'.offset)
        BY <3>1, EmptySaved, NoAdvice
      <3> QED BY <1>1, <2>1, <3>1, <3>2 DEF AdviceInv, UnderWay
    <2> QED BY <2>2, <2>3
  <1>4. CASE PollRead
    <2> DEFINE o == cursor.offset
               e == CompleteDivs(file)
    <2>1. /\ UNCHANGED <<cursor, disk>> /\ stat.id = file.id /\ cursor # None
          /\ o <= Size(file) /\ Vouched(file, sessions, machine, cursor)
          /\ AdviceAt(file, machine, o) /\ cursor \in Cursors /\ o \in Nat
          /\ stat \in [id: FileIds \cup {None}, offset: Nat]
      BY <1>1, <1>4 DEF PollRead, AdviceInv, UnderWay, TInv, TypeOK, Cursors
    <2>2. machine' = ReadOn(machine, file.divs, (o + 1) \div 2, e)
      BY <1>1, <1>4, ReadFromIs DEF PollRead
    <2>3. CASE 2 * e <= o
      <3>1. pc' = "polled"
        BY <1>1, <1>4, <2>1, <2>3, ConsumedTyped DEF PollRead
      <3>2. (o + 1) \div 2 \in Nat /\ e <= (o + 1) \div 2
        BY <1>1, <2>1, <2>3
      <3>3. machine' = machine
        BY <1>1, <2>2, <3>2, ReadNothing DEF Logs
      <3> QED BY <1>1, <2>1, <3>1, <3>3 DEF AdviceInv, UnderWay
    <2>4. CASE ~(2 * e <= o)
      <3>1. ConsumedFrom(file, o) = 2 * e /\ 2 * e # o
        BY <1>1, <2>1, <2>4 DEF ConsumedFrom
      <3>2. pc' = "move" /\ stat'.offset = 2 * e /\ stat'.id = file.id
        BY <1>1, <1>4, <2>1, <3>1 DEF PollRead
      <3>3. (o + 1) \div 2 <= e
        BY <1>1, <2>1, <2>4
      <3>4. AdviceAt(file, machine', 2 * e)
        BY <1>1, <2>1, <2>2, <3>3, ReadingStands
      <3> QED BY <1>1, <2>1, <3>2, <3>4 DEF AdviceInv, UnderWay
    <2> QED BY <2>3, <2>4
  <1>5. CASE PollMove
    <2>1. AdviceAt(file, machine, stat.offset) /\ machine' = machine
      BY <1>1, <1>5 DEF PollMove, AdviceInv
    <2>2. cursor' = CursorAt(stat.id, file, stat.offset) /\ Persist(machine, cursor')
      BY <1>1, <1>5 DEF PollMove
    <2>3. Vouched(file, sessions, machine, cursor')
      BY <1>1, <2>1, <2>2, AnchorVouches
    <2>4. pc' \in {"idle", "polled"}
      BY <2>2 DEF Persist
    <2>5. disk' # None =>
             Vouched(file, sessions, FromPersisted(disk'.machine), disk'.cursor)
      <3>1. CASE disk' = [machine |-> ToPersisted(machine), cursor |-> cursor']
        BY <1>1, <2>3, <3>1, Restored
      <3>2. CASE disk' = disk
        BY <3>2 DEF AdviceInv
      <3> QED BY <2>2, <3>1, <3>2 DEF Persist
    <2>6. cursor'.offset = stat.offset
      BY <2>2 DEF CursorAt
    <2> QED BY <1>1, <2>1, <2>3, <2>4, <2>5, <2>6 DEF AdviceInv, UnderWay
  <1> QED BY <1>2, <1>3, <1>4, <1>5

LEMMA NextAdviceInv ==
  TInv /\ AdviceInv /\ ~ReplaceDuringPoll /\ [Next]_vars => AdviceInv'
  <1> SUFFICES ASSUME TInv, AdviceInv, ~ReplaceDuringPoll, [Next]_vars PROVE AdviceInv'
    OBVIOUS
  <1>1. CASE Game
    BY <1>1, GameKeepsAdviceInv
  <1>2. CASE Poll
    BY <1>2, MissingKeepsAdviceInv, PollKeepsAdviceInv DEF Poll
  <1>3. CASE Crash
    BY <1>3 DEF Crash, AdviceInv, UnderWay
  <1>4. CASE Restart /\ disk = None
    BY <1>4 DEF Restart, AdviceInv, UnderWay, TInv
  <1>5. CASE Restart /\ disk # None
    BY <1>5, RestartFinds DEF AdviceInv, UnderWay
  <1>6. CASE UNCHANGED vars
    BY <1>6 DEF vars, AdviceInv, UnderWay
  <1> QED BY <1>1, <1>2, <1>3, <1>4, <1>5, <1>6 DEF Next

LEMMA GameKeepsPc == Game => pc' = pc
  <1> SUFFICES ASSUME Game PROVE pc' = pc
    OBVIOUS
  <1>1. ASSUME NEW d \in Divs, Write(d) PROVE pc' = pc
    BY <1>1 DEF Write, tailer
  <1>2. ASSUME NEW id \in FileIds, NewLog(id) PROVE pc' = pc
    BY <1>2 DEF NewLog, tailer
  <1>3. CASE FinishLine \/ RemoveLog
    BY <1>3 DEF FinishLine, RemoveLog, tailer
  <1> QED BY <1>1, <1>2, <1>3 DEF Game

LEMMA PolledStep ==
  ASSUME TInv, AdviceInv, ~ReplaceDuringPoll, [Next]_vars, pc' = "polled", pc # "polled"
  PROVE  AdviceStandsInTheLog'
  <1>1. Poll
    BY GameKeepsPc DEF Next, Crash, Restart, vars
  <1>2. CASE PollMissing
    BY <1>2, MissingKeepsAdviceInv DEF AdviceStandsInTheLog
  <1>3. CASE ~PollMissing
    <2>1. AdviceAt(file', machine', cursor'.offset)
      BY <1>1, <1>3, PollKeepsAdviceInv DEF Poll
    <2>2. file' # None
      BY <1>1, <1>3 DEF Poll, PollStat, PollAnchor, PollRead, PollMove, AdviceInv, UnderWay
    <2>3. SUFFICES ASSUME machine'.decision # None
                   PROVE  StandsIn(file', cursor'.offset \div 2, machine'.decision.record)
      BY <2>2 DEF AdviceStandsInTheLog
    <2>4. PICK k \in Nat : /\ cursor'.offset = 2 * k
                           /\ StandsAt(file', k, machine'.decision.record)
      BY <2>1, <2>3 DEF AdviceAt
    <2>5. cursor'.offset \div 2 = k
      BY <2>4
    <2> QED BY <2>4, <2>5 DEF StandsAt
  <1> QED BY <1>2, <1>3

\* Unless the log is replaced while poll reads it, what is advised when a poll
\* returns is the last word of the log that is there now, whatever logs were
\* removed, replaced or rewritten in place between polls, whatever the receiver
\* last saved, and wherever it crashed.
THEOREM AdviceIsTheLastWord ==
  ASSUME ~ReplaceDuringPoll
  PROVE  Spec => PolledAdviceStandsInTheLog
  <1>1. Spec => []AdviceInv
    BY AlwaysTInv, InitAdviceInv, NextAdviceInv, PTL DEF Spec
  <1>2. TInv /\ AdviceInv /\ [Next]_vars =>
           [pc' = "polled" /\ pc # "polled" /\ quiet' => AdviceStandsInTheLog']_vars
    BY PolledStep
  <1> QED BY <1>1, <1>2, AlwaysTInv, PTL DEF Spec, PolledAdviceStandsInTheLog
=============================================================================
