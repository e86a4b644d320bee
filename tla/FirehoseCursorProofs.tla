------------------------ MODULE FirehoseCursorProofs ------------------------
(***************************************************************************)
(* For every stream, setting, queue bound and number of faults: the types  *)
(* of FirehoseCursor, that no stored point loses an event, that the        *)
(* threads and tables together implement RewindContract, and that only a   *)
(* process about to end stores a cursor below the one stored before.       *)
(***************************************************************************)
EXTENDS FirehoseCursor, TLAPS

USE ConstantsAssumption DEF Seqs, Kinds

\* The next-state relation one actor at a time, for the proofs by cases.
RelayOrMain == Emit \/ SetRewindPoint \/ RewindPointUnreadable \/ Exit \/ Crash
Datasource == Connect \/ Deliver \/ ConnectionDrops \/ IdleTimeout
PostProcessor == HandlePayload \/ ExchangeCursor \/ WindBack \/ StampEmittedAt
Auxiliary ==
    ReadCursor \/ ReadStamp \/ AddCheckpoint \/ UpdateCursor \/ DatabaseFails
Others == Act \/ ForceStopElsewhere

LEMMA NextByActor ==
    Next <=> RelayOrMain \/ Datasource \/ PostProcessor \/ Auxiliary \/ Others
BY DEF Next, RelayOrMain, Datasource, PostProcessor, Auxiliary, Others

-----------------------------------------------------------------------------
(***************************************************************************)
(* Type correctness, in the three groups of TypeOK: flags change apart     *)
(* from the arithmetic on sequence numbers.                                *)
(***************************************************************************)
LEMMA FlagsStep == FlagsOK /\ [Next]_vars => FlagsOK'
<1> SUFFICES ASSUME FlagsOK, [Next]_vars PROVE FlagsOK'
  OBVIOUS
<1> USE DEF FlagsOK, tables, history, process
<1>1. CASE RelayOrMain
  BY <1>1 DEF RelayOrMain, Emit, SetRewindPoint, RewindPointUnreadable, StartAt,
              Exit, Crash, EndProcess
<1>2. CASE Datasource
  BY <1>2 DEF Datasource, Connect, Deliver, ConnectionDrops, IdleTimeout,
              Disconnect
<1>3. CASE PostProcessor
  BY <1>3 DEF PostProcessor, HandlePayload, ExchangeCursor, WindBack,
              StampEmittedAt
<1>4. CASE Auxiliary
  BY <1>4 DEF Auxiliary, ReadCursor, ReadStamp, AddCheckpoint, UpdateCursor,
              DatabaseFails, auxUnchanged
<1>5. CASE Others
  BY <1>5 DEF Others, Act, ForceStopElsewhere
<1>6. CASE UNCHANGED vars
  BY <1>6 DEF vars
<1> QED BY <1>1, <1>2, <1>3, <1>4, <1>5, <1>6, NextByActor

TypeInvariant == TypeOK /\ FlushesRealCursor

LEMMA ConstantsTyped == 0 \in 0 .. MaxSeq /\ <<>> \in Seq(Seqs)
OBVIOUS

LEMMA IdleTyped ==
    /\ Idle \in [pc : {"wait", "exchange", "windback", "stamp", "stopped"},
                 seq : 0 .. MaxSeq]
    /\ AuxIdle \in [pc : {"sleep", "stamp", "checkpoint", "flush"},
                    cursor : 0 .. MaxSeq]
    /\ AuxIdle.pc = "sleep"
BY DEF Idle, AuxIdle

LEMMA InitTyped == Init => TypeInvariant
<1> SUFFICES ASSUME Init PROVE TypeInvariant
  OBVIOUS
<1>1. FlagsOK
  BY DEF Init, FlagsOK
<1>2. ThreadsOK
  BY ConstantsTyped, IdleTyped DEF Init, ThreadsOK
<1>3. RecordsOK
  BY DEF Init, RecordsOK
<1>4. FlushesRealCursor
  BY IdleTyped DEF Init, FlushesRealCursor
<1> QED BY <1>1, <1>2, <1>3, <1>4 DEF TypeInvariant, TypeOK

LEMMA EndProcessTyped ==
    ASSUME EndProcess, TypeInvariant, faults' \in 0 .. MaxFaults
    PROVE  ThreadsOK' /\ RecordsOK' /\ FlushesRealCursor'
<1>1. ThreadsOK' /\ FlushesRealCursor'
  BY ConstantsTyped, IdleTyped DEF EndProcess, ThreadsOK, FlushesRealCursor
<1>2. RecordsOK'
  BY DEF EndProcess, TypeInvariant, TypeOK, RecordsOK, tables, history
<1> QED BY <1>1, <1>2

LEMMA RelayOrMainTyped ==
    ASSUME TypeInvariant, RelayOrMain
    PROVE  ThreadsOK' /\ RecordsOK' /\ FlushesRealCursor'
<1> USE DEF TypeInvariant, TypeOK, ThreadsOK, RecordsOK, FlushesRealCursor,
            process, tables, history
<1>1. CASE Emit
  BY <1>1 DEF Emit
<1>2. CASE SetRewindPoint
  BY <1>2 DEF SetRewindPoint, StartAt
<1>3. CASE RewindPointUnreadable
  BY <1>3 DEF RewindPointUnreadable, StartAt, Fault
<1>4. CASE Exit
  BY <1>4, EndProcessTyped DEF Exit
<1>5. CASE Crash
  <2>1. faults' \in 0 .. MaxFaults /\ EndProcess
    BY <1>5 DEF Crash, Fault
  <2> QED BY <2>1, EndProcessTyped
<1> QED BY <1>1, <1>2, <1>3, <1>4, <1>5 DEF RelayOrMain

LEMMA DatasourceTyped ==
    ASSUME TypeInvariant, Datasource
    PROVE  ThreadsOK' /\ RecordsOK' /\ FlushesRealCursor'
<1> USE DEF TypeInvariant, TypeOK, ThreadsOK, RecordsOK, FlushesRealCursor,
            tables, history
<1>1. CASE Connect
  <2>1. 1 .. head \subseteq Seqs
    OBVIOUS
  <2>2. skipped' \subseteq skipped \cup (1 .. head)
    BY <1>1 DEF Connect
  <2>3. skipped' \subseteq Seqs
    BY <2>1, <2>2
  <2>4. sent' \in 0 .. MaxSeq
    BY <1>1 DEF Connect
  <2> QED BY <1>1, <2>3, <2>4 DEF Connect
<1>2. CASE Deliver
  BY <1>2 DEF Deliver
<1>3. CASE ConnectionDrops
  BY <1>3 DEF ConnectionDrops, Disconnect, Fault
<1>4. CASE IdleTimeout
  BY <1>4 DEF IdleTimeout, Disconnect
<1> QED BY <1>1, <1>2, <1>3, <1>4 DEF Datasource

LEMMA PostProcessorTyped ==
    ASSUME TypeInvariant, PostProcessor
    PROVE  ThreadsOK' /\ RecordsOK' /\ FlushesRealCursor'
<1> USE DEF TypeInvariant, TypeOK, ThreadsOK, RecordsOK, FlushesRealCursor,
            tables, history
<1>1. CASE HandlePayload
  <2>1. Head(queue) \in Seqs /\ queue' \in Seq(Seqs)
    BY <1>1 DEF HandlePayload
  <2>2. NextPayload(active) \in {"wait", "stopped"}
    BY DEF NextPayload
  <2>3. pending' \subseteq Seqs /\ settled' \subseteq Seqs
    BY <1>1, <2>1 DEF HandlePayload
  <2>4. pp' \in [pc : {"wait", "exchange", "windback", "stamp", "stopped"},
                 seq : 0 .. MaxSeq]
    BY <1>1, <2>1, <2>2 DEF HandlePayload
  <2> QED BY <1>1, <2>1, <2>3, <2>4 DEF HandlePayload
<1>2. CASE ExchangeCursor
  BY <1>2 DEF ExchangeCursor
<1>3. CASE WindBack
  BY <1>3 DEF WindBack
<1>4. CASE StampEmittedAt
  <2>1. NextPayload(active) \in {"wait", "stopped"}
    BY DEF NextPayload
  <2>2. pp' \in [pc : {"wait", "exchange", "windback", "stamp", "stopped"},
                 seq : 0 .. MaxSeq]
    BY <1>4, <2>1 DEF StampEmittedAt
  <2> QED BY <1>4, <2>2 DEF StampEmittedAt
<1> QED BY <1>1, <1>2, <1>3, <1>4 DEF PostProcessor

LEMMA AuxiliaryTyped ==
    ASSUME TypeInvariant, Auxiliary
    PROVE  ThreadsOK' /\ RecordsOK' /\ FlushesRealCursor'
<1> USE DEF TypeInvariant, TypeOK, ThreadsOK, RecordsOK, FlushesRealCursor,
            tables, history, auxUnchanged, AuxIdle
<1>1. CASE ReadCursor
  BY <1>1 DEF ReadCursor
<1>2. CASE ReadStamp
  BY SMTT(30), <1>2 DEF ReadStamp
<1>3. CASE AddCheckpoint
  <2>1. aux.cursor \in Seqs
    BY <1>3 DEF AddCheckpoint
  <2>2. checkpoints' \subseteq Seqs
    BY <1>3, <2>1 DEF AddCheckpoint
  <2>3. aux' = [aux EXCEPT !.pc = "flush"]
    BY <1>3 DEF AddCheckpoint
  <2>4. UNCHANGED <<auxUnchanged, lastProcessed, faults>>
    BY <1>3 DEF AddCheckpoint
  <2> QED BY SMTT(30), <1>3, <2>1, <2>2, <2>3, <2>4
<1>4. CASE UpdateCursor
  BY <1>4 DEF UpdateCursor
<1>5. CASE DatabaseFails
  BY <1>5 DEF DatabaseFails, Fault
<1> QED BY <1>1, <1>2, <1>3, <1>4, <1>5 DEF Auxiliary

LEMMA OthersTyped ==
    ASSUME TypeInvariant, Others
    PROVE  ThreadsOK' /\ RecordsOK' /\ FlushesRealCursor'
<1> USE DEF TypeInvariant, TypeOK, ThreadsOK, RecordsOK, FlushesRealCursor,
            tables, history
<1>1. CASE Act
  BY <1>1 DEF Act
<1>2. CASE ForceStopElsewhere
  BY <1>2 DEF ForceStopElsewhere, Fault
<1> QED BY <1>1, <1>2 DEF Others

LEMMA TypeInvariantHolds == Spec => []TypeInvariant
<1>1. TypeInvariant /\ [Next]_vars => TypeInvariant'
  <2> SUFFICES ASSUME TypeInvariant, [Next]_vars PROVE TypeInvariant'
    OBVIOUS
  <2>1. FlagsOK'
    BY FlagsStep DEF TypeInvariant, TypeOK
  <2>2. ThreadsOK' /\ RecordsOK' /\ FlushesRealCursor'
    <3>1. CASE UNCHANGED vars
      BY <3>1 DEF TypeInvariant, TypeOK, ThreadsOK, RecordsOK,
                  FlushesRealCursor, vars, process, tables, history
    <3> QED BY <3>1, NextByActor, RelayOrMainTyped, DatasourceTyped,
               PostProcessorTyped, AuxiliaryTyped, OthersTyped
  <2> QED BY <2>1, <2>2 DEF TypeInvariant, TypeOK
<1> QED BY InitTyped, <1>1, PTL DEF Spec

(***************************************************************************)
(* Every variable of the client keeps its type, whatever the interleaving. *)
(***************************************************************************)
THEOREM TypeCorrect == Spec => []TypeOK
<1>1. TypeInvariant => TypeOK
  BY DEF TypeInvariant
<1> QED BY <1>1, TypeInvariantHolds, PTL

-----------------------------------------------------------------------------
(***************************************************************************)
(* The rewind invariant. What is accounted for stays so, and hence so does *)
(* the coverage of a number that no step changes.                          *)
(***************************************************************************)
Invariant == TypeInvariant /\ RewindInvariant

LEMMA AccountedGrows ==
    ASSUME settled \subseteq settled', skipped \subseteq skipped'
    PROVE  /\ Accounted \subseteq Accounted'
           /\ \A n : Covered(n) => 1 .. n \subseteq Accounted'
BY DEF Accounted, Covered

LEMMA InitRewind == Init => RewindInvariant
<1> SUFFICES ASSUME Init PROVE RewindInvariant
  OBVIOUS
<1>1. lastProcessed \in 0 .. MaxSeq /\ 1 .. lastProcessed \subseteq Accounted
  BY DEF Init, Accounted
<1>2. NothingLostBelowPoint
  BY <1>1 DEF Init, NothingLostBelowPoint, PersistedPoints
<1>3. CopiesCovered
  BY DEF Init, CopiesCovered, Covered, Idle, AuxIdle
<1>4. QueueCovered /\ conn # "reading" /\ pp.pc # "stopped"
  BY DEF Init, QueueCovered, Idle
<1> QED BY <1>2, <1>3, <1>4 DEF RewindInvariant

LEMMA NoProcessRewind ==
    ASSUME Invariant, EndProcess
    PROVE  RewindInvariant'
<1>1. Accounted' = Accounted /\ PersistedPoints' = PersistedPoints
  BY DEF EndProcess, tables, history, Accounted, PersistedPoints
<1>2. NothingLostBelowPoint'
  BY <1>1 DEF Invariant, RewindInvariant, NothingLostBelowPoint
<1>3. CopiesCovered'
  BY DEF EndProcess, CopiesCovered, Covered, Idle, AuxIdle
<1>4. QueueCovered' /\ conn' # "reading" /\ pp'.pc # "stopped"
  BY DEF EndProcess, QueueCovered, Idle
<1> QED BY <1>2, <1>3, <1>4 DEF RewindInvariant

LEMMA RelayOrMainRewind ==
    ASSUME Invariant, RelayOrMain
    PROVE  RewindInvariant'
<1> USE DEF Invariant, RewindInvariant
<1>1. CASE Exit
  BY <1>1, NoProcessRewind DEF Exit
<1>2. CASE Crash
  BY <1>2, NoProcessRewind DEF Crash
<1>3. CASE Emit
  BY <1>3 DEF Emit, process, tables, history, NothingLostBelowPoint,
      PersistedPoints, CopiesCovered, Covered, QueueCovered, SentCovered,
      Queued, Accounted
<1>4. CASE SetRewindPoint \/ RewindPointUnreadable
  <2>1. PICK point : StartAt(point) /\ point \in {0, lastProcessed}
    BY <1>4 DEF SetRewindPoint, RewindPointUnreadable
  <2>2. Accounted' = Accounted /\ PersistedPoints' = PersistedPoints
    BY <2>1 DEF StartAt, tables, history, Accounted, PersistedPoints
  <2>3. Covered(point)
    BY SMTT(30), <2>1 DEF NothingLostBelowPoint, PersistedPoints, Covered
  <2>4. requested' = point /\ cursor' = point /\ UNCHANGED <<pp, aux>>
    BY <2>1 DEF StartAt
  <2>5. CopiesCovered'
    BY <2>2, <2>3, <2>4 DEF CopiesCovered, Covered
  <2>6. NothingLostBelowPoint'
    BY <2>2 DEF NothingLostBelowPoint
  <2>7. QueueCovered' <=> QueueCovered
    BY <2>1, <2>2 DEF StartAt, QueueCovered
  <2>8. UNCHANGED <<conn, sent, queue>>
    BY <2>1 DEF StartAt
  <2>9. SentCovered' <=> SentCovered
    BY <2>2, <2>8 DEF SentCovered, Queued
  <2>10. up = FALSE
    BY <2>1 DEF StartAt
  <2>11. pp.pc # "stopped"
    BY <2>10
  <2> QED BY <2>4, <2>5, <2>6, <2>7, <2>8, <2>9, <2>11
<1> QED BY <1>1, <1>2, <1>3, <1>4 DEF RelayOrMain

LEMMA DatasourceRewind ==
    ASSUME Invariant, Datasource
    PROVE  RewindInvariant'
<1> USE DEF Invariant, RewindInvariant
<1>1. CASE Connect
  <2>1. settled' = settled /\ skipped \subseteq skipped'
    BY <1>1 DEF Connect
  <2>2. UNCHANGED <<active, up, requested, cursor, aux, pp, queue, tables>>
    BY <1>1 DEF Connect
  <2>3. NothingLostBelowPoint' /\ CopiesCovered'
    BY <2>1, <2>2, AccountedGrows DEF NothingLostBelowPoint, PersistedPoints,
       CopiesCovered, Covered, tables
  <2>4. pp.pc # "stopped"
    BY <1>1 DEF Connect
  <2>5. QueueCovered'
    BY <2>1, <2>2, <2>4, AccountedGrows DEF QueueCovered
  <2>6. SentCovered'
    <3>1. CASE requested # 0
      BY <1>1, <3>1, <2>1, <2>2 DEF Connect, SentCovered, CopiesCovered,
         Covered, Queued, Accounted
    <3>2. CASE requested = 0
      <4>1. sent' = head /\ skipped' = skipped \cup
                ((1 .. head) \ (settled \cup Queued))
        BY <1>1, <3>2 DEF Connect
      <4>2. \A s \in 1 .. head : s \in settled' \cup skipped' \cup Queued
        BY <4>1, <2>1
      <4>3. Queued' = Queued
        BY <2>2 DEF Queued
      <4> QED BY <4>1, <4>2, <4>3 DEF SentCovered, Accounted
    <3> QED BY <3>1, <3>2
  <2> QED BY <2>2, <2>3, <2>4, <2>5, <2>6
<1>2. CASE Deliver
  <2>1. UNCHANGED <<active, up, requested, cursor, aux, pp, tables, settled,
                    skipped>>
    BY <1>2 DEF Deliver, history
  <2>2. Accounted' = Accounted
    BY <2>1 DEF Accounted
  <2>3. NothingLostBelowPoint' /\ CopiesCovered'
    BY <2>1, <2>2 DEF NothingLostBelowPoint, PersistedPoints, CopiesCovered,
       Covered, tables
  <2>4. queue' = Append(queue, sent + 1) /\ sent' = sent + 1
        /\ conn = "reading"
    BY <1>2 DEF Deliver
  <2>5. queue \in Seq(Seqs) /\ sent \in Nat
    BY DEF TypeInvariant, TypeOK, ThreadsOK
  <2>6. ASSUME pp.pc # "stopped"
        PROVE  QueueCovered' /\ SentCovered'
    <3>1. QueueCovered /\ SentCovered
      BY <2>4, <2>6
    <3>2. /\ DOMAIN queue' = 1 .. (Len(queue) + 1)
          /\ queue'[Len(queue) + 1] = sent + 1
          /\ \A i \in 1 .. Len(queue) : queue'[i] = queue[i]
          /\ Len(queue) \in Nat /\ DOMAIN queue = 1 .. Len(queue)
      BY <2>4, <2>5
    <3>3. Queued' = Queued \cup {sent + 1}
      BY <3>2 DEF Queued
    <3>4. SentCovered'
      BY <3>1, <3>3, <2>2, <2>4, <2>5 DEF SentCovered
    <3>5. ASSUME NEW i \in DOMAIN queue', NEW s \in 1 .. (queue'[i] - 1)
          PROVE  s \in Accounted \/ \E j \in 1 .. (i - 1) : queue'[j] = s
      <4>1. CASE i \in 1 .. Len(queue)
        <5>1. s \in Accounted \/ \E j \in 1 .. (i - 1) : queue[j] = s
          BY <3>1, <3>2, <3>5, <4>1 DEF QueueCovered
        <5> QED BY <5>1, <3>2, <4>1
      <4>2. CASE i = Len(queue) + 1
        <5>1. s \in 1 .. sent
          BY <3>2, <4>2, <2>5
        <5>2. s \in Accounted \/ \E j \in 1 .. Len(queue) : queue[j] = s
          BY <3>1, <3>2, <5>1 DEF SentCovered, Queued
        <5> QED BY <5>2, <3>2, <4>2
      <4> QED BY <3>2, <4>1, <4>2
    <3>6. QueueCovered'
      BY <3>5, <2>2 DEF QueueCovered
    <3> QED BY <3>4, <3>6
  <2> QED BY <2>1, <2>3, <2>6
<1>3. CASE ConnectionDrops \/ IdleTimeout
  <2>1. Disconnect
    BY <1>3 DEF ConnectionDrops, IdleTimeout
  <2>2. /\ conn' = "down"
        /\ UNCHANGED <<active, up, requested, cursor, aux, pp, queue, tables,
                       settled, skipped>>
    BY <2>1 DEF Disconnect, history
  <2> QED BY <2>2 DEF NothingLostBelowPoint, PersistedPoints, CopiesCovered,
             Covered, QueueCovered, Accounted, tables
<1> QED BY <1>1, <1>2, <1>3 DEF Datasource

LEMMA PostProcessorRewind ==
    ASSUME Invariant, PostProcessor
    PROVE  RewindInvariant'
<1> USE DEF Invariant, RewindInvariant
<1>1. CASE HandlePayload
  <2>1. /\ pp.pc = "wait" /\ queue # <<>> /\ queue' = Tail(queue)
        /\ UNCHANGED <<up, requested, cursor, aux, tables, conn, sent, skipped>>
    BY <1>1 DEF HandlePayload
  <2> DEFINE s == Head(queue)
             n == Len(queue)
  <2>2. /\ queue \in Seq(Seqs) /\ n \in Nat /\ n > 0 /\ s \in Seqs
        /\ s = queue[1] /\ DOMAIN queue = 1 .. n
        /\ DOMAIN queue' = 1 .. (n - 1)
        /\ \A i \in 1 .. (n - 1) : queue'[i] = queue[i + 1]
    BY <2>1 DEF TypeInvariant, TypeOK, ThreadsOK
  <2>3. QueueCovered /\ (conn = "reading" => SentCovered)
    BY <2>1
  <2>4. settled \subseteq settled'
    BY <1>1 DEF HandlePayload
  <2>5. \A t \in 1 .. (s - 1) : t \in Accounted
    <3>1. 1 \in DOMAIN queue /\ queue[1] = s
      BY <2>2
    <3>2. \A t \in 1 .. (s - 1) :
              t \in Accounted \/ \E j \in 1 .. (1 - 1) : queue[j] = t
      BY <3>1, <2>3 DEF QueueCovered
    <3> QED BY <3>2
  <2>6. NothingLostBelowPoint'
    BY <2>1, <2>4, AccountedGrows DEF NothingLostBelowPoint, PersistedPoints,
       Covered, tables
  <2>7. /\ Covered(requested)' /\ Covered(cursor)' /\ Covered(aux.cursor)'
    BY <2>1, <2>4, AccountedGrows DEF CopiesCovered, Covered
  <2>8. CASE Kind[s] = "throws"
    <3>1. active' = FALSE /\ pp' = [pc |-> "stopped", seq |-> 0]
      BY <1>1, <2>8 DEF HandlePayload
    <3>2. up
      BY <1>1 DEF HandlePayload
    <3>3. Covered(pp.seq)'
      BY <3>1 DEF Covered
    <3> QED BY <2>1, <2>6, <2>7, <3>1, <3>2, <3>3 DEF CopiesCovered
  <2>9. CASE Kind[s] # "throws"
    <3>1. settled' = settled \cup {s} /\ active' = active
      BY <1>1, <2>9 DEF HandlePayload
    <3>2. /\ pp'.seq \in {0, s}
          /\ pp'.pc = "stopped" => ~active
      BY <1>1, <2>9 DEF HandlePayload, NextPayload
    <3>3. 1 .. s \subseteq Accounted'
      BY <2>1, <2>2, <2>5, <3>1 DEF Accounted
    <3>4. Covered(pp.seq)'
      BY <3>2, <3>3 DEF Covered
    <3>5. Accounted' = Accounted \cup {s}
      BY <2>1, <3>1 DEF Accounted
    <3>6. ASSUME NEW i \in DOMAIN queue', NEW t \in 1 .. (queue'[i] - 1)
          PROVE  t \in Accounted' \/ \E j \in 1 .. (i - 1) : queue'[j] = t
      <4>1. i \in 1 .. (n - 1) /\ i + 1 \in 1 .. n /\ t \in 1 .. (queue[i + 1] - 1)
        BY SMTT(30), <2>2
      <4>2. t \in Accounted \/ \E j \in 1 .. i : queue[j] = t
        BY <4>1, <2>2, <2>3 DEF QueueCovered
      <4>3. ASSUME NEW j \in 1 .. i, queue[j] = t
            PROVE  t = s \/ \E k \in 1 .. (i - 1) : queue'[k] = t
        <5>1. CASE j = 1
          BY <5>1, <4>3, <2>2
        <5>2. CASE j # 1
          <6>1. j - 1 \in 1 .. (i - 1) /\ j - 1 \in 1 .. (n - 1)
            BY SMTT(30), <5>2, <4>1, <2>2
          <6>2. queue'[j - 1] = t
            BY <6>1, <4>3, <2>2
          <6> QED BY <6>1, <6>2
        <5> QED BY <5>1, <5>2
      <4> QED BY <4>2, <4>3, <3>5
    <3>7. QueueCovered'
      BY <3>6 DEF QueueCovered
    <3>8. Queued \subseteq Queued' \cup {s}
      <4>1. ASSUME NEW i \in 1 .. n PROVE queue[i] \in Queued' \cup {s}
        <5>1. CASE i = 1
          BY <5>1, <2>2
        <5>2. CASE i # 1
          <6>1. i - 1 \in 1 .. (n - 1) /\ queue'[i - 1] = queue[i]
            BY <5>2, <2>2
          <6> QED BY <6>1, <2>2 DEF Queued
        <5> QED BY <5>1, <5>2
      <4> QED BY <4>1, <2>2 DEF Queued
    <3>9. conn' = "reading" => SentCovered'
      BY <2>1, <2>3, <3>5, <3>8 DEF SentCovered
    <3>10. up
      BY <1>1 DEF HandlePayload
    <3> QED BY <2>1, <2>6, <2>7, <3>1, <3>2, <3>4, <3>7, <3>9, <3>10
            DEF CopiesCovered
  <2> QED BY <2>8, <2>9
<1>2. CASE ExchangeCursor
  <2>1. /\ cursor' = pp.seq /\ pp'.seq = pp.seq /\ pp'.pc # "stopped"
        /\ pp.pc # "stopped"
        /\ UNCHANGED <<active, up, requested, aux, conn, sent, queue, tables,
                       settled, skipped>>
    BY <1>2 DEF ExchangeCursor, TypeInvariant, TypeOK, ThreadsOK, history
  <2> QED BY <2>1 DEF NothingLostBelowPoint, PersistedPoints, CopiesCovered,
      Covered, QueueCovered, SentCovered, Queued, Accounted, tables
<1>3. CASE WindBack
  <2>1. /\ pp'.seq = pp.seq /\ pp'.pc # "stopped" /\ pp.pc # "stopped"
        /\ UNCHANGED <<up, cursor, requested, aux, conn, sent, queue, tables,
                       settled, skipped>>
    BY <1>3 DEF WindBack, TypeInvariant, TypeOK, ThreadsOK, history
  <2> QED BY <2>1 DEF NothingLostBelowPoint, PersistedPoints, CopiesCovered,
      Covered, QueueCovered, SentCovered, Queued, Accounted, tables
<1>4. CASE StampEmittedAt
  <2>1. /\ pp'.seq = 0 /\ pp.pc # "stopped"
        /\ pp'.pc = "stopped" => up /\ ~active
        /\ UNCHANGED <<active, up, cursor, requested, aux, conn, sent, queue,
                       tables, settled, skipped>>
    BY <1>4 DEF StampEmittedAt, NextPayload, history
  <2> QED BY <2>1 DEF NothingLostBelowPoint, PersistedPoints, CopiesCovered,
      Covered, QueueCovered, SentCovered, Queued, Accounted, tables
<1> QED BY <1>1, <1>2, <1>3, <1>4 DEF PostProcessor

LEMMA AuxiliaryRewind ==
    ASSUME Invariant, Auxiliary
    PROVE  RewindInvariant'
<1> USE DEF Invariant, RewindInvariant
<1>1. UNCHANGED <<up, active, requested, conn, sent, queue, pp, cursor,
                  settled, skipped>>
  BY DEF Auxiliary, ReadCursor, ReadStamp, AddCheckpoint, UpdateCursor,
         DatabaseFails, auxUnchanged, history
<1>2. Accounted' = Accounted
  BY <1>1 DEF Accounted
<1>3. (QueueCovered' <=> QueueCovered) /\ (SentCovered' <=> SentCovered)
  BY <1>1, <1>2 DEF QueueCovered, SentCovered, Queued
<1>4. ASSUME aux'.cursor \in {0, aux.cursor, cursor},
             PersistedPoints' \subseteq PersistedPoints \cup {aux.cursor}
      PROVE  RewindInvariant'
  <2>1. Covered(aux.cursor) /\ Covered(cursor) /\ Covered(0)
    BY DEF CopiesCovered, Covered
  <2>2. NothingLostBelowPoint'
    BY <1>2, <1>4, <2>1 DEF NothingLostBelowPoint, Covered
  <2>3. Covered(aux.cursor)'
    BY <1>2, <1>4, <2>1 DEF Covered
  <2>4. CopiesCovered'
    BY <1>1, <1>2, <2>3 DEF CopiesCovered, Covered
  <2> QED BY <1>1, <1>3, <2>2, <2>4
<1>5. CASE ReadCursor
  <2>1. aux'.cursor = cursor /\ UNCHANGED tables
    BY <1>5 DEF ReadCursor
  <2> QED BY <1>4, <2>1 DEF PersistedPoints, tables
<1>6. CASE ReadStamp \/ DatabaseFails
  <2>1. aux'.cursor \in {0, aux.cursor} /\ UNCHANGED tables
    BY <1>6 DEF ReadStamp, DatabaseFails, AuxIdle, TypeInvariant, TypeOK,
                ThreadsOK
  <2> QED BY <1>4, <2>1 DEF PersistedPoints, tables
<1>7. CASE AddCheckpoint \/ UpdateCursor
  <2>1. aux'.cursor \in {0, aux.cursor}
    BY <1>7 DEF AddCheckpoint, UpdateCursor, AuxIdle, TypeInvariant, TypeOK,
                ThreadsOK
  <2>2. PersistedPoints' \subseteq PersistedPoints \cup {aux.cursor}
    BY <1>7 DEF AddCheckpoint, UpdateCursor, PersistedPoints
  <2> QED BY <1>4, <2>1, <2>2
<1> QED BY <1>5, <1>6, <1>7 DEF Auxiliary

LEMMA OthersRewind ==
    ASSUME Invariant, Others
    PROVE  RewindInvariant'
<1> USE DEF Invariant, RewindInvariant
<1>1. /\ UNCHANGED <<up, requested, conn, sent, queue, pp, cursor, aux, tables,
                     settled, skipped>>
      /\ active' \in {active, FALSE}
  BY DEF Others, Act, ForceStopElsewhere, history
<1>2. Accounted' = Accounted /\ PersistedPoints' = PersistedPoints
  BY <1>1 DEF Accounted, PersistedPoints, tables
<1>3. NothingLostBelowPoint' /\ CopiesCovered'
  BY <1>1, <1>2 DEF NothingLostBelowPoint, CopiesCovered, Covered
<1>4. (QueueCovered' <=> QueueCovered) /\ (SentCovered' <=> SentCovered)
  BY <1>1, <1>2 DEF QueueCovered, SentCovered, Queued
<1>5. ~active => ~active'
  BY DEF Others, Act, ForceStopElsewhere
<1>6. pp'.pc = "stopped" => up' /\ ~active'
  BY <1>1, <1>5
<1> QED BY <1>1, <1>3, <1>4, <1>6

LEMMA InvariantHolds == Spec => []Invariant
<1>1. RewindInvariant /\ UNCHANGED vars => RewindInvariant'
  BY DEF RewindInvariant, NothingLostBelowPoint, PersistedPoints,
     CopiesCovered, Covered, QueueCovered, SentCovered, Queued, Accounted,
     vars, process, tables, history
<1>2. TypeInvariant /\ RewindInvariant /\ [Next]_vars => RewindInvariant'
  BY <1>1, NextByActor, RelayOrMainRewind, DatasourceRewind,
     PostProcessorRewind, AuxiliaryRewind, OthersRewind DEF Invariant
<1> QED BY <1>2, InitRewind, TypeInvariantHolds, PTL DEF Spec, Invariant

(***************************************************************************)
(* No event at or below a stored point was neither handled by some process *)
(* nor skipped knowingly: a restart that asks the relay for what follows   *)
(* the stored point loses nothing, for any stream and any faults.          *)
(***************************************************************************)
THEOREM NothingLost == Spec => []NothingLostBelowPoint
<1>1. Invariant => NothingLostBelowPoint
  BY DEF Invariant, RewindInvariant
<1> QED BY <1>1, InvariantHolds, PTL

-----------------------------------------------------------------------------
(***************************************************************************)
(* Each step is one of the contract or invisible to it: a flush moves the  *)
(* point, a checkpoint adds a mark, and only steps of the post_processor   *)
(* and of the datasource account for more events.                          *)
(***************************************************************************)
LEMMA StepImplementsContract ==
    ASSUME Invariant, Invariant', [Next]_vars
    PROVE  [Contract!Next]_<<Accounted, lastProcessed, checkpoints>>
<1>1. ASSUME settled \subseteq settled', skipped \subseteq skipped',
             UNCHANGED tables
      PROVE  Contract!Account
  BY <1>1, AccountedGrows DEF Contract!Account, tables
<1>2. CASE UNCHANGED vars
  BY <1>2 DEF vars, tables, history, Accounted
<1>3. CASE RelayOrMain \/ Others
  BY <1>1, <1>3 DEF RelayOrMain, Emit, SetRewindPoint, RewindPointUnreadable,
     StartAt, Exit, Crash, EndProcess, Others, Act, ForceStopElsewhere,
     history, Contract!Next
<1>4. CASE Datasource
  BY <1>1, <1>4 DEF Datasource, Connect, Deliver, ConnectionDrops, IdleTimeout,
     Disconnect, history, Contract!Next
<1>5. CASE PostProcessor
  BY <1>1, <1>5 DEF PostProcessor, HandlePayload, ExchangeCursor, WindBack,
     StampEmittedAt, history, Contract!Next
<1>6. CASE Auxiliary
  <2>1. UNCHANGED <<settled, skipped>>
    BY <1>6 DEF Auxiliary, ReadCursor, ReadStamp, AddCheckpoint, UpdateCursor,
       DatabaseFails, auxUnchanged, history
  <2>2. Accounted' = Accounted
    BY <2>1 DEF Accounted
  <2>3. aux.cursor \in Nat /\ lastProcessed' \in Nat /\ checkpoints' \subseteq Nat
    BY DEF Invariant, TypeInvariant, TypeOK, ThreadsOK, RecordsOK
  <2>4. Covered(aux.cursor)
    BY DEF Invariant, RewindInvariant, CopiesCovered
  <2>5. CASE ReadCursor \/ ReadStamp \/ DatabaseFails
    BY <1>1, <2>1, <2>5 DEF ReadCursor, ReadStamp, DatabaseFails, Contract!Next
  <2>6. CASE AddCheckpoint
    <3>1. checkpoints' = checkpoints \cup {aux.cursor}
          /\ lastProcessed' = lastProcessed
      BY <2>6 DEF AddCheckpoint
    <3> QED BY <3>1, <2>2, <2>3, <2>4 DEF Contract!AddMarks, Contract!Complete,
               Contract!Next, Covered
  <2>7. CASE UpdateCursor
    <3>1. lastProcessed' = aux.cursor /\ checkpoints' = checkpoints
      BY <2>7 DEF UpdateCursor
    <3> QED BY <3>1, <2>2, <2>3, <2>4 DEF Contract!MovePoint,
               Contract!Complete, Contract!Next, Covered
  <2> QED BY <1>6, <2>5, <2>6, <2>7 DEF Auxiliary
<1> QED BY <1>2, <1>3, <1>4, <1>5, <1>6, NextByActor

(***************************************************************************)
(* The threads, the queue and the tables implement RewindContract: what is *)
(* handled or skipped is never taken back, every point a flush stores has  *)
(* all events up to it accounted for, and checkpoint rows are never lost.  *)
(***************************************************************************)
THEOREM ImplementsContract == Spec => ContractSpec
<1>1. Init => Contract!Init
  <2> SUFFICES ASSUME Init PROVE Contract!Init
    OBVIOUS
  <2>1. lastProcessed \in Nat /\ 1 .. lastProcessed \subseteq Accounted
    BY DEF Init, Accounted
  <2> QED BY <2>1 DEF Init, Contract!Init, Contract!Complete
<1> QED BY <1>1, StepImplementsContract, InvariantHolds, PTL
        DEF Spec, ContractSpec, Contract!Spec

-----------------------------------------------------------------------------
(***************************************************************************)
(* The stored cursor goes back only in a process that has met a number     *)
(* below its own. First the steps that give no thread a new number.        *)
(***************************************************************************)
LEMMA SameNumbers ==
    ASSUME TypeOK, ForwardInvariant, up, head <= head', head' \in Nat, up',
           active' => active,
           UNCHANGED <<requested, conn, sent, queue, cursor, lastProcessed>>,
           pp' = pp \/ pp'.pc \notin {"exchange", "windback"},
           pp'.seq = pp.seq \/ pp'.seq = 0,
           aux'.cursor = aux.cursor \/ aux'.cursor = 0,
           pp.pc = "windback" => pp' = pp \/ ~active'
    PROVE  ForwardInvariant'
<1> USE DEF TypeOK, ThreadsOK, RecordsOK
<1>1. /\ lastProcessed \in Nat /\ requested \in Nat /\ sent \in Nat
      /\ cursor \in Nat /\ head \in Nat /\ pp.seq \in Nat /\ aux.cursor \in Nat
      /\ \A i \in DOMAIN queue : queue[i] \in Nat
  OBVIOUS
<1>2. EmittedOnly'
  BY <1>1 DEF ForwardInvariant, EmittedOnly
<1>3. active' /\ pp'.pc # "windback" => CursorsInOrder'
  BY <1>1 DEF ForwardInvariant, CursorsInOrder, StartsAhead
<1> QED BY <1>2, <1>3 DEF ForwardInvariant

LEMMA RelayOrMainForward ==
    ASSUME TypeOK, ForwardInvariant, RelayOrMain
    PROVE  ForwardInvariant'
<1> USE DEF TypeOK, ThreadsOK, RecordsOK
<1>1. CASE Emit
  <2>1. head' \in Nat /\ head <= head' /\ UNCHANGED <<up, process, tables>>
    BY <1>1 DEF Emit
  <2>2. CASE up
    BY <2>1, <2>2, SameNumbers DEF process, tables
  <2>3. CASE ~up
    BY <2>1, <2>3 DEF ForwardInvariant, EmittedOnly, process, tables
  <2> QED BY <2>2, <2>3
<1>2. CASE SetRewindPoint \/ RewindPointUnreadable
  <2>1. PICK point \in {0, lastProcessed} : StartAt(point)
    BY <1>2 DEF SetRewindPoint, RewindPointUnreadable
  <2>2. /\ ~up /\ up' /\ cursor' = point /\ requested' = point
        /\ UNCHANGED <<head, conn, sent, queue, pp, aux, lastProcessed>>
    BY <2>1 DEF StartAt, tables
  <2>3. conn = "down" /\ queue = <<>> /\ pp.pc = "wait" /\ aux.cursor = 0
        /\ EmittedOnly
    BY <2>2 DEF ForwardInvariant
  <2>4. EmittedOnly'
    BY <2>2, <2>3 DEF EmittedOnly
  <2>5. CursorsInOrder'
    BY <2>2, <2>3 DEF CursorsInOrder, StartsAhead
  <2> QED BY <2>2, <2>4, <2>5 DEF ForwardInvariant
<1>3. CASE Exit \/ Crash
  <2>1. /\ ~up' /\ ~active' /\ conn' = "down" /\ queue' = <<>> /\ pp' = Idle
        /\ aux' = AuxIdle /\ requested' = 0 /\ sent' = 0 /\ cursor' = 0
        /\ UNCHANGED <<head, lastProcessed>>
    BY <1>3 DEF Exit, Crash, EndProcess, tables
  <2>2. Idle.pc = "wait" /\ Idle.seq = 0 /\ AuxIdle.cursor = 0
    BY DEF Idle, AuxIdle
  <2>3. lastProcessed <= head
    BY DEF ForwardInvariant, EmittedOnly
  <2> QED BY <2>1, <2>2, <2>3 DEF ForwardInvariant, EmittedOnly
<1> QED BY <1>1, <1>2, <1>3 DEF RelayOrMain

\* A connection starts at the requested number, or behind every number there
\* is; what it delivers is above that.
LEMMA DatasourceForward ==
    ASSUME TypeOK, ForwardInvariant, Datasource
    PROVE  ForwardInvariant'
<1> USE DEF TypeOK, ThreadsOK, RecordsOK
<1>1. up /\ up' /\ (active' <=> active)
      /\ UNCHANGED <<head, requested, pp, cursor, aux, lastProcessed>>
  BY DEF Datasource, Connect, Deliver, ConnectionDrops, IdleTimeout, Disconnect,
     tables, ForwardInvariant
<1>2. /\ lastProcessed \in Nat /\ requested \in Nat /\ sent \in Nat
      /\ cursor \in Nat /\ head \in Nat /\ pp.seq \in Nat /\ aux.cursor \in Nat
  OBVIOUS
<1>3. CASE Connect
  <2>1. /\ sent' \in {requested, head} /\ queue' = queue
        /\ requested = 0 => sent' = head
    BY <1>3 DEF Connect
  <2>2. EmittedOnly'
    BY <1>1, <1>2, <2>1 DEF ForwardInvariant, EmittedOnly
  <2>3. active /\ pp.pc # "windback" => CursorsInOrder'
    BY <1>1, <1>2, <2>1 DEF ForwardInvariant, CursorsInOrder, StartsAhead,
       EmittedOnly
  <2> QED BY <1>1, <2>2, <2>3 DEF ForwardInvariant
<1>4. CASE Deliver
  <2>1. /\ conn = "reading" /\ sent < head /\ sent' = sent + 1
        /\ queue' = Append(queue, sent + 1)
    BY <1>4 DEF Deliver
  <2>2. /\ DOMAIN queue' = 1 .. Len(queue) + 1
        /\ \A i \in DOMAIN queue : queue'[i] = queue[i]
        /\ queue'[Len(queue) + 1] = sent + 1
        /\ DOMAIN queue = 1 .. Len(queue) /\ Len(queue) \in Nat
    BY <2>1
  <2>3. \A i \in DOMAIN queue' : i \in DOMAIN queue \/ queue'[i] = sent + 1
    BY <2>2
  <2>4. EmittedOnly'
    BY <1>1, <1>2, <2>1, <2>2, <2>3 DEF ForwardInvariant, EmittedOnly
  <2>5. active /\ pp.pc # "windback" => CursorsInOrder'
    BY <1>1, <1>2, <2>1, <2>2, <2>3 DEF ForwardInvariant, CursorsInOrder,
       StartsAhead
  <2> QED BY <1>1, <2>4, <2>5 DEF ForwardInvariant
<1>5. CASE ConnectionDrops \/ IdleTimeout
  <2>1. conn' = "down" /\ UNCHANGED <<sent, queue>>
    BY <1>5 DEF ConnectionDrops, IdleTimeout, Disconnect
  <2> QED BY <1>1, <2>1 DEF ForwardInvariant, EmittedOnly, CursorsInOrder,
             StartsAhead
<1> QED BY <1>3, <1>4, <1>5 DEF Datasource

\* The cursor moves forward, or its thread is about to stop the process.
LEMMA PostProcessorForward ==
    ASSUME TypeOK, ForwardInvariant, PostProcessor
    PROVE  ForwardInvariant'
<1> USE DEF TypeOK, ThreadsOK, RecordsOK
<1>1. up /\ up' /\ UNCHANGED <<head, requested, conn, sent, aux, lastProcessed>>
  BY DEF PostProcessor, HandlePayload, ExchangeCursor, WindBack, StampEmittedAt,
     tables
<1>2. /\ lastProcessed \in Nat /\ requested \in Nat /\ sent \in Nat
      /\ cursor \in Nat /\ head \in Nat /\ pp.seq \in Nat /\ aux.cursor \in Nat
  OBVIOUS
<1>3. CASE HandlePayload
  <2>1. /\ queue # <<>> /\ queue' = Tail(queue) /\ cursor' = cursor
        /\ active' => active
        /\ pp.pc = "wait" /\ pp'.pc \in {"exchange", "wait", "stopped"}
        /\ pp'.seq \in {0, Head(queue)}
        /\ pp'.pc = "exchange" => pp'.seq = Head(queue)
    BY <1>3 DEF HandlePayload, NextPayload
  <2>2. /\ Head(queue) = queue[1] /\ 1 \in DOMAIN queue
        /\ \A i \in DOMAIN queue' : i + 1 \in DOMAIN queue
                                    /\ queue'[i] = queue[i + 1]
    BY <2>1
  <2>3. EmittedOnly'
    BY <1>1, <1>2, <2>1, <2>2 DEF ForwardInvariant, EmittedOnly
  <2>4. active' => CursorsInOrder'
    BY <1>1, <1>2, <2>1, <2>2 DEF ForwardInvariant, CursorsInOrder, StartsAhead
  <2> QED BY <1>1, <2>3, <2>4 DEF ForwardInvariant
<1>4. CASE ExchangeCursor
  <2>1. /\ pp.pc = "exchange" /\ cursor' = pp.seq /\ pp'.seq = pp.seq
        /\ pp'.pc = IF pp.seq < cursor THEN "windback" ELSE "stamp"
        /\ UNCHANGED <<active, queue>>
    BY <1>4 DEF ExchangeCursor
  <2>2. EmittedOnly'
    BY <1>1, <1>2, <2>1 DEF ForwardInvariant, EmittedOnly
  <2>3. ASSUME active, pp'.pc # "windback" PROVE CursorsInOrder'
    <3>1. cursor <= pp.seq /\ CursorsInOrder
      BY <1>2, <2>1, <2>3 DEF ForwardInvariant
    <3>2. lastProcessed <= pp.seq
      BY <1>2, <2>1, <3>1 DEF CursorsInOrder, StartsAhead
    <3>3. pp.seq = 0 => cursor = 0
      BY <1>2, <3>1
    <3> QED BY <1>1, <1>2, <2>1, <3>1, <3>2, <3>3 DEF CursorsInOrder, StartsAhead
  <2> QED BY <1>1, <2>1, <2>2, <2>3 DEF ForwardInvariant
<1>5. CASE WindBack
  <2>1. ~active' /\ pp'.seq = pp.seq /\ UNCHANGED <<cursor, queue>>
    BY <1>5 DEF WindBack
  <2> QED BY <1>1, <2>1 DEF ForwardInvariant, EmittedOnly
<1>6. CASE StampEmittedAt
  <2>1. /\ pp.pc = "stamp" /\ pp'.pc \in {"wait", "stopped"} /\ pp'.seq = 0
        /\ UNCHANGED <<active, cursor, queue>>
    BY <1>6 DEF StampEmittedAt, NextPayload
  <2> QED BY <1>1, <2>1, SameNumbers
<1> QED BY <1>3, <1>4, <1>5, <1>6 DEF PostProcessor

\* What is stored was the cursor a while ago.
LEMMA AuxiliaryForward ==
    ASSUME TypeOK, FlushesRealCursor, ForwardInvariant, Auxiliary
    PROVE  ForwardInvariant'
<1> USE DEF TypeOK, ThreadsOK, RecordsOK
<1>1. /\ up /\ up' /\ (active' <=> active)
      /\ UNCHANGED <<head, requested, conn, sent, queue, pp, cursor>>
  BY DEF Auxiliary, ReadCursor, ReadStamp, AddCheckpoint, UpdateCursor,
     DatabaseFails, auxUnchanged
<1>2. /\ lastProcessed \in Nat /\ cursor \in Nat /\ head \in Nat
      /\ aux.cursor \in Nat /\ AuxIdle.cursor = 0
  BY DEF AuxIdle
<1>3. CASE ReadCursor
  <2>1. aux'.cursor = cursor /\ lastProcessed' = lastProcessed
    BY <1>3 DEF ReadCursor, tables
  <2>2. EmittedOnly'
    BY <1>1, <2>1 DEF ForwardInvariant, EmittedOnly
  <2>3. active /\ pp.pc # "windback" => CursorsInOrder'
    BY <1>1, <1>2, <2>1 DEF ForwardInvariant, CursorsInOrder, StartsAhead
  <2> QED BY <1>1, <2>2, <2>3 DEF ForwardInvariant
<1>4. CASE ReadStamp \/ AddCheckpoint \/ DatabaseFails
  <2>1. /\ aux'.cursor = aux.cursor \/ aux'.cursor = 0
        /\ lastProcessed' = lastProcessed
    BY <1>2, <1>4 DEF ReadStamp, AddCheckpoint, DatabaseFails, tables
  <2> QED BY <1>1, <1>2, <2>1, SameNumbers
<1>5. CASE UpdateCursor
  <2>1. aux.cursor # 0 /\ lastProcessed' = aux.cursor /\ aux'.cursor = 0
    BY <1>2, <1>5 DEF UpdateCursor, FlushesRealCursor
  <2>2. EmittedOnly'
    BY <1>1, <1>2, <2>1 DEF ForwardInvariant, EmittedOnly
  <2>3. active /\ pp.pc # "windback" => CursorsInOrder'
    BY <1>1, <1>2, <2>1 DEF ForwardInvariant, CursorsInOrder
  <2> QED BY <1>1, <2>2, <2>3 DEF ForwardInvariant
<1> QED BY <1>3, <1>4, <1>5 DEF Auxiliary

LEMMA OthersForward ==
    ASSUME TypeOK, ForwardInvariant, Others
    PROVE  ForwardInvariant'
<1>1. /\ up /\ up' /\ (active' => active)
      /\ UNCHANGED <<head, requested, conn, sent, queue, pp, cursor, aux,
                     lastProcessed>>
  BY DEF Others, Act, ForceStopElsewhere, tables
<1>2. head \in Nat
  BY DEF TypeOK, RecordsOK
<1> QED BY <1>1, <1>2, SameNumbers

LEMMA ForwardHolds == Spec => []ForwardInvariant
<1>1. Init => ForwardInvariant
  BY DEF Init, ForwardInvariant, EmittedOnly, Idle, AuxIdle
<1>2. TypeInvariant /\ ForwardInvariant /\ [Next]_vars => ForwardInvariant'
  <2> SUFFICES ASSUME TypeInvariant, ForwardInvariant, [Next]_vars
               PROVE  ForwardInvariant'
    OBVIOUS
  <2>1. CASE UNCHANGED vars
    BY <2>1 DEF vars, process, tables, ForwardInvariant, EmittedOnly,
       CursorsInOrder, StartsAhead
  <2> QED BY <2>1, NextByActor, RelayOrMainForward, DatasourceForward,
         PostProcessorForward, AuxiliaryForward, OthersForward DEF TypeInvariant
<1> QED BY <1>1, <1>2, TypeInvariantHolds, PTL DEF Spec

(***************************************************************************)
(* The stored cursor never goes back in a process that is to go on: when   *)
(* it does, the process has met a number below its cursor, and has called  *)
(* force_stop or is about to.                                              *)
(***************************************************************************)
THEOREM RegressionsAreFatal == Spec => RegressionIsFatal
<1>1. ASSUME TypeInvariant, ForwardInvariant, [Next]_vars,
             lastProcessed' < lastProcessed
      PROVE  ~active \/ pp.pc = "windback"
  <2>1. lastProcessed \in Nat /\ lastProcessed' # lastProcessed
    BY <1>1 DEF TypeInvariant, TypeOK, RecordsOK
  <2>2. UpdateCursor
    BY <1>1, <2>1 DEF vars, tables, process, Next, Emit, SetRewindPoint,
       RewindPointUnreadable, StartAt, Connect, Deliver, ConnectionDrops,
       IdleTimeout, Disconnect, HandlePayload, ExchangeCursor, WindBack,
       StampEmittedAt, ReadCursor, ReadStamp, AddCheckpoint, DatabaseFails,
       Act, ForceStopElsewhere, Exit, Crash, EndProcess
  <2>3. lastProcessed' = aux.cursor /\ aux.cursor # 0 /\ aux.cursor \in Nat
    BY <1>1, <2>2 DEF UpdateCursor, TypeInvariant, FlushesRealCursor, TypeOK,
       ThreadsOK
  <2> QED BY <1>1, <2>1, <2>3 DEF ForwardInvariant, CursorsInOrder
<1>2. TypeInvariant /\ ForwardInvariant /\ [Next]_vars =>
          [lastProcessed' < lastProcessed => ~active \/ pp.pc = "windback"]_vars
  BY <1>1
<1> QED BY <1>2, TypeInvariantHolds, ForwardHolds, PTL
        DEF Spec, RegressionIsFatal

=============================================================================
