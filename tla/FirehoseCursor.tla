--------------------------- MODULE FirehoseCursor ---------------------------
(***************************************************************************)
(* How the firehose client resumes after a stoppage.                       *)
(*                                                                         *)
(*   relay --> datasource --> queue --> post_processor --> cursor          *)
(*                                           |               |             *)
(*                                    action queues   auxiliary_data --> DB*)
(*                                                                         *)
(* The datasource thread subscribes once per connection and appends every  *)
(* message to the queue of the post_processor, whose thread handles one    *)
(* payload at a time and then publishes its sequence number with           *)
(* update_rewind_point. Every 15 seconds the auxiliary_data thread copies  *)
(* that cursor to the database. A new process reads it back and asks the   *)
(* relay to replay what follows it. Processes are restarted for ever by    *)
(* the container runtime (firehose-client/compose.yaml).                   *)
(*                                                                         *)
(* An event is its sequence number. The time it was emitted at is stored   *)
(* beside the number and never read back: of the time buffer the model     *)
(* keeps whether it is empty, and of the hour between two checkpoint rows  *)
(* that it may or may not have elapsed.                                    *)
(***************************************************************************)
EXTENDS Naturals, Sequences

CONSTANTS
    MaxSeq,             \* bound: the relay emits events 1..MaxSeq
    Kind,               \* what handling each event does, see Kinds
    EnableRewind,       \* the enable_rewind setting
    InitialPoints,      \* values firehose_state may hold in the beginning
    MaxQueue,           \* bound on the post_processor backlog
    FaultKinds,         \* the faults of the environment that may happen
    MaxFaults           \* bound on their number

Seqs == 1 .. MaxSeq

(***************************************************************************)
(* "plain" and "matched" events are handled to the end, the latter also    *)
(* hand work to the moderation queues. A "dropped" event is malformed or   *)
(* raises a JSON error: handle stops, the loop goes on. A "throws" event   *)
(* raises any other exception: the post_processor thread ends.             *)
(***************************************************************************)
Kinds == {"plain", "matched", "dropped", "throws"}
Faults == {"crash", "stop", "drop", "database"}

ASSUME ConstantsAssumption ==
    /\ MaxSeq \in Nat /\ MaxQueue \in Nat /\ MaxFaults \in Nat
    /\ Kind \in [Seqs -> Kinds]
    /\ EnableRewind \in BOOLEAN
    /\ InitialPoints \subseteq 0 .. MaxSeq
    /\ FaultKinds \subseteq Faults

VARIABLES
    head,           \* relay: the last sequence number emitted
    up,             \* a process runs
    active,         \* controller._active
    requested,      \* the ?cursor= of _subscription, 0 for none
    conn,           \* datasource thread: "down", "reading" or "closed"
    sent,           \* relay: last event sent on this connection
    queue,          \* post_processor._queue
    pp,             \* post_processor thread: [pc, seq]
    cursor,         \* auxiliary_data._cursor
    stamped,        \* auxiliary_data._emitted_at is not empty
    aux,            \* auxiliary_data thread: [pc, cursor]
    checkpointed,   \* _last_rewind_checkpoint was set by this process
    pending,        \* matched events whose actions wait in memory
    lastProcessed,  \* table firehose_state, its one row
    checkpoints,    \* table firehose_checkpoint, a set of seq
    settled,        \* history: events whose handling has ended
    skipped,        \* history: events a live connection never asked for
    acted,          \* history: events whose moderation actions were taken
    faults          \* number of faults so far

process == <<active, requested, conn, sent, queue, pp, cursor, stamped, aux,
             checkpointed, pending>>
tables  == <<lastProcessed, checkpoints>>
history == <<settled, skipped, acted>>
vars == <<head, up, process, tables, history, faults>>

Idle == [pc |-> "wait", seq |-> 0]
AuxIdle == [pc |-> "sleep", cursor |-> 0]

FlagsOK ==
    /\ up \in BOOLEAN /\ active \in BOOLEAN
    /\ stamped \in BOOLEAN /\ checkpointed \in BOOLEAN

ThreadsOK ==
    /\ requested \in 0 .. MaxSeq /\ sent \in 0 .. MaxSeq
    /\ conn \in {"down", "reading", "closed"}
    /\ queue \in Seq(Seqs)
    /\ pp \in [pc : {"wait", "exchange", "windback", "stamp", "stopped"},
               seq : 0 .. MaxSeq]
    /\ cursor \in 0 .. MaxSeq
    /\ aux \in [pc : {"sleep", "stamp", "checkpoint", "flush"},
                cursor : 0 .. MaxSeq]
    /\ pending \subseteq Seqs

\* What outlives a process.
RecordsOK ==
    /\ head \in 0 .. MaxSeq
    /\ lastProcessed \in 0 .. MaxSeq /\ checkpoints \subseteq Seqs
    /\ settled \subseteq Seqs /\ skipped \subseteq Seqs
    /\ acted \subseteq Seqs
    /\ faults \in 0 .. MaxFaults

TypeOK == FlagsOK /\ ThreadsOK /\ RecordsOK

-----------------------------------------------------------------------------
\* No process runs: all that is in memory has its value before main.
Init ==
    /\ up = FALSE /\ active = FALSE
    /\ requested = 0 /\ conn = "down" /\ sent = 0
    /\ queue = <<>> /\ pp = Idle /\ cursor = 0 /\ stamped = FALSE
    /\ aux = AuxIdle /\ checkpointed = FALSE /\ pending = {}
    /\ \E point \in InitialPoints :
          /\ head \in point .. MaxSeq
          /\ lastProcessed = point
          /\ settled = 1 .. point
          /\ acted = {s \in 1 .. point : Kind[s] = "matched"}
    /\ checkpoints = {} /\ skipped = {}
    /\ faults = 0

Fault(kind) ==
    /\ kind \in FaultKinds
    /\ faults < MaxFaults
    /\ faults' = faults + 1

EndProcess ==
    /\ up' = FALSE /\ active' = FALSE
    /\ requested' = 0 /\ conn' = "down" /\ sent' = 0
    /\ queue' = <<>> /\ pp' = Idle /\ cursor' = 0 /\ stamped' = FALSE
    /\ aux' = AuxIdle /\ checkpointed' = FALSE /\ pending' = {}
    /\ UNCHANGED <<head, tables, history>>

-----------------------------------------------------------------------------
\* The relay: emits events in order, and replays on request what it emitted.
Emit ==
    /\ head < MaxSeq
    /\ head' = head + 1
    /\ UNCHANGED <<up, process, tables, history, faults>>

(***************************************************************************)
(* main: auxiliary_data::start reads the rewind point, and whatever the    *)
(* cursor holds then goes into the subscription for the life of the        *)
(* process. A failure to read it is logged, and the process goes on        *)
(* without a rewind.                                                       *)
(***************************************************************************)
StartAt(point) ==
    /\ ~up
    /\ up' = TRUE /\ active' = TRUE
    /\ cursor' = point /\ requested' = point
    /\ UNCHANGED <<head, conn, sent, queue, pp, stamped, aux, checkpointed,
                   pending, tables, history>>

SetRewindPoint ==
    /\ StartAt(IF EnableRewind THEN lastProcessed ELSE 0)
    /\ UNCHANGED faults

RewindPointUnreadable ==
    /\ EnableRewind
    /\ Fault("database")
    /\ StartAt(0)

-----------------------------------------------------------------------------
(***************************************************************************)
(* The datasource thread.                                                  *)
(***************************************************************************)
Queued == {queue[i] : i \in DOMAIN queue}

\* Without a cursor the relay starts with the next event it emits.
Connect ==
    /\ up /\ active
    /\ conn = "down"
    /\ conn' = "reading"
    /\ \/ /\ requested # 0
          /\ sent' = requested
          /\ UNCHANGED skipped
       \/ /\ requested = 0
          /\ sent' = head
          /\ skipped' = skipped \cup
                ((1 .. head) \ (settled \cup Queued))
    /\ UNCHANGED <<head, up, active, requested, queue, pp, cursor, stamped, aux,
                   checkpointed, pending, tables, settled, acted, faults>>

\* Variant: the rewind point follows what was received, not what was handled.
DeliverAdvancesCursor ==
    /\ up
    /\ conn = "reading"
    /\ sent < head
    /\ Len(queue) < MaxQueue
    /\ sent' = sent + 1
    /\ queue' = Append(queue, sent + 1)
    /\ cursor' = sent + 1
    /\ conn' = IF active THEN "reading" ELSE "closed"
    /\ UNCHANGED <<head, up, active, requested, pp, stamped, aux,
                   checkpointed, pending, tables, history, faults>>

Deliver ==
    /\ up
    /\ conn = "reading"
    /\ sent < head
    /\ Len(queue) < MaxQueue
    /\ sent' = sent + 1
    /\ queue' = Append(queue, sent + 1)
    /\ conn' = IF active THEN "reading" ELSE "closed"
    /\ UNCHANGED <<head, up, active, requested, pp, cursor, stamped, aux,
                   checkpointed, pending, tables, history, faults>>

\* Variant: the datasource thread does not loop.
DisconnectForGood ==
    /\ conn = "reading"
    /\ conn' = "closed"
    /\ UNCHANGED <<head, up, active, requested, sent, queue, pp, cursor,
                   stamped, aux, checkpointed, pending, tables, history>>

\* A read error: the thread waits 10 seconds and connects again.
Disconnect ==
    /\ conn = "reading"
    /\ conn' = "down"
    /\ UNCHANGED <<head, up, active, requested, sent, queue, pp, cursor,
                   stamped, aux, checkpointed, pending, tables, history>>

ConnectionDrops ==
    /\ active
    /\ Disconnect
    /\ Fault("drop")

\* No message for 30 seconds; of interest when a stop has been requested.
IdleTimeout ==
    /\ up /\ ~active
    /\ Disconnect
    /\ UNCHANGED faults

-----------------------------------------------------------------------------
(***************************************************************************)
(* The post_processor thread. After each payload it looks at the           *)
(* controller, and then blocks on its queue without a time limit.          *)
(***************************************************************************)
NextPayload(isActive) == IF isActive THEN "wait" ELSE "stopped"

HandlePayload ==
    /\ up
    /\ pp.pc = "wait"
    /\ queue # <<>>
    /\ LET s == Head(queue) IN
        /\ queue' = Tail(queue)
        /\ \/ /\ Kind[s] \in {"plain", "matched"}
              /\ pp' = IF EnableRewind
                         THEN [pc |-> "exchange", seq |-> s]
                         ELSE [pc |-> NextPayload(active), seq |-> 0]
              /\ pending' = IF Kind[s] = "matched"
                              THEN pending \cup {s} ELSE pending
              /\ settled' = settled \cup {s}
              /\ UNCHANGED active
           \/ /\ Kind[s] = "dropped"
              /\ pp' = [pc |-> NextPayload(active), seq |-> 0]
              /\ settled' = settled \cup {s}
              /\ UNCHANGED <<active, pending>>
           \/ /\ Kind[s] = "throws"
              /\ active' = FALSE
              /\ pp' = [pc |-> "stopped", seq |-> 0]
              /\ UNCHANGED <<pending, settled>>
    /\ UNCHANGED <<head, up, requested, conn, sent, cursor, stamped, aux,
                   checkpointed, tables, skipped, acted, faults>>

\* Variant: no look at the prior cursor.
ExchangeUnchecked ==
    /\ up
    /\ pp.pc = "exchange"
    /\ cursor' = pp.seq
    /\ pp' = [pp EXCEPT !.pc = "stamp"]
    /\ UNCHANGED <<head, up, active, requested, conn, sent, queue, stamped,
                   aux, checkpointed, pending, tables, history, faults>>

\* update_rewind_point, first line: the cursor moves, wherever it goes.
ExchangeCursor ==
    /\ up
    /\ pp.pc = "exchange"
    /\ cursor' = pp.seq
    /\ pp' = [pp EXCEPT !.pc = IF pp.seq < cursor THEN "windback"
                                                  ELSE "stamp"]
    /\ UNCHANGED <<head, up, active, requested, conn, sent, queue, stamped, aux,
                   checkpointed, pending, tables, history, faults>>

\* A sequence number below the prior cursor: force_stop.
WindBack ==
    /\ up
    /\ pp.pc = "windback"
    /\ active' = FALSE
    /\ pp' = [pp EXCEPT !.pc = "stamp"]
    /\ UNCHANGED <<head, up, requested, conn, sent, queue, cursor, stamped, aux,
                   checkpointed, pending, tables, history, faults>>

\* The copy of emitted_at into a buffer the other thread reads, unlocked.
StampEmittedAt ==
    /\ up
    /\ pp.pc = "stamp"
    /\ stamped' = TRUE
    /\ pp' = [pc |-> NextPayload(active), seq |-> 0]
    /\ UNCHANGED <<head, up, active, requested, conn, sent, queue, cursor, aux,
                   checkpointed, pending, tables, history, faults>>

-----------------------------------------------------------------------------
(***************************************************************************)
(* The auxiliary_data thread: check_rewind_point.                          *)
(***************************************************************************)
auxUnchanged == <<head, up, active, requested, conn, sent, queue, pp, cursor,
                  stamped, pending, history>>

ReadCursor ==
    /\ up /\ active
    /\ EnableRewind
    /\ aux.pc = "sleep"
    /\ aux' = [pc |-> "stamp", cursor |-> cursor]
    /\ UNCHANGED <<auxUnchanged, checkpointed, tables, faults>>

\* Variant: check_rewind_point does not look for a zero cursor.
ReadStampAnyCursor ==
    /\ up
    /\ aux.pc = "stamp"
    /\ IF ~stamped
         THEN aux' = AuxIdle
         ELSE \E due \in {TRUE, ~checkpointed} :
                aux' = [aux EXCEPT !.pc = IF due THEN "checkpoint"
                                                 ELSE "flush"]
    /\ UNCHANGED <<auxUnchanged, checkpointed, tables, faults>>

\* While the first time is being copied the buffer may look empty or not.
\* The first pass of a process always adds a checkpoint, a later one does
\* when an hour of event time has gone by.
ReadStamp ==
    /\ up
    /\ aux.pc = "stamp"
    /\ \/ /\ aux.cursor = 0 \/ ~stamped
          /\ aux' = AuxIdle
       \/ /\ aux.cursor # 0
          /\ stamped \/ pp.pc = "stamp"
          /\ \E due \in {TRUE, ~checkpointed} :
                aux' = [aux EXCEPT !.pc = IF due THEN "checkpoint"
                                                 ELSE "flush"]
    /\ UNCHANGED <<auxUnchanged, checkpointed, tables, faults>>

\* Variant: one checkpoint row, overwritten like the cursor.
ReplaceCheckpoint ==
    /\ up
    /\ aux.pc = "checkpoint"
    /\ checkpoints' = {aux.cursor}
    /\ checkpointed' = TRUE
    /\ aux' = [aux EXCEPT !.pc = "flush"]
    /\ UNCHANGED <<auxUnchanged, lastProcessed, faults>>

AddCheckpoint ==
    /\ up
    /\ aux.pc = "checkpoint"
    /\ checkpoints' = checkpoints \cup {aux.cursor}
    /\ checkpointed' = TRUE
    /\ aux' = [aux EXCEPT !.pc = "flush"]
    /\ UNCHANGED <<auxUnchanged, lastProcessed, faults>>

UpdateCursor ==
    /\ up
    /\ aux.pc = "flush"
    /\ lastProcessed' = aux.cursor
    /\ aux' = AuxIdle
    /\ UNCHANGED <<auxUnchanged, checkpointed, checkpoints, faults>>

\* Either transaction may fail: the rest of the pass is abandoned.
DatabaseFails ==
    /\ up
    /\ aux.pc \in {"checkpoint", "flush"}
    /\ Fault("database")
    /\ aux' = AuxIdle
    /\ UNCHANGED <<auxUnchanged, checkpointed, tables>>

-----------------------------------------------------------------------------
\* The moderation threads take what was queued for one matched event.
Act ==
    /\ up
    /\ \E s \in pending :
          /\ pending' = pending \ {s}
          /\ acted' = acted \cup {s}
    /\ UNCHANGED <<head, up, active, requested, conn, sent, queue, pp, cursor,
                   stamped, aux, checkpointed, tables, settled, skipped,
                   faults>>

\* Some other thread ended with an exception and called force_stop.
ForceStopElsewhere ==
    /\ up /\ active
    /\ Fault("stop")
    /\ active' = FALSE
    /\ UNCHANGED <<head, up, requested, conn, sent, queue, pp, cursor, stamped,
                   aux, checkpointed, pending, tables, history>>

\* main waits for the datasource thread only, and its return ends them all.
Exit ==
    /\ up /\ ~active
    /\ conn \in {"down", "closed"}
    /\ EndProcess
    /\ UNCHANGED faults

Crash ==
    /\ up
    /\ Fault("crash")
    /\ EndProcess

-----------------------------------------------------------------------------
Next ==
    \/ Emit
    \/ SetRewindPoint \/ RewindPointUnreadable
    \/ Connect \/ Deliver \/ ConnectionDrops \/ IdleTimeout
    \/ HandlePayload \/ ExchangeCursor \/ WindBack \/ StampEmittedAt
    \/ ReadCursor \/ ReadStamp \/ AddCheckpoint \/ UpdateCursor
    \/ DatabaseFails
    \/ Act \/ ForceStopElsewhere \/ Exit \/ Crash

Spec == Init /\ [][Next]_vars

(***************************************************************************)
(* The runtime restarts the process, every thread that can take a step     *)
(* takes one, and a silent connection times out. Nothing is assumed of the *)
(* relay's producers, of the database or of the faults.                    *)
(***************************************************************************)
Fairness ==
    /\ WF_vars(SetRewindPoint)
    /\ WF_vars(Connect) /\ WF_vars(Deliver) /\ WF_vars(IdleTimeout)
    /\ WF_vars(HandlePayload) /\ WF_vars(ExchangeCursor)
    /\ WF_vars(WindBack) /\ WF_vars(StampEmittedAt)
    /\ WF_vars(Exit)

FairSpec == Spec /\ Fairness

-----------------------------------------------------------------------------
(***************************************************************************)
(* What a restart relies on: whatever point the tables hold, each event up *)
(* to it was handled by some process, or was never asked for because that  *)
(* process had no rewind point. The cursor a flush writes was read several *)
(* steps, and possibly a reconnection, earlier.                            *)
(***************************************************************************)
Accounted == settled \cup skipped
PersistedPoints == {lastProcessed} \cup checkpoints

NothingLostBelowPoint ==
    \A point \in PersistedPoints : 1 .. point \subseteq Accounted

(***************************************************************************)
(* Why it holds: the same is true of every copy of a sequence number on    *)
(* its way to the tables, and of each prefix of the queue. The events of a *)
(* connection arrive in order, so those below the head of the queue have   *)
(* all been accounted for, unless the post_processor has ended.            *)
(***************************************************************************)
Covered(n) == 1 .. n \subseteq Accounted

CopiesCovered ==
    /\ Covered(requested)
    /\ Covered(cursor)
    /\ Covered(aux.cursor)
    /\ Covered(pp.seq)

QueueCovered ==
    \A i \in DOMAIN queue : \A s \in 1 .. (queue[i] - 1) :
        s \in Accounted \/ \E j \in 1 .. (i - 1) : queue[j] = s

SentCovered ==
    \A s \in 1 .. sent : s \in Accounted \cup Queued

\* A flush starts with a cursor that is not 0.
FlushesRealCursor == aux.pc \in {"checkpoint", "flush"} => aux.cursor # 0

RewindInvariant ==
    /\ NothingLostBelowPoint
    /\ CopiesCovered
    /\ pp.pc = "stopped" => up /\ ~active
    /\ pp.pc # "stopped" => QueueCovered
    /\ pp.pc # "stopped" /\ conn = "reading" => SentCovered

(***************************************************************************)
(* The stored cursor goes back only when this process has met a sequence   *)
(* number below its cursor, and then the process is ending: it has called  *)
(* force_stop, or its next step does. The comment in update_rewind_point   *)
(* calls the wind back a fatal error.                                      *)
(***************************************************************************)
RegressionIsFatal ==
    [][lastProcessed' < lastProcessed => ~active \/ pp.pc = "windback"]_vars

(***************************************************************************)
(* Why it holds. A process has no number that the relay has not emitted;   *)
(* while it has met none below its cursor, what it is about to store, its  *)
(* cursor and the stored one are in order. A process that could not read   *)
(* the stored one starts behind it, with what the relay emits from then on.*)
(***************************************************************************)
EmittedOnly ==
    /\ lastProcessed <= head /\ requested <= head /\ sent <= head
    /\ cursor <= head /\ aux.cursor <= head /\ pp.seq <= head
    /\ \A i \in DOMAIN queue : queue[i] <= head

StartsAhead ==
    /\ requested = 0
    /\ conn # "down" => lastProcessed <= sent
    /\ pp.pc = "exchange" => lastProcessed <= pp.seq
    /\ \A i \in DOMAIN queue : lastProcessed <= queue[i]

CursorsInOrder ==
    /\ IF cursor = 0 THEN StartsAhead ELSE lastProcessed <= cursor
    /\ aux.cursor # 0 => lastProcessed <= aux.cursor /\ aux.cursor <= cursor

ForwardInvariant ==
    /\ EmittedOnly
    /\ ~up => /\ ~active /\ conn = "down" /\ queue = <<>>
              /\ pp.pc = "wait" /\ aux.cursor = 0
    /\ active /\ pp.pc # "windback" => CursorsInOrder

(***************************************************************************)
(* Every event emitted before the first one that ends the post_processor   *)
(* is in the end handled, or known to be skipped, through crashes, dropped *)
(* connections, wind backs and lost flushes.                               *)
(***************************************************************************)
BeforeFirstThrow ==
    {s \in Seqs : \A t \in 1 .. s : Kind[t] # "throws"}

EventuallyAccounted ==
    \A s \in BeforeFirstThrow : (s <= head) ~> (s \in Accounted)

(***************************************************************************)
(* datasource.hpp says of a read error: "we should run forever unless      *)
(* killed. Try to reconnect in a little while." A process that nothing but *)
(* its connection fails must stay active.                                  *)
(***************************************************************************)
KeepsRunning == up => active

(***************************************************************************)
(* The promise made to an operator, see RewindContract.                    *)
(***************************************************************************)
Contract == INSTANCE RewindContract WITH
    accounted <- Accounted,
    point <- lastProcessed,
    marks <- checkpoints

ContractSpec == Contract!Spec
=============================================================================
