------------------------ MODULE TrackedAccountsProofs ------------------------
(***************************************************************************)
(* Proofs about TrackedAccounts, for any accounts, any size of batch and   *)
(* any number of changes, failures and torn enqueues.                      *)
(***************************************************************************)
EXTENDS TrackedAccounts, SequenceTheorems, TLAPS

\* The parts of TypeOK.
Flags == due \in BOOLEAN /\ batching \in BOOLEAN /\ overlapped \in BOOLEAN
         /\ failed \in BOOLEAN

Database == labelled \subseteq Dids /\ open \subseteq Dids /\ closed \subseteq Dids

Sets == tracked \subseteq Dids /\ closedReports \subseteq Dids

Adapter ==
    adapter \in [pc : {"sleep", "query", "install", "enqueue"},
                 tracked : SUBSET Dids, closed : SUBSET Dids,
                 missing : SUBSET Dids]

Poster ==
    /\ poster.pc \in {"idle", "enqueue"}
    /\ poster.pc # "idle" => poster.did \in Dids

Channel ==
    /\ queue \in Seq(SUBSET Dids)
    /\ signals \in Nat /\ Len(queue) <= signals
    /\ clash \subseteq Producers

Loader ==
    /\ loader \in [pc : {"wait", "took", "one", "batch", "done"},
                   rest : SUBSET Dids, found : SUBSET Dids]
    /\ handles \subseteq Dids

History == steady \in [now : SUBSET Dids, next : SUBSET Dids]

Counts == count \in 0 .. MaxEvents

\* The result that the adapter holds is as good as the one in use: what has
\* been listed since its first query is in it, and its second query left out
\* whatever the first one found.
Fresh ==
    /\ adapter.pc \in {"query", "install"} => steady.next \subseteq adapter.tracked
    /\ adapter.pc = "install" => adapter.tracked \cap adapter.closed = {}

Parts ==
    /\ Flags /\ Database /\ Sets /\ Adapter /\ Poster /\ Channel
    /\ Loader /\ History /\ Counts /\ Fresh /\ ListedAreTracked

-----------------------------------------------------------------------------
\* The invariant is TypeOK and the property, strengthened.
LEMMA PartsSuffice == Parts => TypeOK /\ ListedAreTracked
  BY Zenon DEF Parts, TypeOK, Flags, Database, Sets, Adapter, Poster, Channel,
    Loader, History, Counts

\* The bound on events is a number.
LEMMA EventsCounted == MaxEvents \in Nat
  BY TrackingAssumption

\* The invariant holds when the program starts.
LEMMA InitParts == ASSUME Init PROVE Parts
<1>1. Flags
  BY DEF Init, Asleep, NoPost, Waiting, Flags
<1>2. Database
  BY TrackingAssumption DEF Init, Asleep, NoPost, Waiting, Database
<1>3. Sets
  BY DEF Init, Asleep, NoPost, Waiting, Sets, Adapter
<1>4. Adapter
  BY DEF Init, Asleep, NoPost, Waiting, Adapter, Sets, Database, Listed
<1>5. Poster
  BY DEF Init, Asleep, NoPost, Waiting, Poster
<1>6. Channel
  <2>1. queue = <<>> /\ signals = 0 /\ clash = {}
    BY DEF Init
  <2>. QED BY <2>1 DEF Channel
<1>7. Loader
  BY DEF Init, Asleep, NoPost, Waiting, Loader, Channel, Loaded
<1>8. History
  BY DEF Init, Asleep, NoPost, Waiting, History, Listed, Database
<1>9. Counts
  <2>1. count = 0
    BY DEF Init
  <2>. QED BY <2>1, EventsCounted DEF Counts
<1>10. Fresh
  BY DEF Init, Asleep, NoPost, Waiting, Fresh, History, Adapter, Listed
<1>11. ListedAreTracked
  BY DEF Init, Asleep, NoPost, Waiting, ListedAreTracked, History, Fresh,
    Adapter
<1>. QED BY <1>1, <1>2, <1>3, <1>4, <1>5, <1>6, <1>7, <1>8, <1>9, <1>10, <1>11
  DEF Parts

\* What is published is a sequence of sets of accounts, and no longer than
\* the number of signals.
LEMMA PublishKeeps ==
  ASSUME Channel, NEW producer \in Producers, NEW value \in SUBSET Dids,
         NEW others \in SUBSET Producers, Publish(producer, value, others)
  PROVE  Channel'
<1>1. CASE queue' = Append(queue, value)
  BY <1>1, AppendProperties DEF Channel, Publish
<1>2. CASE queue' = queue
  BY <1>2 DEF Channel, Publish
<1>3. CASE queue # <<>> /\ queue' = [queue EXCEPT ![Len(queue)] = value]
  <2>1. queue' \in Seq(SUBSET Dids) /\ Len(queue') = Len(queue)
    BY <1>3, ExceptSeq DEF Channel
  <2>. QED BY <2>1 DEF Channel, Publish
<1>. QED BY <1>1, <1>2, <1>3 DEF Publish, Published

-----------------------------------------------------------------------------
(***************************************************************************)
(* The database, and the threads that add to the sets.                     *)
(***************************************************************************)
\* What was listed all the time is listed.
LEMMA DatabaseStep ==
  ASSUME Parts, DatabaseChanges
  PROVE  Parts'
<1>1. Flags'
  BY Zenon DEF Parts, Flags, DatabaseChanges, Event, database, sets, bounds,
    channel
<1>2. Sets' /\ Adapter' /\ Poster' /\ Channel'
  BY DEF Parts, Sets, Adapter, Poster, Channel, DatabaseChanges, Event,
    database, sets, bounds, channel
<1>3. Loader'
  BY DEF Parts, Loader, DatabaseChanges, Event, database, sets, bounds,
    channel
<1>4. Database'
  BY DEF Parts, Database, DatabaseChanges, Event, database, sets, bounds,
    channel
<1>5. History'
  BY DEF Parts, History, Listed, Database, DatabaseChanges, Event, database,
    sets, bounds, channel
<1>6. Counts'
  BY EventsCounted DEF Parts, Counts, DatabaseChanges, Event, database,
    sets, bounds, channel
<1>7. Fresh'
  BY DEF Parts, Fresh, History, Adapter, Listed, DatabaseChanges, Event,
    database, sets, bounds, channel
<1>8. ListedAreTracked'
  BY DEF Parts, ListedAreTracked, History, Fresh, Adapter, DatabaseChanges,
    Event, database, sets, bounds, channel
<1>. QED BY <1>1, <1>2, <1>3, <1>4, <1>5, <1>6, <1>7, <1>8 DEF Parts

\* An account is added.
LEMMA TrackStep ==
  ASSUME Parts, NEW did \in Dids, TrackAccount(did)
  PROVE  Parts'
<1>1. Flags'
  BY Zenon DEF Parts, Flags, TrackAccount, Event, database, sets, bounds,
    channel
<1>2. Database' /\ Adapter' /\ Poster' /\ Channel'
  BY DEF Parts, Database, Adapter, Poster, Channel, TrackAccount, Event,
    database, sets, bounds, channel
<1>3. Loader' /\ History' /\ Fresh'
  BY DEF Parts, Loader, History, Fresh, TrackAccount, Event, database, sets,
    bounds, channel
<1>4. Sets'
  BY DEF Parts, Sets, Adapter, TrackAccount, Event, database, sets, bounds,
    channel
<1>5. Counts'
  BY EventsCounted DEF Parts, Counts, TrackAccount, Event, database, sets,
    bounds, channel
<1>6. ListedAreTracked'
  BY DEF Parts, ListedAreTracked, History, Fresh, Adapter, TrackAccount,
    Event, database, sets, bounds, channel
<1>. QED BY <1>1, <1>2, <1>3, <1>4, <1>5, <1>6 DEF Parts

\* Time passes.
LEMMA DueStep ==
  ASSUME Parts, RefreshDue
  PROVE  Parts'
<1>1. Database' /\ Sets' /\ Adapter' /\ Poster'
  BY DEF Parts, Database, Sets, Adapter, Poster, RefreshDue, Event,
    database, sets, bounds, channel
<1>2. Channel' /\ Loader' /\ History' /\ Fresh'
  BY DEF Parts, Channel, Loader, History, Fresh, RefreshDue, Event,
    database, sets, bounds, channel
<1>3. ListedAreTracked'
  BY DEF Parts, ListedAreTracked, RefreshDue, Event, database, sets, bounds,
    channel
<1>4. Flags'
  BY Zenon DEF Parts, Flags, RefreshDue, Event, database, sets, bounds,
    channel
<1>5. Counts'
  BY EventsCounted DEF Parts, Counts, RefreshDue, Event, database, sets,
    bounds, channel
<1>. QED BY <1>1, <1>2, <1>3, <1>4, <1>5 DEF Parts

-----------------------------------------------------------------------------
(***************************************************************************)
(* The adapter.                                                            *)
(***************************************************************************)
\* Everything that is listed now is found.
LEMMA QueryTrackedStep ==
  ASSUME Parts, QueryTracked
  PROVE  Parts'
<1>1. Flags'
  BY Zenon DEF Parts, Flags, QueryTracked, database, sets, bounds, channel
<1>2. Database' /\ Sets' /\ Poster' /\ Channel'
  BY DEF Parts, Database, Sets, Poster, Channel, QueryTracked, database,
    sets, bounds, channel
<1>3. Loader' /\ Counts'
  BY DEF Parts, Loader, Counts, QueryTracked, database, sets, bounds,
    channel
<1>4. Adapter'
  BY DEF Parts, Adapter, Sets, Database, Listed, QueryTracked, database,
    sets, bounds, channel
<1>5. History'
  BY DEF Parts, History, Listed, Database, QueryTracked, database, sets,
    bounds, channel
<1>6. Fresh'
  BY DEF Parts, Fresh, History, Adapter, Listed, QueryTracked, database,
    sets, bounds, channel
<1>7. ListedAreTracked'
  BY DEF Parts, ListedAreTracked, History, Fresh, Adapter, QueryTracked,
    database, sets, bounds, channel
<1>. QED BY <1>1, <1>2, <1>3, <1>4, <1>5, <1>6, <1>7 DEF Parts

\* Nothing that was found is taken for closed.
LEMMA QueryClosedStep ==
  ASSUME Parts, QueryClosed
  PROVE  Parts'
<1>1. Flags'
  BY Zenon DEF Parts, Flags, QueryClosed, database, sets, bounds, channel
<1>2. Database' /\ Sets' /\ Poster' /\ Channel'
  BY DEF Parts, Database, Sets, Poster, Channel, QueryClosed, database,
    sets, bounds, channel
<1>3. Loader' /\ History' /\ Counts' /\ ListedAreTracked'
  BY DEF Parts, Loader, History, Counts, ListedAreTracked, QueryClosed,
    database, sets, bounds, channel
<1>4. Adapter'
  BY DEF Parts, Adapter, Sets, Database, Listed, QueryClosed, database,
    sets, bounds, channel
<1>5. Fresh'
  BY DEF Parts, Fresh, History, Adapter, Listed, QueryClosed, database,
    sets, bounds, channel
<1>. QED BY <1>1, <1>2, <1>3, <1>4, <1>5 DEF Parts

\* A failed query installs nothing.
LEMMA QueryFailsStep ==
  ASSUME Parts, QueryFails
  PROVE  Parts'
<1>1. Database' /\ Sets' /\ Poster' /\ Channel'
  BY DEF Parts, Database, Sets, Poster, Channel, QueryFails, Failure,
    Asleep, database, sets, bounds, channel
<1>2. Loader' /\ History' /\ ListedAreTracked'
  BY DEF Parts, Loader, History, ListedAreTracked, QueryFails, Failure,
    Asleep, database, sets, bounds, channel
<1>3. Flags'
  BY Zenon DEF Parts, Flags, QueryFails, Failure, Asleep, database, sets,
    bounds, channel
<1>4. Adapter'
  BY DEF Parts, Adapter, Sets, Database, Listed, QueryFails, Failure,
    Asleep, database, sets, bounds, channel
<1>5. Counts'
  BY EventsCounted DEF Parts, Counts, QueryFails, Failure, Asleep, database,
    sets, bounds, channel
<1>6. Fresh'
  BY DEF Parts, Fresh, History, Adapter, Listed, QueryFails, Failure,
    Asleep, database, sets, bounds, channel
<1>. QED BY <1>1, <1>2, <1>3, <1>4, <1>5, <1>6 DEF Parts

\* The fresh result replaces the one in use.
LEMMA InstallStep ==
  ASSUME Parts, Install
  PROVE  Parts'
<1>1. Flags'
  BY Zenon DEF Parts, Flags, Install, Asleep, database, sets, bounds,
    channel
<1>2. Database' /\ Poster' /\ Channel' /\ Loader'
  BY DEF Parts, Database, Poster, Channel, Loader, Install, Asleep,
    database, sets, bounds, channel
<1>3. Counts'
  BY DEF Parts, Counts, Install, Asleep, database, sets, bounds, channel
<1>4. Sets'
  BY DEF Parts, Sets, Adapter, Install, Asleep, database, sets, bounds,
    channel
<1>5. Adapter'
  BY DEF Parts, Adapter, Sets, Database, Listed, Install, Asleep, database,
    sets, bounds, channel
<1>6. History'
  BY DEF Parts, History, Listed, Database, Install, Asleep, database, sets,
    bounds, channel
<1>7. Fresh'
  BY DEF Parts, Fresh, History, Adapter, Listed, Install, Asleep, database,
    sets, bounds, channel
<1>8. ListedAreTracked'
  BY DEF Parts, ListedAreTracked, History, Fresh, Adapter, Install, Asleep,
    database, sets, bounds, channel
<1>. QED BY <1>1, <1>2, <1>3, <1>4, <1>5, <1>6, <1>7, <1>8 DEF Parts

\* The missing handles are asked for.
LEMMA FinishStep ==
  ASSUME Parts, FinishRefresh
  PROVE  Parts'
<1>1. Database' /\ Sets' /\ Poster' /\ Loader'
  BY DEF Parts, Database, Sets, Poster, Loader, FinishRefresh, Asleep,
    Publish, database, sets, bounds, channel
<1>2. History' /\ Counts' /\ ListedAreTracked'
  BY DEF Parts, History, Counts, ListedAreTracked, FinishRefresh, Asleep,
    Publish, database, sets, bounds, channel
<1>3. Flags'
  BY Zenon DEF Parts, Flags, FinishRefresh, Asleep, Publish, database, sets,
    bounds, channel
<1>4. Adapter'
  BY DEF Parts, Adapter, Sets, Database, Listed, FinishRefresh, Asleep,
    Publish, database, sets, bounds, channel
<1>5. Channel'
  <2>1. adapter.missing \subseteq Dids
    BY DEF Parts, Adapter
  <2>. QED BY <2>1, PublishKeeps DEF Parts, FinishRefresh, Producers
<1>6. Fresh'
  BY DEF Parts, Fresh, History, Adapter, Listed, FinishRefresh, Asleep,
    Publish, database, sets, bounds, channel
<1>. QED BY <1>1, <1>2, <1>3, <1>4, <1>5, <1>6 DEF Parts

-----------------------------------------------------------------------------
(***************************************************************************)
(* The post_processor.                                                     *)
(***************************************************************************)
\* An account without a handle is remembered.
LEMMA EnsureStep ==
  ASSUME Parts, NEW did \in Dids, EnsureLoaded(did)
  PROVE  Parts'
<1>1. Flags'
  BY Zenon DEF Parts, Flags, EnsureLoaded, NoPost, Event, database, sets,
    bounds, channel
<1>2. Database' /\ Sets' /\ Adapter' /\ Channel'
  BY DEF Parts, Database, Sets, Adapter, Channel, EnsureLoaded, NoPost,
    Event, database, sets, bounds, channel
<1>3. Loader' /\ History' /\ Fresh' /\ ListedAreTracked'
  BY DEF Parts, Loader, History, Fresh, ListedAreTracked, EnsureLoaded,
    NoPost, Event, database, sets, bounds, channel
<1>4. Poster'
  BY DEF Parts, Poster, EnsureLoaded, NoPost, Event, database, sets, bounds,
    channel
<1>5. Counts'
  <2>1. count < MaxEvents /\ count' = count + 1
    BY DEF EnsureLoaded, Event
  <2>. QED BY <2>1, EventsCounted DEF Parts, Counts
<1>. QED BY <1>1, <1>2, <1>3, <1>4, <1>5 DEF Parts

\* It is asked for.
LEMMA EnqueueStep ==
  ASSUME Parts, FinishEnqueue
  PROVE  Parts'
<1>1. Database' /\ Sets' /\ Adapter' /\ Loader'
  BY DEF Parts, Database, Sets, Adapter, Loader, FinishEnqueue, NoPost,
    Publish, database, sets, bounds, channel
<1>2. History' /\ Counts' /\ Fresh' /\ ListedAreTracked'
  BY DEF Parts, History, Counts, Fresh, ListedAreTracked, FinishEnqueue,
    NoPost, Publish, database, sets, bounds, channel
<1>3. Flags'
  BY Zenon DEF Parts, Flags, FinishEnqueue, NoPost, Publish, database, sets,
    bounds, channel
<1>4. Poster'
  BY DEF Parts, Poster, FinishEnqueue, NoPost, Publish, database, sets,
    bounds, channel
<1>5. Channel'
  <2>1. {poster.did} \subseteq Dids
    BY DEF Parts, Poster, FinishEnqueue
  <2>. QED BY <2>1, PublishKeeps DEF Parts, FinishEnqueue, Producers
<1>. QED BY <1>1, <1>2, <1>3, <1>4, <1>5 DEF Parts

\* A handle is announced.
LEMMA AnnouncedStep ==
  ASSUME Parts, NEW did \in Dids, HandleAnnounced(did)
  PROVE  Parts'
<1>1. Flags'
  BY Zenon DEF Parts, Flags, HandleAnnounced, Event, database, sets, bounds,
    channel
<1>2. Database' /\ Sets' /\ Adapter' /\ Poster'
  BY DEF Parts, Database, Sets, Adapter, Poster, HandleAnnounced, Event,
    database, sets, bounds, channel
<1>3. Channel' /\ History' /\ Fresh' /\ ListedAreTracked'
  BY DEF Parts, Channel, History, Fresh, ListedAreTracked, HandleAnnounced,
    Event, database, sets, bounds, channel
<1>4. Loader'
  BY DEF Parts, Loader, Channel, Waiting, Loaded, HandleAnnounced, Event,
    database, sets, bounds, channel
<1>5. Counts'
  BY EventsCounted DEF Parts, Counts, HandleAnnounced, Event, database,
    sets, bounds, channel
<1>. QED BY <1>1, <1>2, <1>3, <1>4, <1>5 DEF Parts

\* A handle is forgotten.
LEMMA EvictStep ==
  ASSUME Parts, NEW did \in Dids, Evict(did)
  PROVE  Parts'
<1>1. Flags'
  BY Zenon DEF Parts, Flags, Evict, Event, database, sets, bounds, channel
<1>2. Database' /\ Sets' /\ Adapter' /\ Poster'
  BY DEF Parts, Database, Sets, Adapter, Poster, Evict, Event, database,
    sets, bounds, channel
<1>3. Channel' /\ History' /\ Fresh' /\ ListedAreTracked'
  BY DEF Parts, Channel, History, Fresh, ListedAreTracked, Evict, Event,
    database, sets, bounds, channel
<1>4. Loader'
  BY DEF Parts, Loader, Channel, Waiting, Loaded, Evict, Event, database,
    sets, bounds, channel
<1>5. Counts'
  BY EventsCounted DEF Parts, Counts, Evict, Event, database, sets, bounds,
    channel
<1>. QED BY <1>1, <1>2, <1>3, <1>4, <1>5 DEF Parts

-----------------------------------------------------------------------------
(***************************************************************************)
(* The loader.                                                             *)
(***************************************************************************)
\* A set is taken, or nothing.
LEMMA DequeueStep ==
  ASSUME Parts, Dequeue
  PROVE  Parts'
<1>1. Flags'
  BY Zenon DEF Parts, Flags, Dequeue, database, sets, bounds, channel
<1>2. Database' /\ Sets' /\ Adapter' /\ Poster'
  BY DEF Parts, Database, Sets, Adapter, Poster, Dequeue, database, sets,
    bounds, channel
<1>3. History' /\ Counts' /\ Fresh' /\ ListedAreTracked'
  BY DEF Parts, History, Counts, Fresh, ListedAreTracked, Dequeue, database,
    sets, bounds, channel
<1>4. Channel'
  <2>1. CASE queue = <<>>
    BY <2>1 DEF Parts, Channel, Dequeue
  <2>2. CASE queue # <<>>
    <3>1. Tail(queue) \in Seq(SUBSET Dids) /\ Len(Tail(queue)) = Len(queue) - 1
      BY <2>2, HeadTailProperties DEF Parts, Channel
    <3>. QED BY <2>2, <3>1 DEF Parts, Channel, Dequeue
  <2>. QED BY <2>1, <2>2
<1>5. Loader'
  <2>1. Dequeued \subseteq Dids
    BY HeadTailProperties DEF Parts, Channel, Dequeued
  <2>. QED BY <2>1 DEF Parts, Loader, Dequeue
<1>. QED BY <1>1, <1>2, <1>3, <1>4, <1>5 DEF Parts

\* A batch is announced.
LEMMA StartLoadStep ==
  ASSUME Parts, StartLoad
  PROVE  Parts'
<1>1. Database' /\ Sets' /\ Adapter' /\ Poster'
  BY DEF Parts, Database, Sets, Adapter, Poster, StartLoad, database, sets,
    bounds, channel
<1>2. Channel' /\ History' /\ Counts' /\ Fresh'
  BY DEF Parts, Channel, History, Counts, Fresh, StartLoad, database, sets,
    bounds, channel
<1>3. ListedAreTracked'
  BY DEF Parts, ListedAreTracked, StartLoad, database, sets, bounds, channel
<1>4. Flags'
  BY Zenon DEF Parts, Flags, StartLoad, database, sets, bounds, channel
<1>5. Loader'
  BY DEF Parts, Loader, Channel, Waiting, Loaded, StartLoad, database, sets,
    bounds, channel
<1>. QED BY <1>1, <1>2, <1>3, <1>4, <1>5 DEF Parts

\* A batch is answered.
LEMMA AskBatchStep ==
  ASSUME Parts, AskBatch
  PROVE  Parts'
<1>1. Flags'
  BY Zenon DEF Parts, Flags, AskBatch, database, sets, bounds, channel
<1>2. Database' /\ Sets' /\ Adapter' /\ Poster'
  BY DEF Parts, Database, Sets, Adapter, Poster, AskBatch, database, sets,
    bounds, channel
<1>3. Channel' /\ History' /\ Counts' /\ Fresh'
  BY DEF Parts, Channel, History, Counts, Fresh, AskBatch, database, sets,
    bounds, channel
<1>4. ListedAreTracked'
  BY DEF Parts, ListedAreTracked, AskBatch, database, sets, bounds, channel
<1>5. Loader'
  <2>1. PICK batch \in SUBSET loader.rest : loader' =
             [loader EXCEPT !.rest = @ \ batch, !.found = @ \cup (batch \ Gone)]
    BY DEF AskBatch, Batches
  <2>. QED BY <2>1 DEF Parts, Loader, AskBatch
<1>. QED BY <1>1, <1>2, <1>3, <1>4, <1>5 DEF Parts

\* A batch goes unanswered.
LEMMA AskUnheardStep ==
  ASSUME Parts, AskBatchUnheard
  PROVE  Parts'
<1>1. Database' /\ Sets' /\ Adapter' /\ Poster'
  BY DEF Parts, Database, Sets, Adapter, Poster, AskBatchUnheard, Failure,
    database, sets, bounds, channel
<1>2. Channel' /\ History' /\ Fresh' /\ ListedAreTracked'
  BY DEF Parts, Channel, History, Fresh, ListedAreTracked, AskBatchUnheard,
    Failure, database, sets, bounds, channel
<1>3. Flags'
  BY Zenon DEF Parts, Flags, AskBatchUnheard, Failure, database, sets,
    bounds, channel
<1>4. Loader'
  <2>1. PICK batch \in SUBSET loader.rest : loader' = [loader EXCEPT !.rest = @ \ batch]
    BY DEF AskBatchUnheard, Batches
  <2>. QED BY <2>1 DEF Parts, Loader, AskBatchUnheard
<1>5. Counts'
  BY EventsCounted DEF Parts, Counts, AskBatchUnheard, Failure, database,
    sets, bounds, channel
<1>. QED BY <1>1, <1>2, <1>3, <1>4, <1>5 DEF Parts

\* The handles found are entered.
LEMMA UpdateStep ==
  ASSUME Parts, UpdateHandles
  PROVE  Parts'
<1>1. Flags'
  BY Zenon DEF Parts, Flags, UpdateHandles, database, sets, bounds, channel
<1>2. Database' /\ Sets' /\ Adapter' /\ Poster'
  BY DEF Parts, Database, Sets, Adapter, Poster, UpdateHandles, database,
    sets, bounds, channel
<1>3. Channel' /\ History' /\ Counts' /\ Fresh'
  BY DEF Parts, Channel, History, Counts, Fresh, UpdateHandles, database,
    sets, bounds, channel
<1>4. ListedAreTracked'
  BY DEF Parts, ListedAreTracked, UpdateHandles, database, sets, bounds,
    channel
<1>5. Loader'
  BY DEF Parts, Loader, Channel, Waiting, Loaded, UpdateHandles, database,
    sets, bounds, channel
<1>. QED BY <1>1, <1>2, <1>3, <1>4, <1>5 DEF Parts

\* One handle is entered.
LEMMA AskOneStep ==
  ASSUME Parts, AskOne
  PROVE  Parts'
<1>1. Flags'
  BY Zenon DEF Parts, Flags, AskOne, database, sets, bounds, channel
<1>2. Database' /\ Sets' /\ Adapter' /\ Poster'
  BY DEF Parts, Database, Sets, Adapter, Poster, AskOne, database, sets,
    bounds, channel
<1>3. Channel' /\ History' /\ Counts' /\ Fresh'
  BY DEF Parts, Channel, History, Counts, Fresh, AskOne, database, sets,
    bounds, channel
<1>4. ListedAreTracked'
  BY DEF Parts, ListedAreTracked, AskOne, database, sets, bounds, channel
<1>5. Loader'
  BY DEF Parts, Loader, Channel, Waiting, Loaded, AskOne, database, sets,
    bounds, channel
<1>. QED BY <1>1, <1>2, <1>3, <1>4, <1>5 DEF Parts

\* A load fails.
LEMMA LoadFailsStep ==
  ASSUME Parts, LoadFails
  PROVE  Parts'
<1>1. Database' /\ Sets' /\ Adapter' /\ Poster'
  BY DEF Parts, Database, Sets, Adapter, Poster, LoadFails, Failure,
    database, sets, bounds, channel
<1>2. Channel' /\ History' /\ Fresh' /\ ListedAreTracked'
  BY DEF Parts, Channel, History, Fresh, ListedAreTracked, LoadFails,
    Failure, database, sets, bounds, channel
<1>3. Flags'
  BY Zenon DEF Parts, Flags, LoadFails, Failure, database, sets, bounds,
    channel
<1>4. Loader'
  BY DEF Parts, Loader, Channel, Waiting, Loaded, LoadFails, Failure,
    database, sets, bounds, channel
<1>5. Counts'
  BY EventsCounted DEF Parts, Counts, LoadFails, Failure, database, sets,
    bounds, channel
<1>. QED BY <1>1, <1>2, <1>3, <1>4, <1>5 DEF Parts

\* A load ends.
LEMMA FinishLoadStep ==
  ASSUME Parts, FinishLoad
  PROVE  Parts'
<1>1. Database' /\ Sets' /\ Adapter' /\ Poster'
  BY DEF Parts, Database, Sets, Adapter, Poster, FinishLoad, database, sets,
    bounds, channel
<1>2. Channel' /\ History' /\ Counts' /\ Fresh'
  BY DEF Parts, Channel, History, Counts, Fresh, FinishLoad, database, sets,
    bounds, channel
<1>3. ListedAreTracked'
  BY DEF Parts, ListedAreTracked, FinishLoad, database, sets, bounds,
    channel
<1>4. Flags'
  BY Zenon DEF Parts, Flags, FinishLoad, database, sets, bounds, channel
<1>5. Loader'
  BY DEF Parts, Loader, Channel, Waiting, Loaded, FinishLoad, database,
    sets, bounds, channel
<1>. QED BY <1>1, <1>2, <1>3, <1>4, <1>5 DEF Parts

-----------------------------------------------------------------------------
\* Every step keeps the invariant.
LEMMA PartsStep == Parts /\ [Next]_vars => Parts'
<1>. SUFFICES ASSUME Parts, [Next]_vars PROVE Parts'
  OBVIOUS
<1>1. CASE UNCHANGED vars
  <2>1. Flags'
    BY Zenon, <1>1 DEF vars, bounds, channel, Parts, Flags
  <2>2. Database' /\ Sets' /\ Adapter' /\ Poster' /\ Channel'
    BY <1>1 DEF vars, database, sets, channel, Parts, Database, Sets, Adapter,
      Poster, Channel
  <2>3. Loader' /\ History' /\ Counts' /\ Fresh' /\ ListedAreTracked'
    BY <1>1 DEF vars, sets, bounds, Parts, Loader, History, Counts, Fresh,
      ListedAreTracked
  <2>. QED BY <2>1, <2>2, <2>3 DEF Parts
<1>2. CASE DatabaseChanges \/ RefreshDue \/ FinishEnqueue
  BY <1>2, DatabaseStep, DueStep, EnqueueStep
<1>3. CASE Refresh \/ QueryFails
  BY <1>3, QueryTrackedStep, QueryClosedStep, InstallStep, FinishStep,
    QueryFailsStep DEF Refresh
<1>4. CASE LoaderStep \/ AskBatchUnheard \/ LoadFails
  BY <1>4, DequeueStep, StartLoadStep, AskBatchStep, UpdateStep, AskOneStep,
    FinishLoadStep, AskUnheardStep, LoadFailsStep DEF LoaderStep
<1>5. ASSUME NEW did \in Dids,
             TrackAccount(did) \/ EnsureLoaded(did) \/ HandleAnnounced(did)
                \/ Evict(did)
      PROVE  Parts'
  BY <1>5, TrackStep, EnsureStep, AnnouncedStep, EvictStep
<1>. QED BY <1>1, <1>2, <1>3, <1>4, <1>5 DEF Next

LEMMA Invariant == Spec => []Parts
  BY InitParts, PartsStep, PTL DEF Spec

(***************************************************************************)
(* The sets, the threads and the queue keep their type, and there is never *)
(* less than one signal for each element of the queue.                     *)
(***************************************************************************)
THEOREM TrackingTypeCorrect == Spec => []TypeOK
  BY Invariant, PartsSuffice, PTL

(***************************************************************************)
(* An account that has been under moderation since before the queries of   *)
(* the last refresh is tracked, and not among the closed ones.             *)
(***************************************************************************)
THEOREM ListedAccountsTracked == Spec => []ListedAreTracked
  BY Invariant, PartsSuffice, PTL
=============================================================================
