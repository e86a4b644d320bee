--------------------------- MODULE TrackedAccounts ---------------------------
(***************************************************************************)
(* The accounts that are under moderation, and their handles.              *)
(*                                                                         *)
(*   moderation DB --> ozone_adapter thread --+--> _tracked_accounts       *)
(*                            |               `--> _closed_reports         *)
(*                            v                                            *)
(*   post_processor --> queue of async_loader --> AppView                  *)
(*                                |                                        *)
(*                                `--> handles in the event_cache          *)
(*                                                                         *)
(* The adapter reads the database in two queries and then replaces both    *)
(* sets under a lock; report_agent adds to the first in between, and       *)
(* list_manager asks the second whom to skip. Accounts without a handle    *)
(* are handed to the loader, all in one batch; the post_processor hands it *)
(* others one by one, into the same queue, which is made for one producer. *)
(*                                                                         *)
(* The event_cache may drop an account at any time; what it does with the  *)
(* rest of it is in AccountActivity.                                       *)
(***************************************************************************)
EXTENDS Naturals, Sequences, FiniteSets

CONSTANTS
    Dids,
    Gone,           \* accounts that AppView has no profile of
    BatchSize,      \* GetProfilesMax
    MaxEvents,      \* bound on what happens around the three threads, and on failures
    InitiallyOpen   \* the accounts that may have an open report at the start

ASSUME TrackingAssumption ==
    /\ Gone \subseteq Dids /\ IsFiniteSet(Dids)
    /\ BatchSize \in Nat /\ BatchSize > 1
    /\ MaxEvents \in Nat
    /\ InitiallyOpen \subseteq SUBSET Dids

VARIABLES
    labelled,       \* database: accounts with an event of type label
    open,           \* database: accounts with a subject open or escalated
    closed,         \* database: accounts whose own review is closed
    tracked,        \* _tracked_accounts
    closedReports,  \* _closed_reports
    due,            \* ProcessedAccountRefreshInterval has passed since _last_refresh
    adapter,        \* thread: [pc, tracked, closed, missing]
    poster,         \* post_processor in ensure_loaded: [pc, did]
    queue,          \* the sets of accounts in async_loader._queue
    signals,        \* the count of its semaphore
    clash,          \* producers whose enqueue another one overtook
    loader,         \* thread: [pc, rest, found]
    batching,       \* _batch_in_progress
    handles,        \* accounts whose handle the event_cache knows
    steady,         \* history, see ListedAreTracked
    overlapped,     \* history: two enqueues took place at once
    count,          \* number of events and failures
    failed          \* history: a query or a request failed

database == <<labelled, open, closed>>
sets == <<tracked, closedReports>>
bounds == <<count, failed>>
channel == <<queue, signals, clash, overlapped>>
vars == <<database, sets, due, adapter, poster, channel, loader,
          batching, handles, steady, bounds>>

Producers == {"ozone_adapter", "post_processor"}

Asleep == [pc |-> "sleep", tracked |-> {}, closed |-> {}, missing |-> {}]
NoPost == [pc |-> "idle", did |-> ""]
Waiting == [pc |-> "wait", rest |-> {}, found |-> {}]
Loaded == [Waiting EXCEPT !.pc = "done"]

\* The first query: "track account if it was ever labeled or has an open
\* report". Content counts for its account.
Listed == labelled \cup open

TypeOK ==
    /\ due \in BOOLEAN /\ batching \in BOOLEAN
    /\ labelled \subseteq Dids /\ open \subseteq Dids /\ closed \subseteq Dids
    /\ tracked \subseteq Dids /\ closedReports \subseteq Dids
    /\ adapter \in [pc : {"sleep", "query", "install", "enqueue"},
                    tracked : SUBSET Dids, closed : SUBSET Dids,
                    missing : SUBSET Dids]
    /\ poster.pc \in {"idle", "enqueue"}
    /\ poster.pc # "idle" => poster.did \in Dids
    /\ queue \in Seq(SUBSET Dids)
    /\ signals \in Nat /\ Len(queue) <= signals
    /\ clash \subseteq Producers /\ overlapped \in BOOLEAN
    /\ loader \in [pc : {"wait", "took", "one", "batch", "done"},
                   rest : SUBSET Dids, found : SUBSET Dids]
    /\ handles \subseteq Dids
    /\ steady.now \subseteq Dids /\ steady.next \subseteq Dids
    /\ count \in 0 .. MaxEvents /\ failed \in BOOLEAN

Init ==
    /\ due = TRUE
    /\ labelled = {} /\ open \in InitiallyOpen /\ closed = {}
    /\ tracked = {} /\ closedReports = {}
    /\ adapter = Asleep /\ poster = NoPost /\ loader = Waiting
    /\ queue = <<>> /\ signals = 0 /\ clash = {} /\ overlapped = FALSE
    /\ batching = FALSE /\ handles = {}
    /\ steady = [now |-> {}, next |-> {}]
    /\ count = 0 /\ failed = FALSE

\* Each thing that the threads do not do by themselves is counted.
Event == count < MaxEvents /\ count' = count + 1 /\ UNCHANGED failed
Failure == count < MaxEvents /\ count' = count + 1 /\ failed' = TRUE

-----------------------------------------------------------------------------
(***************************************************************************)
(* The moderation database, changed by the PDS on behalf of this program,  *)
(* of moderators and of users.                                             *)
(***************************************************************************)
DatabaseChanges ==
    /\ Event
    /\ \E did \in Dids :
          \/ /\ labelled' = labelled \cup {did}         \* a label
             /\ UNCHANGED <<open, closed>>
          \/ /\ open' = open \cup {did}                 \* a report of content
             /\ UNCHANGED <<labelled, closed>>
          \/ /\ open' = open \cup {did}                 \* a report of the account
             /\ closed' = closed \ {did}
             /\ UNCHANGED labelled
          \/ /\ closed' = closed \cup {did}             \* a review closed, with or
             /\ open' \in {open, open \ {did}}          \* without content left open
             /\ UNCHANGED labelled
    /\ steady' = [now |-> steady.now \cap (labelled' \cup open'),
                  next |-> steady.next \cap (labelled' \cup open')]
    /\ UNCHANGED <<sets, due, adapter, poster, channel, loader, batching,
                   handles>>

-----------------------------------------------------------------------------
(***************************************************************************)
(* BlockingReaderWriterQueue. An enqueue reads the tail and then writes,   *)
(* without a lock: one that was overtaken may put its value in the place   *)
(* of the other's, or lose its own. The semaphore counts both. A dequeue   *)
(* that finds nothing leaves its result as it was, empty.                  *)
(***************************************************************************)
Published(value, overtaken) ==
    {Append(queue, value)} \cup
    (IF ~overtaken THEN {}
     ELSE IF queue = <<>> THEN {queue}
     ELSE {queue, [queue EXCEPT ![Len(queue)] = value]})

\* Variant: an enqueue that does not signal.
PublishUntold(producer, value, others) ==
    /\ queue' \in Published(value, producer \in clash)
    /\ UNCHANGED signals
    /\ clash' = (clash \ {producer}) \cup others
    /\ overlapped' = (overlapped \/ producer \in clash)

Publish(producer, value, others) ==
    /\ queue' \in Published(value, producer \in clash)
    /\ signals' = signals + 1
    /\ clash' = (clash \ {producer}) \cup others
    /\ overlapped' = (overlapped \/ producer \in clash)

Dequeued == IF queue = <<>> THEN {} ELSE Head(queue)

-----------------------------------------------------------------------------
(***************************************************************************)
(* ozone_adapter: check_refresh_tracked_accounts. The lock is held from    *)
(* the replacement of the sets to the end. The handles are looked up one   *)
(* by one, which is left out.                                              *)
(***************************************************************************)
RefreshDue ==
    /\ ~due /\ adapter.pc = "sleep"
    /\ Event
    /\ due' = TRUE
    /\ UNCHANGED <<database, sets, adapter, poster, channel, loader,
                   batching, handles, steady>>

QueryTracked ==
    /\ adapter.pc = "sleep"
    /\ ~batching /\ due
    /\ adapter' = [adapter EXCEPT !.pc = "query", !.tracked = Listed]
    /\ steady' = [steady EXCEPT !.next = Listed]
    /\ UNCHANGED <<database, sets, due, poster, channel, loader, batching,
                   handles, bounds>>

\* Variant: every closed account, tracked or not.
QueryClosedAll ==
    /\ adapter.pc = "query"
    /\ adapter' = [adapter EXCEPT !.pc = "install", !.closed = closed]
    /\ UNCHANGED <<database, sets, due, poster, channel, loader, batching,
                   handles, steady, bounds>>

\* The transaction reads what is committed when each query runs.
QueryClosed ==
    /\ adapter.pc = "query"
    /\ adapter' = [adapter EXCEPT !.pc = "install", !.closed = closed \ adapter.tracked]
    /\ UNCHANGED <<database, sets, due, poster, channel, loader, batching,
                   handles, steady, bounds>>

\* A broken connection, or any other exception; tried again after ThreadDelay.
QueryFails ==
    /\ adapter.pc \in {"query", "install"}
    /\ Failure
    /\ adapter' = Asleep
    /\ UNCHANGED <<database, sets, due, poster, channel, loader, batching,
                   handles, steady>>

Install ==
    /\ adapter.pc = "install"
    /\ tracked' = adapter.tracked /\ closedReports' = adapter.closed
    /\ adapter' = [Asleep EXCEPT !.pc = "enqueue",
                                 !.missing = adapter.tracked \ handles]
    /\ steady' = [steady EXCEPT !.now = steady.next]
    /\ UNCHANGED <<database, due, poster, channel, loader, batching,
                   handles, bounds>>

\* The batch goes out even when no account is missing, and it is empty.
FinishRefresh ==
    /\ adapter.pc = "enqueue"
    /\ Publish("ozone_adapter", adapter.missing,
               {p \in {"post_processor"} : poster.pc = "enqueue"})
    /\ due' = FALSE
    /\ adapter' = Asleep
    /\ UNCHANGED <<database, sets, poster, loader, batching, handles,
                   steady, bounds>>

Locked == adapter.pc = "enqueue"

\* report_agent, for each report it takes: track_account.
TrackAccount(did) ==
    /\ ~Locked
    /\ Event
    /\ tracked' = tracked \cup {did}
    /\ UNCHANGED <<database, closedReports, due, adapter, poster, channel,
                   loader, batching, handles, steady>>

-----------------------------------------------------------------------------
(***************************************************************************)
(* The post_processor: ensure_loaded of an account that matched, and       *)
(* update_handle for one that announces its handle.                        *)
(***************************************************************************)
EnsureLoaded(did) ==
    /\ poster.pc = "idle"
    /\ Event
    /\ poster' = IF did \in handles THEN NoPost
                 ELSE [pc |-> "enqueue", did |-> did]
    /\ UNCHANGED <<database, sets, due, adapter, channel, loader, batching,
                   handles, steady>>

FinishEnqueue ==
    /\ poster.pc = "enqueue"
    /\ Publish("post_processor", {poster.did},
               {p \in {"ozone_adapter"} : adapter.pc = "enqueue"})
    /\ poster' = NoPost
    /\ UNCHANGED <<database, sets, due, adapter, loader, batching, handles,
                   steady, bounds>>

HandleAnnounced(did) ==
    /\ poster.pc = "idle"
    /\ Event
    /\ handles' = handles \cup {did}
    /\ UNCHANGED <<database, sets, due, adapter, poster, channel, loader,
                   batching, steady>>

\* event_cache: the account goes, and its handle with it.
Evict(did) ==
    /\ did \in handles
    /\ Event
    /\ handles' = handles \ {did}
    /\ UNCHANGED <<database, sets, due, adapter, poster, channel, loader,
                   batching, steady>>

-----------------------------------------------------------------------------
(***************************************************************************)
(* The async_loader thread. It waits for the queue without a time limit.   *)
(***************************************************************************)
Dequeue ==
    /\ loader.pc = "wait" /\ signals > 0
    /\ signals' = signals - 1
    /\ queue' = IF queue = <<>> THEN queue ELSE Tail(queue)
    /\ loader' = [pc |-> "took", rest |-> Dequeued, found |-> {}]
    /\ UNCHANGED <<database, sets, due, adapter, poster, clash, overlapped,
                   batching, handles, steady, bounds>>

\* Variant: one account is a batch like another.
StartLoadAlways ==
    /\ loader.pc = "took"
    /\ batching' = TRUE
    /\ loader' = [loader EXCEPT !.pc = "batch"]
    /\ UNCHANGED <<database, sets, due, adapter, poster, channel, handles,
                   steady, bounds>>

StartLoad ==
    /\ loader.pc = "took"
    /\ IF Cardinality(loader.rest) # 1
         THEN /\ batching' = TRUE
              /\ loader' = [loader EXCEPT !.pc = "batch"]
         ELSE /\ loader' = [loader EXCEPT !.pc = "one"]
              /\ UNCHANGED batching
    /\ UNCHANGED <<database, sets, due, adapter, poster, channel, handles,
                   steady, bounds>>

\* get_profiles: a request for each full batch, in the order of a hash set.
\* Accounts without a profile are left out of the answer.
Batches == {batch \in SUBSET loader.rest : Cardinality(batch) = BatchSize}

AskBatch ==
    /\ loader.pc = "batch"
    /\ \E batch \in Batches :
          loader' = [loader EXCEPT !.rest = @ \ batch, !.found = @ \cup (batch \ Gone)]
    /\ UNCHANGED <<database, sets, due, adapter, poster, channel, batching,
                   handles, steady, bounds>>

\* Five ends of file: do_get returns an empty answer.
AskBatchUnheard ==
    /\ loader.pc = "batch"
    /\ Failure
    /\ \E batch \in Batches : loader' = [loader EXCEPT !.rest = @ \ batch]
    /\ UNCHANGED <<database, sets, due, adapter, poster, channel, batching,
                   handles, steady>>

\* What is left is less than a batch, and is not asked for.
UpdateHandles ==
    /\ loader.pc = "batch" /\ Batches = {}
    /\ handles' = handles \cup loader.found
    /\ loader' = Loaded
    /\ UNCHANGED <<database, sets, due, adapter, poster, channel, batching,
                   steady, bounds>>

AskOne ==
    /\ loader.pc = "one"
    /\ handles' = handles \cup (loader.rest \ Gone)
    /\ loader' = Loaded
    /\ UNCHANGED <<database, sets, due, adapter, poster, channel, batching,
                   steady, bounds>>

\* Variant: the flag is reset inside the try block.
LoadFailsInTry ==
    /\ loader.pc = "one" \/ (loader.pc = "batch" /\ Batches # {})
    /\ Failure
    /\ loader' = Waiting
    /\ UNCHANGED <<database, sets, due, adapter, poster, channel, batching,
                   handles, steady>>

\* Any exception, and five ends of file when one account was asked for: what
\* was found before in the same load is dropped with the rest.
LoadFails ==
    /\ loader.pc = "one" \/ (loader.pc = "batch" /\ Batches # {})
    /\ Failure
    /\ loader' = Loaded
    /\ UNCHANGED <<database, sets, due, adapter, poster, channel, batching,
                   handles, steady>>

FinishLoad ==
    /\ loader.pc = "done"
    /\ batching' = FALSE
    /\ loader' = Waiting
    /\ UNCHANGED <<database, sets, due, adapter, poster, channel, handles,
                   steady, bounds>>

-----------------------------------------------------------------------------
Refresh == QueryTracked \/ QueryClosed \/ Install \/ FinishRefresh

LoaderStep ==
    \/ Dequeue \/ StartLoad \/ AskBatch \/ UpdateHandles
    \/ AskOne \/ FinishLoad

Next ==
    \/ DatabaseChanges
    \/ RefreshDue \/ Refresh \/ QueryFails
    \/ \E did \in Dids :
          TrackAccount(did) \/ EnsureLoaded(did) \/ HandleAnnounced(did) \/ Evict(did)
    \/ FinishEnqueue
    \/ LoaderStep \/ AskBatchUnheard \/ LoadFails

\* Each of the three threads goes on; a request ends.
Spec ==
    /\ Init /\ [][Next]_vars
    /\ WF_vars(Refresh) /\ WF_vars(FinishEnqueue) /\ WF_vars(LoaderStep)

-----------------------------------------------------------------------------
(***************************************************************************)
(* An account that was labelled, or had an open report, when the refresh   *)
(* began whose result is in use, and has had one ever since, is tracked,   *)
(* and is not among those that list_manager skips: whatever was added or   *)
(* changed while the queries ran, and however many of them failed.         *)
(***************************************************************************)
ListedAreTracked ==
    /\ steady.now \subseteq tracked
    /\ steady.now \cap closedReports = {}

(***************************************************************************)
(* A refresh that is due takes place: the loader does not keep the adapter *)
(* from it for ever, whatever becomes of its batches.                      *)
(***************************************************************************)
RefreshHappens == due ~> ~due

(***************************************************************************)
(* The handle of an account that matched is loaded, if it has a profile:   *)
(* only a request that fails, or two enqueues at once, can lose it.        *)
(***************************************************************************)
LoadsArrive ==
    \A did \in Dids \ Gone :
        (poster.pc = "enqueue" /\ poster.did = did)
            ~> (did \in handles \/ failed \/ overlapped)
=============================================================================
