# Verification of the pef-moderation firehose client

This directory holds TLA+ specifications of the programs in this repository,
the TLC configurations that check them on small instances, and proofs that
TLAPS checks. Line numbers refer to the files under `src/`.

## 1. The system

`firehose-client` subscribes to the firehose of a Bluesky relay, matches the
text of every record against a table of rules, and acts on what matches: it
reports or labels accounts and records, and puts accounts on moderation lists.
It is one process of about a dozen threads that share singletons and talk
through queues:

```
 relay ==> datasource --> post_processor --> action_router --> report_agent x n ==> PDS / Ozone
            (websocket)      |   |   |           |    ^              |
                             |   |   |           |    |              v
                             |   |   |           |  matcher     ozone_adapter ==> moderation DB
                             |   |   |           v    ^              |
                             |   |   |      list_manager ==> PDS     |
                             |   |   |           ^    |              |
                             |   |   |        auxiliary_data ==> rules DB
                             |   |   `--> embed_checker x n ==> web
                             |   `------> event_recorder (event_cache, account statistics)
                             `----------> async_loader ==> AppView
```

`-->` is a queue, `==>` a network connection. `db-crawler` is a batch program that
works on the moderation queue with the same client classes, `labeler-update` a
single request.

| Component | State | Operations | Hard because | Correct when |
|---|---|---|---|---|
| datasource, post_processor, rewind point (`datasource.hpp`, `post_processor.hpp`, `auxiliary_data.cpp`) | connection, queue, `_cursor` and `_emitted_at`, two database tables | subscribe, read, reconnect, handle a payload, publish the cursor, flush it every 15 s | crash between any two steps; the cursor read and written without a lock; reconnection replays; a wind back is fatal | no stored position passes an event nobody handled; every event is handled in the end |
| list_manager | map of lists, members, queue; the lists on the server | load, skip, create, archive, add | each request may fail, be applied twice, or be answered with nothing; the maps are volatile, the lists are not | no account twice in a group; lists bounded; nothing taken out; backlog drains |
| matcher, action_router, report_agent (decisions) | rule table, skip lists, two queues | match, look up again, route, decide, refresh the table | the table is replaced while matches are in flight; two queues, three kinds of thread | each sanction goes back to a rule that asked for it, in that scope and for that kind of record; no match is lost |
| report_agent (gates), rate_observer | three sliding-window estimates | permit, sleep, label | a fixed-window estimate with a rounded weight; several threads; permits used late; labels sent again behind the gates; stop while asleep | labels in any window bounded; a stop reaches every thread |
| ozone_adapter, async_loader | tracked and closed accounts; queue of handles to load | refresh from the database, track, load in batches | a set replaced by an older query; a flag and a queue shared without protection | what is under moderation is tracked; refreshes go on; handles are loaded |
| event_recorder, event_cache, account statistics | LFU cache of accounts, counters, alerts | record an event, look up, evict | eviction of what others hold; counters that wrap | what is counted for the author is counted for the target, once |
| embed_checker | links, images, videos and quotes seen; popular hosts | check an embed, follow redirects, match them | several threads; callbacks from the HTTP client; errors | a link is followed once; its redirects are matched |
| client, session_manager | tokens and their expiry | post, get, refresh, reconnect | retry of what was applied; expiry between check and use | no request with an expired token; a report is made once |
| parser, payload | blocks of the message in hand | CAR/CBOR/JSON to candidates; records to events | blocks are stored by cid, two flags of nearly the same name, exceptions half way | each post counts as what it is, once |
| controller, config, logging, metrics, helpers | the `active` flag | stop, abort | every thread polls the flag at its own pace | see each module |
| db-crawler | copies of the open reports, of the profiles and of the reporters | scrub, tag, acknowledge, label | works on copies minutes old, ends at any exception, starts again; answers that are empty or missing | tags tell the origin of the reports; only reports of accounts that are gone are scrubbed |
| labeler-update, neo4j_adapter | none | one request; a connection | – | – |

`PROJECT.json` lists the hazards line by line, with the property that would
catch each, or the reason why none does.

## 2. Modules

### FirehoseCursor, RewindContract

`FirehoseCursor` is the chain relay – datasource – post_processor –
auxiliary_data – database, through crashes and restarts. `head`, `sent` and
`requested` are the stream and the subscription; `queue` and `pp` the
post_processor and where its thread is in `handle` and `update_rewind_point`;
`cursor`, `stamped` and `aux` the shared cursor and the thread that flushes it;
`lastProcessed` and `checkpoints` the two tables. `update_rewind_point` is three
actions (`ExchangeCursor`, `WindBack`, `StampEmittedAt`) and
`check_rewind_point` four (`ReadCursor`, `ReadStamp`, `AddCheckpoint`,
`UpdateCursor`), because the two threads share the cursor without a lock. An
event is its sequence number; its kind says what handling it does (ends
normally, hands work to the moderation queues, is dropped with a JSON error,
throws). Faults are a crash, a stop requested by another thread, a dropped
connection and a database error.

`RewindContract` is what an operator may rely on: a stored point only ever moves
to one below which everything is accounted for. `FirehoseCursor` implements it
with `accounted` mapped to the events handled or knowingly skipped.

### ListManager, ListContract

`ListManager` is the thread of `list_manager` and the lists on the server. `pc`
and `task` say where the thread is in `add_account_to_list_and_group`; `lookup`,
`known` and `filling` are `_list_lookup`, `_list_group_members` and
`_active_list_members_for_group`; `made`, `groupOf`, `archived` and `members`
the lists themselves, which outlive the process. Every request is an action, and
each may be answered, fail, be applied with its answer lost, or be applied twice
because `do_post` and its relatives send it again. The repetition in
`client.hpp` ends with an empty response taken for a success after five ends of
file (`LoadExhausted`, `misled`).

`ListContract` is the promise to subscribers: what a group blocks is the union
of its lists, accounts enter it one at a time and only on request, and none
leaves.

### RuleRouting

`RuleRouting` follows a match from `all_matches_for_path_candidates` through the
queues of `action_router` and `report_agent` to what is done about it, while
`auxiliary_data` replaces the table of rules and the skip lists. A match is a
keyword; `rules` is consulted again by `RouteMatch`, as
`matcher::report_if_needed` does. `inForce` records the versions of a rule that
a match may be judged by: those installed when it matched, or since. `router`
keeps the flag `wide`, the effect of clearing `path` and `cid` for the rest of a
result. An outcome is the account, what was decided, and the entries of the scope
it was decided for: the path, or the account, with the filters that matched and
whether a label was asked for. Blocks are given to `list_manager` before the kind
of record is looked at, and go back to no scope. Which keywords of a table a text
contains, in what order, and the contingent strings, are the constant `Emits`.

### LabelGate

`LabelGate` is `rate_observer` as `report_agent::label_subject` uses it: three
gates in a row, each an estimate over a fixed window and a weighted share of
the previous one, with threads that sleep and try again. The weight is a float;
`Weighted` allows both neighbours when the product is not a whole number, and
the lower one when it is, which covers every rounding. The clock is a counter.
Behind the gates is the client, which sends a label again after an end of file:
`Send` is one turn of the loop of `emit_event`, and `labels` the history, for
each label, of the thread that took it, the opening of each gate it went
through, and the time of each request made for it. `PdsClient` has what the
requests do. What the HTTP library repeats by itself, when a connection fails
before an answer, is within one request.

### AccountActivity

`AccountActivity` is the thread of `event_recorder`, the cache of accounts in
`event_cache` and the statistics of `account_events.cpp`. Its
events come from messages, by `Work` of `Payload`. An event is handled in
as many steps as it takes accounts from the cache: `TakeEvent` takes that of its
author, `Interact` that of each subject, and `FinishRecord` counts the event
itself. Between them other threads look accounts up (`LookUp`: `ensure_loaded`,
`update_handle`, `get_handle`), which enters them into the cache and may evict
another. `accounts` keeps every account ever made, evicted or not, with its
counters, its alerts and the items of its content; `cached` says which of them
the cache has, `used` how often it was looked up, for the eviction of the least
used. The counters that are `unsigned short` in the code wrap at the constant
`UnsignedShort`. An interaction with content looks its item up whatever the key,
the empty one too. `written` and `abandoned` are history: the replies, quotes and
plain posts among the records of the messages taken, by their own fields
(`PostRecords` of `Payload`), and those given up with their message.

### Payload

What a message has the post_processor record: the blocks that the parser keeps,
once for each cid and those with text last; the ops that name them; the
recordings of `handle_content` and `process_embed`, with the member and the
local that are taken for each other; the deletions, of which those of other
collections count for nothing; the accounts it looks up. It is a module of
operators, which `AccountActivity` uses for the work of each message.

### TrackedAccounts

`TrackedAccounts` is `ozone_adapter`, `async_loader` and those who call them.
The refresh is four steps, because others act between them: two queries, of
which each sees the database when it runs (`QueryTracked`, `QueryClosed`), the
replacement of both sets (`Install`), and the enqueue of the accounts without a
handle (`FinishRefresh`), up to which `check_refresh_tracked_accounts` holds the
lock. `report_agent` adds accounts (`TrackAccount`), the post_processor asks for
handles (`EnsureLoaded`, `FinishEnqueue`). The queue of the loader is made for
one producer and has two: `clash` holds a producer whose enqueue another one
overtook, and `Published` says what may become of the two elements; the
semaphore counts both, so that the loader may wake for nothing. The loader asks
for one account, or for full batches, of which the last, partial one is never
sent (`Batches`, `UpdateHandles`), and `batching` keeps the refresh away
meanwhile.

### ModerationJobs

`ModerationJobs` is `db-crawler`: its copies (`pending` and `noted`, `profiles`,
`reporters`, `filtered`) beside what they are copies of, and its four jobs, one
account at a time. Scrubbing and labelling take two requests for an account, and
others act between them. Users report, moderators close, accounts go and come
back; queries, reads and writes fail in the way the code takes each failure:
logged, taken for an empty answer, taken for a missing account, or the end of
the process. The process may also end anywhere and be started again. Nobody else
is supposed to change the source tags: they are this program's own.

### EmbedChecker

`EmbedChecker` is `embed_checker` with its threads. What a post embeds is taken
from `process_embed` and `handle_content`; a thread handles one embed at a time:
a look at the tables (`SeenMedia`, `SeenLink`), the look at the host
(`DecideLink`), the request with its redirections (`RequestRedirected`,
`RequestEnds`), and for each redirection the callback `on_url_redirect` in two
steps, `SeenRedirection` and `DecideRedirection`, because the lock is released
between its two questions. `thread[t].handler` is the `embed_handler` on the
stack that the HTTP client calls back. A request is one call of that client: what
it tries again by itself (`maxRetries`, `maxIORetries`, `embed_checker.cpp:67-68`)
is within it, and a site may see more than one. Web sites are the constant
`Redirections`: a site may redirect to any of its set, answer, or fail.

### PdsClient

`PdsClient` is one `report_agent` thread with its own client and session, from
the decision to write to what the labeler has stored. A report is one write, a
label two. Two loops of retries lie one inside the other: `tries` counts those
of a write (`send_report_for_subject`, `emit_event`), `postTries` those of the
POST that refreshes the session before it (`do_post` under `check_refresh`),
whose last end of file counts as one of the write around it. The server applies
a request and answers, applies it and is not heard, or does not apply it.
`expiry` is the time on the access token; `unheard` and `exhausted` are history.
A token lasts `AccessLife` from the time its answer arrives; the time it takes
to arrive is left out, and would be taken from that.

### Model-checking modules

The modules named `MC...` give values to constants. Two of them also put two
specifications that share no state into one run: `MCPosts` has `AccountActivity`
and `EmbedChecker`, `MCModeration` has `LabelGate` and `ModerationJobs`. No step of
one can matter to the other, so that in each behaviour only one of the two moves
(`moving`), and the states of the run are those of the one and of the other, not
their product. The fairness is that of the one that moves.

Operators named `Variant` in the comments of the specifications are not part of
them: each is a plausible mistake in one definition, and is there to show that a
property would catch it.

## 3. Runs

| Run | Checks | Bounds and why they are enough |
|---|---|---|
| `firehose_cursor` | `TypeOK`; `NothingLostBelowPoint`: all events up to a stored position are accounted for; `RegressionIsFatal`: the stored cursor goes back only in a process that is ending; `EventuallyAccounted`; `ContractSpec` | 5 events, one of each kind and one more, 2 faults, a backlog of one event, stored positions 0 and 1. Two faults give a crash during the recovery from another; a backlog of one already lets the connection end with events sent and not handled |
| `firehose_reconnect` | fails: `KeepsRunning` | one dropped connection |
| `list_manager` | `TypeOK`; `NeverListedTwice`; `ListsBounded`; `BacklogDrains`; `ContractSpec` | 3 accounts, 2 groups, lists of 2, 4 requests, 2 faults, at most 6 lists: a list is filled, archived and followed by another, with a fault in any two places |
| `list_duplicates` | fails: `OneActiveList` | no fault at all |
| `rule_routing` | `TypeOK`; `SanctionsJustified`; `RouterFailsOnlyOnRemovedRule`; `EveryMatchDecided` | 2 messages of up to 2 paths and 3 matches, 2 refreshes, 2 producers, 2 report threads, tables that add, remove and change a rule: two matches in flight with a refresh between any two steps, and back |
| `rule_blocks` | fails: `BlocksInScope` | one message, no refresh |
| `moderation` | of `LabelGate`: `GateTypeOK`; `TwiceTheLimit`; `LabelBursts`; `ThreadsStop`. Of `ModerationJobs`: `TypeOK`; `TagsTruthful`: tags are justified by the reports, and complete after a job without failure; `ScrubbedWereGone` | `LabelGate`: 2 gates of windows 2 and 3 and limit 1, 2 threads, 2 requests for a label (5 in the code), 4 ticks, 5 labels: one more than `LabelBursts` allows in a window of either gate. Each gate closes, both roll their window, a thread holds a permit while time passes, and a label is sent again when later ones have been. `ModerationJobs`: 3 accounts, one of them without reports at the start, batches of 2, all four jobs, 3 events, failures or restarts: between any two requests of a job a report comes in, an account goes and comes back, or the process starts again |
| `posts` | of `AccountActivity`: `TypeOK`; `InteractionsBalance`: what accounts did is what was done to accounts, evicted or not; `AlertsExplained`; `ContentWithinAccount`; `RepliesAndQuotesCounted`: each reply and each quote counts once for its author, and a reply that quotes as both. Of `EmbedChecker`: `CheckerTypeOK`; `FollowedOnce`; `MatchesAttributed`; `OnlyTargetsPassedOver`: a link is lost only where a redirection led to it; `ListsHandled` | `AccountActivity`: 3 accounts, a cache of 2, one item of content for each, 2 of 7 messages that have every kind of event between them, with two records of one cid, a record that no op names, a reply that quotes, content with an empty key and deletions of both sorts; 1 lookup by another thread, counters modulo 4: eviction of the author, of the target and of an item in the middle of an event, and a counter that wraps. `EmbedChecker`: 2 threads, 5 URLs with a circle of redirections and a malformed one, a limit of 2 redirections, 3 posts out of 5, one change of the popular hosts, links followed or not |
| `quotes_as_posts` | fails: `PlainPostsCounted` | one message, no lookups |
| `pds_client` | `TypeOK`; `TokenFresh`; `StoredOnce`; `ClosedIfLabelled`; `JobsEnd` | a report and a label, 2 tries in each loop (5 in the code), a buffer and a time limit of 2, tokens that last 4, 8 ticks: a token expires between any two tries, and both loops come to their last turn |
| `tracked_accounts` | `TypeOK`; `ListedAreTracked`: what has been under moderation since before the last refresh is tracked and not skipped; `RefreshHappens`; `LoadsArrive` | 3 accounts, one without a profile, batches of 2, 3 events or failures: a refresh leaves a partial batch over, and is overtaken by a change of the database, a report and an enqueue |
| `jobs_filters` | fails: `OnlyMatchedLabelled` | no fault, and nobody else acts |

Deadlock is not checked: the bounds end every behaviour, and a stopped process
really stops.

Each property of a passing run comes with a mutant in `PROJECT.json`: a change
of one definition, as a plausible bug would make it, after which TLC finds the
property violated.

### What the failing runs show

* A reconnection uses the cursor of the start of the process
  (`datasource.hpp:73-75`, `141`): the relay replays events already handled, the
  first of them lies below the cursor, and `update_rewind_point` stops the
  process. The container runtime starts another, so that `EventuallyAccounted`
  holds all the same.
* A list made at run time is not entered in `_list_lookup`: until the next
  restart every account of the group makes another list.
* `filter_subjects` adds to what it found before, and nothing empties the set:
  the job that labels also takes what the filter of the job before it matched
  (`ozone_adapter.cpp:257`).
* `report_if_needed` gives the account to `list_manager` (`matcher.cpp:229-232`)
  and then makes "sure the scope is correct for this match" (`:233`): a rule for
  profiles that matches in a post reports nothing, and puts the account on its
  block list. For labels and reports the scope is kept, which
  `SanctionsJustified` says.
* What is meant to be a "plain old post, not a reply or quote" (`payload.cpp:492`)
  is any post that is no reply: `process_embed` sets `_recorded`, which nothing
  reads, and a quote is recorded once more as a post. Replies and quotes
  themselves are counted once each (`RepliesAndQuotesCounted`).

### What the models show of the code without a failing run

These are consequences of the code that the models contain; the properties allow
them explicitly and nothing beyond them.

* The cursor passes an event when its work is in memory queues: a crash loses
  the actions, and the next process does not see the event again
  (`payload.cpp:285`). `NothingLostBelowPoint` counts the payload as handled.
* One match of an account-level rule sends the later matches of the same result
  to the account, whatever their rules say (`matcher.cpp:209-228`):
  `SanctionsJustified` asks, for an entry of the account, that the path is the
  handle or that some rule for another match on that path reports accounts
  (`ForAccount`), and for any entry that its own rule asked for the label it has
  and for that kind of record. A match that is not reported because its account
  is skipped counts as decided in `EveryMatchDecided`.
* The redirect handler asks `should_process_uri` without the negation of the
  other caller (`embed_checker.cpp:386-388`, `286-288`): a chain of redirections
  ends at the first host that ought to be looked at, which has been entered as
  seen by then and is never looked at again. `OnlyTargetsPassedOver` shows that
  no link is lost in another way.
* `get_profiles` never asks for the last, partial batch (`client.cpp:311`).
  `scrub_orphaned` asks for each account again and is not misled, the other
  three jobs pass the accounts over.
* In that second look any exception counts as a missing account
  (`db-crawler/source/main.cpp:142`): a time limit closes the reports of an
  active account, although the code means to "double check account status before
  garbage collecting the reports" (`:136`). `ScrubbedWereGone` shows that a failed
  read is the only way to it, and does not tell this one from other failures.
* `acknowledge_all_in_query` closes the account's own review, even where only a
  post is pending, and with it reports newer than the query.
* `track_account` answers whether the account is new "on this run"; after a
  refresh that began before the account was added, it is new again. Only a
  metric depends on it.
* Of the labels that pass the gates each may be sent up to five times
  (`client.hpp:697`): the limits are on labels, and what the server sees may be
  five times that.
* What an account was credited with goes when it is evicted, and it comes back
  with counters at zero. `InteractionsBalance` is about the accounts made, evicted
  or not.
* A handle asked for while two producers enqueue may be lost; `LoadsArrive`
  excuses every enqueue that another overlaps, and every account whose request
  failed.
* Two ops of one message with the same cid share one block, and the record is
  handled under the path of only one of them.

### Fairness

Weak fairness is assumed of steps that a running thread takes by itself, one by
one and never of the whole next-state relation: the threads of this program loop
until the process ends, the operating system schedules them, and a restart
policy starts the next process (`firehose-client/compose.yaml`). No fairness is
assumed of the relay's producers, of database flushes, of refreshes, of faults
or of new work. A request of `list_manager` is assumed to be answered, or to
fail, since the HTTP client has time limits. In `LabelGate` time passes, each
thread runs on, and a request for a label ends. In `EmbedChecker` each thread
runs on, and its request ends, redirected or not: the client is given time limits
and a limit of redirections (`embed_checker.cpp:65-72`). In `PdsClient` the thread
runs on and each request ends with one answer or another. In `TrackedAccounts`
the adapter, an enqueue that began and the loader go on, and a request ends;
nothing is assumed of failures or of the others. `AccountActivity` and `ModerationJobs`
have safety properties only, and assume none.

## 4. Proofs

The proofs hold for every value of the constants that satisfies the named
assumption of the module (`ConstantsAssumption`, `ListAssumption`,
`RoutingAssumption`, `GateAssumption`, `ClientAssumption`, `EmbedAssumption`,
`TrackingAssumption`, `JobsAssumption`, `ActivityAssumption`): types of the
settings and of the inputs, non-empty windows, limits and batches. They
assume nothing of the bounds. Two assumptions say more: that the time limit of a
request is no larger than the buffer of a token (**Tokens** below), and that the
alert factor of reposts is even, as the code's hundred is (**Activity**). One
theorem has a hypothesis of its own, `LeftShort` (**Lists bounded**).

| Module | Theorem | Establishes |
|---|---|---|
| `FirehoseCursorProofs` | `TypeCorrect`, `NothingLost`, `RegressionsAreFatal`, `ImplementsContract` | `TypeOK`, `NothingLostBelowPoint`, `RegressionIsFatal`, `ContractSpec` |
| `ListManagerProofs` | `ListTypeCorrect`, `NoneListedTwice`, `ListsStayBounded`, `ListsImplementContract` | `TypeOK`, `NeverListedTwice`, `ListsBounded`, `ContractSpec` |
| `RuleRoutingProofs` | `RoutingTypeCorrect`, `SanctionsAreJustified`, `RouterFailsOnRemovedRule` | `TypeOK`, `SanctionsJustified`, `RouterFailsOnlyOnRemovedRule` |
| `AccountActivityProofs` | `ActivityTyped`, `InteractionsAreBalanced`, `AlertsAreExplained`, `ContentStaysWithinAccount`, `RepliesAndQuotesAreCounted` | `TypeOK`, `InteractionsBalance`, `AlertsExplained`, `ContentWithinAccount`, `RepliesAndQuotesCounted` |
| `PdsClientProofs` | `ClientTypeCorrect`, `TokensFresh`, `StoredOnceEach`, `ClosedAfterLabel` | `TypeOK`, `TokenFresh`, `StoredOnce`, `ClosedIfLabelled` |
| `EmbedCheckerProofs` | `EmbedTypeCorrect`, `LinksFollowedOnce`, `MatchesAreAttributed`, `OnlyTargetsArePassedOver` | `TypeOK`, `FollowedOnce`, `MatchesAttributed`, `OnlyTargetsPassedOver` |
| `TrackedAccountsProofs` | `TrackingTypeCorrect`, `ListedAccountsTracked` | `TypeOK`, `ListedAreTracked` |
| `ModerationProofs`, part one: `ModerationJobs` | `JobsTypeCorrect`, `TagsAreTruthful`, `OnlyGoneAreScrubbed` | `TypeOK`, `TagsTruthful`, `ScrubbedWereGone` |
| `ModerationProofs`, part two: `LabelGate` | `GateTypeCorrect`, `GateBound`, `LabelBound` | `GateTypeOK`, `TwiceTheLimit`, `LabelBursts` |

`ModerationProofs` extends two specifications that share no state, and no lemma
of one is used for the other; this is why the state predicates of `LabelGate`
have names of their own (`GateSpec`, `GateTypeOK` and so on).

**No event lost.** `NothingLostBelowPoint` speaks of the tables only. It is
inductive together with the same fact for every copy of a sequence number on its
way there (`CopiesCovered`: the subscription, the cursor, the flush in progress,
the payload in hand), and with the order of the queue: each event below one in
the queue is accounted for or precedes it there (`QueueCovered`), and below what
the connection has sent (`SentCovered`). Both fail once the post_processor
thread has ended, and then the process is stopping and publishes nothing more.

**No wind back but the fatal one.** `RegressionIsFatal` is about the step that
stores a cursor, and the reason lies several steps before it. A process holds no
number that the relay has not emitted (`EmittedOnly`). As long as it is not
stopping and the post_processor is not in the wind back, what is about to be
stored lies between the stored cursor and the one in memory (`CursorsInOrder`).
A process that could not read the stored cursor has none in memory; it starts
with what the relay emits from then on, so that the numbers under way, in the
queue and in hand are beyond the stored one (`StartsAhead`), and the first that
it exchanges for its empty cursor is as well. When the post_processor meets a
smaller number the order is lost, and that step leads to the wind back.

**No account listed twice.** The maps of the thread are known to be complete
only after a load that was not misled. `ListInvariant` says that every list with
members that is not archived is the one a load registers, that the maps then
cover the lists, and that the account being added is in none of them. The
premise `~misled` is needed: an empty answer taken for the lists makes the
thread add accounts again.

**Lists bounded.** What a list in use holds has been counted in `filling`, and so
has the account on its way into it (`CountedInFilling`); when it is about to be
added there is room for it, or one more failed archival to blame
(`RoomForTask`). The theorem has a hypothesis, `LeftShort`: the lists that an
earlier process left are short of the maximum. Nothing in the code ensures it,
because a list that a failed archival left full stays in use, but without it the
bound would be wrong from the first state on, by what the process found.

**Sanctions.** The matches in flight are in the hands of the producers, in the
queue of `action_router` and in its thread, the entries made of them in that
thread, in the queue of `report_agent` and in its threads. `IInv` says the same
of every place: each match there has some rule in force for it
(`JudgedMatches`), each entry is justified (`JustifiedEntries`). It is inductive
with the fact that a rule in the table is in force for the matches of its filter
(`Tables`), which is what lets the router use another version than the one that
matched. A refresh only adds to what is in force, so no place is disturbed by it
(`Grows`). That an entry is for the account itself must come from the same path:
`RouterGood` says that the flag `wide` is up only while the path in hand is the
handle, or has a match of a rule that reports accounts; `Advance` lets it down
with the next result.

**The gates.** Of 2L + 1 openings of a gate with limit L the first and the last
are more than a window apart. The invariant `Remembers` relates the two counters
of the observer to the history: the openings since the start of the current
window are `count` in number, those of the previous one `lastCount`, and of the
older ones nothing needs to be known. A permit is only given while the current
count is below L, whatever the weighted part, which is why rounding does not
matter. The limit itself is *not* kept: L openings late in one window and L more
when it has rolled are permitted as soon as the weight has decayed.

**The labels.** A label is not sent when a gate opens but some time after, and
perhaps several times. `Ledger` relates the two histories: each thread has the
last label that it took in hand (`InHand`), a label that is sent went through an
opening of every gate, and no two through the same one (`Permits`); it is sent
after that opening and, as often as that may be, before the openings of the
labels that the same thread took later (`Timely`), since a thread comes back only
when the client has returned. Of the labels that are sent in a window, those
whose opening of a gate lies in the window too are at most 2L, by `GateBound`
(`FewApart`). The others went through it before the window; of one thread there is
only one such label, because it was sent in the window and thus before the next
opening. `Tried` bounds the requests for a single label.

**Tokens.** A write is sent with a token that was good for more than the buffer
when its request began, and a request lasts no longer than the time limit
(`Timed`). What the proof assumes is that the time limit is no larger than the
buffer and the buffer smaller than the life of a token (`ClientAssumption`): a
token fresh from the server is not looked at again.

**Writes.** Of the write in hand the server has stored what went unheard and
nothing else (`InHand`), because an answer ends the write; of jobs still in the
queue it has nothing (`Untouched`). The acknowledgement starts only when the
label was answered or its loop ran out, which `exhausted` records.

**Links.** A URL belongs to the thread that saw it first, from the look at the
table to the request (`Owned`): no other thread can come to own it, because its
count is above zero from then on, and no thread requests a URL it does not own.
`FollowedOnce` alone is not inductive, as it says nothing of threads that are
about to request. For the matches the invariant says of each thread that its
list is that of a post, that its handler was made for the embed in hand, and
that the chain of the handler is a way of redirections from it (`AtEmbed`,
`AtLink`, `OnWay`); the last but one of the chain has been requested, which is
what is left when a redirection is passed over.

**Tracked accounts.** `Fresh` says of the result that the adapter holds what
`ListedAreTracked` says of the one in use: what has been listed since its first
query is in it, and its second query left out what the first one found. `steady`
only loses accounts in between. Whatever is published by two producers at once,
the queue is never longer than the signals given for it (`PublishKeeps`).

**Jobs.** The program only reads reports, and they are never taken back, so
that its copy of the reporters stays below the database (`Phases`). The tags it
read are those that are there until it comes to the account (`TagsRead`), since
it visits each once and nobody else changes them; so the difference that it
sends leads to the tags it meant (`TagsSet`). An account is doomed only when it
was gone, or after a read failed (`Doomed`).

**Activity.** What `AlertsExplained` and `ContentWithinAccount` say, they say of
one account, and an account is only changed by a few operators: `Sound` holds of
every account, and each operator keeps it. A counter that moves by two is even,
and so is its factor, so that it does not step over a multiple (`EvenReposts`).
The other two properties compare sums over all accounts. For every action there
is the amount by which it moves the sum of each counter (`Counts`), looking up
and evicting move none, and `InteractionsBalance` follows with what the thread
has in hand (`SubjectsCounted`, `OwnPartCounted`); `RecordsInvariant` is both
together, with the types. `KindsInvariant` adds where each reply and each quote
is: still to be recorded, in the queue, in hand, counted or given up with its
message. That the work of a message has as many recordings of a kind as it has
records of that kind, whatever their other fields, is shown of `Work` for every
message that is typed (`MessageTyped`): records have the subjects of their type
and are a sequence.

Sums over a set and the concatenation of a sequence of sequences are defined by
recursion in the community modules, and no induction is at hand. The proofs
unfold such a definition once; what it satisfies for every argument follows
because a minimal counterexample, among the subsets of a finite set
(`MinimalSet`) or the beginnings of a sequence, would have a smaller one.

Only model-checked: liveness (`EventuallyAccounted`, `BacklogDrains`,
`EveryMatchDecided`, `ThreadsStop`, `ListsHandled`, `JobsEnd`, `RefreshHappens`,
`LoadsArrive`), which is out of the prover's reach. Every other property of a
passing run is a theorem.

## 5. What is left out

* Wording, logging, metrics, configuration and the decoding of records. Nothing
  here says that a record is decoded to the right candidates or that a keyword
  is found in a text.
* Data races on containers and flags: `register_block_reason` changes a map of
  strings without a lock while the thread of `list_manager` reads it
  (`list_manager.hpp:175`), and `_batch_in_progress` of `async_loader.hpp:51` is
  a plain flag. Their outcome is undefined, and the models make the accesses
  atomic. The race on the cursor and the time stamp, which the code mentions,
  and that of the two producers of the loader's queue are modelled.
* A stop in `TrackedAccounts`: the loader notices it when the next element
  arrives, and nothing waits for it.
* Reads: `do_get` does not look at the expiry of its token. `refreshSession` is
  sent with the access token (`client.hpp:613-619`); `InvalidToken` of
  `PdsClient` is what that may lead to.
* The decoding of CAR and CBOR. (`read_u64_leb128` never advances its `shift`,
  so that it is right only for numbers below 128; the lengths it reads are not
  used for anything that the models have.)
* Dry runs of `db-crawler`, which log what they would do. Appeals, which are
  another kind of report, are not told apart.
* `labeler-update` sends one configuration change and keeps no state. (It reads
  the endpoint of the PDS into the setting of the labeler.)
* `neo4j_adapter` opens a connection and uses it for nothing.

## 6. Plan

1. `FirehoseCursor` with `RewindContract` – done, proved.
2. `ListManager` with `ListContract` – done, proved.
3. `RuleRouting` – done, proved.
4. `LabelGate` – done, proved.
5. `AccountActivity` with `Payload` – done, proved.
6. `EmbedChecker` – done, proved.
7. `PdsClient` – done, proved.
8. `TrackedAccounts` – done, proved.
9. `ModerationJobs` – done, proved.
10. Composition of the report path: `RuleRouting` with `ListManager` on the block
   lists, and with `LabelGate` and `PdsClient` on the labels. An abstract
   specification of the account statistics, for which `AccountActivity` has
   invariants only.
