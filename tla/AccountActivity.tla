-------------------------- MODULE AccountActivity --------------------------
(***************************************************************************)
(* What the event_recorder counts for each account, from the messages of   *)
(* the firehose on.                                                        *)
(*                                                                         *)
(*   firehose --> post_processor --> _queue --> event_recorder thread      *)
(*                    |                           |                        *)
(*                    v                           v                        *)
(*   async_loader, ozone_adapter --> event_cache --> account statistics    *)
(*                                                        |                *)
(*                                              content_hit_count          *)
(*                                                                         *)
(* An event of one account also counts for others: the author of what it   *)
(* likes, the accounts it replies to. Accounts live in a cache of limited  *)
(* size, looked up by several threads under a lock; an account that is     *)
(* evicted while the recorder holds it lives on until it lets go, and what *)
(* is counted then is lost with it. Each account keeps a smaller cache of  *)
(* its content. Both evict what was looked up least often.                 *)
(*                                                                         *)
(* An account is a number in order of creation. Evicted ones are kept, to  *)
(* state what was counted.                                                 *)
(***************************************************************************)
EXTENDS Payload, Integers, Sequences, FiniteSetsExt

CONSTANTS
    Dids, Rkeys,
    ServiceDid,         \* the labeler
    Factor,             \* how often each counter raises an alert
    ContentFactor,      \* the same of the counters of content
    FacetThreshold,     \* TagFacetThreshold and the like
    UnsignedShort,      \* the range of unsigned short
    MaxAccounts, MaxContentItems,
    Messages,           \* what the firehose may bring, see Payload
    MaxMessages,        \* bound on their number
    MaxLookups          \* bound on the lookups of other threads

\* Counters that raise an alert at Factor, twice that, four times that...
Facets == {"tags", "links", "mentions", "facets"}
Doubling == Facets \cup
    {"posts", "replies", "replied_to", "quotes", "quoted", "reposts", "reposted",
     "likes", "liked", "follows", "followed_by", "blocks", "blocked_by", "events"}

\* Counters that raise one each time they pass a multiple of it. The
\* counters of deletions are only used as a sum.
Shorts == {"updates", "activations", "handles", "profiles", "matches"}
Counters == Doubling \cup Shorts \cup {"deletes"}

ContentCounters == {"replies", "quotes", "reposts", "likes"}

(***************************************************************************)
(* The interactions: what they count for the account that acts, for the    *)
(* one acted on, and for the content, if any.                              *)
(***************************************************************************)
Interactions == {"reply", "quote", "repost", "like", "follow", "block"}
Updates == {"active", "inactive", "handle", "profile"}

Done == [reply |-> "replies", quote |-> "quotes", repost |-> "reposts",
         like |-> "likes", follow |-> "follows", block |-> "blocks"]

Received ==
    [reply |-> "replied_to", quote |-> "quoted", repost |-> "reposted",
     like |-> "liked", follow |-> "followed_by", block |-> "blocked_by"]

\* An at_uri, or the account itself. A reply has a parent and a root.
Subjects(rkeys) == [did : Dids, rkey : rkeys]
Targets(kind) == IF kind = "reply" THEN 2 ELSE 1

\* Interactions with content; the others are with the account as a whole.
ContentKinds == {"reply", "quote", "repost", "like"}

SubjectsOf(kind) ==
    [1 .. Targets(kind) -> Subjects(IF kind \in ContentKinds THEN Rkeys ELSE {""})]

Interaction(kind) == [kind : {kind}, did : Dids, subjects : SubjectsOf(kind)]

PlainEvents ==
    [kind : Updates \cup {"post", "deleted", "deleted_other"}, did : Dids,
     subjects : {<<>>}]
MatchEvents ==
    [kind : {"matches"}, did : Dids, subjects : {<<>>}, count : 0 .. (UnsignedShort - 1)]
FacetEvents ==
    [kind : {"facets"}, did : Dids, subjects : {<<>>}, count : [Facets -> Nat]]

EventType ==
    (UNION {Interaction(kind) : kind \in Interactions})
    \cup PlainEvents \cup MatchEvents \cup FacetEvents

Lookups == [kind : {"lookup"}, did : Dids, subjects : {<<>>}]

\* The records and messages that make such events: a record has the subjects
\* of its type, and the records of a message are a sequence.
RecordTyped(record) ==
    /\ record.type = "post" =>
          /\ record.reply \in SubjectsOf("reply") \cup {<<>>}
          /\ record.embed \in QuoteEmbeds => record.quoted \in SubjectsOf("quote")
          /\ record.facets # <<>> => record.facets[1] \in [Facets -> Nat]
    /\ record.type \in {"block", "follow", "like", "repost"} =>
          record.subjects \in SubjectsOf(record.type)
    /\ Matchable(record) => record.hits \in Nat

MessageTyped(message) ==
    /\ message.did \in Dids
    /\ message.op = "commit" =>
          LET records == Handled(message) IN
          /\ records \in Seq(Range(records))
          /\ message.ops \in Seq(Range(message.ops))
          /\ \A i \in DOMAIN records : RecordTyped(records[i])
    /\ message.op = "identity" => message.hits \in Nat

\* A repost counts twice for its target: the factor of that counter is even
\* (it is a hundred in the code).
ASSUME ActivityAssumption ==
    /\ ServiceDid \in Dids
    /\ Factor \in [Counters -> Nat \ {0}]
    /\ Factor["reposted"] % 2 = 0
    /\ ContentFactor \in [ContentCounters -> Nat \ {0}]
    /\ FacetThreshold \in [Facets -> Nat]
    /\ UnsignedShort \in Nat \ {0}
    /\ MaxAccounts \in Nat \ {0} /\ MaxContentItems \in Nat \ {0}
    /\ MaxMessages \in Nat /\ MaxLookups \in Nat
    /\ \A message \in Messages : MessageTyped(message)

VARIABLES
    active,         \* controller._active
    handling,       \* post_processor: what is left to do for the message
    queue,          \* event_recorder._queue
    recorder,       \* its thread: [pc, event, source, at]
    accounts,       \* every account made, see NewAccount
    cached,         \* _account_events: for each did its account, or 0
    used,           \* the number of lookups that its policy counts
    reports,        \* handed to report_agent
    taken,          \* number of messages
    written,        \* history: the replies, quotes and plain posts among
                    \* their records
    abandoned,      \* history: the events of such kinds that were given up
    looked          \* number of lookups by other threads

cache == <<accounts, cached, used>>
histories == <<written, abandoned>>
vars == <<active, handling, queue, recorder, cache, reports, taken, looked,
          histories>>

Quiet == [pc |-> "wait", event |-> <<>>, source |-> 0, at |-> 0]

ContentType ==
    [n : [ContentCounters -> Nat], alerts : Nat, used : Nat]

ContentTyped(content) ==
    /\ DOMAIN content \subseteq Rkeys /\ IsFiniteSet(DOMAIN content)
    /\ Cardinality(DOMAIN content) <= MaxContentItems
    /\ content \in [DOMAIN content -> ContentType]

AccountTyped(a) ==
    /\ a \in [did : Dids, n : [Counters -> Nat], alerts : Nat, otherAlerts : Nat,
              content : {a.content}]
    /\ ContentTyped(a.content)

AccountsTyped ==
    /\ accounts \in Seq(Range(accounts))
    /\ \A i \in DOMAIN accounts : AccountTyped(accounts[i])

CacheTyped ==
    LET held == {did \in Dids : cached[did] # 0} IN
    /\ cached \in [Dids -> 0 .. Len(accounts)]
    /\ \A did \in held : accounts[cached[did]].did = did
    /\ IsFiniteSet(held) /\ Cardinality(held) <= MaxAccounts
    /\ used \in [Dids -> Nat]

RecorderTyped ==
    /\ recorder \in [pc : {"wait", "interact", "finish", "ended"},
                     event : EventType \cup {<<>>}, source : Nat, at : Nat]
    /\ recorder.pc \in {"interact", "finish"} =>
          /\ recorder.event \in EventType
          /\ recorder.source \in DOMAIN accounts
          /\ accounts[recorder.source].did = recorder.event.did
    /\ recorder.pc = "interact" => recorder.at \in DOMAIN recorder.event.subjects

QueuesTyped ==
    /\ active \in BOOLEAN
    /\ handling \in Seq(EventType \cup Lookups) /\ queue \in Seq(EventType)
    /\ taken \in 0 .. MaxMessages /\ looked \in 0 .. MaxLookups

TypeOK ==
    /\ QueuesTyped /\ AccountsTyped /\ CacheTyped /\ RecorderTyped
    /\ written \in [PostKinds -> Nat] /\ abandoned \in [PostKinds -> Nat]

Init ==
    /\ active = TRUE
    /\ handling = <<>> /\ queue = <<>> /\ recorder = Quiet
    /\ accounts = <<>>
    /\ cached = [did \in Dids |-> 0] /\ used = [did \in Dids |-> 0]
    /\ reports = {}
    /\ taken = 0 /\ looked = 0
    /\ written = [kind \in PostKinds |-> 0]
    /\ abandoned = [kind \in PostKinds |-> 0]

-----------------------------------------------------------------------------
(***************************************************************************)
(* Alerts. "otherAlerts" is a history of the ones that are not raised by a *)
(* doubling counter of the account.                                        *)
(***************************************************************************)
PowerOfTwo(n) == \E k \in 0 .. n : n = 2 ^ k

\* alert_needed
AlertNeeded(count, factor) ==
    /\ count % factor = 0
    /\ count \div factor = 0 \/ PowerOfTwo(count \div factor)

\* Variant: an alert only for the first multiple.
CountedOnce(a, counter, by) ==
    [a EXCEPT !.n[counter] = @ + by,
              !.alerts = IF a.n[counter] + by = Factor[counter] THEN @ + 1 ELSE @]

Counted(a, counter, by) ==
    [a EXCEPT !.n[counter] = @ + by,
              !.alerts = IF AlertNeeded(a.n[counter] + by, Factor[counter])
                           THEN @ + 1 ELSE @]

OtherAlert(a) == [a EXCEPT !.alerts = @ + 1, !.otherAlerts = @ + 1]

\* updated, activation, handle, profile, add_matches
CountedShort(a, counter, by) ==
    LET old == a.n[counter]
        new == (old + by) % UnsignedShort
        next == [a EXCEPT !.n[counter] = new] IN
    IF \/ counter = "matches" /\ old = 0
       \/ old \div Factor[counter] # new \div Factor[counter]
      THEN OtherAlert(next) ELSE next

\* deleted
Deletion(a) ==
    LET new == a.n["deletes"] + 1
        next == [a EXCEPT !.n["deletes"] = new] IN
    IF (new - 1) \div Factor["deletes"] # new \div Factor["deletes"]
      THEN OtherAlert(next) ELSE next

\* tags, links, mentions, facets
Excess(e) == {f \in Facets : e.count[f] > FacetThreshold[f]}

CountedFacet(a, e, f) == IF f \in Excess(e) THEN Counted(a, f, 1) ELSE a

-----------------------------------------------------------------------------
NewContent == [n |-> [c \in ContentCounters |-> 0], alerts |-> 0, used |-> 1]

\* Variant: an account that comes back finds its content again.
NewAccountRestored(did) ==
    LET before == {i \in DOMAIN accounts : accounts[i].did = did} IN
    [did |-> did, n |-> [c \in Counters |-> 0], alerts |-> 0, otherAlerts |-> 0,
     content |-> IF before = {} THEN [k \in {} |-> NewContent]
                 ELSE accounts[CHOOSE i \in before : \A j \in before : j <= i].content]

NewAccount(did) ==
    [did |-> did, n |-> [c \in Counters |-> 0], alerts |-> 0, otherAlerts |-> 0,
     content |-> [k \in {} |-> NewContent]]

\* event_cache::get_account, with the eviction that Put may bring: a set of
\* outcomes, since any of several accounts looked up least may go.
LeastUsed(candidates, uses(_)) ==
    {c \in candidates : \A other \in candidates : uses(c) <= uses(other)}

Evicted ==
    LET held == {did \in Dids : cached[did] # 0} IN
    IF Cardinality(held) < MaxAccounts THEN {{}}
    ELSE {{did} : did \in LeastUsed(held, LAMBDA did : used[did])}

GetAccount(did) ==
    IF cached[did] = 0
      THEN {[accounts |-> Append(accounts, NewAccount(did)),
             cached |-> [other \in Dids |->
                IF other = did THEN Len(accounts) + 1
                ELSE IF other \in gone THEN 0 ELSE cached[other]],
             used |-> [used EXCEPT ![did] = 2],
             id |-> Len(accounts) + 1] : gone \in Evicted}
      ELSE {[accounts |-> accounts, cached |-> cached,
             used |-> [used EXCEPT ![did] = @ + 1], id |-> cached[did]]}

\* account::get_content_item: what the account may hold afterwards.
\* Variant: the cache never evicts.
WithContentUnbounded(content, rkey) ==
    {[k \in DOMAIN content \cup {rkey} |->
        IF k # rkey THEN content[k]
        ELSE [(IF k \in DOMAIN content THEN content[k] ELSE NewContent)
                 EXCEPT !.used = @ + 1]]}

WithContent(content, rkey) ==
    LET held == DOMAIN content
        gone == IF rkey \in held \/ Cardinality(held) < MaxContentItems THEN {{}}
                ELSE {{k} : k \in LeastUsed(held, LAMBDA k : content[k].used)} IN
    {[k \in (held \ out) \cup {rkey} |->
        IF k # rkey THEN content[k]
        ELSE [(IF k \in held THEN content[k] ELSE NewContent) EXCEPT !.used = @ + 1]]
     : out \in gone}

ContentAlert(content, counter) ==
    AlertNeeded(content.n[counter] + 1, ContentFactor[counter])

ContentCounted(content, counter) ==
    [content EXCEPT !.n[counter] = @ + 1,
                    !.alerts = IF ContentAlert(content, counter) THEN @ + 1 ELSE @]

-----------------------------------------------------------------------------
(***************************************************************************)
(* The post_processor. It takes a message, and does one thing after the    *)
(* other for it. An exception of the JSON library, for a field that is not *)
(* as expected, ends the message there.                                    *)
(***************************************************************************)
CountIn(kind, recordings) ==
    Cardinality({i \in DOMAIN recordings : recordings[i].kind = kind})

Handle(message) ==
    /\ handling = <<>> /\ taken < MaxMessages
    /\ taken' = taken + 1
    /\ handling' = Work(message, UnsignedShort)
    /\ written' = [kind \in PostKinds |-> written[kind] + PostRecords(kind, message)]
    /\ UNCHANGED <<active, queue, recorder, cache, reports, looked, abandoned>>

RequestRecording ==
    /\ handling # <<>> /\ Head(handling).kind # "lookup"
    /\ queue' = Append(queue, Head(handling))
    /\ handling' = Tail(handling)
    /\ UNCHANGED <<active, recorder, cache, reports, taken, looked, histories>>

\* ensure_loaded, and update_handle
LoadAccount ==
    /\ handling # <<>> /\ Head(handling).kind = "lookup"
    /\ \E found \in GetAccount(Head(handling).did) :
          accounts' = found.accounts /\ cached' = found.cached /\ used' = found.used
    /\ handling' = Tail(handling)
    /\ UNCHANGED <<active, queue, recorder, reports, taken, looked, histories>>

Malformed ==
    /\ handling # <<>>
    /\ handling' = <<>>
    /\ abandoned' = [kind \in PostKinds |-> abandoned[kind] + CountIn(kind, handling)]
    /\ UNCHANGED <<active, queue, recorder, cache, reports, taken, looked, written>>

\* Any other thread: add_if_needed on behalf of get_handle and update_handle.
LookUp(did) ==
    /\ looked < MaxLookups
    /\ looked' = looked + 1
    /\ \E found \in GetAccount(did) :
          accounts' = found.accounts /\ cached' = found.cached /\ used' = found.used
    /\ UNCHANGED <<active, handling, queue, recorder, reports, taken, histories>>

\* Whether the account counts its own part before it looks up the other.
OwnPartFirst == {"follow", "block"}

\* The recorder waits without a time limit, and may take one event after a
\* stop.
TakeEvent ==
    /\ recorder.pc = "wait" /\ queue # <<>>
    /\ LET e == Head(queue) IN
       \E found \in GetAccount(e.did) :
          /\ accounts' = [found.accounts EXCEPT ![found.id] =
                IF e.kind \in OwnPartFirst THEN Counted(@, Done[e.kind], 1) ELSE @]
          /\ cached' = found.cached /\ used' = found.used
          /\ recorder' = [pc |-> IF e.subjects = <<>> THEN "finish" ELSE "interact",
                          event |-> e, source |-> found.id, at |-> 1]
    /\ queue' = Tail(queue)
    /\ UNCHANGED <<active, handling, reports, taken, looked, histories>>

\* reposted() increments its counter and then passes it incremented again.
ReceivedBy(kind) == IF kind = "repost" THEN 2 ELSE 1

\* Who is blamed when content raises an alert.
Blamed(kind, target, source) == IF kind = "reply" THEN target ELSE source

\* reply_to, and the visitors of the other interactions.
Interact ==
    /\ recorder.pc = "interact"
    /\ LET e == recorder.event
           subject == e.subjects[recorder.at]
           counter == Done[e.kind] IN
       \E found \in GetAccount(subject.did) :
          LET counted == [found.accounts EXCEPT
                  ![found.id] = Counted(@, Received[e.kind], ReceivedBy(e.kind))]
              target == counted[found.id]
              blamed == Blamed(e.kind, found.id, recorder.source) IN
          /\ IF e.kind \notin ContentKinds THEN accounts' = counted
             ELSE \E content \in WithContent(target.content, subject.rkey) :
                LET item == content[subject.rkey]
                    kept == [counted EXCEPT ![found.id].content =
                        [content EXCEPT ![subject.rkey] =
                            ContentCounted(item, counter)]] IN
                accounts' = IF ContentAlert(item, counter)
                              THEN [kept EXCEPT ![blamed] = OtherAlert(@)]
                              ELSE kept
          /\ cached' = found.cached /\ used' = found.used
          /\ reports' = IF e.kind = "block" /\ subject.did = ServiceDid
                          THEN reports \cup {[did |-> e.did, kind |-> "blocks"]}
                          ELSE reports
          /\ recorder' = IF recorder.at = Len(e.subjects)
                           THEN [recorder EXCEPT !.pc = "finish"]
                           ELSE [recorder EXCEPT !.at = @ + 1]
    /\ UNCHANGED <<active, handling, queue, taken, looked, histories>>

\* The part of the account itself.
OwnPart(a, e) ==
    CASE e.kind \in Interactions ->
            IF e.kind \in OwnPartFirst THEN a ELSE Counted(a, Done[e.kind], 1)
      [] e.kind = "post" -> Counted(a, "posts", 1)
      [] e.kind \in {"active", "inactive"} ->
            CountedShort(CountedShort(a, "activations", 1), "updates", 1)
      [] e.kind = "handle" ->
            CountedShort(CountedShort(a, "handles", 1), "updates", 1)
      [] e.kind = "profile" ->
            CountedShort(CountedShort(a, "profiles", 1), "updates", 1)
      [] e.kind = "deleted" -> Deletion(a)
      [] e.kind = "deleted_other" -> a
      [] e.kind = "matches" -> CountedShort(a, "matches", e.count)
      [] e.kind = "facets" ->
            CountedFacet(CountedFacet(CountedFacet(CountedFacet(a,
                e, "tags"), e, "links"), e, "mentions"), e, "facets")

\* Variant: a part is only counted for an account that is in the cache.
FinishRecordIfCached ==
    /\ recorder.pc = "finish"
    /\ LET e == recorder.event IN
       accounts' = [accounts EXCEPT ![recorder.source] =
          IF cached[e.did] = recorder.source
            THEN Counted(OwnPart(@, e), "events", 1) ELSE @]
    /\ recorder' = [Quiet EXCEPT !.pc = IF active THEN "wait" ELSE "ended"]
    /\ UNCHANGED <<active, handling, queue, cached, used, reports, taken, looked,
                   histories>>

FinishRecord ==
    /\ recorder.pc = "finish"
    /\ LET e == recorder.event IN
       /\ accounts' = [accounts EXCEPT ![recorder.source] =
             Counted(OwnPart(@, e), "events", 1)]
       /\ reports' = IF e.kind # "facets" THEN reports
             ELSE reports \cup {[did |-> e.did, kind |-> f] : f \in Excess(e)}
    /\ recorder' = [Quiet EXCEPT !.pc = IF active THEN "wait" ELSE "ended"]
    /\ UNCHANGED <<active, handling, queue, cached, used, taken, looked, histories>>

ForceStop ==
    /\ active
    /\ active' = FALSE
    /\ UNCHANGED <<handling, queue, recorder, cache, reports, taken, looked,
                   histories>>

Next ==
    \/ \E message \in Messages : Handle(message)
    \/ RequestRecording \/ LoadAccount \/ Malformed
    \/ \E did \in Dids : LookUp(did)
    \/ TakeEvent \/ Interact \/ FinishRecord
    \/ ForceStop

Spec == Init /\ [][Next]_vars

-----------------------------------------------------------------------------
Total(counter) == SumFunction([i \in DOMAIN accounts |-> accounts[i].n[counter]])

\* The event in hand has been counted for some of its subjects, and may
\* have been counted for the account itself already.
InHand(kind) == recorder.pc \in {"interact", "finish"} /\ recorder.event.kind = kind

SubjectsCounted(kind) ==
    IF ~InHand(kind) THEN 0
    ELSE IF recorder.pc = "interact" THEN recorder.at - 1 ELSE Targets(kind)

OwnPartCounted(kind) == IF InHand(kind) /\ kind \in OwnPartFirst THEN 1 ELSE 0

(***************************************************************************)
(* Each interaction is counted on both sides, once, whatever is evicted or *)
(* looked up while it is being recorded: what accounts did is what was     *)
(* done to accounts, but for the event in hand. A reply counts for its     *)
(* parent and for its root, and a repost counts twice.                     *)
(***************************************************************************)
Balanced(kind) ==
    Total(Received[kind]) = ReceivedBy(kind) *
        (Targets(kind) * (Total(Done[kind]) - OwnPartCounted(kind))
           + SubjectsCounted(kind))

InteractionsBalance == \A kind \in Interactions : Balanced(kind)

(***************************************************************************)
(* An account is flagged each time a doubling counter reaches its factor,  *)
(* twice that, four times that, and never else, though one event may move  *)
(* several counters and one counter moves by two.                          *)
(***************************************************************************)
Passed(count, factor) ==
    Cardinality({power \in 1 .. count : PowerOfTwo(power) /\ factor * power <= count})

Explained(a) ==
    a.alerts = a.otherAlerts
                 + SumFunction([c \in Doubling |-> Passed(a.n[c], Factor[c])])

AlertsExplained == \A i \in DOMAIN accounts : Explained(accounts[i])

(***************************************************************************)
(* Content is never credited with more than its account, as often as it is *)
(* evicted and comes back.                                                 *)
(***************************************************************************)
ContentTotal(content, counter) ==
    SumFunction([k \in DOMAIN content |-> content[k].n[counter]])

WithinAccount(a) ==
    \A kind \in ContentKinds :
        ReceivedBy(kind) * ContentTotal(a.content, Done[kind]) <= a.n[Received[kind]]

ContentWithinAccount == \A i \in DOMAIN accounts : WithinAccount(accounts[i])

(***************************************************************************)
(* Each post counts for its author as what it is, once: as a reply, as a   *)
(* quote, or as both, however many records and events there are in its     *)
(* message, and although a message may be abandoned half way.              *)
(***************************************************************************)
Recorded(kind) ==
    written[kind] = Total(Done[kind]) + CountIn(kind, handling)
                      + CountIn(kind, queue) + (IF InHand(kind) THEN 1 ELSE 0)
                      + abandoned[kind]

RepliesAndQuotesCounted == Recorded("reply") /\ Recorded("quote")

(***************************************************************************)
(* The comment of handle_content: "plain old post, not a reply or quote".  *)
(* It is not so: a quote that is no reply is recorded as a post as well.   *)
(***************************************************************************)
PlainPostsCounted == Total("posts") <= written["post"]

=============================================================================
