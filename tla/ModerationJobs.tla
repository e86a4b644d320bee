--------------------------- MODULE ModerationJobs ---------------------------
(***************************************************************************)
(* db-crawler: four jobs over the moderation queue.                        *)
(*                                                                         *)
(* The program copies the open reports from the database, asks AppView     *)
(* which of their accounts are active, and then works on these two copies: *)
(*                                                                         *)
(*   scrub_orphaned            closes the reports of accounts that are gone *)
(*   tag_manual_and_auto       tags accounts by the origin of their reports *)
(*   acknowledge_all_in_query  closes reports that a filter matches        *)
(*   label_all_in_query        labels accounts that a filter matches       *)
(*                                                                         *)
(* Meanwhile users report, moderators close, accounts go and come back;    *)
(* requests fail, or end without an answer; the process may end at any     *)
(* point, and is started again later. It has one thread.                   *)
(***************************************************************************)
EXTENDS Naturals, FiniteSets

CONSTANTS
    Accounts,
    BatchSize,       \* GetProfilesMax
    Jobs,            \* the jobs whose setting "execute" is true
    AckFilter,       \* accounts whose reports the filter of the third job matches
    LabelFilter,     \* accounts whose reports the filter of the fourth job matches
    RequirePending,  \* setting require_pending_report of the fourth job
    InitialReports,  \* the reports each account may have at the start
    MaxEvents        \* bound on what others do, on failures and on restarts

JobNames == {"scrub", "tag", "acknowledge", "label"}
Origins == {"auto", "manual"}
SourceTags == {"src:auto", "src:manual", "src:both"}
Items == {"account", "post"}

ASSUME JobsAssumption ==
    /\ IsFiniteSet(Accounts)
    /\ BatchSize \in Nat /\ BatchSize > 1
    /\ Jobs \subseteq JobNames
    /\ AckFilter \subseteq Accounts /\ LabelFilter \subseteq Accounts
    /\ RequirePending \in BOOLEAN
    /\ InitialReports \subseteq [Accounts -> SUBSET Origins]
    /\ MaxEvents \in Nat

VARIABLES
    reports,    \* database: who ever reported the account
    open,       \* database: what of the account is open or escalated
    tags,       \* database: source tags of the account's own review
    labelled,   \* database: accounts with the label of the fourth job
    gone,       \* accounts AppView has no profile of
    job,        \* the process: [pc, todo, subject], the accounts left to do in
                \* this job, and the one between two requests
    pending,    \* _pending_report_tags: what is open,
    noted,      \*    and the tags of the account's own review
    profiles,   \* active_profiles
    reporters,  \* _content_reporters
    filtered,   \* _filtered_subjects
    scrubbed,   \* history: accounts the first job closed
    wasGone,    \* history: accounts that were gone at some time
    count,      \* number of events and failures
    failed      \* history: what failed, "query", "read" or "write"

database == <<reports, open, tags>>
copies == <<pending, noted, profiles, reporters, filtered>>
bounds == <<count, failed>>
vars == <<database, labelled, gone, job, copies, scrubbed, wasGone, bounds>>

Nobody == [a \in Accounts |-> {}]
Idle == [pc |-> "off", todo |-> {}, subject |-> {}]

TypeOK ==
    /\ reports \in [Accounts -> SUBSET Origins]
    /\ open \in [Accounts -> SUBSET Items]
    /\ tags \in [Accounts -> SUBSET SourceTags]
    /\ labelled \subseteq Accounts /\ gone \subseteq Accounts
    /\ job \in [pc : {"off", "load", "profiles"} \cup JobNames,
                todo : SUBSET Accounts, subject : SUBSET Accounts]
    /\ job.subject \subseteq job.todo
    /\ \A a, b \in job.subject : a = b
    /\ pending \in [Accounts -> SUBSET Items]
    /\ noted \in [Accounts -> SUBSET SourceTags]
    /\ \A a \in Accounts : noted[a] # {} => "account" \in pending[a]
    /\ reporters \in [Accounts -> SUBSET Origins]
    /\ profiles \subseteq Accounts /\ filtered \subseteq Accounts
    /\ scrubbed \subseteq Accounts /\ wasGone \subseteq Accounts
    /\ count \in 0 .. MaxEvents
    /\ failed \subseteq {"query", "read", "write"}

NoCopies ==
    /\ pending = Nobody /\ noted = Nobody /\ profiles = {}
    /\ reporters = Nobody /\ filtered = {}

Init ==
    /\ reports \in InitialReports
    /\ open = [a \in Accounts |-> IF reports[a] = {} THEN {} ELSE Items]
    /\ tags = Nobody /\ labelled = {}
    /\ gone \in SUBSET Accounts /\ wasGone = gone
    /\ job = [Idle EXCEPT !.pc = "load"]
    /\ NoCopies
    /\ scrubbed = {} /\ count = 0 /\ failed = {}

\* Each thing that the process does not do by itself is counted.
Event == count < MaxEvents /\ count' = count + 1 /\ UNCHANGED failed
Failure(what) ==
    count < MaxEvents /\ count' = count + 1 /\ failed' = failed \cup {what}

-----------------------------------------------------------------------------
(***************************************************************************)
(* What happens around the process. A report opens what it is about.       *)
(***************************************************************************)
NewReport(a) ==
    /\ Event
    /\ \/ \E origin \in Origins :
             /\ reports' = [reports EXCEPT ![a] = @ \cup {origin}]
             /\ open' = [open EXCEPT ![a] = @ \cup {"account"}]
       \/ /\ open' = [open EXCEPT ![a] = @ \cup {"post"}]
          /\ UNCHANGED reports
    /\ UNCHANGED <<tags, labelled, gone, job, copies, scrubbed, wasGone>>

ModeratorCloses(a) ==
    /\ Event
    /\ \E item \in open[a] : open' = [open EXCEPT ![a] = @ \ {item}]
    /\ UNCHANGED <<reports, tags, labelled, gone, job, copies, scrubbed, wasGone>>

GoesOrReturns(a) ==
    /\ Event
    /\ gone' = IF a \in gone THEN gone \ {a} ELSE gone \cup {a}
    /\ wasGone' = wasGone \cup gone'
    /\ UNCHANGED <<database, labelled, job, copies, scrubbed>>

-----------------------------------------------------------------------------
(***************************************************************************)
(* The process, from its start to its end. What is not needed any more is  *)
(* forgotten with it.                                                      *)
(***************************************************************************)
Start ==
    /\ job.pc = "off"
    /\ Event
    /\ job' = [Idle EXCEPT !.pc = "load"]
    /\ UNCHANGED <<database, labelled, gone, copies, scrubbed, wasGone>>

End ==
    /\ job' = Idle
    /\ pending' = Nobody /\ noted' = Nobody /\ profiles' = {}
    /\ reporters' = Nobody /\ filtered' = {}
    /\ UNCHANGED <<database, labelled, gone, scrubbed, wasGone>>

Crash == job.pc # "off" /\ Event /\ End

\* An exception of get_profiles reaches main, which ends.
ProfilesFail == job.pc = "profiles" /\ job.todo # {} /\ Failure("read") /\ End

Finish ==
    /\ job.pc = "label" /\ job.todo = {}
    /\ End
    /\ UNCHANGED bounds

At(pc) == job.pc = pc /\ job.todo = {}
Begin(pc, todo) == job' = [pc |-> pc, todo |-> todo, subject |-> {}]
Done(a) == job' = [job EXCEPT !.todo = @ \ {a}, !.subject = {}]

Known == {a \in Accounts : pending[a] # {}}

-----------------------------------------------------------------------------
(***************************************************************************)
(* The open reports and the active profiles. A query that fails is logged, *)
(* and leaves the copy empty.                                              *)
(***************************************************************************)
\* Variant: the tags of the account, also where only a post of it is open.
LoadPendingAllTags ==
    /\ job.pc = "load"
    /\ pending' = open /\ noted' = tags
    /\ Begin("profiles", {a \in Accounts : open[a] # {}})
    /\ UNCHANGED <<database, labelled, gone, profiles, reporters, filtered,
                   scrubbed, wasGone, bounds>>

LoadPending ==
    /\ job.pc = "load"
    /\ pending' = open
    /\ noted' = [a \in Accounts |-> IF "account" \in open[a] THEN tags[a] ELSE {}]
    /\ Begin("profiles", {a \in Accounts : open[a] # {}})
    /\ UNCHANGED <<database, labelled, gone, profiles, reporters, filtered,
                   scrubbed, wasGone, bounds>>

LoadPendingFails ==
    /\ job.pc = "load"
    /\ Failure("query")
    /\ Begin("profiles", {})
    /\ UNCHANGED <<database, labelled, gone, copies, scrubbed, wasGone>>

\* get_profiles: a request for each full batch; what is left is not asked for.
Batches == {batch \in SUBSET job.todo : Cardinality(batch) = BatchSize}

AskProfiles ==
    /\ job.pc = "profiles"
    /\ \E batch \in Batches :
          /\ job' = [job EXCEPT !.todo = @ \ batch]
          /\ profiles' = profiles \cup (batch \ gone)
    /\ UNCHANGED <<database, labelled, gone, pending, noted, reporters, filtered,
                   scrubbed, wasGone, bounds>>

\* Five ends of file: do_get returns an empty answer.
AskProfilesUnheard ==
    /\ job.pc = "profiles"
    /\ Failure("read")
    /\ \E batch \in Batches : job' = [job EXCEPT !.todo = @ \ batch]
    /\ UNCHANGED <<database, labelled, gone, copies, scrubbed, wasGone>>

-----------------------------------------------------------------------------
(***************************************************************************)
(* scrub_orphaned: each account without a profile is asked for once more,  *)
(* and it is the exception of that request which has it scrubbed.          *)
(***************************************************************************)
StartScrub ==
    /\ job.pc = "profiles" /\ Batches = {}
    /\ Begin("scrub", IF "scrub" \in Jobs THEN Known \ profiles ELSE {})
    /\ UNCHANGED <<database, labelled, gone, copies, scrubbed, wasGone, bounds>>

Doom(a) == IF "account" \in pending[a]
             THEN job' = [job EXCEPT !.subject = {a}]
             ELSE Done(a)

Scrubbing(a) == job.pc = "scrub" /\ a \in job.todo /\ job.subject = {}

\* Variant: no second look at the account.
DoubleCheckNot(a) ==
    /\ Scrubbing(a)
    /\ Doom(a)
    /\ UNCHANGED <<database, labelled, gone, copies, scrubbed, wasGone, bounds>>

DoubleCheck(a) ==
    /\ Scrubbing(a)
    /\ IF a \in gone THEN Doom(a) ELSE Done(a)
    /\ UNCHANGED <<database, labelled, gone, copies, scrubbed, wasGone, bounds>>

\* Any other exception looks the same; an empty answer is as good as a profile.
DoubleCheckFails(a) ==
    /\ Scrubbing(a)
    /\ Failure("read")
    /\ Doom(a) \/ Done(a)
    /\ UNCHANGED <<database, labelled, gone, copies, scrubbed, wasGone>>

\* acknowledge_subject, with everything that is open of the account. What
\* becomes of the request is only logged.
Scrub(a) ==
    /\ job.pc = "scrub" /\ a \in job.subject
    /\ \/ open' = [open EXCEPT ![a] = {}] /\ UNCHANGED bounds
       \/ UNCHANGED open /\ Failure("write")
    /\ scrubbed' = scrubbed \cup {a}
    /\ Done(a)
    /\ UNCHANGED <<reports, tags, labelled, gone, copies, wasGone>>

-----------------------------------------------------------------------------
(***************************************************************************)
(* tag_manual_and_auto: the reports are read now, the tags were read with  *)
(* the pending reports. Only what differs from the tags read is sent.      *)
(***************************************************************************)
TagOf(origins) ==
    IF origins = Origins THEN {"src:both"}
    ELSE {tag \in {"src:auto", "src:manual"} :
             \/ tag = "src:auto" /\ "auto" \in origins
             \/ tag = "src:manual" /\ "manual" \in origins}

StartTags ==
    /\ At("scrub")
    /\ IF "tag" \in Jobs
         THEN /\ reporters' = reports
              /\ Begin("tag", {a \in profiles : /\ reports[a] # {}
                                                /\ "account" \in pending[a]})
         ELSE Begin("tag", {}) /\ UNCHANGED reporters
    /\ UNCHANGED <<database, labelled, gone, pending, noted, profiles, filtered,
                   scrubbed, wasGone, bounds>>

StartTagsFails ==
    /\ At("scrub") /\ "tag" \in Jobs
    /\ Failure("query")
    /\ Begin("tag", {})
    /\ UNCHANGED <<database, labelled, gone, copies, scrubbed, wasGone>>

\* Variant: the tags that are to go are forgotten where two of them become one.
TagAccountAddsOnly(a) ==
    /\ job.pc = "tag" /\ a \in job.todo
    /\ tags' = [tags EXCEPT ![a] = @ \cup (TagOf(reporters[a]) \ noted[a])]
    /\ Done(a)
    /\ UNCHANGED <<reports, open, labelled, gone, copies, scrubbed, wasGone, bounds>>

TagAccount(a) ==
    /\ job.pc = "tag" /\ a \in job.todo
    /\ LET add == TagOf(reporters[a]) \ noted[a]
           remove == (SourceTags \ TagOf(reporters[a])) \cap noted[a]
       IN  tags' = [tags EXCEPT ![a] = (@ \ remove) \cup add]
    /\ Done(a)
    /\ UNCHANGED <<reports, open, labelled, gone, copies, scrubbed, wasGone, bounds>>

\* tag_report_subject logs every exception, and takes no answer for one.
TagAccountFails(a) ==
    /\ job.pc = "tag" /\ a \in job.todo
    /\ TagOf(reporters[a]) # noted[a]
    /\ Failure("write")
    /\ Done(a)
    /\ UNCHANGED <<database, labelled, gone, copies, scrubbed, wasGone>>

-----------------------------------------------------------------------------
(***************************************************************************)
(* acknowledge_all_in_query and label_all_in_query. filter_subjects adds   *)
(* to what it found before; a query that fails adds nothing.               *)
(***************************************************************************)
Matches(filter) == {a \in filter : reports[a] # {}}

Filter(name, matches, pendingOnly) ==
    IF name \in Jobs
      THEN /\ filtered' = filtered \cup matches
           /\ Begin(name, filtered' \cap profiles
                             \cap (IF pendingOnly THEN Known ELSE Accounts))
      ELSE Begin(name, {}) /\ UNCHANGED filtered

StartAcknowledge ==
    /\ At("tag")
    /\ \/ Filter("acknowledge", Matches(AckFilter), TRUE) /\ UNCHANGED bounds
       \/ Filter("acknowledge", {}, TRUE) /\ "acknowledge" \in Jobs /\ Failure("query")
    /\ UNCHANGED <<database, labelled, gone, pending, noted, profiles, reporters,
                   scrubbed, wasGone>>

\* The account's own review, whatever it is of it that is pending.
CloseAccount(a) ==
    \/ open' = [open EXCEPT ![a] = @ \ {"account"}] /\ UNCHANGED bounds
    \/ UNCHANGED open /\ Failure("write")

Acknowledge(a) ==
    /\ job.pc = "acknowledge" /\ a \in job.todo
    /\ CloseAccount(a)
    /\ Done(a)
    /\ UNCHANGED <<reports, tags, labelled, gone, copies, scrubbed, wasGone>>

StartLabel ==
    /\ At("acknowledge")
    /\ \/ Filter("label", Matches(LabelFilter), RequirePending) /\ UNCHANGED bounds
       \/ Filter("label", {}, RequirePending) /\ "label" \in Jobs /\ Failure("query")
    /\ UNCHANGED <<database, labelled, gone, pending, noted, profiles, reporters,
                   scrubbed, wasGone>>

Labelling(a) == job.pc = "label" /\ a \in job.todo /\ job.subject = {}

LabelAccount(a) ==
    /\ Labelling(a)
    /\ labelled' = labelled \cup {a}
    /\ job' = [job EXCEPT !.subject = {a}]
    /\ UNCHANGED <<database, gone, copies, scrubbed, wasGone, bounds>>

\* An exception is logged, and nothing is acknowledged, even if the label has
\* arrived; five ends of file look like success, even if it has not.
LabelFails(a) ==
    /\ Labelling(a)
    /\ Failure("write")
    /\ \/ labelled' \in {labelled, labelled \cup {a}} /\ Done(a)
       \/ UNCHANGED labelled /\ job' = [job EXCEPT !.subject = {a}]
    /\ UNCHANGED <<database, gone, copies, scrubbed, wasGone>>

CloseLabelled(a) ==
    /\ job.pc = "label" /\ a \in job.subject
    /\ CloseAccount(a)
    /\ Done(a)
    /\ UNCHANGED <<reports, tags, labelled, gone, copies, scrubbed, wasGone>>

-----------------------------------------------------------------------------
Next ==
    \/ \E a \in Accounts :
          \/ NewReport(a) \/ ModeratorCloses(a) \/ GoesOrReturns(a)
          \/ DoubleCheck(a) \/ DoubleCheckFails(a) \/ Scrub(a)
          \/ TagAccount(a) \/ TagAccountFails(a)
          \/ Acknowledge(a)
          \/ LabelAccount(a) \/ LabelFails(a) \/ CloseLabelled(a)
    \/ Start \/ Crash \/ ProfilesFail \/ Finish
    \/ LoadPending \/ LoadPendingFails \/ AskProfiles \/ AskProfilesUnheard
    \/ StartScrub \/ StartTags \/ StartTagsFails
    \/ StartAcknowledge \/ StartLabel

Spec == Init /\ [][Next]_vars

-----------------------------------------------------------------------------
(***************************************************************************)
(* An account carries at most one source tag, and one that its reports     *)
(* justify, whatever failed and however often the process was started. And *)
(* when the second job has run without a failure, each active account      *)
(* whose own review it found pending carries the tag of the reports it     *)
(* read, though it only sends what differs from the tags it read before.   *)
(***************************************************************************)
TagJustified(a, tag) ==
    /\ tag \in {"src:auto", "src:both"} => "auto" \in reports[a]
    /\ tag \in {"src:manual", "src:both"} => "manual" \in reports[a]

TagsTruthful ==
    /\ \A a \in Accounts :
          /\ \A tag \in tags[a] : TagJustified(a, tag)
          /\ \A s, t \in tags[a] : s = t
    /\ job.pc \in {"acknowledge", "label"} /\ failed = {} =>
          \A a \in profiles :
             "account" \in pending[a] /\ reporters[a] # {}
                => tags[a] = TagOf(reporters[a])

(***************************************************************************)
(* The reports of an account are scrubbed only if the account was gone, or *)
(* a read failed, which the second look takes for an account that is gone: *)
(* that the last batch is never asked for, and that an account may have    *)
(* come back since, must not close the reports of one that was there all   *)
(* the time.                                                               *)
(***************************************************************************)
ScrubbedWereGone == scrubbed \subseteq wasGone \/ "read" \in failed

(***************************************************************************)
(* "Label all reports that match a given SQL WHERE filter" (main.cpp): no  *)
(* account is labelled that the filter of the job does not match. It does  *)
(* not hold: filter_subjects still has what the third job found.           *)
(***************************************************************************)
OnlyMatchedLabelled == labelled \subseteq LabelFilter
=============================================================================
