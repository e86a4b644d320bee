----------------------------- MODULE ListManager -----------------------------
(***************************************************************************)
(* The groups of moderation lists kept by the list_manager thread.         *)
(*                                                                         *)
(*   action_router --\                                                     *)
(*                    >-- _queue --> list_manager thread --> PDS           *)
(*   auxiliary_data -/                                                     *)
(*                                                                         *)
(* A group has one active list, named like the group, and archived ones,   *)
(* named group-time. Lists outlive the process; what it knows of them does *)
(* not, and is loaded again when it starts. Each request to the server is  *)
(* a step of its own: the server may fail it, apply it and lose the        *)
(* answer, or apply it twice because the client sent it again.             *)
(*                                                                         *)
(* A list is an id in order of creation, 0 the empty at_uri.               *)
(***************************************************************************)
EXTENDS Naturals, Sequences, FiniteSets

CONSTANTS
    Dids, Groups,
    BlacklistName,      \* the group of blacklisted accounts
    BlacklistVersions,  \* the sets the table of blacklisted accounts may hold
    MaxItemsInList,
    DryRun,             \* the dry_run setting
    FirstOf(_),         \* the first of some lists in an answer to getLists
    InitialMembers,     \* what the one list there is may hold in the beginning
    FaultKinds,         \* the faults that may happen
    MaxFaults,          \* bound on their number
    MaxRequests,        \* bound on what is enqueued
    MaxLists            \* bound on the lists there can be

ListIds == 1 .. MaxLists
Faults == {"crash", "stop", "error", "resent", "exhausted"}

ASSUME ListAssumption ==
    /\ IsFiniteSet(Dids) /\ Dids # {}
    /\ BlacklistName \in Groups
    /\ BlacklistVersions \subseteq SUBSET Dids
    /\ MaxItemsInList \in Nat \ {0}
    /\ DryRun \in BOOLEAN
    /\ InitialMembers \subseteq SUBSET Dids
    /\ FaultKinds \subseteq Faults
    /\ MaxFaults \in Nat /\ MaxRequests \in Nat
    /\ MaxLists \in Nat \ {0}
    /\ \A ids \in (SUBSET ListIds) \ {{}} : FirstOf(ids) \in ids

VARIABLES
    made,           \* server: number of lists created so far
    groupOf,        \* server: the group in the name of each list
    archived,       \* server: the lists whose name has a time in it
    members,        \* server: the accounts in each list
    up, active,     \* a process runs; controller._active
    pc,             \* where the list_manager thread is
    task,           \* the addition being processed, and the list for it
    queue,          \* _queue, pairs <<did, group>>
    lookup,         \* _list_lookup, for the names of active lists
    known,          \* _list_group_members
    filling,        \* _active_list_members_for_group
    blacklist,      \* _blacklist
    requested,      \* history: every pair ever enqueued
    asked,          \* number of pairs enqueued
    stuck,          \* history: archivals that failed
    misled,         \* history: an empty answer was taken for a real one
    faults          \* number of faults so far

server  == <<made, groupOf, archived, members>>
local   == <<lookup, known, filling>>
process == <<up, active, pc, task, queue, local, blacklist>>
demand  == <<queue, blacklist, requested, asked>>
history == <<stuck, misled>>
vars == <<server, process, requested, asked, history, faults>>

NoTask ==
    [did |-> CHOOSE d \in Dids : TRUE, group |-> BlacklistName, uri |-> 0]

FlagsOK == up \in BOOLEAN /\ active \in BOOLEAN /\ misled \in BOOLEAN

ServerOK ==
    /\ made \in 0 .. MaxLists
    /\ groupOf \in [ListIds -> Groups]
    /\ archived \subseteq 1 .. made
    /\ members \in [ListIds -> SUBSET Dids]
    /\ \A i \in ListIds : i > made => members[i] = {}

ThreadOK ==
    /\ pc \in {"load", "wait", "create", "createNext", "getRecord",
               "putRecord", "addItem", "ended"}
    /\ task \in [did : Dids, group : Groups, uri : 0 .. made]
    /\ lookup \in [Groups -> 0 .. made]
    /\ known \in [Groups -> SUBSET Dids]
    /\ filling \in [Groups -> SUBSET Dids]

DemandOK ==
    /\ queue \in Seq(requested)
    /\ blacklist \subseteq Dids
    /\ requested \subseteq Dids \X Groups
    /\ asked \in Nat /\ stuck \in Nat
    /\ faults \in 0 .. MaxFaults

TypeOK == FlagsOK /\ ServerOK /\ ThreadOK /\ DemandOK

Nothing == [g \in Groups |-> {}]

-----------------------------------------------------------------------------
\* One list, and no process; its members were asked for by earlier ones.
Init ==
    /\ made = 1
    /\ groupOf \in {[i \in ListIds |-> g] : g \in Groups}
    /\ archived = {}
    /\ \E m \in InitialMembers :
          members = [i \in ListIds |-> IF i = 1 THEN m ELSE {}]
    /\ up = FALSE /\ active = FALSE
    /\ pc = "load" /\ task = NoTask /\ queue = <<>>
    /\ lookup = [g \in Groups |-> 0]
    /\ known = Nothing /\ filling = Nothing /\ blacklist = {}
    /\ requested = {} /\ asked = 0
    /\ stuck = 0 /\ misled = FALSE /\ faults = 0

Fault(kind) ==
    /\ kind \in FaultKinds
    /\ faults < MaxFaults
    /\ faults' = faults + 1

Start ==
    /\ ~up
    /\ up' = TRUE /\ active' = TRUE
    /\ UNCHANGED <<server, pc, task, queue, local, blacklist, requested, asked,
                   history, faults>>

EndProcess ==
    /\ up' = FALSE /\ active' = FALSE
    /\ pc' = "load" /\ task' = NoTask /\ queue' = <<>>
    /\ lookup' = [g \in Groups |-> 0]
    /\ known' = Nothing /\ filling' = Nothing /\ blacklist' = {}
    /\ UNCHANGED <<server, requested, asked, history>>

\* main returns some time after the stop, and ends every thread.
Exit ==
    /\ up /\ ~active
    /\ EndProcess
    /\ UNCHANGED faults

Crash ==
    /\ up
    /\ Fault("crash")
    /\ EndProcess

ForceStopElsewhere ==
    /\ up /\ active
    /\ Fault("stop")
    /\ active' = FALSE
    /\ UNCHANGED <<server, up, pc, task, queue, local, blacklist, requested,
                   asked, history>>

-----------------------------------------------------------------------------
(***************************************************************************)
(* The producers: the action_router for an account that matched a rule     *)
(* with block=group, and update_blacklist for the accounts that were not   *)
(* in the table when it was read before, or since this process started, in *)
(* the order their hashes give.                                            *)
(***************************************************************************)
WaitEnqueue ==
    /\ up
    /\ asked < MaxRequests
    /\ \E pair \in Dids \X (Groups \ {BlacklistName}) :
          /\ queue' = Append(queue, pair)
          /\ requested' = requested \cup {pair}
    /\ asked' = asked + 1
    /\ UNCHANGED <<server, up, active, pc, task, local, blacklist, history,
                   faults>>

UpdateBlacklist ==
    /\ up
    /\ \E newBlacklist \in BlacklistVersions \ {blacklist} :
          LET additions == (newBlacklist \ blacklist) \X {BlacklistName}
              n == Cardinality(additions) IN
          /\ asked + n <= MaxRequests
          /\ \E batch \in [1 .. n -> additions] :
                /\ additions = {batch[k] : k \in 1 .. n}
                /\ queue' = queue \o batch
          /\ requested' = requested \cup additions
          /\ asked' = asked + n
          /\ blacklist' = newBlacklist
    /\ UNCHANGED <<server, up, active, pc, task, local, history, faults>>

-----------------------------------------------------------------------------
(***************************************************************************)
(* lazy_load_managed_lists. Every list is loaded under its name: of those  *)
(* with the same name only the first in the answer is, the same as long as *)
(* they are the same lists. Nothing but this thread writes the lists, so   *)
(* the load is one step.                                                   *)
(***************************************************************************)
ActiveLists(g) == {i \in 1 .. made : groupOf[i] = g /\ i \notin archived}

Registered(g) == IF ActiveLists(g) = {} THEN 0 ELSE FirstOf(ActiveLists(g))

Loaded(g) ==
    {i \in 1 .. made : groupOf[i] = g
                       /\ (i \in archived \/ i = Registered(g))}

\* Variant: only the list in use is loaded.
LoadActiveLists(unread) ==
    /\ lookup' = [g \in Groups |-> Registered(g)]
    /\ known' = [g \in Groups |->
                    UNION {members[i] : i \in (Loaded(g) \ archived) \ unread}]
    /\ filling' = [g \in Groups |->
                    UNION {members[i] : i \in (Loaded(g) \ archived) \ unread}]

LoadLists(unread) ==
    /\ lookup' = [g \in Groups |-> Registered(g)]
    /\ known' = [g \in Groups |->
                    UNION {members[i] : i \in Loaded(g) \ unread}]
    /\ filling' = [g \in Groups |->
                    UNION {members[i] : i \in (Loaded(g) \ archived) \ unread}]

Load ==
    /\ up
    /\ pc = "load"
    /\ LoadLists({})
    /\ pc' = IF active THEN "wait" ELSE "ended"
    /\ UNCHANGED <<server, up, active, task, demand, history, faults>>

\* After five attempts that end at eof do_get returns an empty answer, as
\* if there were no lists, or no accounts in one.
LoadExhausted ==
    /\ up
    /\ pc = "load"
    /\ Fault("exhausted")
    /\ \/ UNCHANGED local
       \/ \E i \in 1 .. made : LoadLists({i})
    /\ misled' = TRUE
    /\ pc' = IF active THEN "wait" ELSE "ended"
    /\ UNCHANGED <<server, up, active, task, demand, stuck>>

\* Variant: the thread ends and nobody is told.
EndsSilently ==
    /\ pc' = "ended"
    /\ UNCHANGED active

\* An exception leaves the loop: force_stop.
EndsWithException ==
    /\ pc' = "ended"
    /\ active' = FALSE

LoadFails ==
    /\ up
    /\ pc = "load"
    /\ Fault("error")
    /\ EndsWithException
    /\ UNCHANGED <<server, up, task, demand, local, history>>

-----------------------------------------------------------------------------
\* The loop looks at the controller before each dequeue.
NextItem == IF active THEN "wait" ELSE "ended"

StopSeen ==
    /\ up /\ ~active
    /\ pc = "wait"
    /\ pc' = "ended"
    /\ UNCHANGED <<server, up, active, task, demand, local, history, faults>>

\* The pair was handled before: ozone_adapter has a closed report on the
\* account, which may be said of any, or it is known to be in the group.
SkipItem ==
    /\ up
    /\ pc = "wait"
    /\ queue # <<>>
    /\ queue' = Tail(queue)
    /\ pc' = NextItem
    /\ UNCHANGED <<server, up, active, task, local, blacklist, requested, asked,
                   history, faults>>

\* Variant: one more.
FullAbove(accounts) == Cardinality(accounts) > MaxItemsInList

Full(accounts) == Cardinality(accounts) >= MaxItemsInList

\* The pair is recorded before anything is asked of the server, and counts
\* when the list is compared with the maximum.
TakeItem ==
    /\ up
    /\ pc = "wait"
    /\ queue # <<>>
    /\ LET d == Head(queue)[1]
           g == Head(queue)[2] IN
        /\ d \notin known[g]
        /\ known' = [known EXCEPT ![g] = @ \cup {d}]
        /\ filling' = [filling EXCEPT ![g] = @ \cup {d}]
        /\ task' = [did |-> d, group |-> g, uri |-> lookup[g]]
        /\ pc' = IF DryRun THEN NextItem
                 ELSE IF lookup[g] = 0 THEN "create"
                 ELSE IF Full(filling'[g]) THEN "getRecord" ELSE "addItem"
    /\ queue' = Tail(queue)
    /\ UNCHANGED <<server, up, active, lookup, blacklist, requested, asked,
                   history, faults>>

-----------------------------------------------------------------------------
(***************************************************************************)
(* load_or_create_list, when there is no list of the name: the URI of the  *)
(* new list is dropped and the empty one returned. Sent again after an eof *)
(* it makes two lists. ensure_list_group_is_available goes on to           *)
(* archive_if_needed, which has called it itself in the other case.        *)
(***************************************************************************)
MakeLists(n) ==
    /\ made + n <= MaxLists
    /\ made' = made + n
    /\ groupOf' = [i \in ListIds |-> IF i \in (made + 1) .. (made + n)
                                       THEN task.group ELSE groupOf[i]]
    /\ UNCHANGED <<archived, members>>

CreateList ==
    /\ up
    /\ pc \in {"create", "createNext"}
    /\ \/ /\ MakeLists(1)
          /\ UNCHANGED faults
       \/ /\ MakeLists(2)
          /\ Fault("resent")
    /\ task' = [task EXCEPT !.uri = 0]
    /\ pc' = IF pc = "create" /\ Full(filling[task.group])
                THEN "getRecord" ELSE "addItem"
    /\ UNCHANGED <<up, active, demand, local, history>>

CreateListFails ==
    /\ up
    /\ pc \in {"create", "createNext"}
    /\ \E applied \in {0, 1} : MakeLists(applied)
    /\ Fault("error")
    /\ EndsWithException
    /\ UNCHANGED <<up, task, demand, local, history>>

-----------------------------------------------------------------------------
(***************************************************************************)
(* archive_if_needed, for a full list: read its record, write it back with *)
(* another name, forget it. Any failure leaves things as they are. There   *)
(* is no record for the empty URI.                                         *)
(***************************************************************************)
GetRecord ==
    /\ up
    /\ pc = "getRecord"
    /\ task.uri # 0
    /\ pc' = "putRecord"
    /\ UNCHANGED <<server, up, active, task, demand, local, history, faults>>

GetRecordFails ==
    /\ up
    /\ pc = "getRecord"
    /\ IF task.uri = 0 THEN UNCHANGED faults ELSE Fault("error")
    /\ stuck' = stuck + 1
    /\ pc' = "addItem"
    /\ UNCHANGED <<server, up, active, task, demand, local, misled>>

\* Variant: the record is put back for a list already forgotten.
RenameForgotten == archived' = archived \cup {0}

Rename == archived' = archived \cup {task.uri}

\* Variant: a full list is emptied instead of kept under another name.
PutRecordClears ==
    /\ up
    /\ pc = "putRecord"
    /\ members' = [members EXCEPT ![task.uri] = {}]
    /\ archived' = archived
    /\ filling' = [filling EXCEPT ![task.group] = {}]
    /\ lookup' = [lookup EXCEPT ![task.group] = 0]
    /\ pc' = "createNext"
    /\ UNCHANGED <<made, groupOf, up, active, task, demand, known, history,
                   faults>>

PutRecord ==
    /\ up
    /\ pc = "putRecord"
    /\ \/ /\ Rename
          /\ UNCHANGED <<misled, faults>>
       \/ /\ archived' \in {archived, archived \cup {task.uri}}
          /\ misled' = TRUE
          /\ Fault("exhausted")
    /\ filling' = [filling EXCEPT ![task.group] = {}]
    /\ lookup' = [lookup EXCEPT ![task.group] = 0]
    /\ pc' = "createNext"
    /\ UNCHANGED <<made, groupOf, members, up, active, task, demand, known,
                   stuck>>

PutRecordFails ==
    /\ up
    /\ pc = "putRecord"
    /\ archived' \in {archived, archived \cup {task.uri}}
    /\ Fault("error")
    /\ stuck' = stuck + 1
    /\ pc' = "addItem"
    /\ UNCHANGED <<made, groupOf, members, up, active, task, demand, local,
                   misled>>

-----------------------------------------------------------------------------
\* The item is created in the list, unless that is the empty URI. Sent
\* twice it is there twice, which the set of members does not tell.
AddItem ==
    /\ up
    /\ pc = "addItem"
    /\ members' = IF task.uri = 0 THEN members
                  ELSE [members EXCEPT ![task.uri] = @ \cup {task.did}]
    /\ pc' = NextItem
    /\ UNCHANGED <<made, groupOf, archived, up, active, task, demand, local,
                   history, faults>>

\* The exception is counted, and the pair is not tried again.
AddItemFails ==
    /\ up
    /\ pc = "addItem"
    /\ task.uri # 0
    /\ Fault("error")
    /\ pc' = NextItem
    /\ UNCHANGED <<server, up, active, task, demand, local, history>>

-----------------------------------------------------------------------------
Next ==
    \/ Start \/ Exit \/ Crash \/ ForceStopElsewhere
    \/ WaitEnqueue \/ UpdateBlacklist
    \/ Load \/ LoadExhausted \/ LoadFails
    \/ StopSeen \/ SkipItem \/ TakeItem
    \/ CreateList \/ CreateListFails
    \/ GetRecord \/ GetRecordFails \/ PutRecord \/ PutRecordFails
    \/ AddItem \/ AddItemFails

Spec == Init /\ [][Next]_vars

\* The thread goes on while it can, and a stopped process ends.
Fairness ==
    /\ WF_vars(Start) /\ WF_vars(Exit) /\ WF_vars(Load)
    /\ WF_vars(SkipItem \/ TakeItem)
    /\ WF_vars(CreateList)
    /\ WF_vars(GetRecord \/ GetRecordFails)
    /\ WF_vars(PutRecord)
    /\ WF_vars(AddItem)

FairSpec == Spec /\ Fairness

-----------------------------------------------------------------------------
Disjoint ==
    \A i, j \in 1 .. made :
        i # j /\ groupOf[i] = groupOf[j] => members[i] \cap members[j] = {}

(***************************************************************************)
(* "do not process same account/list pair twice" (list_manager.cpp), over  *)
(* any number of restarts, archivals and lost answers: no two lists of a   *)
(* group hold the same account, as long as no empty answer was believed.   *)
(***************************************************************************)
NeverListedTwice == ~misled => Disjoint

(***************************************************************************)
(* Why it holds. What is in a list of the group that is not archived is in *)
(* the one that a load would register, so that every list which matters is *)
(* loaded; while the thread runs, what it knows covers the lists, and the  *)
(* account it is adding is in none of the group.                           *)
(***************************************************************************)
Processing ==
    pc \in {"create", "createNext", "getRecord", "putRecord", "addItem"}

OnlyRegisteredInUse ==
    \A i \in 1 .. made :
        i \in archived \/ members[i] = {} \/ i = Registered(groupOf[i])

KnownCoversLists ==
    \A i \in 1 .. made : members[i] \subseteq known[groupOf[i]]

LookupIsRegistered ==
    /\ \A g \in Groups : lookup[g] # 0 =>
          /\ groupOf[lookup[g]] = g
          /\ lookup[g] \in archived \/ lookup[g] = Registered(g)
    /\ \A i \in 1 .. made :
          i \in archived \/ members[i] = {} \/ i = lookup[groupOf[i]]

TaskIsNew ==
    /\ task.did \in known[task.group]
    /\ \A i \in 1 .. made :
          groupOf[i] = task.group => task.did \notin members[i]

TaskUri ==
    /\ pc \in {"create", "createNext"} => lookup[task.group] = 0
    /\ pc \in {"getRecord", "putRecord", "addItem"} =>
          task.uri \in {0, lookup[task.group]}
    /\ pc = "putRecord" => task.uri # 0

\* Of the pair being added, whatever answers were believed.
TaskRequested == Processing => <<task.did, task.group>> \in requested

\* Nor do they change which group a list belongs to.
LookupInGroup ==
    \A g \in Groups : lookup[g] # 0 => groupOf[lookup[g]] = g

ListInvariant ==
    /\ ~misled => Disjoint /\ OnlyRegisteredInUse
    /\ ~misled /\ pc \notin {"load", "ended"} =>
          KnownCoversLists /\ LookupIsRegistered
    /\ ~misled /\ Processing => TaskIsNew

(***************************************************************************)
(* A list takes one account less than MaxItemsInList before it is archived *)
(* (the one being added counts), and one more for each time archiving      *)
(* failed and the list was used as it was.                                 *)
(***************************************************************************)
ListsBounded ==
    ~misled =>
        \A i \in 1 .. made : Cardinality(members[i]) < MaxItemsInList + stuck

(***************************************************************************)
(* Why it holds. What a list in use holds is counted, and so is the account*)
(* on its way into it; when it is about to arrive there is room for it, or *)
(* one more failure to blame.                                              *)
(***************************************************************************)
Room == MaxItemsInList + stuck

CountedInFilling ==
    /\ \A g \in Groups : lookup[g] # 0 => members[lookup[g]] \subseteq filling[g]
    /\ pc \in {"getRecord", "putRecord", "addItem"} /\ task.uri # 0 =>
          task.did \in filling[task.group]

RoomForTask ==
    pc = "addItem" /\ task.uri # 0 =>
        Cardinality(members[task.uri] \cup {task.did}) < Room

BoundInvariant ==
    /\ ListsBounded
    /\ ~misled /\ pc \notin {"load", "ended"} => CountedInFilling /\ RoomForTask

(***************************************************************************)
(* The backlog is always worked off, or lost with its process: whatever    *)
(* fails, the thread does not end and leave the others enqueueing.         *)
(***************************************************************************)
BacklogDrains == (queue # <<>>) ~> (queue = <<>>)

(***************************************************************************)
(* load_or_create_list "creates empty list if if does not exist"           *)
(* (list_manager.cpp): a group does not have two lists of its name.        *)
(***************************************************************************)
\* The comment goes on to say that the new list "is ready for use".
OneActiveList == \A g \in Groups : Cardinality(ActiveLists(g)) <= 1

(***************************************************************************)
(* The promise to those who subscribe to the lists, see ListContract: what *)
(* a group blocks is the union of its lists.                               *)
(***************************************************************************)
Listed ==
    [g \in Groups |->
        UNION {members[i] : i \in {j \in 1 .. made : groupOf[j] = g}}]

Contract == INSTANCE ListContract WITH listed <- Listed

ContractSpec == Contract!Spec
=============================================================================
