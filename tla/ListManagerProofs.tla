-------------------------- MODULE ListManagerProofs --------------------------
(***************************************************************************)
(* For every set of accounts and groups, every list size and every number  *)
(* of faults: the types of ListManager, that no account is listed twice in *)
(* a group, that the lists implement ListContract, and that they stay      *)
(* within their bound.                                                     *)
(***************************************************************************)
EXTENDS ListManager, FiniteSetTheorems, TLAPS

USE ListAssumption DEF ListIds

\* The next-state relation one actor at a time, for the proofs by cases.
Main == Start \/ Exit \/ Crash \/ ForceStopElsewhere
Producers == WaitEnqueue \/ UpdateBlacklist
Loading == Load \/ LoadExhausted \/ LoadFails
Looping == StopSeen \/ SkipItem \/ TakeItem
Creating == CreateList \/ CreateListFails
Archiving == GetRecord \/ GetRecordFails \/ PutRecord \/ PutRecordFails
Adding == AddItem \/ AddItemFails

LEMMA NextByActor ==
    Next <=> \/ Main \/ Producers \/ Loading \/ Looping
             \/ Creating \/ Archiving \/ Adding
BY DEF Next, Main, Producers, Loading, Looping, Creating, Archiving, Adding

-----------------------------------------------------------------------------
(***************************************************************************)
(* Type correctness, flags apart from the rest.                            *)
(***************************************************************************)
LEMMA FlagsStep == FlagsOK /\ [Next]_vars => FlagsOK'
<1> SUFFICES ASSUME FlagsOK, [Next]_vars PROVE FlagsOK'
  OBVIOUS
<1> USE DEF FlagsOK, process, history
<1>1. CASE Main
  BY <1>1 DEF Main, Start, Exit, Crash, ForceStopElsewhere, EndProcess
<1>2. CASE Producers
  BY <1>2 DEF Producers, WaitEnqueue, UpdateBlacklist
<1>3. CASE Loading
  BY <1>3 DEF Loading, Load, LoadExhausted, LoadFails, EndsWithException
<1>4. CASE Looping
  BY <1>4 DEF Looping, StopSeen, SkipItem, TakeItem
<1>5. CASE Creating
  BY <1>5 DEF Creating, CreateList, CreateListFails, EndsWithException
<1>6. CASE Archiving
  BY <1>6 DEF Archiving, GetRecord, GetRecordFails, PutRecord, PutRecordFails
<1>7. CASE Adding
  BY <1>7 DEF Adding, AddItem, AddItemFails
<1>8. CASE UNCHANGED vars
  BY <1>8 DEF vars
<1> QED BY <1>1, <1>2, <1>3, <1>4, <1>5, <1>6, <1>7, <1>8, NextByActor

LEMMA SeqMonotone ==
    ASSUME NEW S, NEW T, S \subseteq T, NEW s \in Seq(S)
    PROVE  s \in Seq(T)
OBVIOUS

LEMMA NoTaskTyped ==
    NoTask \in [did : Dids, group : Groups, uri : {0}] /\ NoTask.uri = 0
BY DEF NoTask

LEMMA NextItemTyped == NextItem \in {"wait", "ended"}
BY DEF NextItem

LEMMA RegisteredTyped ==
    ASSUME made \in 0 .. MaxLists, NEW g
    PROVE  /\ Registered(g) \in 0 .. made
           /\ ActiveLists(g) # {} => Registered(g) \in ActiveLists(g)
           /\ ActiveLists(g) = {} => Registered(g) = 0
<1>1. ActiveLists(g) \subseteq 1 .. made /\ 1 .. made \subseteq ListIds
  BY DEF ActiveLists
<1>2. ActiveLists(g) # {} => FirstOf(ActiveLists(g)) \in ActiveLists(g)
  BY <1>1
<1> QED BY <1>1, <1>2 DEF Registered

LEMMA InitTyped == Init => TypeOK
<1> SUFFICES ASSUME Init PROVE TypeOK
  OBVIOUS
<1>1. FlagsOK
  BY DEF Init, FlagsOK
<1>2. ServerOK
  BY DEF Init, ServerOK
<1>3. ThreadOK
  BY NoTaskTyped DEF Init, ThreadOK, Nothing
<1>4. DemandOK
  BY DEF Init, DemandOK
<1> QED BY <1>1, <1>2, <1>3, <1>4 DEF TypeOK

LEMMA MainTyped ==
    ASSUME TypeOK, Main
    PROVE  ServerOK' /\ ThreadOK' /\ DemandOK'
<1> USE DEF TypeOK, ServerOK, ThreadOK, DemandOK, server, local, history,
            process
<1>1. CASE Start
  BY <1>1 DEF Start
<1>2. CASE Exit \/ Crash
  <2>1. EndProcess /\ faults' \in 0 .. MaxFaults
    BY <1>2 DEF Exit, Crash, Fault
  <2>2. ServerOK' /\ DemandOK'
    BY <2>1 DEF EndProcess
  <2>3. ThreadOK'
    BY <2>1, NoTaskTyped DEF EndProcess, Nothing
  <2> QED BY <2>2, <2>3
<1>3. CASE ForceStopElsewhere
  BY <1>3 DEF ForceStopElsewhere, Fault
<1> QED BY <1>1, <1>2, <1>3 DEF Main

LEMMA ProducersTyped ==
    ASSUME TypeOK, Producers
    PROVE  ServerOK' /\ ThreadOK' /\ DemandOK'
<1> USE DEF TypeOK
<1>1. ServerOK' /\ ThreadOK'
  BY ZenonT(30) DEF Producers, WaitEnqueue, UpdateBlacklist, ServerOK, ThreadOK, server,
         local
<1>2. CASE WaitEnqueue
  <2>1. PICK pair \in Dids \X Groups :
            queue' = Append(queue, pair) /\ requested' = requested \cup {pair}
    BY <1>2 DEF WaitEnqueue
  <2>2. queue \in Seq(requested')
    BY <2>1, SeqMonotone DEF DemandOK
  <2>3. queue' \in Seq(requested')
    BY <2>1, <2>2
  <2>4. requested' \subseteq Dids \X Groups
    BY <2>1 DEF DemandOK
  <2> QED BY <1>1, <1>2, <2>3, <2>4 DEF WaitEnqueue, DemandOK, history
<1>3. CASE UpdateBlacklist
  <2>1. PICK newBlacklist \in BlacklistVersions :
            LET additions == (newBlacklist \ blacklist) \X {BlacklistName}
                n == Cardinality(additions) IN
            /\ \E batch \in [1 .. n -> additions] : queue' = queue \o batch
            /\ requested' = requested \cup additions
            /\ asked' = asked + n
            /\ blacklist' = newBlacklist
    BY <1>3 DEF UpdateBlacklist
  <2> DEFINE additions == (newBlacklist \ blacklist) \X {BlacklistName}
             n == Cardinality(additions)
  <2>2. PICK batch \in [1 .. n -> additions] : queue' = queue \o batch
    BY <2>1
  <2>3. n \in Nat
    <3>1. IsFiniteSet(newBlacklist \ blacklist)
      BY FS_Subset
    <3>2. IsFiniteSet({BlacklistName})
      BY FS_Singleton
    <3> QED BY <3>1, <3>2, FS_Product, FS_CardinalityType
  <2>4. additions \subseteq Dids \X Groups /\ requested' = requested \cup additions
    BY <2>1
  <2>5. batch \in Seq(additions)
    <3> HIDE DEF additions, n
    <3> QED BY <2>2, <2>3
  <2>6. batch \in Seq(requested') /\ queue \in Seq(requested')
    BY <2>4, <2>5, SeqMonotone DEF DemandOK
  <2>7. queue' \in Seq(requested')
    BY <2>2, <2>6
  <2>8. blacklist' \subseteq Dids /\ asked' \in Nat
    BY <2>1, <2>3 DEF DemandOK
  <2> HIDE DEF additions, n
  <2> QED BY <1>1, <1>3, <2>4, <2>7, <2>8 DEF UpdateBlacklist, DemandOK, history
<1> QED BY <1>2, <1>3 DEF Producers

LEMMA LoadTyped ==
    ASSUME TypeOK, NEW unread, LoadLists(unread)
    PROVE  /\ lookup' \in [Groups -> 0 .. made]
           /\ known' \in [Groups -> SUBSET Dids]
           /\ filling' \in [Groups -> SUBSET Dids]
<1>1. \A g \in Groups : Registered(g) \in 0 .. made
  BY RegisteredTyped DEF TypeOK, ServerOK
<1>2. \A g : Loaded(g) \subseteq ListIds
  BY DEF Loaded, TypeOK, ServerOK
<1>3. \A i \in ListIds : members[i] \subseteq Dids
  BY DEF TypeOK, ServerOK
<1> QED BY <1>1, <1>2, <1>3 DEF LoadLists

LEMMA LoadingTyped ==
    ASSUME TypeOK, Loading
    PROVE  ServerOK' /\ ThreadOK' /\ DemandOK'
<1> USE DEF TypeOK, demand, history
<1>1. UNCHANGED <<server, demand, stuck>>
  BY DEF Loading, Load, LoadExhausted, LoadFails
<1>2. faults' \in 0 .. MaxFaults
  BY DEF Loading, Load, LoadExhausted, LoadFails, Fault, DemandOK
<1>3. ServerOK' /\ DemandOK'
  BY <1>1, <1>2 DEF ServerOK, DemandOK, server
<1>4. pc' \in {"wait", "ended"} /\ UNCHANGED <<task, made>>
  BY DEF Loading, Load, LoadExhausted, LoadFails, EndsWithException, server
<1>5. /\ lookup' \in [Groups -> 0 .. made]
      /\ known' \in [Groups -> SUBSET Dids]
      /\ filling' \in [Groups -> SUBSET Dids]
  BY LoadTyped DEF Loading, Load, LoadExhausted, LoadFails, local, ThreadOK
<1> QED BY <1>3, <1>4, <1>5 DEF ThreadOK

LEMMA LoopingTyped ==
    ASSUME TypeOK, Looping
    PROVE  ServerOK' /\ ThreadOK' /\ DemandOK'
<1> USE DEF TypeOK, demand, history, local
<1>1. ServerOK' /\ UNCHANGED <<made, lookup>>
  BY DEF Looping, StopSeen, SkipItem, TakeItem, ServerOK, server
<1>2. CASE StopSeen
  BY <1>1, <1>2 DEF StopSeen, ThreadOK, DemandOK
<1>3. CASE SkipItem
  BY <1>1, <1>3, NextItemTyped DEF SkipItem, ThreadOK, DemandOK
<1>4. CASE TakeItem
  <2>1. Head(queue) \in Dids \X Groups /\ queue' \in Seq(requested)
    BY <1>4 DEF TakeItem, DemandOK
  <2> DEFINE d == Head(queue)[1]
             g == Head(queue)[2]
  <2>2. d \in Dids /\ g \in Groups
    BY <2>1
  <2>3. known' \in [Groups -> SUBSET Dids] /\ filling' \in [Groups -> SUBSET Dids]
    BY <1>4, <2>2 DEF TakeItem, ThreadOK
  <2>4. task' \in [did : Dids, group : Groups, uri : 0 .. made]
    BY <1>4, <2>2 DEF TakeItem, ThreadOK
  <2>5. pc' \in {"wait", "ended", "create", "getRecord", "addItem"}
    BY <1>4, NextItemTyped DEF TakeItem
  <2>6. ThreadOK'
    BY <1>1, <2>3, <2>4, <2>5 DEF ThreadOK
  <2>7. DemandOK'
    BY <1>4, <2>1 DEF TakeItem, DemandOK
  <2> QED BY <1>1, <2>6, <2>7
<1> QED BY <1>2, <1>3, <1>4 DEF Looping

LEMMA MakeListsTyped ==
    ASSUME TypeOK, NEW n \in Nat, MakeLists(n)
    PROVE  ServerOK' /\ made' \in Nat /\ made <= made'
BY DEF TypeOK, ServerOK, ThreadOK, MakeLists

LEMMA CreatingTyped ==
    ASSUME TypeOK, Creating
    PROVE  ServerOK' /\ ThreadOK' /\ DemandOK'
<1> USE DEF TypeOK, demand, history, local
<1>1. PICK n \in {0, 1, 2} : MakeLists(n)
  BY DEF Creating, CreateList, CreateListFails
<1>2. ServerOK' /\ made' \in Nat /\ made <= made'
  BY <1>1, MakeListsTyped
<1>3. DemandOK'
  BY DEF Creating, CreateList, CreateListFails, DemandOK, Fault
<1>4. /\ task'.did = task.did /\ task'.group = task.group
      /\ task'.uri \in {0, task.uri} /\ task' \in [did : Dids, group : Groups, uri : Nat]
  BY DEF Creating, CreateList, CreateListFails, ThreadOK, ServerOK
<1>5. pc' \in {"getRecord", "addItem", "ended"} /\ UNCHANGED local
  BY DEF Creating, CreateList, CreateListFails, EndsWithException
<1>6. ThreadOK'
  BY <1>2, <1>4, <1>5 DEF ThreadOK, ServerOK
<1> QED BY <1>2, <1>3, <1>6

LEMMA ArchivingTyped ==
    ASSUME TypeOK, TaskUri, Archiving
    PROVE  ServerOK' /\ ThreadOK' /\ DemandOK'
<1> USE DEF TypeOK, demand, history, local, server
<1>1. UNCHANGED demand /\ stuck' \in {stuck, stuck + 1}
  BY DEF Archiving, GetRecord, GetRecordFails, PutRecord, PutRecordFails
<1>2. faults' \in 0 .. MaxFaults
  BY DEF Archiving, GetRecord, GetRecordFails, PutRecord, PutRecordFails,
         DemandOK, Fault
<1>3. DemandOK'
  BY <1>1, <1>2 DEF DemandOK
<1>4. archived' \in {archived, archived \cup {task.uri}}
      /\ (archived' # archived => task.uri # 0)
  BY DEF Archiving, GetRecord, GetRecordFails, PutRecord, PutRecordFails,
         Rename, TaskUri
<1>5. UNCHANGED <<made, groupOf, members, task, known>>
  BY DEF Archiving, GetRecord, GetRecordFails, PutRecord, PutRecordFails
<1>6. ServerOK'
  BY <1>4, <1>5 DEF ServerOK, ThreadOK
<1>7. /\ lookup' \in {lookup, [lookup EXCEPT ![task.group] = 0]}
      /\ filling' \in {filling, [filling EXCEPT ![task.group] = {}]}
  BY DEF Archiving, GetRecord, GetRecordFails, PutRecord, PutRecordFails
<1>8. lookup' \in [Groups -> 0 .. made] /\ filling' \in [Groups -> SUBSET Dids]
  <2>1. lookup' \in [Groups -> 0 .. made]
    <3>1. 0 \in 0 .. made
      BY DEF ServerOK
    <3> QED BY <1>7, <3>1 DEF ThreadOK
  <2>2. {} \in SUBSET Dids
    OBVIOUS
  <2>3. filling' \in [Groups -> SUBSET Dids]
    BY <1>7, <2>2 DEF ThreadOK
  <2> QED BY <2>1, <2>3
<1>9. pc' \in {"putRecord", "addItem", "createNext"}
  BY DEF Archiving, GetRecord, GetRecordFails, PutRecord, PutRecordFails
<1>10. ThreadOK'
  BY <1>5, <1>8, <1>9 DEF ThreadOK
<1> QED BY <1>3, <1>6, <1>10

LEMMA AddingTyped ==
    ASSUME TypeOK, Adding
    PROVE  ServerOK' /\ ThreadOK' /\ DemandOK'
<1> USE DEF TypeOK, demand, history, local, server
<1>1. DemandOK'
  BY DEF Adding, AddItem, AddItemFails, DemandOK, Fault
<1>2. ThreadOK'
  BY NextItemTyped DEF Adding, AddItem, AddItemFails, ThreadOK
<1>3. UNCHANGED <<made, groupOf, archived>>
  BY DEF Adding, AddItem, AddItemFails
<1>4. members' \in {members, [members EXCEPT ![task.uri] = @ \cup {task.did}]}
      /\ (members' # members => task.uri # 0)
  BY DEF Adding, AddItem, AddItemFails
<1>5. members' \in [ListIds -> SUBSET Dids]
  <2>1. task.did \in Dids
    BY DEF ThreadOK
  <2> QED BY <1>4, <2>1 DEF ServerOK
<1>6. \A i \in ListIds : i > made => members'[i] = members[i]
  BY <1>4 DEF ServerOK, ThreadOK
<1>7. ServerOK'
  BY <1>3, <1>5, <1>6 DEF ServerOK
<1> QED BY <1>1, <1>2, <1>7

(***************************************************************************)
(* The URI of the list in hand: the empty one, or that of the active list. *)
(***************************************************************************)
LEMMA TaskUriStep ==
    ASSUME TypeOK, TaskUri, [Next]_vars
    PROVE  TaskUri'
<1> USE DEF TypeOK, TaskUri
<1>1. CASE UNCHANGED vars
  BY <1>1 DEF vars, process, local
<1>2. CASE Main \/ Producers
  <2>1. UNCHANGED <<pc, task, lookup>> \/ pc' = "load"
    BY <1>2 DEF Main, Start, Exit, Crash, ForceStopElsewhere, EndProcess,
       Producers, WaitEnqueue, UpdateBlacklist, local
  <2> QED BY <2>1
<1>3. CASE Loading \/ Adding
  <2>1. pc' \in {"wait", "ended"}
    BY <1>3, NextItemTyped DEF Loading, Load, LoadExhausted, LoadFails,
       EndsWithException, Adding, AddItem, AddItemFails
  <2> QED BY <2>1
<1>4. CASE Looping
  <2>1. CASE StopSeen \/ SkipItem
    <3>1. pc' \in {"wait", "ended"}
      BY <2>1, NextItemTyped DEF StopSeen, SkipItem
    <3> QED BY <3>1
  <2>2. CASE TakeItem
    <3>1. task'.uri = lookup'[task'.group]
      BY <2>2 DEF TakeItem
    <3>2. pc' \in {"wait", "ended"} \/ (pc' = "create" /\ lookup'[task'.group] = 0)
          \/ pc' \in {"getRecord", "addItem"}
      BY <2>2, NextItemTyped DEF TakeItem
    <3> QED BY <3>1, <3>2
  <2> QED BY <1>4, <2>1, <2>2 DEF Looping
<1>5. CASE Creating
  <2>1. CASE CreateList
    BY <2>1 DEF CreateList, ThreadOK
  <2>2. CASE CreateListFails
    BY <2>2 DEF CreateListFails, EndsWithException
  <2> QED BY <1>5, <2>1, <2>2 DEF Creating
<1>6. CASE Archiving
  <2>1. CASE GetRecord
    BY <2>1 DEF GetRecord, local
  <2>2. CASE GetRecordFails \/ PutRecordFails
    BY <2>2 DEF GetRecordFails, PutRecordFails, local
  <2>3. CASE PutRecord
    <3>1. lookup' = [lookup EXCEPT ![task.group] = 0] /\ task' = task
          /\ pc' = "createNext"
      BY <2>3 DEF PutRecord
    <3> QED BY <3>1 DEF ThreadOK
  <2> QED BY <1>6, <2>1, <2>2, <2>3 DEF Archiving
<1> QED BY <1>1, <1>2, <1>3, <1>4, <1>5, <1>6, NextByActor

LEMMA TypeStep ==
    ASSUME TypeOK, TaskUri, [Next]_vars
    PROVE  TypeOK'
<1>1. FlagsOK'
  BY FlagsStep DEF TypeOK
<1>2. CASE UNCHANGED vars
  BY <1>1, <1>2 DEF TypeOK, ServerOK, ThreadOK, DemandOK, vars, server, process,
     local, history
<1>3. CASE Next
  BY <1>1, <1>3, NextByActor, MainTyped, ProducersTyped, LoadingTyped,
     LoopingTyped, CreatingTyped, ArchivingTyped, AddingTyped DEF TypeOK
<1> QED BY <1>2, <1>3

LEMMA TypeAndUri == Spec => [](TypeOK /\ TaskUri)
<1>1. Init => TypeOK /\ TaskUri
  BY InitTyped DEF Init, TaskUri
<1>2. (TypeOK /\ TaskUri) /\ [Next]_vars => (TypeOK /\ TaskUri)'
  BY TypeStep, TaskUriStep
<1> QED BY <1>1, <1>2, PTL DEF Spec

(***************************************************************************)
(* Every variable of the list manager keeps its type, no account is in a   *)
(* list that was not created, and only enqueued pairs are in the queue.    *)
(***************************************************************************)
THEOREM ListTypeCorrect == Spec => []TypeOK
BY TypeAndUri, PTL

-----------------------------------------------------------------------------
(***************************************************************************)
(* No account twice. First the steps that leave the lists alone.           *)
(***************************************************************************)
LEMMA QuietStep ==
    ASSUME ListInvariant, UNCHANGED <<server, misled>>,
           \/ pc' \in {"load", "ended"}
           \/ /\ pc \notin {"load", "ended"} /\ UNCHANGED <<known, lookup>>
              /\ \/ pc' = "wait"
                 \/ Processing /\ task' = task
    PROVE  ListInvariant'
<1>1. (Disjoint' <=> Disjoint) /\ (OnlyRegisteredInUse' <=> OnlyRegisteredInUse)
  BY DEF Disjoint, OnlyRegisteredInUse, Registered, ActiveLists, server
<1>2. CASE pc' \in {"load", "ended"}
  BY <1>1, <1>2 DEF ListInvariant, Processing
<1>3. CASE pc \notin {"load", "ended"} /\ UNCHANGED <<known, lookup>>
  <2>1. /\ KnownCoversLists' <=> KnownCoversLists
        /\ LookupIsRegistered' <=> LookupIsRegistered
    BY <1>3 DEF KnownCoversLists, LookupIsRegistered, Registered, ActiveLists,
       server
  <2>2. CASE pc' = "wait"
    BY <1>1, <1>3, <2>1, <2>2 DEF ListInvariant, Processing
  <2>3. CASE Processing /\ task' = task
    <3>1. TaskIsNew' <=> TaskIsNew
      BY <1>3, <2>3 DEF TaskIsNew, server
    <3> QED BY <1>1, <1>3, <2>1, <2>3, <3>1 DEF ListInvariant
  <2> QED BY <1>2, <1>3, <2>2, <2>3
<1> QED BY <1>2, <1>3

LEMMA MainAndProducersKeep ==
    ASSUME ListInvariant, Main \/ Producers
    PROVE  ListInvariant'
<1>1. CASE Exit \/ Crash
  <2>1. pc' = "load" /\ UNCHANGED <<server, misled>>
    BY <1>1 DEF Exit, Crash, EndProcess, history
  <2> QED BY <2>1, QuietStep
<1>2. CASE Start \/ ForceStopElsewhere \/ Producers
  <2>1. UNCHANGED <<server, misled, pc, known, lookup, task>>
    BY <1>2 DEF Start, ForceStopElsewhere, Producers, WaitEnqueue,
       UpdateBlacklist, local, history
  <2> QED BY <2>1 DEF ListInvariant, Disjoint, OnlyRegisteredInUse,
             KnownCoversLists, LookupIsRegistered, TaskIsNew, Processing,
             Registered, ActiveLists, server
<1> QED BY <1>1, <1>2 DEF Main

LEMMA LoadingKeeps ==
    ASSUME TypeOK, ListInvariant, Loading
    PROVE  ListInvariant'
<1> USE DEF server, history
<1>1. CASE LoadExhausted
  <2>1. misled' = TRUE
    BY <1>1 DEF LoadExhausted
  <2> QED BY <2>1 DEF ListInvariant
<1>2. CASE LoadFails
  <2>1. pc' = "ended" /\ UNCHANGED <<server, misled>>
    BY <1>2 DEF LoadFails, EndsWithException
  <2> QED BY <2>1, QuietStep
<1>3. CASE Load
  <2>1. UNCHANGED <<server, misled>> /\ LoadLists({}) /\ pc' \in {"wait", "ended"}
    BY <1>3 DEF Load
  <2>2. (Disjoint' <=> Disjoint) /\ (OnlyRegisteredInUse' <=> OnlyRegisteredInUse)
    BY <2>1 DEF Disjoint, OnlyRegisteredInUse, Registered, ActiveLists
  <2>3. \A g : Registered(g)' = Registered(g)
    BY <2>1 DEF Registered, ActiveLists
  <2>4. ~misled => OnlyRegisteredInUse
    BY DEF ListInvariant
  <2>5. made \in Nat /\ 1 .. made \subseteq ListIds /\ groupOf \in [ListIds -> Groups]
    BY DEF TypeOK, ServerOK
  <2>6. /\ \A g \in Groups : lookup'[g] = Registered(g)
        /\ \A g \in Groups : known'[g] = UNION {members[i] : i \in Loaded(g)}
    BY <2>1 DEF LoadLists
  <2>7. ~misled => KnownCoversLists'
    <3> SUFFICES ASSUME ~misled, NEW i \in 1 .. made
                 PROVE  members[i] \subseteq known'[groupOf[i]]
      BY <2>1 DEF KnownCoversLists
    <3>1. i \in archived \/ members[i] = {} \/ i = Registered(groupOf[i])
      BY <2>4 DEF OnlyRegisteredInUse
    <3>2. groupOf[i] \in Groups
      BY <2>5
    <3>3. members[i] = {} \/ i \in Loaded(groupOf[i])
      BY <3>1 DEF Loaded
    <3> QED BY <3>2, <3>3, <2>6
  <2>8. ~misled => LookupIsRegistered'
    <3>1. ASSUME NEW g \in Groups, lookup'[g] # 0
          PROVE  groupOf[lookup'[g]] = g
      BY <3>1, <2>5, <2>6, RegisteredTyped DEF ActiveLists, TypeOK, ServerOK
    <3>2. ~misled => \A i \in 1 .. made :
              i \in archived \/ members[i] = {} \/ i = lookup'[groupOf[i]]
      BY <2>4, <2>5, <2>6 DEF OnlyRegisteredInUse
    <3> QED BY <3>1, <3>2, <2>1, <2>3, <2>6 DEF LookupIsRegistered
  <2>9. ~Processing'
    BY <2>1 DEF Processing
  <2> QED BY <2>1, <2>2, <2>7, <2>8, <2>9 DEF ListInvariant
<1> QED BY <1>1, <1>2, <1>3 DEF Loading

LEMMA LoopingKeeps ==
    ASSUME TypeOK, ListInvariant, Looping
    PROVE  ListInvariant'
<1> USE DEF server, history, local
<1>1. CASE StopSeen \/ SkipItem
  <2>1. /\ pc = "wait" /\ pc' \in {"wait", "ended"}
        /\ UNCHANGED <<server, misled, known, lookup>>
    BY <1>1, NextItemTyped DEF StopSeen, SkipItem
  <2> QED BY <2>1, QuietStep
<1>2. CASE TakeItem
  <2> DEFINE d == Head(queue)[1]
             g == Head(queue)[2]
  <2>1. /\ pc = "wait" /\ d \notin known[g]
        /\ known' = [known EXCEPT ![g] = @ \cup {d}]
        /\ task'.did = d /\ task'.group = g
        /\ UNCHANGED <<server, misled, lookup>>
    BY <1>2 DEF TakeItem
  <2>2. g \in Groups /\ known \in [Groups -> SUBSET Dids]
    <3>1. Head(queue) \in Dids \X Groups
      BY <1>2 DEF TakeItem, TypeOK, DemandOK
    <3> QED BY <3>1 DEF TypeOK, ThreadOK
  <2>3. /\ Disjoint' <=> Disjoint
        /\ OnlyRegisteredInUse' <=> OnlyRegisteredInUse
        /\ LookupIsRegistered' <=> LookupIsRegistered
    BY <2>1 DEF Disjoint, OnlyRegisteredInUse, LookupIsRegistered, Registered,
       ActiveLists
  <2>4. \A h : known[h] \subseteq known'[h]
    BY <2>1, <2>2
  <2>5. ~misled => KnownCoversLists /\ LookupIsRegistered /\ Disjoint
                   /\ OnlyRegisteredInUse
    BY <2>1 DEF ListInvariant
  <2>6. ~misled => KnownCoversLists'
    BY <2>1, <2>4, <2>5 DEF KnownCoversLists
  <2>7. ~misled => TaskIsNew'
    BY <2>1, <2>2, <2>5 DEF KnownCoversLists, TaskIsNew
  <2> QED BY <2>1, <2>3, <2>5, <2>6, <2>7 DEF ListInvariant
<1> QED BY <1>1, <1>2 DEF Looping

(***************************************************************************)
(* A list is created only while the group has none in use, and is empty.   *)
(***************************************************************************)
LEMMA CreatingKeeps ==
    ASSUME TypeOK, TaskUri, ListInvariant, Creating
    PROVE  ListInvariant'
<1> USE DEF server, history, local
<1>1. PICK n \in {0, 1, 2} : MakeLists(n)
  BY DEF Creating, CreateList, CreateListFails
<1>2. /\ pc \in {"create", "createNext"} /\ UNCHANGED <<misled, known, lookup>>
      /\ pc' = "ended" \/ (task'.did = task.did /\ task'.group = task.group)
  BY DEF Creating, CreateList, CreateListFails, EndsWithException, TypeOK,
         ThreadOK
<1>3. SUFFICES ASSUME ~misled PROVE ListInvariant'
  BY <1>2 DEF ListInvariant
<1>4. /\ Disjoint /\ OnlyRegisteredInUse /\ KnownCoversLists
      /\ LookupIsRegistered /\ TaskIsNew
  BY <1>2, <1>3 DEF ListInvariant, Processing
<1> DEFINE g == task.group
<1>5. g \in Groups /\ lookup[g] = 0
  BY <1>2 DEF TaskUri, TypeOK, ThreadOK
<1>6. /\ made \in Nat /\ made' = made + n /\ made' <= MaxLists
      /\ groupOf \in [ListIds -> Groups]
      /\ UNCHANGED <<archived, members>>
      /\ \A i \in 1 .. made : groupOf'[i] = groupOf[i]
      /\ \A i \in (made + 1) .. made' : groupOf'[i] = g /\ members[i] = {}
  BY <1>1 DEF MakeLists, TypeOK, ServerOK
<1>7. \A i \in 1 .. made' : i \in 1 .. made \/ i \in (made + 1) .. made'
  BY <1>6
<1>8. Disjoint'
  BY <1>4, <1>6, <1>7 DEF Disjoint
<1>9. KnownCoversLists'
  BY <1>2, <1>4, <1>6, <1>7 DEF KnownCoversLists
<1>10. \A h \in Groups : h # g => ActiveLists(h)' = ActiveLists(h)
  BY <1>6, <1>7 DEF ActiveLists
<1>11. \A h \in Groups : h # g => Registered(h)' = Registered(h)
  BY <1>10 DEF Registered
<1>12. \A i \in 1 .. made' : groupOf'[i] = g => i \in archived \/ members[i] = {}
  BY <1>4, <1>5, <1>6, <1>7 DEF LookupIsRegistered
<1>13. OnlyRegisteredInUse'
  <2> SUFFICES ASSUME NEW i \in 1 .. made', i \notin archived, members[i] # {}
               PROVE  i = Registered(groupOf[i])'
    BY <1>6 DEF OnlyRegisteredInUse
  <2>1. i \in 1 .. made /\ groupOf'[i] = groupOf[i] /\ groupOf[i] # g
    BY <1>6, <1>7, <1>12
  <2>2. groupOf[i] \in Groups
    BY <2>1, <1>6 DEF TypeOK, ServerOK
  <2>3. i = Registered(groupOf[i])
    BY <2>1, <1>4 DEF OnlyRegisteredInUse
  <2>4. ActiveLists(groupOf[i])' = ActiveLists(groupOf[i])
    BY <2>1, <2>2, <1>6, <1>10 DEF ActiveLists
  <2> QED BY <2>3, <2>4 DEF Registered
<1>14. LookupIsRegistered'
  <2>1. ASSUME NEW h \in Groups, lookup[h] # 0
        PROVE  /\ groupOf'[lookup[h]] = h
               /\ lookup[h] \in archived \/ lookup[h] = Registered(h)'
    <3>1. h # g /\ lookup[h] \in 1 .. made
      BY <2>1, <1>5, <1>6 DEF TypeOK, ThreadOK
    <3>2. groupOf[lookup[h]] = h
          /\ (lookup[h] \in archived \/ lookup[h] = Registered(h))
      BY <2>1, <1>4 DEF LookupIsRegistered
    <3> QED BY <3>1, <3>2, <1>6, <1>11
  <2>2. \A i \in 1 .. made' :
            i \in archived \/ members[i] = {} \/ i = lookup[groupOf'[i]]
    BY <1>4, <1>6, <1>7 DEF LookupIsRegistered
  <2> QED BY <2>1, <2>2, <1>2, <1>6 DEF LookupIsRegistered
<1>15. pc' = "ended" \/ TaskIsNew'
  BY <1>2, <1>4, <1>6, <1>7 DEF TaskIsNew
<1> QED BY <1>8, <1>9, <1>13, <1>14, <1>15 DEF ListInvariant, Processing

(***************************************************************************)
(* The list that is renamed is the only one in use that holds accounts, so *)
(* that after it none does.                                                *)
(***************************************************************************)
LEMMA ArchivingKeeps ==
    ASSUME TypeOK, TaskUri, ListInvariant, Archiving
    PROVE  ListInvariant'
<1> USE DEF server, history, local
<1>1. CASE GetRecord \/ GetRecordFails
  <2>1. /\ pc = "getRecord" /\ pc' \in {"putRecord", "addItem"}
        /\ UNCHANGED <<server, misled, known, lookup, task>>
    BY <1>1 DEF GetRecord, GetRecordFails
  <2> QED BY <2>1, QuietStep DEF Processing
<1>2. CASE PutRecord \/ PutRecordFails
  <2> DEFINE g == task.group
             uri == task.uri
  <2>1. /\ pc = "putRecord"
        /\ UNCHANGED <<made, groupOf, members, known, task>>
    BY <1>2 DEF PutRecord, PutRecordFails
  <2>2. uri # 0 /\ uri = lookup[g] /\ g \in Groups
    BY <2>1 DEF TaskUri, TypeOK, ThreadOK
  <2>3. /\ ~misled' => ~misled
        /\ ~misled' => archived' \in {archived, archived \cup {uri}}
        /\ \/ lookup' = lookup
           \/ /\ lookup' = [lookup EXCEPT ![g] = 0]
              /\ ~misled' => archived' = archived \cup {uri}
    BY <1>2 DEF PutRecord, PutRecordFails, Rename
  <2>4. SUFFICES ASSUME ~misled' PROVE ListInvariant'
    BY DEF ListInvariant
  <2>5. /\ Disjoint /\ OnlyRegisteredInUse /\ KnownCoversLists
        /\ LookupIsRegistered /\ TaskIsNew
    BY <2>1, <2>3, <2>4 DEF ListInvariant, Processing
  <2>6. Disjoint' /\ KnownCoversLists' /\ TaskIsNew'
    BY <2>1, <2>5 DEF Disjoint, KnownCoversLists, TaskIsNew
  <2>7. uri \in 1 .. made /\ groupOf[uri] = g
    BY <2>2, <2>5 DEF LookupIsRegistered, TypeOK, ThreadOK, ServerOK
  <2>8. CASE archived' = archived
    <3>1. lookup' = lookup \/ uri \in archived
      BY <2>3, <2>4, <2>8
    <3>2. OnlyRegisteredInUse' <=> OnlyRegisteredInUse
      BY <2>1, <2>8 DEF OnlyRegisteredInUse, Registered, ActiveLists
    <3>3. \A h : Registered(h)' = Registered(h)
      BY <2>1, <2>8 DEF Registered, ActiveLists
    <3>4. LookupIsRegistered'
      <4>1. \A h \in Groups : lookup'[h] # 0 => lookup'[h] = lookup[h]
        BY <2>2, <2>3 DEF TypeOK, ThreadOK
      <4>2. \A h \in Groups : lookup'[h] # 0 =>
                /\ groupOf'[lookup'[h]] = h
                /\ lookup'[h] \in archived' \/ lookup'[h] = Registered(h)'
        BY <4>1, <3>3, <2>1, <2>5, <2>8 DEF LookupIsRegistered
      <4>3. \A i \in 1 .. made : i \in archived \/ members[i] = {}
                                 \/ i = lookup'[groupOf[i]]
        <5> SUFFICES ASSUME NEW i \in 1 .. made, i \notin archived,
                            members[i] # {}
                     PROVE  i = lookup'[groupOf[i]]
          OBVIOUS
        <5>1. i = lookup[groupOf[i]]
          BY <2>5 DEF LookupIsRegistered
        <5>2. CASE lookup' = lookup
          BY <5>1, <5>2
        <5>3. CASE uri \in archived
          <6>1. groupOf[i] # g
            BY <5>1, <5>3, <2>2
          <6>2. groupOf[i] \in Groups /\ lookup \in [Groups -> 0 .. made]
            BY DEF TypeOK, ThreadOK, ServerOK
          <6>3. lookup'[groupOf[i]] = lookup[groupOf[i]]
            BY <6>1, <6>2, <2>3
          <6> QED BY <5>1, <6>3
        <5> QED BY <3>1, <5>2, <5>3
      <4> QED BY <4>2, <4>3, <2>1, <2>8 DEF LookupIsRegistered
    <3> QED BY <2>5, <2>6, <3>2, <3>4 DEF ListInvariant
  <2>9. CASE archived' = archived \cup {uri}
    <3>1. \A i \in 1 .. made : groupOf[i] = g =>
              i \in archived' \/ members[i] = {}
      BY <2>2, <2>5, <2>9 DEF LookupIsRegistered
    <3>2. \A h \in Groups : h # g => ActiveLists(h)' = ActiveLists(h)
      BY <2>1, <2>7, <2>9 DEF ActiveLists
    <3>3. OnlyRegisteredInUse'
      <4> SUFFICES ASSUME NEW i \in 1 .. made, i \notin archived',
                          members[i] # {}
                   PROVE  i = Registered(groupOf[i])'
        BY <2>1 DEF OnlyRegisteredInUse
      <4>1. groupOf[i] # g /\ groupOf[i] \in Groups /\ groupOf'[i] = groupOf[i]
        BY <3>1, <2>1 DEF TypeOK, ServerOK
      <4>2. i = Registered(groupOf[i])
        BY <2>5, <2>9 DEF OnlyRegisteredInUse
      <4>3. ActiveLists(groupOf[i])' = ActiveLists(groupOf[i])
        BY <4>1, <3>2, <2>1, <2>7, <2>9 DEF ActiveLists
      <4> QED BY <4>2, <4>3 DEF Registered
    <3>4. LookupIsRegistered'
      <4>1. ASSUME NEW h \in Groups, lookup'[h] # 0
            PROVE  /\ groupOf[lookup'[h]] = h
                   /\ lookup'[h] \in archived' \/ lookup'[h] = Registered(h)'
        <5>1. lookup'[h] = lookup[h]
          BY <4>1, <2>2, <2>3 DEF TypeOK, ThreadOK
        <5>2. groupOf[lookup[h]] = h
              /\ (lookup[h] \in archived \/ lookup[h] = Registered(h))
          BY <4>1, <5>1, <2>5 DEF LookupIsRegistered
        <5>3. CASE h = g
          BY <5>1, <5>2, <5>3, <2>2, <2>9
        <5>4. CASE h # g
          BY <5>1, <5>2, <5>4, <3>2, <2>9 DEF Registered
        <5> QED BY <5>3, <5>4
      <4>2. ASSUME NEW i \in 1 .. made, i \notin archived', members[i] # {}
            PROVE  i = lookup'[groupOf[i]]
        <5>1. groupOf[i] # g /\ groupOf[i] \in Groups
          BY <4>2, <3>1 DEF TypeOK, ServerOK
        <5>2. i = lookup[groupOf[i]]
          BY <4>2, <2>5, <2>9 DEF LookupIsRegistered
        <5> QED BY <5>1, <5>2, <2>3 DEF TypeOK, ThreadOK
      <4> QED BY <4>1, <4>2, <2>1 DEF LookupIsRegistered
    <3> QED BY <2>6, <3>3, <3>4 DEF ListInvariant
  <2> QED BY <2>3, <2>4, <2>8, <2>9
<1> QED BY <1>1, <1>2 DEF Archiving

(***************************************************************************)
(* The account goes into the list the group has in use, and is in no other *)
(* of the group.                                                           *)
(***************************************************************************)
LEMMA AddingKeeps ==
    ASSUME TypeOK, TaskUri, ListInvariant, Adding
    PROVE  ListInvariant'
<1> USE DEF server, history, local
<1>1. /\ pc = "addItem" /\ pc' \in {"wait", "ended"}
      /\ UNCHANGED <<made, groupOf, archived, misled, known, lookup>>
  BY NextItemTyped DEF Adding, AddItem, AddItemFails
<1>2. CASE members' = members
  <2>1. UNCHANGED server
    BY <1>1, <1>2
  <2> QED BY <1>1, <2>1, QuietStep
<1>3. CASE members' # members
  <2> DEFINE g == task.group
             d == task.did
             uri == task.uri
  <2>1. /\ uri # 0 /\ uri = lookup[g] /\ g \in Groups
        /\ members' = [members EXCEPT ![uri] = @ \cup {d}]
    BY <1>1, <1>3 DEF Adding, AddItem, AddItemFails, TaskUri, TypeOK, ThreadOK
  <2>2. SUFFICES ASSUME ~misled PROVE ListInvariant'
    BY <1>1 DEF ListInvariant
  <2>3. /\ Disjoint /\ OnlyRegisteredInUse /\ KnownCoversLists
        /\ LookupIsRegistered /\ TaskIsNew
    BY <1>1, <2>2 DEF ListInvariant, Processing
  <2>4. /\ uri \in 1 .. made /\ uri \in ListIds /\ groupOf[uri] = g
        /\ uri \in archived \/ uri = Registered(g)
        /\ members \in [ListIds -> SUBSET Dids] /\ 1 .. made \subseteq ListIds
    BY <2>1, <2>3 DEF LookupIsRegistered, TypeOK, ThreadOK, ServerOK
  <2>5. /\ members'[uri] = members[uri] \cup {d}
        /\ \A i \in 1 .. made : i # uri => members'[i] = members[i]
    BY <2>1, <2>4
  <2>6. Disjoint'
    <3> SUFFICES ASSUME NEW i \in 1 .. made, NEW j \in 1 .. made, i # j,
                        groupOf[i] = groupOf[j]
                 PROVE  members'[i] \cap members'[j] = {}
      BY <1>1 DEF Disjoint
    <3>1. members[i] \cap members[j] = {}
      BY <2>3 DEF Disjoint
    <3>2. \A k \in 1 .. made : groupOf[k] = g => d \notin members[k]
      BY <2>3 DEF TaskIsNew
    <3>3. CASE i = uri
      BY <3>1, <3>2, <3>3, <2>4, <2>5
    <3>4. CASE j = uri
      BY <3>1, <3>2, <3>4, <2>4, <2>5
    <3>5. CASE i # uri /\ j # uri
      BY <3>1, <3>5, <2>5
    <3> QED BY <3>3, <3>4, <3>5
  <2>7. \A h : Registered(h)' = Registered(h)
    BY <1>1 DEF Registered, ActiveLists
  <2>8. OnlyRegisteredInUse'
    <3> SUFFICES ASSUME NEW i \in 1 .. made, i \notin archived,
                        members'[i] # {}
                 PROVE  i = Registered(groupOf[i])'
      BY <1>1 DEF OnlyRegisteredInUse
    <3>1. i = Registered(groupOf[i])
      BY <2>3, <2>4, <2>5 DEF OnlyRegisteredInUse
    <3> QED BY <3>1, <1>1 DEF Registered, ActiveLists
  <2>9. KnownCoversLists'
    <3>1. d \in known[g]
      BY <2>3 DEF TaskIsNew
    <3> QED BY <1>1, <2>3, <2>4, <2>5, <3>1 DEF KnownCoversLists
  <2>10. LookupIsRegistered'
    <3>1. \A i \in 1 .. made :
              i \in archived \/ members'[i] = {} \/ i = lookup[groupOf[i]]
      BY <2>1, <2>3, <2>4, <2>5 DEF LookupIsRegistered
    <3> QED BY <1>1, <2>3, <2>7, <3>1 DEF LookupIsRegistered
  <2> QED BY <1>1, <2>6, <2>8, <2>9, <2>10 DEF ListInvariant, Processing
<1> QED BY <1>2, <1>3

LEMMA ListInvariantHolds == Spec => []ListInvariant
<1>1. Init => ListInvariant
  <2> SUFFICES ASSUME Init PROVE ListInvariant
    OBVIOUS
  <2>1. /\ pc = "load" /\ made = 1 /\ archived = {}
        /\ \A i \in ListIds : i # 1 => members[i] = {}
    BY DEF Init
  <2>2. Disjoint
    BY <2>1 DEF Disjoint
  <2>3. ActiveLists(groupOf[1]) = {1}
    BY <2>1 DEF ActiveLists
  <2>4. Registered(groupOf[1]) = 1
    BY <2>1, <2>3, RegisteredTyped
  <2>5. OnlyRegisteredInUse
    BY <2>1, <2>4 DEF OnlyRegisteredInUse
  <2> QED BY <2>1, <2>2, <2>5 DEF ListInvariant, Processing
<1>2. TypeOK /\ TaskUri /\ ListInvariant /\ [Next]_vars => ListInvariant'
  <2> SUFFICES ASSUME TypeOK, TaskUri, ListInvariant, [Next]_vars
               PROVE  ListInvariant'
    OBVIOUS
  <2>1. CASE UNCHANGED vars
    BY <2>1 DEF vars, process, server, local, history, ListInvariant, Disjoint,
       OnlyRegisteredInUse, KnownCoversLists, LookupIsRegistered, TaskIsNew,
       Processing, Registered, ActiveLists
  <2>2. CASE Next
    BY <2>2, NextByActor, MainAndProducersKeep, LoadingKeeps, LoopingKeeps,
       CreatingKeeps, ArchivingKeeps, AddingKeeps
  <2> QED BY <2>1, <2>2
<1> QED BY <1>1, <1>2, TypeAndUri, PTL DEF Spec

(***************************************************************************)
(* No account is ever in two lists of a group, for any history of restarts,*)
(* archivals and failed requests, and whichever of two lists with the same *)
(* name the server gives first, unless an empty answer was believed.       *)
(***************************************************************************)
THEOREM NoneListedTwice == Spec => []NeverListedTwice
<1>1. ListInvariant => NeverListedTwice
  BY DEF ListInvariant, NeverListedTwice
<1> QED BY <1>1, ListInvariantHolds, PTL

-----------------------------------------------------------------------------
(***************************************************************************)
(* Refinement: only AddItem changes what a group blocks, by an account     *)
(* that was requested.                                                     *)
(***************************************************************************)
LEMMA TaskRequestedStep ==
    ASSUME TypeOK, TaskRequested, [Next]_vars
    PROVE  TaskRequested'
<1> USE DEF TaskRequested, Processing, history
<1>1. CASE UNCHANGED vars
  BY <1>1 DEF vars, process
<1>2. CASE Main
  BY <1>2 DEF Main, Start, Exit, Crash, ForceStopElsewhere, EndProcess
<1>3. CASE Producers
  <2>1. UNCHANGED <<pc, task>> /\ requested \subseteq requested'
    BY <1>3 DEF Producers, WaitEnqueue, UpdateBlacklist
  <2> QED BY <2>1
<1>4. CASE Loading
  <2>1. pc' \in {"wait", "ended"}
    BY <1>4 DEF Loading, Load, LoadExhausted, LoadFails, EndsWithException
  <2> QED BY <2>1
<1>5. CASE Looping
  <2>1. CASE StopSeen \/ SkipItem
    BY <2>1, NextItemTyped DEF StopSeen, SkipItem
  <2>2. CASE TakeItem
    <3>1. /\ Head(queue) \in requested /\ Head(queue) \in Dids \X Groups
          /\ requested' = requested
      BY <2>2 DEF TakeItem, TypeOK, DemandOK
    <3>2. task'.did = Head(queue)[1] /\ task'.group = Head(queue)[2]
      BY <2>2 DEF TakeItem
    <3>3. <<task'.did, task'.group>> = Head(queue)
      BY <3>1, <3>2
    <3> QED BY <3>1, <3>3
  <2> QED BY <1>5, <2>1, <2>2 DEF Looping
<1>6. CASE Creating
  <2>1. /\ pc \in {"create", "createNext"} /\ requested' = requested
        /\ task'.did = task.did /\ task'.group = task.group
    BY <1>6 DEF Creating, CreateList, CreateListFails, demand, TypeOK, ThreadOK
  <2> QED BY <2>1
<1>7. CASE Archiving
  <2>1. pc \in {"getRecord", "putRecord"} /\ UNCHANGED <<task, requested>>
    BY <1>7 DEF Archiving, GetRecord, GetRecordFails, PutRecord,
       PutRecordFails, demand
  <2> QED BY <2>1
<1>8. CASE Adding
  <2>1. pc' \in {"wait", "ended"}
    BY <1>8, NextItemTyped DEF Adding, AddItem, AddItemFails
  <2> QED BY <2>1
<1> QED BY <1>1, <1>2, <1>3, <1>4, <1>5, <1>6, <1>7, <1>8, NextByActor

\* New lists are empty, and old ones keep the group they have.
LEMMA CreatingKeepsListed ==
    ASSUME TypeOK, Creating
    PROVE  Listed' = Listed
<1>1. PICK n \in {0, 1, 2} : MakeLists(n)
  BY DEF Creating, CreateList, CreateListFails
<1>2. /\ made \in Nat /\ made' = made + n /\ made' <= MaxLists
      /\ members' = members
      /\ \A i \in 1 .. made : groupOf'[i] = groupOf[i]
      /\ \A i \in (made + 1) .. made' : members[i] = {}
  BY <1>1 DEF MakeLists, TypeOK, ServerOK
<1> DEFINE In(g) == UNION {members[i] : i \in {j \in 1 .. made : groupOf[j] = g}}
           InNext(g) ==
               UNION {members[i] : i \in {j \in 1 .. made' : groupOf'[j] = g}}
<1>3. ASSUME NEW g \in Groups PROVE InNext(g) = In(g)
  <2>1. In(g) \subseteq InNext(g)
    BY <1>2
  <2>2. ASSUME NEW d \in InNext(g) PROVE d \in In(g)
    <3>1. PICK i \in 1 .. made' : groupOf'[i] = g /\ d \in members[i]
      BY <2>2
    <3>2. i \in 1 .. made
      BY <3>1, <1>2
    <3> QED BY <3>1, <3>2, <1>2
  <2> QED BY <2>1, <2>2
<1>4. Listed = [g \in Groups |-> In(g)] /\ Listed' = [g \in Groups |-> InNext(g)]
  BY <1>2 DEF Listed
<1> HIDE DEF In, InNext
<1> QED BY <1>3, <1>4

LEMMA LookupInGroupStep ==
    ASSUME TypeOK, LookupInGroup, [Next]_vars
    PROVE  LookupInGroup'
<1> USE DEF LookupInGroup, history, local, server
<1>1. CASE UNCHANGED vars
  BY <1>1 DEF vars, process
<1>2. CASE Main \/ Producers \/ Looping \/ Adding
  <2>1. /\ groupOf' = groupOf
        /\ lookup' \in {lookup, [g \in Groups |-> 0]}
    BY <1>2 DEF Main, Start, Exit, Crash, ForceStopElsewhere, EndProcess,
       Producers, WaitEnqueue, UpdateBlacklist, Looping, StopSeen, SkipItem,
       TakeItem, Adding, AddItem, AddItemFails
  <2> QED BY <2>1
<1>3. CASE Loading
  <2>1. groupOf' = groupOf /\ (lookup' = lookup \/ \E unread : LoadLists(unread))
    BY <1>3 DEF Loading, Load, LoadExhausted, LoadFails
  <2>2. \A g \in Groups : Registered(g) # 0 => groupOf[Registered(g)] = g
    BY RegisteredTyped DEF ActiveLists, TypeOK, ServerOK
  <2> QED BY <2>1, <2>2 DEF LoadLists
<1>4. CASE Creating
  <2>1. PICK n \in {0, 1, 2} : MakeLists(n) /\ lookup' = lookup
    BY <1>4 DEF Creating, CreateList, CreateListFails
  <2>2. \A i \in 1 .. made : groupOf'[i] = groupOf[i]
    BY <2>1 DEF MakeLists, TypeOK, ServerOK
  <2>3. \A g \in Groups : lookup[g] # 0 => lookup[g] \in 1 .. made
    BY DEF TypeOK, ThreadOK, ServerOK
  <2> QED BY <2>1, <2>2, <2>3
<1>5. CASE Archiving
  <2>1. groupOf' = groupOf
        /\ lookup' \in {lookup, [lookup EXCEPT ![task.group] = 0]}
    BY <1>5 DEF Archiving, GetRecord, GetRecordFails, PutRecord, PutRecordFails
  <2> QED BY <2>1 DEF TypeOK, ThreadOK
<1> QED BY <1>1, <1>2, <1>3, <1>4, <1>5, NextByActor

\* What a group blocks when one of its lists gains an account, and when none does.
LEMMA UnionSame ==
    ASSUME NEW S, NEW m, NEW n, \A i \in S : n[i] = m[i]
    PROVE  UNION {n[i] : i \in S} = UNION {m[i] : i \in S}
<1>1. {n[i] : i \in S} = {m[i] : i \in S}
  OBVIOUS
<1> QED BY <1>1

LEMMA UnionAdded ==
    ASSUME NEW S, NEW u \in S, NEW d, NEW m, NEW n,
           n[u] = m[u] \cup {d}, \A i \in S : i # u => n[i] = m[i]
    PROVE  UNION {n[i] : i \in S} = (UNION {m[i] : i \in S}) \cup {d}
<1>1. ASSUME NEW a \in UNION {n[i] : i \in S}
      PROVE  a \in (UNION {m[i] : i \in S}) \cup {d}
  <2>1. PICK i \in S : a \in n[i]
    BY <1>1
  <2>2. a \in m[i] \/ a = d
    BY <2>1
  <2> QED BY <2>2
<1>2. ASSUME NEW a \in (UNION {m[i] : i \in S}) \cup {d}
      PROVE  a \in UNION {n[i] : i \in S}
  <2>1. CASE a = d
    BY <2>1
  <2>2. CASE a # d
    <3>1. PICK i \in S : a \in m[i]
      BY <1>2, <2>2
    <3>2. a \in n[i]
      BY <3>1
    <3> QED BY <3>2
  <2> QED BY <2>1, <2>2
<1> QED BY <1>1, <1>2

LEMMA AddingExtendsListed ==
    ASSUME TypeOK, TaskUri, LookupInGroup, Adding
    PROVE  \/ Listed' = Listed
           \/ Listed' = [Listed EXCEPT ![task.group] = @ \cup {task.did}]
<1> DEFINE g == task.group
           d == task.did
           uri == task.uri
           Of(h) == {j \in 1 .. made : groupOf[j] = h}
           Old(h) == UNION {members[i] : i \in Of(h)}
           New(h) == UNION {members'[i] : i \in Of(h)}
<1>1. UNCHANGED <<made, groupOf>>
  BY DEF Adding, AddItem, AddItemFails, server
<1>2. CASE members' = members
  BY <1>1, <1>2 DEF Listed
<1>3. CASE members' # members
  <2>1. /\ uri # 0 /\ uri = lookup[g] /\ g \in Groups
        /\ members' = [members EXCEPT ![uri] = @ \cup {d}]
    BY <1>3 DEF Adding, AddItem, AddItemFails, TaskUri, TypeOK, ThreadOK, server
  <2>2. /\ uri \in 1 .. made /\ uri \in ListIds /\ groupOf[uri] = g
        /\ members \in [ListIds -> SUBSET Dids] /\ 1 .. made \subseteq ListIds
    BY <2>1 DEF LookupInGroup, TypeOK, ThreadOK, ServerOK
  <2>3. /\ members'[uri] = members[uri] \cup {d}
        /\ \A i \in 1 .. made : i # uri => members'[i] = members[i]
    BY <2>1, <2>2
  <2>4. ASSUME NEW h \in Groups, h # g
        PROVE  New(h) = Old(h)
    <3>1. \A i \in Of(h) : members'[i] = members[i]
      BY <2>2, <2>3, <2>4
    <3> HIDE DEF Of
    <3> QED BY <3>1, UnionSame
  <2>5. New(g) = Old(g) \cup {d}
    <3>1. uri \in Of(g) /\ \A i \in Of(g) : i # uri => members'[i] = members[i]
      BY <2>2, <2>3
    <3> HIDE DEF Of, g, d, uri
    <3> QED BY <3>1, <2>3, UnionAdded
  <2>6. /\ Listed = [h \in Groups |-> Old(h)]
        /\ Listed' = [h \in Groups |-> New(h)]
    BY <1>1 DEF Listed
  <2> HIDE DEF Of, Old, New
  <2> QED BY <2>1, <2>4, <2>5, <2>6
<1> QED BY <1>2, <1>3

LEMMA StepImplementsContract ==
    ASSUME TypeOK, TypeOK', TaskUri, TaskRequested, LookupInGroup, [Next]_vars
    PROVE  [Contract!Next]_<<requested, Listed>>
<1> USE DEF server, history
<1>1. CASE UNCHANGED vars
  BY <1>1 DEF vars, Listed
<1>2. CASE Main \/ Producers \/ Loading \/ Looping \/ Archiving
  <2>1. UNCHANGED <<made, groupOf, members>> /\ requested \subseteq requested'
    BY <1>2 DEF Main, Start, Exit, Crash, ForceStopElsewhere, EndProcess,
       Producers, WaitEnqueue, UpdateBlacklist, Loading, Load, LoadExhausted,
       LoadFails, Looping, StopSeen, SkipItem, TakeItem, Archiving, GetRecord,
       GetRecordFails, PutRecord, PutRecordFails, demand
  <2>2. Listed' = Listed
    BY <2>1 DEF Listed
  <2>3. requested' \in SUBSET (Dids \X Groups)
    BY DEF TypeOK, DemandOK
  <2> QED BY <2>1, <2>2, <2>3 DEF Contract!Request, Contract!Next
<1>3. CASE Creating
  <2>1. requested' = requested
    BY <1>3 DEF Creating, CreateList, CreateListFails, demand
  <2> QED BY <1>3, <2>1, CreatingKeepsListed
<1>4. CASE Adding
  <2>1. requested' = requested /\ <<task.did, task.group>> \in requested
    BY <1>4 DEF Adding, AddItem, AddItemFails, demand, TaskRequested, Processing
  <2>2. CASE Listed' = Listed
    BY <2>1, <2>2
  <2>3. CASE Listed' = [Listed EXCEPT ![task.group] = @ \cup {task.did}]
    <3>1. task.group \in Groups /\ DOMAIN Listed = Groups
      BY DEF TypeOK, ThreadOK, Listed
    <3>2. CASE task.did \in Listed[task.group]
      <4>1. Listed[task.group] \cup {task.did} = Listed[task.group]
        BY <3>2
      <4>2. Listed' = Listed
        BY <4>1, <2>3 DEF Listed
      <4> QED BY <4>2, <2>1
    <3>3. CASE task.did \notin Listed[task.group]
      <4> DEFINE pair == <<task.did, task.group>>
      <4>1. /\ pair \in requested /\ pair[1] \notin Listed[pair[2]]
            /\ Listed' = [Listed EXCEPT ![pair[2]] = @ \cup {pair[1]}]
        BY <2>1, <2>3, <3>3
      <4> HIDE DEF pair
      <4> QED BY <4>1, <2>1 DEF Contract!List, Contract!Next
    <3> QED BY <3>2, <3>3
  <2> QED BY <1>4, <2>2, <2>3, AddingExtendsListed
<1> QED BY <1>1, <1>2, <1>3, <1>4, NextByActor

(***************************************************************************)
(* The lists implement ListContract: nobody is blocked that was not asked  *)
(* for, accounts come one by one, and neither archival nor a restart, nor  *)
(* any failed request, takes one out.                                      *)
(***************************************************************************)
THEOREM ListsImplementContract == Spec => ContractSpec
<1> DEFINE Inv == TypeOK /\ TaskUri /\ TaskRequested /\ LookupInGroup
<1>1. Init => Inv
  BY InitTyped DEF Init, TaskUri, TaskRequested, Processing, LookupInGroup
<1>2. Inv /\ [Next]_vars => Inv'
  BY TypeStep, TaskUriStep, TaskRequestedStep, LookupInGroupStep
<1>3. Inv /\ Inv' /\ [Next]_vars => [Contract!Next]_<<requested, Listed>>
  BY StepImplementsContract
<1>4. Init => Contract!Init
  <2> SUFFICES ASSUME Init PROVE Listed \in [Groups -> SUBSET Dids]
    BY DEF Init, Contract!Init
  <2>1. \A i \in ListIds : members[i] \subseteq Dids
    BY DEF Init
  <2>2. 1 .. made \subseteq ListIds
    BY DEF Init
  <2> QED BY <2>1, <2>2 DEF Listed
<1> HIDE DEF Inv
<1> QED BY <1>1, <1>2, <1>3, <1>4, PTL DEF Spec, ContractSpec, Contract!Spec

-----------------------------------------------------------------------------
(***************************************************************************)
(* The bound on the lists. First the steps that leave the lists alone and  *)
(* put no account on its way into one.                                     *)
(***************************************************************************)
LEMMA MembersFinite ==
    ASSUME TypeOK, NEW i \in ListIds, NEW d \in Dids
    PROVE  /\ IsFiniteSet(members[i]) /\ Cardinality(members[i]) \in Nat
           /\ Cardinality(members[i] \cup {d}) \in Nat
           /\ Cardinality(members[i] \cup {d}) <= Cardinality(members[i]) + 1
<1>1. members[i] \in SUBSET Dids
  BY DEF TypeOK, ServerOK
<1>2. IsFiniteSet(members[i])
  BY <1>1, FS_Subset
<1>3. /\ IsFiniteSet(members[i] \cup {d})
      /\ Cardinality(members[i] \cup {d}) =
            IF d \in members[i] THEN Cardinality(members[i])
                               ELSE Cardinality(members[i]) + 1
  BY <1>2, FS_AddElement
<1>4. Cardinality(members[i]) \in Nat /\ Cardinality(members[i] \cup {d}) \in Nat
  BY <1>2, <1>3, FS_CardinalityType
<1> QED BY <1>2, <1>3, <1>4

LEMMA ListsKeptBounded ==
    ASSUME TypeOK, BoundInvariant, UNCHANGED <<made, members, misled>>,
           stuck' \in {stuck, stuck + 1}
    PROVE  ListsBounded'
<1>1. ASSUME NEW i \in 1 .. made PROVE Cardinality(members[i]) \in Nat
  <2>1. i \in ListIds /\ \E d : d \in Dids
    BY DEF TypeOK, ServerOK
  <2> QED BY <2>1, MembersFinite
<1> QED BY <1>1 DEF BoundInvariant, ListsBounded, TypeOK, DemandOK

LEMMA QuietBounded ==
    ASSUME TypeOK, BoundInvariant, UNCHANGED <<made, members, misled, stuck>>,
           \/ pc' \in {"load", "ended"}
           \/ /\ pc \notin {"load", "ended"}
              /\ UNCHANGED <<lookup, filling>>
              /\ pc' = "wait" \/ (pc' = pc /\ task' = task)
    PROVE  BoundInvariant'
<1>1. ListsBounded'
  BY ListsKeptBounded
<1> QED BY <1>1 DEF BoundInvariant, CountedInFilling, RoomForTask, Room

LEMMA MainAndProducersBounded ==
    ASSUME TypeOK, BoundInvariant, Main \/ Producers
    PROVE  BoundInvariant'
<1>1. CASE Exit \/ Crash
  <2>1. pc' = "load" /\ UNCHANGED <<made, members, misled, stuck>>
    BY <1>1 DEF Exit, Crash, EndProcess, server, history
  <2> QED BY <2>1, QuietBounded
<1>2. CASE Start \/ ForceStopElsewhere \/ Producers
  <2>1. UNCHANGED <<made, members, misled, stuck, pc, lookup, filling, task>>
    BY <1>2 DEF Start, ForceStopElsewhere, Producers, WaitEnqueue,
       UpdateBlacklist, server, local, history
  <2> QED BY <2>1, QuietBounded
<1> QED BY <1>1, <1>2 DEF Main

\* What is loaded of a group counts for the list that it will fill.
LEMMA LoadingBounded ==
    ASSUME TypeOK, BoundInvariant, Loading
    PROVE  BoundInvariant'
<1>1. CASE LoadExhausted
  <2>1. misled' = TRUE
    BY <1>1 DEF LoadExhausted
  <2> QED BY <2>1 DEF BoundInvariant, ListsBounded
<1>2. CASE LoadFails
  <2>1. pc' = "ended" /\ UNCHANGED <<made, members, misled, stuck>>
    BY <1>2 DEF LoadFails, EndsWithException, server, history
  <2> QED BY <2>1, QuietBounded
<1>3. CASE Load
  <2>1. /\ UNCHANGED <<made, members, misled, stuck>>
        /\ LoadLists({}) /\ pc' \in {"wait", "ended"}
    BY <1>3 DEF Load, server, history
  <2>2. ListsBounded'
    BY <2>1, ListsKeptBounded
  <2>3. ASSUME NEW g \in Groups, lookup'[g] # 0
        PROVE  members[lookup'[g]] \subseteq filling'[g]
    <3>1. lookup'[g] = Registered(g) /\ Registered(g) \in ActiveLists(g)
      BY <2>1, <2>3, RegisteredTyped DEF LoadLists, TypeOK, ServerOK
    <3>2. Registered(g) \in (Loaded(g) \ archived) \ {}
      BY <3>1 DEF Loaded, ActiveLists
    <3>3. filling'[g] = UNION {members[i] : i \in (Loaded(g) \ archived) \ {}}
      BY <2>1 DEF LoadLists
    <3> QED BY <3>1, <3>2, <3>3
  <2> QED BY <2>1, <2>2, <2>3 DEF BoundInvariant, CountedInFilling, RoomForTask
<1> QED BY <1>1, <1>2, <1>3 DEF Loading

\* An account goes straight into its list only where it leaves that one short
\* of the maximum, itself included.
LEMMA LoopingBounded ==
    ASSUME TypeOK, BoundInvariant, Looping
    PROVE  BoundInvariant'
<1>1. CASE StopSeen \/ SkipItem
  <2>1. /\ pc = "wait" /\ pc' \in {"wait", "ended"}
        /\ UNCHANGED <<made, members, misled, stuck, lookup, filling>>
    BY <1>1, NextItemTyped DEF StopSeen, SkipItem, server, local, history
  <2> QED BY <2>1, QuietBounded
<1>2. CASE TakeItem
  <2> DEFINE d == Head(queue)[1]
             g == Head(queue)[2]
  <2>1. /\ pc = "wait"
        /\ filling' = [filling EXCEPT ![g] = @ \cup {d}]
        /\ task' = [did |-> d, group |-> g, uri |-> lookup[g]]
        /\ pc' = "addItem" => ~Full(filling'[g])
        /\ UNCHANGED <<made, members, misled, stuck, lookup>>
    BY <1>2, NextItemTyped DEF TakeItem, server, history
  <2>2. d \in Dids /\ g \in Groups /\ filling \in [Groups -> SUBSET Dids]
    <3>1. Head(queue) \in Dids \X Groups
      BY <1>2 DEF TakeItem, TypeOK, DemandOK
    <3> QED BY <3>1 DEF TypeOK, ThreadOK
  <2> HIDE DEF d, g
  <2>3. ListsBounded'
    BY <2>1, ListsKeptBounded
  <2>4. /\ filling' \in [Groups -> SUBSET Dids] /\ d \in filling'[g]
        /\ \A h \in Groups : filling[h] \subseteq filling'[h]
    BY <2>1, <2>2
  <2>5. ~misled => CountedInFilling
    BY <2>1 DEF BoundInvariant
  <2>6. ~misled => CountedInFilling'
    BY <2>1, <2>2, <2>4, <2>5 DEF CountedInFilling
  <2>7. ASSUME ~misled PROVE RoomForTask'
    <3> SUFFICES ASSUME pc' = "addItem", lookup[g] # 0
                 PROVE  Cardinality(members[lookup[g]] \cup {d}) < Room
      BY <2>1 DEF RoomForTask, Room
    <3>1. members[lookup[g]] \cup {d} \in SUBSET filling'[g]
      BY <2>2, <2>4, <2>5, <2>7 DEF CountedInFilling
    <3>2. IsFiniteSet(filling'[g])
      BY <2>2, <2>4, FS_Subset
    <3>3. /\ Cardinality(members[lookup[g]] \cup {d}) <= Cardinality(filling'[g])
          /\ Cardinality(members[lookup[g]] \cup {d}) \in Nat
          /\ Cardinality(filling'[g]) \in Nat
      BY <3>1, <3>2, FS_Subset, FS_CardinalityType
    <3>4. Cardinality(filling'[g]) < MaxItemsInList
      BY <2>1, <3>3 DEF Full
    <3> QED BY <3>3, <3>4 DEF Room, TypeOK, DemandOK
  <2> QED BY <2>1, <2>3, <2>6, <2>7 DEF BoundInvariant
<1> QED BY <1>1, <1>2 DEF Looping

\* New lists are empty, and the account goes nowhere.
LEMMA CreatingBounded ==
    ASSUME TypeOK, BoundInvariant, Creating
    PROVE  BoundInvariant'
<1>1. PICK n \in {0, 1, 2} : MakeLists(n)
  BY DEF Creating, CreateList, CreateListFails
<1>2. /\ made \in Nat /\ made' = made + n /\ made' <= MaxLists
      /\ members' = members /\ \A i \in (made + 1) .. made' : members[i] = {}
  BY <1>1 DEF MakeLists, TypeOK, ServerOK
<1>3. UNCHANGED <<misled, stuck, lookup, filling>>
      /\ pc \notin {"load", "ended"} /\ (pc' = "ended" \/ task'.uri = 0)
  BY DEF Creating, CreateList, CreateListFails, EndsWithException, local,
     history, TypeOK, ThreadOK
<1>4. ListsBounded'
  <2> SUFFICES ASSUME ~misled, NEW i \in 1 .. made'
               PROVE  Cardinality(members[i]) < MaxItemsInList + stuck
    BY <1>2, <1>3 DEF ListsBounded
  <2>1. CASE i \in 1 .. made
    BY <2>1 DEF BoundInvariant, ListsBounded
  <2>2. CASE i \notin 1 .. made
    <3>1. members[i] = {}
      BY <1>2, <2>2
    <3> QED BY <3>1, FS_EmptySet DEF TypeOK, DemandOK
  <2> QED BY <2>1, <2>2
<1> QED BY <1>2, <1>3, <1>4 DEF BoundInvariant, CountedInFilling, RoomForTask

\* A list that could not be archived has room for one more.
LEMMA ArchivingBounded ==
    ASSUME TypeOK, TaskUri, BoundInvariant, Archiving
    PROVE  BoundInvariant'
<1>1. /\ UNCHANGED <<made, members, task>> /\ stuck' \in {stuck, stuck + 1}
      /\ pc \in {"getRecord", "putRecord"}
      /\ task \in [did : Dids, group : Groups, uri : 0 .. made]
  BY DEF Archiving, GetRecord, GetRecordFails, PutRecord, PutRecordFails, server,
     history, TypeOK, ThreadOK
<1>2. misled' = misled \/ misled' = TRUE
  BY DEF Archiving, GetRecord, GetRecordFails, PutRecord, PutRecordFails,
     history
<1>3. CASE misled'
  BY <1>3 DEF BoundInvariant, ListsBounded
<1>4. CASE ~misled'
  <2>0. ~misled /\ misled' = misled
    BY <1>2, <1>4
  <2>1. misled' = misled /\ ListsBounded' /\ CountedInFilling
    BY <1>1, <2>0, ListsKeptBounded DEF BoundInvariant
  <2>2. CASE GetRecord
    <3>1. pc' = "putRecord" /\ UNCHANGED <<lookup, filling>>
      BY <2>2 DEF GetRecord, local
    <3> QED BY <1>1, <2>1, <3>1 DEF BoundInvariant, CountedInFilling, RoomForTask
  <2>3. CASE PutRecord
    <3>1. /\ pc' = "createNext"
          /\ lookup' = [lookup EXCEPT ![task.group] = 0]
          /\ filling' = [filling EXCEPT ![task.group] = {}]
      BY <2>3 DEF PutRecord
    <3>2. \A g \in Groups : lookup'[g] # 0 =>
              lookup'[g] = lookup[g] /\ filling'[g] = filling[g]
      BY <3>1 DEF TypeOK, ThreadOK
    <3> QED BY <1>1, <2>1, <3>1, <3>2 DEF BoundInvariant, CountedInFilling,
          RoomForTask
  <2>4. CASE GetRecordFails \/ PutRecordFails
    <3>1. pc' = "addItem" /\ stuck' = stuck + 1 /\ UNCHANGED <<lookup, filling>>
      BY <2>4 DEF GetRecordFails, PutRecordFails, local
    <3>2. RoomForTask'
      <4> SUFFICES ASSUME task.uri # 0
                   PROVE  Cardinality(members[task.uri] \cup {task.did})
                              < MaxItemsInList + (stuck + 1)
        BY <1>1, <3>1 DEF RoomForTask, Room
      <4>1. task.uri \in 1 .. made /\ task.uri \in ListIds /\ task.did \in Dids
        BY <1>1 DEF TypeOK, ServerOK
      <4>2. Cardinality(members[task.uri]) < MaxItemsInList + stuck
        BY <1>4, <2>1, <4>1 DEF BoundInvariant, ListsBounded
      <4>3. /\ Cardinality(members[task.uri] \cup {task.did})
                   <= Cardinality(members[task.uri]) + 1
            /\ Cardinality(members[task.uri] \cup {task.did}) \in Nat
            /\ Cardinality(members[task.uri]) \in Nat
        BY <4>1, MembersFinite
      <4> QED BY <4>2, <4>3 DEF TypeOK, DemandOK
    <3> QED BY <1>1, <2>1, <3>1, <3>2 DEF BoundInvariant, CountedInFilling
  <2> QED BY <2>2, <2>3, <2>4 DEF Archiving
<1> QED BY <1>3, <1>4

\* The account arrives where there is room for it.
LEMMA AddingBounded ==
    ASSUME TypeOK, TaskUri, LookupInGroup, BoundInvariant, Adding
    PROVE  BoundInvariant'
<1>1. /\ pc = "addItem" /\ pc' \in {"wait", "ended"}
      /\ UNCHANGED <<made, misled, stuck, lookup, filling>>
  BY NextItemTyped DEF Adding, AddItem, AddItemFails, history, local, server
<1>2. CASE members' = members
  BY <1>1, <1>2, QuietBounded
<1>3. CASE members' # members
  <2> DEFINE g == task.group
             uri == task.uri
  <2>1. /\ uri # 0 /\ uri = lookup[g] /\ g \in Groups
        /\ members' = [members EXCEPT ![uri] = @ \cup {task.did}]
    BY <1>1, <1>3 DEF Adding, AddItem, AddItemFails, TaskUri, TypeOK, ThreadOK,
       server
  <2>2. uri \in ListIds /\ members \in [ListIds -> SUBSET Dids]
        /\ 1 .. made \subseteq ListIds
    BY <2>1 DEF TypeOK, ThreadOK, ServerOK
  <2>3. /\ members'[uri] = members[uri] \cup {task.did}
        /\ \A i \in ListIds : i # uri => members'[i] = members[i]
    BY <2>1, <2>2
  <2> HIDE DEF g, uri
  <2>4. SUFFICES ASSUME ~misled PROVE BoundInvariant'
    BY <1>1 DEF BoundInvariant, ListsBounded
  <2>5. ListsBounded /\ CountedInFilling /\ RoomForTask
    BY <1>1, <2>4 DEF BoundInvariant
  <2>6. ListsBounded'
    BY <1>1, <2>1, <2>2, <2>3, <2>4, <2>5 DEF ListsBounded, RoomForTask, Room, uri
  <2>7. ASSUME NEW h \in Groups, lookup[h] # 0
        PROVE  members'[lookup[h]] \subseteq filling[h]
    <3>1. lookup[h] \in ListIds /\ members[lookup[h]] \subseteq filling[h]
      BY <2>5, <2>7 DEF CountedInFilling, TypeOK, ThreadOK, ServerOK
    <3>2. CASE lookup[h] = uri
      <4>1. h = g
        BY <2>1, <2>7, <3>2 DEF LookupInGroup
      <4>2. task.did \in filling[g]
        BY <1>1, <2>1, <2>5 DEF CountedInFilling, g, uri
      <4> QED BY <2>3, <3>1, <3>2, <4>1, <4>2
    <3>3. CASE lookup[h] # uri
      BY <2>3, <3>1, <3>3
    <3> QED BY <3>2, <3>3
  <2> QED BY <1>1, <2>6, <2>7 DEF BoundInvariant, CountedInFilling, RoomForTask
<1> QED BY <1>2, <1>3

\* The lists that an earlier process left are short of the maximum. It is an
\* assumption of the bound only: a process does not look at the size of what
\* it loads until it adds to it, and a list left full by an archival that
\* failed would be one account over the bound from the start.
LeftShort == \A left \in InitialMembers : Cardinality(left) < MaxItemsInList

LEMMA BoundInvariantHolds ==
    ASSUME LeftShort
    PROVE  Spec => []BoundInvariant
<1>1. Init => BoundInvariant /\ LookupInGroup
  <2> SUFFICES ASSUME Init PROVE BoundInvariant /\ LookupInGroup
    OBVIOUS
  <2>1. /\ pc = "load" /\ made = 1 /\ stuck = 0 /\ members[1] \in InitialMembers
        /\ lookup = [g \in Groups |-> 0]
    BY DEF Init
  <2> QED BY <2>1 DEF BoundInvariant, ListsBounded, LookupInGroup, LeftShort
<1>2. /\ TypeOK /\ TaskUri /\ LookupInGroup /\ BoundInvariant
      /\ [Next]_vars
      => BoundInvariant'
  <2> SUFFICES ASSUME TypeOK, TaskUri, LookupInGroup, BoundInvariant, [Next]_vars
               PROVE  BoundInvariant'
    OBVIOUS
  <2>1. CASE UNCHANGED vars
    BY <2>1 DEF vars, process, server, local, history, BoundInvariant,
       ListsBounded, CountedInFilling, RoomForTask, Room
  <2>2. CASE Next
    BY <2>2, NextByActor, MainAndProducersBounded, LoadingBounded,
       LoopingBounded, CreatingBounded, ArchivingBounded, AddingBounded
  <2> QED BY <2>1, <2>2
<1>3. TypeOK /\ LookupInGroup /\ [Next]_vars => LookupInGroup'
  BY LookupInGroupStep
<1> QED BY <1>1, <1>2, <1>3, TypeAndUri, PTL DEF Spec

(***************************************************************************)
(* No list grows past the maximum, but by one account for each archival    *)
(* that failed, if the lists found at first had not done so and no empty   *)
(* answer was believed.                                                    *)
(***************************************************************************)
THEOREM ListsStayBounded ==
    ASSUME LeftShort
    PROVE  Spec => []ListsBounded
<1>1. BoundInvariant => ListsBounded
  BY DEF BoundInvariant
<1> QED BY <1>1, BoundInvariantHolds, PTL

=============================================================================
