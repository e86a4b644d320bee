-------------------------- MODULE ModerationProofs --------------------------
(***************************************************************************)
(* Proofs about the two components that act on moderated accounts: the     *)
(* jobs of db-crawler on the reports of the moderation server              *)
(* (ModerationJobs, for any accounts, filters, settings and any number of  *)
(* reports, failures and restarts), and the rate limits in front of the    *)
(* labels of report_agent (LabelGate, for any number of threads, gates,    *)
(* windows and limits). The two share no state: no lemma of one part is    *)
(* used in the other.                                                      *)
(***************************************************************************)
EXTENDS ModerationJobs, LabelGate, FiniteSetTheorems, SequenceTheorems,
        WellFoundedInduction, TLAPS

-----------------------------------------------------------------------------
(***************************************************************************)
(* Part one: ModerationJobs.                                               *)
(***************************************************************************)

\* The parts of TypeOK.
Database ==
    /\ reports \in [Accounts -> SUBSET Origins]
    /\ open \in [Accounts -> SUBSET Items]
    /\ tags \in [Accounts -> SUBSET SourceTags]
    /\ labelled \subseteq Accounts /\ gone \subseteq Accounts

Process ==
    /\ job \in [pc : {"off", "load", "profiles"} \cup JobNames,
                todo : SUBSET Accounts, subject : SUBSET Accounts]
    /\ job.subject \subseteq job.todo
    /\ \A a, b \in job.subject : a = b

CopiesOfReports ==
    /\ pending \in [Accounts -> SUBSET Items]
    /\ noted \in [Accounts -> SUBSET SourceTags]
    /\ \A a \in Accounts : noted[a] # {} => "account" \in pending[a]

OtherCopies ==
    /\ reporters \in [Accounts -> SUBSET Origins]
    /\ profiles \subseteq Accounts /\ filtered \subseteq Accounts
    /\ scrubbed \subseteq Accounts /\ wasGone \subseteq Accounts

Bounds == count \in 0 .. MaxEvents /\ failed \subseteq {"query", "read", "write"}

\* Only two of the jobs work on an account in two steps.
Subjects == job.subject # {} => job.pc \in {"scrub", "label"}

\* What the process knows in each phase. Reports are never taken back, so
\* that the copy of the reporters stays right as far as it goes.
Phases ==
    /\ job.pc \in {"off", "load"} => NoCopies
    /\ job.pc \in {"profiles", "scrub"} => reporters = Nobody
    /\ \A a \in Accounts : reporters[a] \subseteq reports[a]

\* Nobody else changes the tags: those read are those that are there until
\* the second job comes to the account, and then they are as they should be.
TagsRead ==
    /\ job.pc \in {"profiles", "scrub"} =>
          \A a \in Accounts : "account" \in pending[a] => noted[a] = tags[a]
    /\ job.pc = "tag" => \A a \in job.todo : noted[a] = tags[a]

TagsSet ==
    job.pc \in {"tag", "acknowledge", "label"} /\ failed = {} =>
        \A a \in profiles :
           \/ job.pc = "tag" /\ a \in job.todo
           \/ "account" \notin pending[a]
           \/ reporters[a] = {}
           \/ tags[a] = TagOf(reporters[a])

TagsRight ==
    \A a \in Accounts :
       /\ \A tag \in tags[a] : TagJustified(a, tag)
       /\ \A s, t \in tags[a] : s = t

\* An account is doomed because it was gone, or because of a failure.
Doomed ==
    /\ gone \subseteq wasGone
    /\ job.pc = "scrub" => job.subject \subseteq wasGone \/ "read" \in failed

Parts ==
    /\ Database /\ Process /\ CopiesOfReports /\ OtherCopies /\ Bounds
    /\ Subjects /\ Phases /\ TagsRead /\ TagsSet /\ TagsRight
    /\ Doomed /\ ScrubbedWereGone

-----------------------------------------------------------------------------
\* The invariant is TypeOK and the two properties, strengthened.
LEMMA PartsSuffice == Parts => TypeOK /\ TagsTruthful /\ ScrubbedWereGone
<1>1. ASSUME Parts PROVE TypeOK
  BY <1>1 DEF Parts, TypeOK, Database, Process, CopiesOfReports, OtherCopies, Bounds
<1>2. ASSUME Parts PROVE TagsTruthful
  BY <1>2 DEF Parts, TagsTruthful, TagsRight, TagsSet
<1>. QED BY <1>1, <1>2 DEF Parts

\* The tags for a set of origins: one at most, and one that they justify.
LEMMA OneTag ==
  ASSUME NEW origins \in SUBSET Origins
  PROVE  /\ TagOf(origins) \subseteq SourceTags
         /\ \A s, t \in TagOf(origins) : s = t
         /\ \A tag \in TagOf(origins) :
               /\ tag \in {"src:auto", "src:both"} => "auto" \in origins
               /\ tag \in {"src:manual", "src:both"} => "manual" \in origins
  BY DEF TagOf, SourceTags, Origins

\* The invariant holds when the process starts for the first time.
LEMMA InitParts == ASSUME Init PROVE Parts
<1>1. Database
  BY JobsAssumption DEF Init, NoCopies, Nobody, Idle, TagJustified,
    Database, Origins, Items, SourceTags
<1>2. Process
  BY DEF Init, NoCopies, Nobody, Idle, TagJustified, Process, JobNames
<1>3. CopiesOfReports
  BY DEF Init, NoCopies, Nobody, Idle, TagJustified, CopiesOfReports,
    Database, Items, SourceTags
<1>4. OtherCopies
  BY DEF Init, NoCopies, Nobody, Idle, TagJustified, OtherCopies, Origins,
    Database
<1>5. Bounds
  BY JobsAssumption DEF Init, NoCopies, Nobody, Idle, TagJustified, Bounds
<1>6. Subjects
  BY DEF Init, NoCopies, Nobody, Idle, TagJustified, Subjects, Process
<1>7. Phases
  BY DEF Init, NoCopies, Nobody, Idle, TagJustified, Phases, Database,
    OtherCopies, Process
<1>8. TagsRead
  BY DEF Init, NoCopies, Nobody, Idle, TagJustified, TagsRead, Database,
    CopiesOfReports, Process, Phases, Subjects
<1>9. TagsSet
  BY DEF Init, NoCopies, Nobody, Idle, TagJustified, TagsSet, TagsRead,
    Phases, Process, Database, CopiesOfReports, OtherCopies, Bounds
<1>10. TagsRight
  BY DEF Init, NoCopies, Nobody, Idle, TagJustified, TagsRight, Database,
    Phases
<1>11. Doomed
  BY DEF Init, NoCopies, Nobody, Idle, TagJustified, Doomed, Process,
    Subjects, Database
<1>12. ScrubbedWereGone
  BY DEF Init, NoCopies, Nobody, Idle, TagJustified, ScrubbedWereGone,
    Doomed, OtherCopies, Database
<1>. QED BY <1>1, <1>2, <1>3, <1>4, <1>5, <1>6, <1>7, <1>8, <1>9, <1>10, <1>11, <1>12
  DEF Parts

-----------------------------------------------------------------------------
(***************************************************************************)
(* What happens around the process.                                        *)
(***************************************************************************)
\* Reports are only added.
LEMMA ReportStep ==
  ASSUME Parts, NEW a \in Accounts, NewReport(a)
  PROVE  Parts'
<1>1. Process' /\ CopiesOfReports' /\ OtherCopies' /\ Subjects'
  BY DEF Parts, Process, CopiesOfReports, OtherCopies, Subjects, NoCopies,
    TagJustified, NewReport, Event, database, copies, bounds
<1>2. TagsRead' /\ TagsSet' /\ Doomed' /\ ScrubbedWereGone'
  BY DEF Parts, TagsRead, TagsSet, Doomed, ScrubbedWereGone, NoCopies,
    TagJustified, NewReport, Event, database, copies, bounds
<1>3. Database'
  BY DEF Parts, Database, Origins, Items, SourceTags, NewReport, Event,
    database, copies, bounds
<1>4. Bounds'
  BY JobsAssumption DEF Parts, Bounds, NewReport, Event, database, copies,
    bounds
<1>5. Phases'
  BY DEF Parts, Phases, NoCopies, Nobody, Database, OtherCopies, Process,
    NewReport, Event, database, copies, bounds
<1>6. TagsRight'
  BY DEF Parts, TagsRight, TagJustified, Database, Phases, NewReport, Event,
    database, copies, bounds
<1>. QED BY <1>1, <1>2, <1>3, <1>4, <1>5, <1>6 DEF Parts

\* A closed review disturbs no copy.
LEMMA CloseStep ==
  ASSUME Parts, NEW a \in Accounts, ModeratorCloses(a)
  PROVE  Parts'
<1>1. Process' /\ CopiesOfReports' /\ OtherCopies' /\ Subjects'
  BY DEF Parts, Process, CopiesOfReports, OtherCopies, Subjects, NoCopies,
    TagJustified, ModeratorCloses, Event, database, copies, bounds
<1>2. Phases' /\ TagsRead' /\ TagsSet' /\ TagsRight'
  BY DEF Parts, Phases, TagsRead, TagsSet, TagsRight, NoCopies,
    TagJustified, ModeratorCloses, Event, database, copies, bounds
<1>3. Doomed' /\ ScrubbedWereGone'
  BY DEF Parts, Doomed, ScrubbedWereGone, NoCopies, TagJustified,
    ModeratorCloses, Event, database, copies, bounds
<1>4. Database'
  BY DEF Parts, Database, Origins, Items, SourceTags, ModeratorCloses,
    Event, database, copies, bounds
<1>5. Bounds'
  BY JobsAssumption DEF Parts, Bounds, ModeratorCloses, Event, database,
    copies, bounds
<1>. QED BY <1>1, <1>2, <1>3, <1>4, <1>5 DEF Parts

\* Who was gone stays in the history.
LEMMA GoesStep ==
  ASSUME Parts, NEW a \in Accounts, GoesOrReturns(a)
  PROVE  Parts'
<1>1. Process' /\ CopiesOfReports' /\ Subjects' /\ Phases'
  BY DEF Parts, Process, CopiesOfReports, Subjects, Phases, NoCopies,
    TagJustified, GoesOrReturns, Event, database, copies, bounds
<1>2. TagsRead' /\ TagsSet' /\ TagsRight'
  BY DEF Parts, TagsRead, TagsSet, TagsRight, NoCopies, TagJustified,
    GoesOrReturns, Event, database, copies, bounds
<1>3. Database'
  BY DEF Parts, Database, Origins, Items, SourceTags, GoesOrReturns, Event,
    database, copies, bounds
<1>4. OtherCopies'
  BY DEF Parts, OtherCopies, Origins, Nobody, Database, GoesOrReturns,
    Event, database, copies, bounds
<1>5. Bounds'
  BY JobsAssumption DEF Parts, Bounds, GoesOrReturns, Event, database,
    copies, bounds
<1>6. Doomed'
  BY DEF Parts, Doomed, Process, Subjects, Database, GoesOrReturns, Event,
    database, copies, bounds
<1>7. ScrubbedWereGone'
  BY DEF Parts, ScrubbedWereGone, Doomed, OtherCopies, Database,
    GoesOrReturns, Event, database, copies, bounds
<1>. QED BY <1>1, <1>2, <1>3, <1>4, <1>5, <1>6, <1>7 DEF Parts

-----------------------------------------------------------------------------
(***************************************************************************)
(* The process begins and ends, with its copies.                           *)
(***************************************************************************)
\* A process starts without copies.
LEMMA StartStep ==
  ASSUME Parts, Start
  PROVE  Parts'
<1>1. Database' /\ CopiesOfReports' /\ OtherCopies' /\ TagsRight'
  BY DEF Parts, Database, CopiesOfReports, OtherCopies, TagsRight, NoCopies,
    TagJustified, Start, Event, Idle, database, copies, bounds
<1>2. ScrubbedWereGone'
  BY DEF Parts, ScrubbedWereGone, NoCopies, TagJustified, Start, Event,
    Idle, database, copies, bounds
<1>3. Process'
  BY DEF Parts, Process, JobNames, Start, Event, Idle, database, copies,
    bounds
<1>4. Bounds'
  BY JobsAssumption DEF Parts, Bounds, Start, Event, Idle, database, copies,
    bounds
<1>5. Subjects'
  BY DEF Parts, Subjects, Process, Start, Event, Idle, database, copies,
    bounds
<1>6. Phases'
  BY DEF Parts, Phases, NoCopies, Nobody, Database, OtherCopies, Process,
    Start, Event, Idle, database, copies, bounds
<1>7. TagsRead'
  BY DEF Parts, TagsRead, Database, CopiesOfReports, Process, Phases,
    NoCopies, Nobody, Subjects, Start, Event, Idle, database, copies, bounds
<1>8. TagsSet'
  BY DEF Parts, TagsSet, TagsRead, Phases, Nobody, Process, Database,
    CopiesOfReports, OtherCopies, Bounds, Start, Event, Idle, database,
    copies, bounds
<1>9. Doomed'
  BY DEF Parts, Doomed, Process, Subjects, Database, Start, Event, Idle,
    database, copies, bounds
<1>. QED BY <1>1, <1>2, <1>3, <1>4, <1>5, <1>6, <1>7, <1>8, <1>9 DEF Parts

\* A process that ends in any way leaves no copies.
LEMMA CrashStep ==
  ASSUME Parts, Crash
  PROVE  Parts'
<1>1. Database' /\ TagsRight' /\ ScrubbedWereGone'
  BY DEF Parts, Database, TagsRight, ScrubbedWereGone, NoCopies,
    TagJustified, Crash, End, Event, Idle, database, copies, bounds
<1>2. Process'
  BY DEF Parts, Process, JobNames, Crash, End, Event, Idle, database,
    copies, bounds
<1>3. CopiesOfReports'
  BY DEF Parts, CopiesOfReports, Database, Items, SourceTags, Nobody, Crash,
    End, Event, Idle, database, copies, bounds
<1>4. OtherCopies'
  BY DEF Parts, OtherCopies, Origins, Nobody, Database, Crash, End, Event,
    Idle, database, copies, bounds
<1>5. Bounds'
  BY JobsAssumption DEF Parts, Bounds, Crash, End, Event, Idle, database,
    copies, bounds
<1>6. Subjects'
  BY DEF Parts, Subjects, Process, Crash, End, Event, Idle, database,
    copies, bounds
<1>7. Phases'
  BY DEF Parts, Phases, NoCopies, Nobody, Database, OtherCopies, Process,
    Crash, End, Event, Idle, database, copies, bounds
<1>8. TagsRead'
  BY DEF Parts, TagsRead, Database, CopiesOfReports, Process, Phases,
    NoCopies, Nobody, Subjects, Crash, End, Event, Idle, database, copies,
    bounds
<1>9. TagsSet'
  BY DEF Parts, TagsSet, TagsRead, Phases, Nobody, Process, Database,
    CopiesOfReports, OtherCopies, Bounds, Crash, End, Event, Idle, database,
    copies, bounds
<1>10. Doomed'
  BY DEF Parts, Doomed, Process, Subjects, Database, Crash, End, Event,
    Idle, database, copies, bounds
<1>. QED BY <1>1, <1>2, <1>3, <1>4, <1>5, <1>6, <1>7, <1>8, <1>9, <1>10 DEF
  Parts

\* The same after an exception.
LEMMA ProfilesFailStep ==
  ASSUME Parts, ProfilesFail
  PROVE  Parts'
<1>1. Database' /\ TagsRight'
  BY DEF Parts, Database, TagsRight, NoCopies, TagJustified, ProfilesFail,
    End, Failure, Idle, database, copies, bounds
<1>2. Process'
  BY DEF Parts, Process, JobNames, ProfilesFail, End, Failure, Idle,
    database, copies, bounds
<1>3. CopiesOfReports'
  BY DEF Parts, CopiesOfReports, Database, Items, SourceTags, Nobody,
    ProfilesFail, End, Failure, Idle, database, copies, bounds
<1>4. OtherCopies'
  BY DEF Parts, OtherCopies, Origins, Nobody, Database, ProfilesFail, End,
    Failure, Idle, database, copies, bounds
<1>5. Bounds'
  BY JobsAssumption DEF Parts, Bounds, ProfilesFail, End, Failure, Idle,
    database, copies, bounds
<1>6. Subjects'
  BY DEF Parts, Subjects, Process, ProfilesFail, End, Failure, Idle,
    database, copies, bounds
<1>7. Phases'
  BY DEF Parts, Phases, NoCopies, Nobody, Database, OtherCopies, Process,
    ProfilesFail, End, Failure, Idle, database, copies, bounds
<1>8. TagsRead'
  BY DEF Parts, TagsRead, Database, CopiesOfReports, Process, Phases,
    NoCopies, Nobody, Subjects, ProfilesFail, End, Failure, Idle, database,
    copies, bounds
<1>9. TagsSet'
  BY DEF Parts, TagsSet, TagsRead, Phases, Nobody, Process, Database,
    CopiesOfReports, OtherCopies, Bounds, ProfilesFail, End, Failure, Idle,
    database, copies, bounds
<1>10. Doomed'
  BY DEF Parts, Doomed, Process, Subjects, Database, ProfilesFail, End,
    Failure, Idle, database, copies, bounds
<1>11. ScrubbedWereGone'
  BY DEF Parts, ScrubbedWereGone, Doomed, OtherCopies, Database,
    ProfilesFail, End, Failure, Idle, database, copies, bounds
<1>. QED BY <1>1, <1>2, <1>3, <1>4, <1>5, <1>6, <1>7, <1>8, <1>9, <1>10, <1>11
  DEF Parts

\* The same after the last job.
LEMMA FinishStep ==
  ASSUME Parts, Finish
  PROVE  Parts'
<1>1. Database' /\ Bounds' /\ TagsRight' /\ ScrubbedWereGone'
  BY DEF Parts, Database, Bounds, TagsRight, ScrubbedWereGone, NoCopies,
    TagJustified, Finish, End, Idle, database, copies, bounds
<1>2. Process'
  BY DEF Parts, Process, JobNames, Finish, End, Idle, database, copies,
    bounds
<1>3. CopiesOfReports'
  BY DEF Parts, CopiesOfReports, Database, Items, SourceTags, Nobody,
    Finish, End, Idle, database, copies, bounds
<1>4. OtherCopies'
  BY DEF Parts, OtherCopies, Origins, Nobody, Database, Finish, End, Idle,
    database, copies, bounds
<1>5. Subjects'
  BY DEF Parts, Subjects, Process, Finish, End, Idle, database, copies,
    bounds
<1>6. Phases'
  BY DEF Parts, Phases, NoCopies, Nobody, Database, OtherCopies, Process,
    Finish, End, Idle, database, copies, bounds
<1>7. TagsRead'
  BY DEF Parts, TagsRead, Database, CopiesOfReports, Process, Phases,
    NoCopies, Nobody, Subjects, Finish, End, Idle, database, copies, bounds
<1>8. TagsSet'
  BY DEF Parts, TagsSet, TagsRead, Phases, Nobody, Process, Database,
    CopiesOfReports, OtherCopies, Bounds, Finish, End, Idle, database, copies,
    bounds
<1>9. Doomed'
  BY DEF Parts, Doomed, Process, Subjects, Database, Finish, End, Idle,
    database, copies, bounds
<1>. QED BY <1>1, <1>2, <1>3, <1>4, <1>5, <1>6, <1>7, <1>8, <1>9 DEF Parts

-----------------------------------------------------------------------------
(***************************************************************************)
(* The copies of the reports and of the profiles.                          *)
(***************************************************************************)
\* The tags read are the tags that are there.
LEMMA LoadStep ==
  ASSUME Parts, LoadPending
  PROVE  Parts'
<1>1. Database' /\ OtherCopies' /\ Bounds' /\ TagsRight'
  BY DEF Parts, Database, OtherCopies, Bounds, TagsRight, NoCopies,
    TagJustified, LoadPending, Begin, database, copies, bounds
<1>2. ScrubbedWereGone'
  BY DEF Parts, ScrubbedWereGone, NoCopies, TagJustified, LoadPending,
    Begin, database, copies, bounds
<1>3. Process'
  BY DEF Parts, Process, JobNames, LoadPending, Begin, database, copies,
    bounds
<1>4. CopiesOfReports'
  BY DEF Parts, CopiesOfReports, Database, Items, SourceTags, Nobody,
    LoadPending, Begin, database, copies, bounds
<1>5. Subjects'
  BY DEF Parts, Subjects, Process, LoadPending, Begin, database, copies,
    bounds
<1>6. Phases'
  BY DEF Parts, Phases, NoCopies, Nobody, Database, OtherCopies, Process,
    LoadPending, Begin, database, copies, bounds
<1>7. TagsRead'
  BY DEF Parts, TagsRead, Database, CopiesOfReports, Process, Phases,
    NoCopies, Nobody, Subjects, LoadPending, Begin, database, copies, bounds
<1>8. TagsSet'
  BY DEF Parts, TagsSet, TagsRead, Phases, Nobody, Process, Database,
    CopiesOfReports, OtherCopies, Bounds, LoadPending, Begin, database,
    copies, bounds
<1>9. Doomed'
  BY DEF Parts, Doomed, Process, Subjects, Database, LoadPending, Begin,
    database, copies, bounds
<1>. QED BY <1>1, <1>2, <1>3, <1>4, <1>5, <1>6, <1>7, <1>8, <1>9 DEF Parts

\* A query that fails leaves empty copies.
LEMMA LoadFailsStep ==
  ASSUME Parts, LoadPendingFails
  PROVE  Parts'
<1>1. Database' /\ CopiesOfReports' /\ OtherCopies' /\ TagsRight'
  BY DEF Parts, Database, CopiesOfReports, OtherCopies, TagsRight, NoCopies,
    TagJustified, LoadPendingFails, Begin, Failure, database, copies, bounds
<1>2. Process'
  BY DEF Parts, Process, JobNames, LoadPendingFails, Begin, Failure,
    database, copies, bounds
<1>3. Bounds'
  BY JobsAssumption DEF Parts, Bounds, LoadPendingFails, Begin, Failure,
    database, copies, bounds
<1>4. Subjects'
  BY DEF Parts, Subjects, Process, LoadPendingFails, Begin, Failure,
    database, copies, bounds
<1>5. Phases'
  BY DEF Parts, Phases, NoCopies, Nobody, Database, OtherCopies, Process,
    LoadPendingFails, Begin, Failure, database, copies, bounds
<1>6. TagsRead'
  BY DEF Parts, TagsRead, Database, CopiesOfReports, Process, Phases,
    NoCopies, Nobody, Subjects, LoadPendingFails, Begin, Failure, database,
    copies, bounds
<1>7. TagsSet'
  BY DEF Parts, TagsSet, TagsRead, Phases, Nobody, Process, Database,
    CopiesOfReports, OtherCopies, Bounds, LoadPendingFails, Begin, Failure,
    database, copies, bounds
<1>8. Doomed'
  BY DEF Parts, Doomed, Process, Subjects, Database, LoadPendingFails,
    Begin, Failure, database, copies, bounds
<1>9. ScrubbedWereGone'
  BY DEF Parts, ScrubbedWereGone, Doomed, OtherCopies, Database,
    LoadPendingFails, Begin, Failure, database, copies, bounds
<1>. QED BY <1>1, <1>2, <1>3, <1>4, <1>5, <1>6, <1>7, <1>8, <1>9 DEF Parts

\* Profiles are added.
LEMMA AskStep ==
  ASSUME Parts, AskProfiles
  PROVE  Parts'
<1>1. Database' /\ CopiesOfReports' /\ Bounds' /\ TagsRight'
  BY DEF Parts, Database, CopiesOfReports, Bounds, TagsRight, NoCopies,
    TagJustified, AskProfiles, Batches, database, copies, bounds
<1>2. ScrubbedWereGone'
  BY DEF Parts, ScrubbedWereGone, NoCopies, TagJustified, AskProfiles,
    Batches, database, copies, bounds
<1>3. Process'
  <2>1. PICK batch \in SUBSET job.todo : job' = [job EXCEPT !.todo = @ \ batch]
    BY DEF AskProfiles, Batches
  <2>2. job.subject = {}
    BY DEF Parts, Subjects, AskProfiles, AskProfilesUnheard
  <2>. QED BY <2>1, <2>2 DEF Parts, Process
<1>4. OtherCopies'
  <2>1. PICK batch \in SUBSET job.todo : profiles' = profiles \cup (batch \ gone)
    BY DEF AskProfiles, Batches
  <2>2. job.todo \subseteq Accounts
    BY DEF Parts, Process
  <2>3. UNCHANGED <<reporters, filtered, scrubbed, wasGone>>
    BY DEF AskProfiles
  <2>. QED BY <2>1, <2>2, <2>3 DEF Parts, OtherCopies
<1>5. Subjects'
  BY DEF Parts, Subjects, Process, AskProfiles, Batches, database, copies,
    bounds
<1>6. Phases'
  BY DEF Parts, Phases, NoCopies, Nobody, Database, OtherCopies, Process,
    AskProfiles, Batches, database, copies, bounds
<1>7. TagsRead'
  BY DEF Parts, TagsRead, Database, CopiesOfReports, Process, Phases,
    NoCopies, Nobody, Subjects, AskProfiles, Batches, database, copies, bounds
<1>8. TagsSet'
  BY DEF Parts, TagsSet, TagsRead, Phases, Nobody, Process, Database,
    CopiesOfReports, OtherCopies, Bounds, AskProfiles, Batches, database,
    copies, bounds
<1>9. Doomed'
  BY DEF Parts, Doomed, Process, Subjects, Database, AskProfiles, Batches,
    database, copies, bounds
<1>. QED BY <1>1, <1>2, <1>3, <1>4, <1>5, <1>6, <1>7, <1>8, <1>9 DEF Parts

\* A batch is passed over.
LEMMA AskUnheardStep ==
  ASSUME Parts, AskProfilesUnheard
  PROVE  Parts'
<1>1. Database' /\ CopiesOfReports' /\ OtherCopies' /\ TagsRight'
  BY DEF Parts, Database, CopiesOfReports, OtherCopies, TagsRight, NoCopies,
    TagJustified, AskProfilesUnheard, Batches, Failure, database, copies,
    bounds
<1>2. Process'
  <2>1. PICK batch \in SUBSET job.todo : job' = [job EXCEPT !.todo = @ \ batch]
    BY DEF AskProfilesUnheard, Batches
  <2>2. job.subject = {}
    BY DEF Parts, Subjects, AskProfiles, AskProfilesUnheard
  <2>. QED BY <2>1, <2>2 DEF Parts, Process
<1>3. Bounds'
  BY JobsAssumption DEF Parts, Bounds, AskProfilesUnheard, Batches, Failure,
    database, copies, bounds
<1>4. Subjects'
  BY DEF Parts, Subjects, Process, AskProfilesUnheard, Batches, Failure,
    database, copies, bounds
<1>5. Phases'
  BY DEF Parts, Phases, NoCopies, Nobody, Database, OtherCopies, Process,
    AskProfilesUnheard, Batches, Failure, database, copies, bounds
<1>6. TagsRead'
  BY DEF Parts, TagsRead, Database, CopiesOfReports, Process, Phases,
    NoCopies, Nobody, Subjects, AskProfilesUnheard, Batches, Failure,
    database, copies, bounds
<1>7. TagsSet'
  BY DEF Parts, TagsSet, TagsRead, Phases, Nobody, Process, Database,
    CopiesOfReports, OtherCopies, Bounds, AskProfilesUnheard, Batches,
    Failure, database, copies, bounds
<1>8. Doomed'
  BY DEF Parts, Doomed, Process, Subjects, Database, AskProfilesUnheard,
    Batches, Failure, database, copies, bounds
<1>9. ScrubbedWereGone'
  BY DEF Parts, ScrubbedWereGone, Doomed, OtherCopies, Database,
    AskProfilesUnheard, Batches, Failure, database, copies, bounds
<1>. QED BY <1>1, <1>2, <1>3, <1>4, <1>5, <1>6, <1>7, <1>8, <1>9 DEF Parts

-----------------------------------------------------------------------------
(***************************************************************************)
(* The first job.                                                          *)
(***************************************************************************)
\* The job starts with nobody doomed.
LEMMA StartScrubStep ==
  ASSUME Parts, StartScrub
  PROVE  Parts'
<1>1. Database' /\ CopiesOfReports' /\ OtherCopies' /\ Bounds'
  BY DEF Parts, Database, CopiesOfReports, OtherCopies, Bounds, NoCopies,
    TagJustified, StartScrub, Begin, Known, database, copies, bounds
<1>2. TagsRight' /\ ScrubbedWereGone'
  BY DEF Parts, TagsRight, ScrubbedWereGone, NoCopies, TagJustified,
    StartScrub, Begin, Known, database, copies, bounds
<1>3. Process'
  BY DEF Parts, Process, JobNames, StartScrub, Begin, Known, database,
    copies, bounds
<1>4. Subjects'
  BY DEF Parts, Subjects, Process, StartScrub, Begin, Known, database,
    copies, bounds
<1>5. Phases'
  BY DEF Parts, Phases, NoCopies, Nobody, Database, OtherCopies, Process,
    StartScrub, Begin, Known, database, copies, bounds
<1>6. TagsRead'
  BY DEF Parts, TagsRead, Database, CopiesOfReports, Process, Phases,
    NoCopies, Nobody, Subjects, StartScrub, Begin, Known, database, copies,
    bounds
<1>7. TagsSet'
  BY DEF Parts, TagsSet, TagsRead, Phases, Nobody, Process, Database,
    CopiesOfReports, OtherCopies, Bounds, StartScrub, Begin, Known, database,
    copies, bounds
<1>8. Doomed'
  BY DEF Parts, Doomed, Process, Subjects, Database, StartScrub, Begin,
    Known, database, copies, bounds
<1>. QED BY <1>1, <1>2, <1>3, <1>4, <1>5, <1>6, <1>7, <1>8 DEF Parts

\* Only an account that is gone is doomed.
LEMMA DoubleCheckStep ==
  ASSUME Parts, NEW a \in Accounts, DoubleCheck(a)
  PROVE  Parts'
<1>1. Database' /\ CopiesOfReports' /\ OtherCopies' /\ Bounds'
  BY DEF Parts, Database, CopiesOfReports, OtherCopies, Bounds, NoCopies,
    TagJustified, DoubleCheck, Doom, Done, Scrubbing, database, copies, bounds
<1>2. TagsRight' /\ ScrubbedWereGone'
  BY DEF Parts, TagsRight, ScrubbedWereGone, NoCopies, TagJustified,
    DoubleCheck, Doom, Done, Scrubbing, database, copies, bounds
<1>3. Process'
  <2>1. \/ job' = [job EXCEPT !.subject = {a}]
        \/ job' = [job EXCEPT !.todo = @ \ {a}, !.subject = {}]
    BY DEF DoubleCheck, Doom, Done
  <2>2. a \in job.todo
    BY DEF DoubleCheck, Scrubbing
  <2>. QED BY <2>1, <2>2 DEF Parts, Process
<1>4. Subjects'
  BY DEF Parts, Subjects, Process, DoubleCheck, Doom, Done, Scrubbing,
    database, copies, bounds
<1>5. Phases'
  BY ZenonT(30) DEF Parts, Phases, NoCopies, Nobody, Database, OtherCopies, Process,
    DoubleCheck, Doom, Done, Scrubbing, database, copies, bounds
<1>6. TagsRead'
  <2>1. job.pc = "scrub" /\ job'.pc = "scrub"
    BY DEF Parts, Process, DoubleCheck, Scrubbing, Doom, Done
  <2>2. UNCHANGED <<pending, noted, tags>>
    BY DEF DoubleCheck, copies, database
  <2>. QED BY <2>1, <2>2 DEF Parts, TagsRead
<1>7. TagsSet'
  BY DEF Parts, TagsSet, TagsRead, Phases, Nobody, Process, Database,
    CopiesOfReports, OtherCopies, Bounds, DoubleCheck, Doom, Done, Scrubbing,
    database, copies, bounds
<1>8. Doomed'
  <2>1. CASE a \in gone
    <3>1. job'.subject \in {{a}, {}}
      BY <2>1 DEF Parts, Process, DoubleCheck, Doom, Done
    <3>. QED BY <2>1, <3>1 DEF Parts, Doomed, DoubleCheck
  <2>2. CASE a \notin gone
    <3>1. job'.subject = {}
      BY <2>2 DEF Parts, Process, DoubleCheck, Done
    <3>. QED BY <3>1 DEF Parts, Doomed, DoubleCheck
  <2>. QED BY <2>1, <2>2
<1>. QED BY <1>1, <1>2, <1>3, <1>4, <1>5, <1>6, <1>7, <1>8 DEF Parts

\* Or one after a failure.
LEMMA DoubleCheckFailsStep ==
  ASSUME Parts, NEW a \in Accounts, DoubleCheckFails(a)
  PROVE  Parts'
<1>1. Database' /\ CopiesOfReports' /\ OtherCopies' /\ TagsRight'
  BY DEF Parts, Database, CopiesOfReports, OtherCopies, TagsRight, NoCopies,
    TagJustified, DoubleCheckFails, Doom, Done, Scrubbing, Failure, database,
    copies, bounds
<1>2. Process'
  <2>1. \/ job' = [job EXCEPT !.subject = {a}]
        \/ job' = [job EXCEPT !.todo = @ \ {a}, !.subject = {}]
    BY DEF DoubleCheckFails, Doom, Done
  <2>2. a \in job.todo
    BY DEF DoubleCheckFails, Scrubbing
  <2>. QED BY <2>1, <2>2 DEF Parts, Process
<1>3. Bounds'
  BY JobsAssumption DEF Parts, Bounds, DoubleCheckFails, Doom, Done,
    Scrubbing, Failure, database, copies, bounds
<1>4. Subjects'
  BY DEF Parts, Subjects, Process, DoubleCheckFails, Doom, Done, Scrubbing,
    Failure, database, copies, bounds
<1>5. Phases'
  BY ZenonT(30) DEF Parts, Phases, NoCopies, Nobody, Database, OtherCopies, Process,
    DoubleCheckFails, Doom, Done, Scrubbing, Failure, database, copies, bounds
<1>6. TagsRead'
  BY ZenonT(30) DEF Parts, TagsRead, Database, CopiesOfReports, Process, Phases,
    NoCopies, Nobody, Subjects, DoubleCheckFails, Doom, Done, Scrubbing,
    Failure, database, copies, bounds
<1>7. TagsSet'
  BY DEF Parts, TagsSet, TagsRead, Phases, Nobody, Process, Database,
    CopiesOfReports, OtherCopies, Bounds, DoubleCheckFails, Doom, Done,
    Scrubbing, Failure, database, copies, bounds
<1>8. Doomed'
  BY DEF Parts, Doomed, Process, Subjects, Database, DoubleCheckFails, Doom,
    Done, Scrubbing, Failure, database, copies, bounds
<1>9. ScrubbedWereGone'
  BY DEF Parts, ScrubbedWereGone, Doomed, OtherCopies, Database,
    DoubleCheckFails, Doom, Done, Scrubbing, Failure, database, copies, bounds
<1>. QED BY <1>1, <1>2, <1>3, <1>4, <1>5, <1>6, <1>7, <1>8, <1>9 DEF Parts

\* Only a doomed account is scrubbed.
LEMMA ScrubStep ==
  ASSUME Parts, NEW a \in Accounts, Scrub(a)
  PROVE  Parts'
<1>1. CopiesOfReports' /\ TagsRight'
  BY DEF Parts, CopiesOfReports, TagsRight, NoCopies, TagJustified, Scrub,
    Done, Failure, database, copies, bounds
<1>2. Database'
  BY DEF Parts, Database, Origins, Items, SourceTags, Scrub, Done, Failure,
    database, copies, bounds
<1>3. Process'
  BY DEF Parts, Process, JobNames, Scrub, Done, Failure, database, copies,
    bounds
<1>4. OtherCopies'
  BY DEF Parts, OtherCopies, Origins, Nobody, Database, Scrub, Done,
    Failure, database, copies, bounds
<1>5. Bounds'
  BY JobsAssumption DEF Parts, Bounds, Scrub, Done, Failure, database,
    copies, bounds
<1>6. Subjects'
  BY DEF Parts, Subjects, Process, Scrub, Done, Failure, database, copies,
    bounds
<1>7. Phases'
  BY DEF Parts, Phases, NoCopies, Nobody, Database, OtherCopies, Process,
    Scrub, Done, Failure, database, copies, bounds
<1>8. TagsRead'
  BY DEF Parts, TagsRead, Database, CopiesOfReports, Process, Phases,
    NoCopies, Nobody, Subjects, Scrub, Done, Failure, database, copies, bounds
<1>9. TagsSet'
  BY DEF Parts, TagsSet, TagsRead, Phases, Nobody, Process, Database,
    CopiesOfReports, OtherCopies, Bounds, Scrub, Done, Failure, database,
    copies, bounds
<1>10. Doomed'
  BY DEF Parts, Doomed, Process, Subjects, Database, Scrub, Done, Failure,
    database, copies, bounds
<1>11. ScrubbedWereGone'
  BY DEF Parts, ScrubbedWereGone, Doomed, OtherCopies, Database, Scrub,
    Done, Failure, database, copies, bounds
<1>. QED BY <1>1, <1>2, <1>3, <1>4, <1>5, <1>6, <1>7, <1>8, <1>9, <1>10, <1>11
  DEF Parts

-----------------------------------------------------------------------------
(***************************************************************************)
(* The second job.                                                         *)
(***************************************************************************)
\* The reporters are read, and the tags left as they are.
LEMMA StartTagsStep ==
  ASSUME Parts, StartTags
  PROVE  Parts'
<1>1. Database' /\ CopiesOfReports' /\ Bounds' /\ TagsRight'
  BY DEF Parts, Database, CopiesOfReports, Bounds, TagsRight, NoCopies,
    TagJustified, StartTags, At, Begin, database, copies, bounds
<1>2. ScrubbedWereGone'
  BY DEF Parts, ScrubbedWereGone, NoCopies, TagJustified, StartTags, At,
    Begin, database, copies, bounds
<1>3. Process'
  <2>1. PICK todo \in SUBSET Accounts :
              job' = [pc |-> "tag", todo |-> todo, subject |-> {}]
    <3>1. CASE "tag" \in Jobs
      <4>1. {a \in profiles : reports[a] # {} /\ "account" \in pending[a]}
               \subseteq Accounts
        BY DEF Parts, OtherCopies
      <4>. QED BY <3>1, <4>1 DEF StartTags, Begin
    <3>2. CASE "tag" \notin Jobs
      BY <3>2 DEF StartTags, Begin
    <3>. QED BY <3>1, <3>2
  <2>. QED BY <2>1 DEF Process, JobNames
<1>4. OtherCopies'
  BY DEF Parts, OtherCopies, Origins, Nobody, Database, StartTags, At,
    Begin, database, copies, bounds
<1>5. Subjects'
  BY DEF Parts, Subjects, Process, StartTags, At, Begin, database, copies,
    bounds
<1>6. Phases'
  BY DEF Parts, Phases, NoCopies, Nobody, Database, OtherCopies, Process,
    StartTags, At, Begin, database, copies, bounds
<1>7. TagsRead'
  <2>1. /\ job.pc = "scrub" /\ job'.pc = "tag"
        /\ \A a \in job'.todo : a \in profiles /\ "account" \in pending[a]
    BY DEF StartTags, Begin, At
  <2>2. UNCHANGED <<pending, noted, tags>>
    BY DEF StartTags, database
  <2>3. profiles \subseteq Accounts
    BY DEF Parts, OtherCopies
  <2>. QED BY <2>1, <2>2, <2>3 DEF Parts, TagsRead
<1>8. TagsSet'
  BY DEF Parts, TagsSet, TagsRead, Phases, Nobody, Process, Database,
    CopiesOfReports, OtherCopies, Bounds, StartTags, At, Begin, database,
    copies, bounds
<1>9. Doomed'
  BY DEF Parts, Doomed, Process, Subjects, Database, StartTags, At, Begin,
    database, copies, bounds
<1>. QED BY <1>1, <1>2, <1>3, <1>4, <1>5, <1>6, <1>7, <1>8, <1>9 DEF Parts

\* Without the reporters there is nothing to do.
LEMMA StartTagsFailsStep ==
  ASSUME Parts, StartTagsFails
  PROVE  Parts'
<1>1. Database' /\ CopiesOfReports' /\ OtherCopies' /\ TagsRight'
  BY DEF Parts, Database, CopiesOfReports, OtherCopies, TagsRight, NoCopies,
    TagJustified, StartTagsFails, At, Begin, Failure, database, copies, bounds
<1>2. Process'
  BY DEF Parts, Process, JobNames, StartTagsFails, At, Begin, Failure,
    database, copies, bounds
<1>3. Bounds'
  BY JobsAssumption DEF Parts, Bounds, StartTagsFails, At, Begin, Failure,
    database, copies, bounds
<1>4. Subjects'
  BY DEF Parts, Subjects, Process, StartTagsFails, At, Begin, Failure,
    database, copies, bounds
<1>5. Phases'
  BY DEF Parts, Phases, NoCopies, Nobody, Database, OtherCopies, Process,
    StartTagsFails, At, Begin, Failure, database, copies, bounds
<1>6. TagsRead'
  BY DEF Parts, TagsRead, Database, CopiesOfReports, Process, Phases,
    NoCopies, Nobody, Subjects, StartTagsFails, At, Begin, Failure, database,
    copies, bounds
<1>7. TagsSet'
  BY DEF Parts, TagsSet, TagsRead, Phases, Nobody, Process, Database,
    CopiesOfReports, OtherCopies, Bounds, StartTagsFails, At, Begin, Failure,
    database, copies, bounds
<1>8. Doomed'
  BY DEF Parts, Doomed, Process, Subjects, Database, StartTagsFails, At,
    Begin, Failure, database, copies, bounds
<1>9. ScrubbedWereGone'
  BY DEF Parts, ScrubbedWereGone, Doomed, OtherCopies, Database,
    StartTagsFails, At, Begin, Failure, database, copies, bounds
<1>. QED BY <1>1, <1>2, <1>3, <1>4, <1>5, <1>6, <1>7, <1>8, <1>9 DEF Parts

\* What is sent makes the tags those of the reporters.
LEMMA TagAccountEffect ==
  ASSUME Parts, NEW a \in Accounts, TagAccount(a)
  PROVE  /\ tags' = [tags EXCEPT ![a] = TagOf(reporters[a])]
         /\ TagOf(reporters[a]) \subseteq SourceTags
<1>1. noted[a] = tags[a]
  BY DEF Parts, TagsRead, TagAccount
<1>2. tags[a] \subseteq SourceTags /\ TagOf(reporters[a]) \subseteq SourceTags
  BY OneTag DEF Parts, Database, OtherCopies
<1>3. (tags[a] \ ((SourceTags \ TagOf(reporters[a])) \cap tags[a]))
         \cup (TagOf(reporters[a]) \ tags[a]) = TagOf(reporters[a])
  BY <1>2
<1>. QED BY <1>1, <1>2, <1>3 DEF TagAccount

\* The account is right from then on.
LEMMA TagStep ==
  ASSUME Parts, NEW a \in Accounts, TagAccount(a)
  PROVE  Parts'
<1>1. CopiesOfReports' /\ OtherCopies' /\ Bounds' /\ ScrubbedWereGone'
  BY DEF Parts, CopiesOfReports, OtherCopies, Bounds, ScrubbedWereGone,
    NoCopies, TagJustified, TagAccount, Done, database, copies, bounds
<1>2. Database'
  <2>1. tags' \in [Accounts -> SUBSET SourceTags]
    BY TagAccountEffect DEF Parts, Database
  <2>. QED BY <2>1 DEF Parts, Database, TagAccount, copies
<1>3. Process'
  BY DEF Parts, Process, JobNames, TagAccount, Done, database, copies,
    bounds
<1>4. Subjects'
  BY DEF Parts, Subjects, Process, TagAccount, Done, database, copies,
    bounds
<1>5. Phases'
  BY DEF Parts, Phases, NoCopies, Nobody, Database, OtherCopies, Process,
    TagAccount, Done, database, copies, bounds
<1>6. TagsRead'
  <2>1. \A b \in Accounts : b # a => tags'[b] = tags[b]
    BY TagAccountEffect DEF Parts, Database
  <2>2. job'.pc = "tag" /\ job'.todo = job.todo \ {a}
    BY DEF Parts, Process, TagAccount, Done
  <2>. QED BY <2>1, <2>2 DEF Parts, TagsRead, Process, TagAccount, copies
<1>7. TagsSet'
  <2>1. /\ \A b \in Accounts : b # a => tags'[b] = tags[b]
        /\ tags'[a] = TagOf(reporters[a])
    BY TagAccountEffect DEF Parts, Database
  <2>2. job'.pc = "tag" /\ job'.todo = job.todo \ {a} /\ job.pc = "tag"
    BY DEF Parts, Process, TagAccount, Done
  <2>3. UNCHANGED <<failed, profiles, pending, reporters>>
    BY DEF TagAccount, copies, bounds
  <2>4. profiles \subseteq Accounts
    BY DEF Parts, OtherCopies
  <2>. QED BY <2>1, <2>2, <2>3, <2>4 DEF Parts, TagsSet
<1>8. TagsRight'
  <2>1. /\ \A b \in Accounts : b # a => tags'[b] = tags[b]
        /\ tags'[a] = TagOf(reporters[a])
    BY TagAccountEffect DEF Parts, Database
  <2>2. reporters[a] \in SUBSET Origins /\ reporters[a] \subseteq reports[a]
    BY DEF Parts, OtherCopies, Phases
  <2>3. reports' = reports
    BY DEF TagAccount
  <2>. QED BY <2>1, <2>2, <2>3, OneTag DEF Parts, TagsRight, TagJustified
<1>9. Doomed'
  BY DEF Parts, Doomed, Process, Subjects, Database, TagAccount, Done,
    database, copies, bounds
<1>. QED BY <1>1, <1>2, <1>3, <1>4, <1>5, <1>6, <1>7, <1>8, <1>9 DEF Parts

\* A failure leaves the tags.
LEMMA TagFailsStep ==
  ASSUME Parts, NEW a \in Accounts, TagAccountFails(a)
  PROVE  Parts'
<1>1. Database' /\ CopiesOfReports' /\ OtherCopies' /\ TagsRight'
  BY DEF Parts, Database, CopiesOfReports, OtherCopies, TagsRight, NoCopies,
    TagJustified, TagAccountFails, Done, Failure, database, copies, bounds
<1>2. Process'
  BY DEF Parts, Process, JobNames, TagAccountFails, Done, Failure, database,
    copies, bounds
<1>3. Bounds'
  BY JobsAssumption DEF Parts, Bounds, TagAccountFails, Done, Failure,
    database, copies, bounds
<1>4. Subjects'
  BY DEF Parts, Subjects, Process, TagAccountFails, Done, Failure, database,
    copies, bounds
<1>5. Phases'
  BY DEF Parts, Phases, NoCopies, Nobody, Database, OtherCopies, Process,
    TagAccountFails, Done, Failure, database, copies, bounds
<1>6. TagsRead'
  BY DEF Parts, TagsRead, Database, CopiesOfReports, Process, Phases,
    NoCopies, Nobody, Subjects, TagAccountFails, Done, Failure, database,
    copies, bounds
<1>7. TagsSet'
  BY DEF Parts, TagsSet, TagsRead, Phases, Nobody, Process, Database,
    CopiesOfReports, OtherCopies, Bounds, TagAccountFails, Done, Failure,
    database, copies, bounds
<1>8. Doomed'
  BY DEF Parts, Doomed, Process, Subjects, Database, TagAccountFails, Done,
    Failure, database, copies, bounds
<1>9. ScrubbedWereGone'
  BY DEF Parts, ScrubbedWereGone, Doomed, OtherCopies, Database,
    TagAccountFails, Done, Failure, database, copies, bounds
<1>. QED BY <1>1, <1>2, <1>3, <1>4, <1>5, <1>6, <1>7, <1>8, <1>9 DEF Parts

-----------------------------------------------------------------------------
(***************************************************************************)
(* The other two jobs.                                                     *)
(***************************************************************************)
\* Whatever the filter matched, the job works on accounts.
LEMMA FilterEffect ==
  ASSUME Parts, NEW name \in JobNames, NEW matches \in SUBSET Accounts,
         NEW pendingOnly \in BOOLEAN, Filter(name, matches, pendingOnly)
  PROVE  /\ filtered' \subseteq Accounts
         /\ \E todo \in SUBSET Accounts :
               job' = [pc |-> name, todo |-> todo, subject |-> {}]
<1>1. filtered \subseteq Accounts
  BY DEF Parts, OtherCopies
<1>2. CASE name \in Jobs
  <2>1. filtered' \subseteq Accounts
    BY <1>1, <1>2 DEF Filter
  <2>2. filtered' \cap profiles \cap (IF pendingOnly THEN Known ELSE Accounts)
           \in SUBSET Accounts
    BY <2>1
  <2>. QED BY <1>2, <2>1, <2>2 DEF Filter, Begin
<1>3. CASE name \notin Jobs
  <2>1. filtered' = filtered /\ job' = [pc |-> name, todo |-> {}, subject |-> {}]
    BY <1>3 DEF Filter, Begin
  <2>. QED BY <1>1, <2>1
<1>. QED BY <1>2, <1>3

\* A filter matches accounts.
LEMMA MatchesEffect == \A filter \in SUBSET Accounts : Matches(filter) \in SUBSET Accounts
  BY DEF Matches

\* The tags are left behind.
LEMMA StartAckStep ==
  ASSUME Parts, StartAcknowledge
  PROVE  Parts'
<1>1. Database' /\ CopiesOfReports' /\ TagsRight'
  BY DEF Parts, Database, CopiesOfReports, TagsRight, NoCopies,
    TagJustified, StartAcknowledge, Filter, Matches, At, Begin, Failure,
    JobNames, database, copies, bounds
<1>2. Process'
  <2>1. PICK todo \in SUBSET Accounts :
              \E name \in JobNames :
                 job' = [pc |-> name, todo |-> todo, subject |-> {}]
    BY FilterEffect, MatchesEffect, JobsAssumption DEF StartAcknowledge, JobNames
  <2>. QED BY <2>1 DEF Process, JobNames
<1>3. OtherCopies'
  <2>1. filtered' \subseteq Accounts
    BY FilterEffect, MatchesEffect, JobsAssumption DEF StartAcknowledge, JobNames
  <2>2. UNCHANGED <<profiles, reporters, scrubbed, wasGone>>
    BY DEF StartAcknowledge
  <2>. QED BY <2>1, <2>2 DEF Parts, OtherCopies
<1>4. Bounds'
  <2>1. UNCHANGED <<count, failed>> \/ Failure("query")
    BY DEF StartAcknowledge, bounds
  <2>2. count' \in 0 .. MaxEvents
    BY <2>1, JobsAssumption DEF Parts, Bounds, Failure
  <2>3. failed' \subseteq {"query", "read", "write"}
    BY <2>1 DEF Parts, Bounds, Failure
  <2>. QED BY <2>2, <2>3 DEF Bounds
<1>5. Subjects'
  BY DEF Parts, Subjects, Process, StartAcknowledge, Filter, Matches, At,
    Begin, Failure, JobNames, database, copies, bounds
<1>6. Phases'
  BY DEF Parts, Phases, NoCopies, Nobody, Database, OtherCopies, Process,
    StartAcknowledge, Filter, Matches, At, Begin, Failure, JobNames, database,
    copies, bounds
<1>7. TagsRead'
  BY DEF Parts, TagsRead, Database, CopiesOfReports, Process, Phases,
    NoCopies, Nobody, Subjects, StartAcknowledge, Filter, Matches, At, Begin,
    Failure, JobNames, database, copies, bounds
<1>8. TagsSet'
  BY DEF Parts, TagsSet, TagsRead, Phases, Nobody, Process, Database,
    CopiesOfReports, OtherCopies, Bounds, StartAcknowledge, Filter, Matches,
    At, Begin, Failure, JobNames, database, copies, bounds
<1>9. Doomed'
  BY DEF Parts, Doomed, Process, Subjects, Database, StartAcknowledge,
    Filter, Matches, At, Begin, Failure, JobNames, database, copies, bounds
<1>10. ScrubbedWereGone'
  BY DEF Parts, ScrubbedWereGone, Doomed, OtherCopies, Database,
    StartAcknowledge, Filter, Matches, At, Begin, Failure, JobNames, database,
    copies, bounds
<1>. QED BY <1>1, <1>2, <1>3, <1>4, <1>5, <1>6, <1>7, <1>8, <1>9, <1>10 DEF
  Parts

\* And stay so.
LEMMA StartLabelStep ==
  ASSUME Parts, StartLabel
  PROVE  Parts'
<1>1. Database' /\ CopiesOfReports' /\ TagsRight'
  BY DEF Parts, Database, CopiesOfReports, TagsRight, NoCopies,
    TagJustified, StartLabel, Filter, Matches, At, Begin, Failure, JobNames,
    database, copies, bounds
<1>2. Process'
  <2>1. PICK todo \in SUBSET Accounts :
              \E name \in JobNames :
                 job' = [pc |-> name, todo |-> todo, subject |-> {}]
    BY FilterEffect, MatchesEffect, JobsAssumption DEF StartLabel, JobNames
  <2>. QED BY <2>1 DEF Process, JobNames
<1>3. OtherCopies'
  <2>1. filtered' \subseteq Accounts
    BY FilterEffect, MatchesEffect, JobsAssumption DEF StartLabel, JobNames
  <2>2. UNCHANGED <<profiles, reporters, scrubbed, wasGone>>
    BY DEF StartLabel
  <2>. QED BY <2>1, <2>2 DEF Parts, OtherCopies
<1>4. Bounds'
  <2>1. UNCHANGED <<count, failed>> \/ Failure("query")
    BY DEF StartLabel, bounds
  <2>2. count' \in 0 .. MaxEvents
    BY <2>1, JobsAssumption DEF Parts, Bounds, Failure
  <2>3. failed' \subseteq {"query", "read", "write"}
    BY <2>1 DEF Parts, Bounds, Failure
  <2>. QED BY <2>2, <2>3 DEF Bounds
<1>5. Subjects'
  BY DEF Parts, Subjects, Process, StartLabel, Filter, Matches, At, Begin,
    Failure, JobNames, database, copies, bounds
<1>6. Phases'
  BY DEF Parts, Phases, NoCopies, Nobody, Database, OtherCopies, Process,
    StartLabel, Filter, Matches, At, Begin, Failure, JobNames, database,
    copies, bounds
<1>7. TagsRead'
  BY DEF Parts, TagsRead, Database, CopiesOfReports, Process, Phases,
    NoCopies, Nobody, Subjects, StartLabel, Filter, Matches, At, Begin,
    Failure, JobNames, database, copies, bounds
<1>8. TagsSet'
  BY DEF Parts, TagsSet, TagsRead, Phases, Nobody, Process, Database,
    CopiesOfReports, OtherCopies, Bounds, StartLabel, Filter, Matches, At,
    Begin, Failure, JobNames, database, copies, bounds
<1>9. Doomed'
  BY DEF Parts, Doomed, Process, Subjects, Database, StartLabel, Filter,
    Matches, At, Begin, Failure, JobNames, database, copies, bounds
<1>10. ScrubbedWereGone'
  BY DEF Parts, ScrubbedWereGone, Doomed, OtherCopies, Database, StartLabel,
    Filter, Matches, At, Begin, Failure, JobNames, database, copies, bounds
<1>. QED BY <1>1, <1>2, <1>3, <1>4, <1>5, <1>6, <1>7, <1>8, <1>9, <1>10 DEF
  Parts

\* Reviews are closed.
LEMMA AcknowledgeStep ==
  ASSUME Parts, NEW a \in Accounts, Acknowledge(a)
  PROVE  Parts'
<1>1. CopiesOfReports' /\ OtherCopies' /\ TagsRight'
  BY DEF Parts, CopiesOfReports, OtherCopies, TagsRight, NoCopies,
    TagJustified, Acknowledge, CloseAccount, Done, Failure, database, copies,
    bounds
<1>2. Database'
  BY DEF Parts, Database, Origins, Items, SourceTags, Acknowledge,
    CloseAccount, Done, Failure, database, copies, bounds
<1>3. Process'
  BY DEF Parts, Process, JobNames, Acknowledge, CloseAccount, Done, Failure,
    database, copies, bounds
<1>4. Bounds'
  BY JobsAssumption DEF Parts, Bounds, Acknowledge, CloseAccount, Done,
    Failure, database, copies, bounds
<1>5. Subjects'
  BY DEF Parts, Subjects, Process, Acknowledge, CloseAccount, Done, Failure,
    database, copies, bounds
<1>6. Phases'
  BY DEF Parts, Phases, NoCopies, Nobody, Database, OtherCopies, Process,
    Acknowledge, CloseAccount, Done, Failure, database, copies, bounds
<1>7. TagsRead'
  BY DEF Parts, TagsRead, Database, CopiesOfReports, Process, Phases,
    NoCopies, Nobody, Subjects, Acknowledge, CloseAccount, Done, Failure,
    database, copies, bounds
<1>8. TagsSet'
  BY DEF Parts, TagsSet, TagsRead, Phases, Nobody, Process, Database,
    CopiesOfReports, OtherCopies, Bounds, Acknowledge, CloseAccount, Done,
    Failure, database, copies, bounds
<1>9. Doomed'
  BY DEF Parts, Doomed, Process, Subjects, Database, Acknowledge,
    CloseAccount, Done, Failure, database, copies, bounds
<1>10. ScrubbedWereGone'
  BY DEF Parts, ScrubbedWereGone, Doomed, OtherCopies, Database,
    Acknowledge, CloseAccount, Done, Failure, database, copies, bounds
<1>. QED BY <1>1, <1>2, <1>3, <1>4, <1>5, <1>6, <1>7, <1>8, <1>9, <1>10 DEF
  Parts

\* Labels are given.
LEMMA LabelStep ==
  ASSUME Parts, NEW a \in Accounts, LabelAccount(a)
  PROVE  Parts'
<1>1. CopiesOfReports' /\ OtherCopies' /\ Bounds' /\ TagsRight'
  BY DEF Parts, CopiesOfReports, OtherCopies, Bounds, TagsRight, NoCopies,
    TagJustified, LabelAccount, Labelling, database, copies, bounds
<1>2. ScrubbedWereGone'
  BY DEF Parts, ScrubbedWereGone, NoCopies, TagJustified, LabelAccount,
    Labelling, database, copies, bounds
<1>3. Database'
  BY DEF Parts, Database, Origins, Items, SourceTags, LabelAccount,
    Labelling, database, copies, bounds
<1>4. Process'
  BY DEF Parts, Process, JobNames, LabelAccount, Labelling, database,
    copies, bounds
<1>5. Subjects'
  BY DEF Parts, Subjects, Process, LabelAccount, Labelling, database,
    copies, bounds
<1>6. Phases'
  BY DEF Parts, Phases, NoCopies, Nobody, Database, OtherCopies, Process,
    LabelAccount, Labelling, database, copies, bounds
<1>7. TagsRead'
  BY DEF Parts, TagsRead, Database, CopiesOfReports, Process, Phases,
    NoCopies, Nobody, Subjects, LabelAccount, Labelling, database, copies,
    bounds
<1>8. TagsSet'
  BY DEF Parts, TagsSet, TagsRead, Phases, Nobody, Process, Database,
    CopiesOfReports, OtherCopies, Bounds, LabelAccount, Labelling, database,
    copies, bounds
<1>9. Doomed'
  BY DEF Parts, Doomed, Process, Subjects, Database, LabelAccount,
    Labelling, database, copies, bounds
<1>. QED BY <1>1, <1>2, <1>3, <1>4, <1>5, <1>6, <1>7, <1>8, <1>9 DEF Parts

\* Or not.
LEMMA LabelFailsStep ==
  ASSUME Parts, NEW a \in Accounts, LabelFails(a)
  PROVE  Parts'
<1>1. CopiesOfReports' /\ OtherCopies' /\ TagsRight'
  BY DEF Parts, CopiesOfReports, OtherCopies, TagsRight, NoCopies,
    TagJustified, LabelFails, Labelling, Done, Failure, database, copies,
    bounds
<1>2. Database'
  BY DEF Parts, Database, Origins, Items, SourceTags, LabelFails, Labelling,
    Done, Failure, database, copies, bounds
<1>3. Process'
  <2>1. \/ job' = [job EXCEPT !.subject = {a}]
        \/ job' = [job EXCEPT !.todo = @ \ {a}, !.subject = {}]
    BY DEF LabelFails, Done
  <2>2. a \in job.todo
    BY DEF LabelFails, Labelling
  <2>. QED BY <2>1, <2>2 DEF Parts, Process
<1>4. Bounds'
  BY JobsAssumption DEF Parts, Bounds, LabelFails, Labelling, Done, Failure,
    database, copies, bounds
<1>5. Subjects'
  BY DEF Parts, Subjects, Process, LabelFails, Labelling, Done, Failure,
    database, copies, bounds
<1>6. Phases'
  BY DEF Parts, Phases, NoCopies, Nobody, Database, OtherCopies, Process,
    LabelFails, Labelling, Done, Failure, database, copies, bounds
<1>7. TagsRead'
  BY DEF Parts, TagsRead, Database, CopiesOfReports, Process, Phases,
    NoCopies, Nobody, Subjects, LabelFails, Labelling, Done, Failure,
    database, copies, bounds
<1>8. TagsSet'
  BY DEF Parts, TagsSet, TagsRead, Phases, Nobody, Process, Database,
    CopiesOfReports, OtherCopies, Bounds, LabelFails, Labelling, Done,
    Failure, database, copies, bounds
<1>9. Doomed'
  BY DEF Parts, Doomed, Process, Subjects, Database, LabelFails, Labelling,
    Done, Failure, database, copies, bounds
<1>10. ScrubbedWereGone'
  BY DEF Parts, ScrubbedWereGone, Doomed, OtherCopies, Database, LabelFails,
    Labelling, Done, Failure, database, copies, bounds
<1>. QED BY <1>1, <1>2, <1>3, <1>4, <1>5, <1>6, <1>7, <1>8, <1>9, <1>10 DEF
  Parts

\* And the reviews are closed after them.
LEMMA CloseLabelledStep ==
  ASSUME Parts, NEW a \in Accounts, CloseLabelled(a)
  PROVE  Parts'
<1>1. CopiesOfReports' /\ OtherCopies' /\ TagsRight'
  BY DEF Parts, CopiesOfReports, OtherCopies, TagsRight, NoCopies,
    TagJustified, CloseLabelled, CloseAccount, Done, Failure, database,
    copies, bounds
<1>2. Database'
  BY DEF Parts, Database, Origins, Items, SourceTags, CloseLabelled,
    CloseAccount, Done, Failure, database, copies, bounds
<1>3. Process'
  BY DEF Parts, Process, JobNames, CloseLabelled, CloseAccount, Done,
    Failure, database, copies, bounds
<1>4. Bounds'
  BY JobsAssumption DEF Parts, Bounds, CloseLabelled, CloseAccount, Done,
    Failure, database, copies, bounds
<1>5. Subjects'
  BY DEF Parts, Subjects, Process, CloseLabelled, CloseAccount, Done,
    Failure, database, copies, bounds
<1>6. Phases'
  BY DEF Parts, Phases, NoCopies, Nobody, Database, OtherCopies, Process,
    CloseLabelled, CloseAccount, Done, Failure, database, copies, bounds
<1>7. TagsRead'
  BY DEF Parts, TagsRead, Database, CopiesOfReports, Process, Phases,
    NoCopies, Nobody, Subjects, CloseLabelled, CloseAccount, Done, Failure,
    database, copies, bounds
<1>8. TagsSet'
  BY DEF Parts, TagsSet, TagsRead, Phases, Nobody, Process, Database,
    CopiesOfReports, OtherCopies, Bounds, CloseLabelled, CloseAccount, Done,
    Failure, database, copies, bounds
<1>9. Doomed'
  BY DEF Parts, Doomed, Process, Subjects, Database, CloseLabelled,
    CloseAccount, Done, Failure, database, copies, bounds
<1>10. ScrubbedWereGone'
  BY DEF Parts, ScrubbedWereGone, Doomed, OtherCopies, Database,
    CloseLabelled, CloseAccount, Done, Failure, database, copies, bounds
<1>. QED BY <1>1, <1>2, <1>3, <1>4, <1>5, <1>6, <1>7, <1>8, <1>9, <1>10 DEF
  Parts

-----------------------------------------------------------------------------
\* Every step keeps the invariant.
LEMMA PartsStep == Parts /\ [Next]_vars => Parts'
<1>. SUFFICES ASSUME Parts, [Next]_vars PROVE Parts'
  OBVIOUS
<1>1. CASE UNCHANGED vars
  BY <1>1 DEF vars, database, copies, bounds, Parts, Database, Process,
    CopiesOfReports, OtherCopies, Bounds, Subjects, Phases, NoCopies, TagsRead,
    TagsSet, TagsRight, TagJustified, Doomed, ScrubbedWereGone
<1>2. CASE Start \/ Crash \/ ProfilesFail \/ Finish
  BY <1>2, StartStep, CrashStep, ProfilesFailStep, FinishStep
<1>3. CASE LoadPending \/ LoadPendingFails \/ AskProfiles \/ AskProfilesUnheard
  BY <1>3, LoadStep, LoadFailsStep, AskStep, AskUnheardStep
<1>4. CASE StartScrub \/ StartTags \/ StartTagsFails
           \/ StartAcknowledge \/ StartLabel
  BY <1>4, StartScrubStep, StartTagsStep, StartTagsFailsStep, StartAckStep,
    StartLabelStep
<1>5. ASSUME NEW a \in Accounts,
             NewReport(a) \/ ModeratorCloses(a) \/ GoesOrReturns(a)
      PROVE  Parts'
  BY <1>5, ReportStep, CloseStep, GoesStep
<1>6. ASSUME NEW a \in Accounts, DoubleCheck(a) \/ DoubleCheckFails(a) \/ Scrub(a)
      PROVE  Parts'
  BY <1>6, DoubleCheckStep, DoubleCheckFailsStep, ScrubStep
<1>7. ASSUME NEW a \in Accounts, TagAccount(a) \/ TagAccountFails(a)
      PROVE  Parts'
  BY <1>7, TagStep, TagFailsStep
<1>8. ASSUME NEW a \in Accounts,
             Acknowledge(a) \/ LabelAccount(a) \/ LabelFails(a) \/ CloseLabelled(a)
      PROVE  Parts'
  BY <1>8, AcknowledgeStep, LabelStep, LabelFailsStep, CloseLabelledStep
<1>. QED BY <1>1, <1>2, <1>3, <1>4, <1>5, <1>6, <1>7, <1>8 DEF Next

LEMMA Invariant == Spec => []Parts
  BY InitParts, PartsStep, PTL DEF Spec

(***************************************************************************)
(* The database, the copies and the process keep their type, and tags are  *)
(* only read for an account whose own review is pending.                   *)
(***************************************************************************)
THEOREM JobsTypeCorrect == Spec => []TypeOK
  BY Invariant, PartsSuffice, PTL

(***************************************************************************)
(* The tags of an account are those that its reports justify, and, after   *)
(* the second job has run without a failure, those of all reports it read. *)
(***************************************************************************)
THEOREM TagsAreTruthful == Spec => []TagsTruthful
  BY Invariant, PartsSuffice, PTL

(***************************************************************************)
(* Only accounts that were gone are scrubbed, as long as no read fails.    *)
(***************************************************************************)
THEOREM OnlyGoneAreScrubbed == Spec => []ScrubbedWereGone
  BY Invariant, PartsSuffice, PTL
-----------------------------------------------------------------------------
(***************************************************************************)
(* Part two: LabelGate.                                                    *)
(***************************************************************************)

-----------------------------------------------------------------------------
(***************************************************************************)
(* The arithmetic of an estimate: whatever the rounding of the weight of   *)
(* requests_so_far, what it adds to the count is a natural number.         *)
(***************************************************************************)
LEMMA ProductNat == ASSUME NEW a \in Nat, NEW b \in Nat PROVE a * b \in Nat
<1>1. a * b \in Int
  OBVIOUS
<1>2. a * b >= 0
  OBVIOUS
<1> QED BY <1>1, <1>2

LEMMA QuotientNat == \A a \in Nat : \A b \in Nat \ {0} : a \div b \in Nat
  OBVIOUS

\* What the assumptions on the constants say of one gate.
LEMMA Positive ==
    \A g \in 1 .. Gates : /\ Window[g] \in Nat \ {0}
                          /\ Limit[g] \in Nat \ {0}
                          /\ 2 * Limit[g] \in Nat \ {0}
  BY GateAssumption

Observation == [lastEnd : Nat, end : Nat, lastCount : Nat, count : Nat]

LEMMA WeightedNat ==
    ASSUME now \in Nat, NEW o \in Observation, NEW g \in 1 .. Gates
    PROVE  Weighted(o, g) \subseteq Nat
<1> DEFINE product == Overlap(o, g) * o.lastCount
           whole == product \div Window[g]
<1>1. Window[g] \in Nat \ {0}
  BY Positive
<1>2. Overlap(o, g) \in Nat
  BY <1>1 DEF Overlap, Observation
<1>3. product \in Nat
  <2>1. o.lastCount \in Nat
    BY DEF Observation
  <2> QED BY <1>2, <2>1, ProductNat
<1> HIDE DEF product
<1>4. whole \in Nat
  BY <1>1, <1>3, QuotientNat
<1>5. Weighted(o, g) = IF product % Window[g] # 0 THEN {whole, whole + 1}
                       ELSE IF whole = 0 THEN {0} ELSE {whole, whole - 1}
  BY DEF Weighted, product
<1> HIDE DEF whole
<1>6. CASE product % Window[g] # 0
  BY <1>4, <1>5, <1>6
<1>7. CASE product % Window[g] = 0 /\ whole = 0
  BY <1>5, <1>7
<1>8. CASE product % Window[g] = 0 /\ whole # 0
  <2>1. whole - 1 \in Nat
    BY <1>4, <1>8
  <2> QED BY <1>4, <1>5, <1>8, <2>1
<1> QED BY <1>6, <1>7, <1>8

LEMMA IntervalNat == \A g \in 1 .. Gates : Interval(g) \in Nat
<1> SUFFICES ASSUME NEW g \in 1 .. Gates PROVE Interval(g) \in Nat
  OBVIOUS
<1>1. Window[g] \in Nat /\ Limit[g] \in Nat \ {0}
  BY Positive
<1>2. Window[g] \div Limit[g] \in Nat
  BY <1>1, QuotientNat
<1> QED BY <1>2 DEF Interval

-----------------------------------------------------------------------------
(***************************************************************************)
(* The variables keep their types.                                         *)
(***************************************************************************)
LEMMA GateTypes ==
    ASSUME GateTypeOK, NEW g \in 1 .. Gates
    PROVE  /\ now \in Nat
           /\ observer[g] \in Observation
           /\ grants[g] \in Seq(Nat)
           /\ Len(grants[g]) \in Nat
           /\ \A i \in 1 .. Len(grants[g]) : grants[g][i] \in Nat
<1>1. now \in Nat
  BY GateAssumption DEF GateTypeOK, Times
<1>2. observer[g] \in Observation
  BY DEF GateTypeOK, Observation
<1>3. grants[g] \in Seq(Nat)
  BY DEF GateTypeOK
<1> QED BY <1>1, <1>2, <1>3

LEMMA RolledType ==
    ASSUME GateTypeOK, NEW g \in 1 .. Gates
    PROVE  Rolled(g) \in Observation
<1>1. /\ observer[g] \in Observation
      /\ now \in Nat /\ Window[g] \in Nat
  BY Positive, GateTypes
<1> QED BY <1>1 DEF Rolled, Observation

LEMMA PastType ==
    ASSUME GateTypeOK, NEW g \in 1 .. Gates
    PROVE  Past(g) \in [pc : {"wait", "gate", "label", "send", "ended"},
                        gate : 1 .. Gates, wake : Nat]
<1>1. now \in Nat
  BY GateAssumption DEF GateTypeOK, Times
<1>2. CASE g = Gates
  BY <1>1, <1>2 DEF Past
<1>3. CASE g # Gates
  <2>1. g + 1 \in 1 .. Gates
    BY <1>3, GateAssumption
  <2> QED BY <1>1, <1>3, <2>1 DEF Past
<1> QED BY <1>2, <1>3

\* What an entry that changes does to a sequence.
LEMMA Edited ==
    ASSUME NEW S, NEW s \in Seq(S), NEW k \in Nat, NEW x,
           k \in 1 .. Len(s) => x \in S
    PROVE  /\ [s EXCEPT ![k] = x] \in Seq(S)
           /\ Len([s EXCEPT ![k] = x]) = Len(s)
           /\ \A i \in 1 .. Len(s) :
                 [s EXCEPT ![k] = x][i] = IF i = k THEN x ELSE s[i]
<1>1. CASE k \in 1 .. Len(s)
  BY <1>1, ExceptSeq
<1>2. CASE k \notin 1 .. Len(s)
  <2>1. [s EXCEPT ![k] = x] = s
    BY <1>2
  <2> QED BY <1>2, <2>1
<1> QED BY <1>1, <1>2

LEMMA LabelTypes ==
    ASSUME GateTypeOK
    PROVE  /\ labels \in Seq(LabelHistory) /\ Len(labels) \in Nat
           /\ \A k \in 1 .. Len(labels) :
                 /\ labels[k].by \in Threads
                 /\ labels[k].opening \in [1 .. Gates -> Nat]
                 /\ labels[k].sent \in Seq(Nat)
<1>1. labels \in Seq(LabelHistory)
  BY DEF GateTypeOK
<1>2. \A k \in 1 .. Len(labels) : labels[k] \in LabelHistory
  BY <1>1
<1>3. ASSUME NEW x \in LabelHistory
      PROVE  /\ x.by \in Threads /\ x.opening \in [1 .. Gates -> Nat]
             /\ x.sent \in Seq(Nat)
  BY DEF LabelHistory
<1> QED BY <1>1, <1>2, <1>3

\* The opening that a label went through, and the time at which it was sent.
Opened(t, g) == [labels EXCEPT ![task[t]].opening[g] = Len(grants[g]) + 1]
SentOnce(t) == [labels EXCEPT ![task[t]].sent = Append(@, now)]

OnlyOpened(t, g) ==
    \A i \in 1 .. Len(labels) :
        /\ labels'[i].by = labels[i].by
        /\ labels'[i].sent = labels[i].sent
        /\ \A h \in 1 .. Gates : labels'[i].opening[h] =
              IF i = task[t] /\ h = g THEN Len(grants[g]) + 1
              ELSE labels[i].opening[h]

OnlySent(t) ==
    \A i \in 1 .. Len(labels) :
        /\ labels'[i].by = labels[i].by
        /\ labels'[i].opening = labels[i].opening
        /\ labels'[i].sent = IF i = task[t] THEN Append(labels[i].sent, now)
                                            ELSE labels[i].sent

LEMMA OpenedType ==
    ASSUME GateTypeOK, NEW t \in Threads, NEW g \in 1 .. Gates,
           labels' = Opened(t, g)
    PROVE  /\ labels' \in Seq(LabelHistory) /\ Len(labels') = Len(labels)
           /\ OnlyOpened(t, g)
<1> DEFINE k == task[t]
           n == Len(grants[g]) + 1
           x == [labels[k] EXCEPT !.opening = [@ EXCEPT ![g] = n]]
<1>1. labels' = [labels EXCEPT ![k] = x]
  BY DEF Opened
<1>2. /\ labels \in Seq(LabelHistory)
      /\ \A i \in 1 .. Len(labels) : labels[i] \in LabelHistory
  BY LabelTypes
<1>3. k \in Nat /\ n \in Nat
  <2>1. k \in Nat
    BY GateAssumption DEF GateTypeOK
  <2>2. n \in Nat
    BY GateTypes
  <2> QED BY <2>1, <2>2
<1> HIDE DEF k, n
<1>4. ASSUME k \in 1 .. Len(labels)
      PROVE  /\ x \in LabelHistory
             /\ x.by = labels[k].by /\ x.sent = labels[k].sent
             /\ \A h \in 1 .. Gates :
                   x.opening[h] = IF h = g THEN n ELSE labels[k].opening[h]
  BY <1>2, <1>3, <1>4 DEF LabelHistory
<1> HIDE DEF x
<1>5. /\ [labels EXCEPT ![k] = x] \in Seq(LabelHistory)
      /\ Len([labels EXCEPT ![k] = x]) = Len(labels)
      /\ \A i \in 1 .. Len(labels) :
            [labels EXCEPT ![k] = x][i] = IF i = k THEN x ELSE labels[i]
  BY <1>2, <1>3, <1>4, Edited
<1>6. ASSUME NEW i \in 1 .. Len(labels)
      PROVE  /\ labels'[i].by = labels[i].by
             /\ labels'[i].sent = labels[i].sent
             /\ \A h \in 1 .. Gates : labels'[i].opening[h] =
                   IF i = k /\ h = g THEN n ELSE labels[i].opening[h]
  <2>1. CASE i = k
    BY <1>1, <1>4, <1>5, <2>1
  <2>2. CASE i # k
    BY <1>1, <1>5, <2>2
  <2> QED BY <2>1, <2>2
<1>7. OnlyOpened(t, g)
  BY <1>6 DEF OnlyOpened, k, n
<1> QED BY <1>1, <1>5, <1>7

LEMMA SentType ==
    ASSUME GateTypeOK, NEW t \in Threads, labels' = SentOnce(t)
    PROVE  /\ labels' \in Seq(LabelHistory) /\ Len(labels') = Len(labels)
           /\ OnlySent(t)
<1> DEFINE k == task[t]
           x == [labels[k] EXCEPT !.sent = Append(@, now)]
<1>1. labels' = [labels EXCEPT ![k] = x]
  BY DEF SentOnce
<1>2. /\ labels \in Seq(LabelHistory) /\ now \in Nat
      /\ \A i \in 1 .. Len(labels) : /\ labels[i] \in LabelHistory
                                     /\ labels[i].sent \in Seq(Nat)
  <2>1. now \in Nat
    BY GateAssumption DEF GateTypeOK, Times
  <2>2. /\ labels \in Seq(LabelHistory)
        /\ \A i \in 1 .. Len(labels) : labels[i].sent \in Seq(Nat)
    BY LabelTypes
  <2> QED BY <2>1, <2>2
<1>3. k \in Nat
  BY GateAssumption DEF GateTypeOK
<1> HIDE DEF k
<1>4. ASSUME k \in 1 .. Len(labels)
      PROVE  /\ x \in LabelHistory
             /\ x.by = labels[k].by /\ x.opening = labels[k].opening
             /\ x.sent = Append(labels[k].sent, now)
  <2>1. Append(labels[k].sent, now) \in Seq(Nat)
    BY <1>2, <1>4
  <2> QED BY <1>2, <1>4, <2>1 DEF LabelHistory
<1> HIDE DEF x
<1>5. /\ [labels EXCEPT ![k] = x] \in Seq(LabelHistory)
      /\ Len([labels EXCEPT ![k] = x]) = Len(labels)
      /\ \A i \in 1 .. Len(labels) :
            [labels EXCEPT ![k] = x][i] = IF i = k THEN x ELSE labels[i]
  BY <1>2, <1>3, <1>4, Edited
<1>6. ASSUME NEW i \in 1 .. Len(labels)
      PROVE  /\ labels'[i].by = labels[i].by
             /\ labels'[i].opening = labels[i].opening
             /\ labels'[i].sent =
                   IF i = k THEN Append(labels[i].sent, now) ELSE labels[i].sent
  <2>1. CASE i = k
    BY <1>1, <1>4, <1>5, <2>1
  <2>2. CASE i # k
    BY <1>1, <1>5, <2>2
  <2> QED BY <2>1, <2>2
<1>7. OnlySent(t)
  BY <1>6 DEF OnlySent, k
<1> QED BY <1>1, <1>5, <1>7

\* A label that is asked for: nothing opened, nothing sent.
LEMMA AskedType ==
    ASSUME GateTypeOK, NEW t \in Threads, NEW longer,
           longer = Append(labels, [by |-> t,
              opening |-> [g \in 1 .. Gates |-> 0], sent |-> <<>>])
    PROVE  /\ longer \in Seq(LabelHistory) /\ Len(longer) = Len(labels) + 1
           /\ longer[Len(labels) + 1].by = t
           /\ \A g \in 1 .. Gates : longer[Len(labels) + 1].opening[g] = 0
           /\ longer[Len(labels) + 1].sent = <<>>
           /\ \A i \in 1 .. Len(labels) : longer[i] = labels[i]
<1> DEFINE asked == [by |-> t, opening |-> [g \in 1 .. Gates |-> 0],
                     sent |-> <<>>]
<1>1. /\ asked \in LabelHistory
      /\ asked.by = t /\ asked.sent = <<>>
      /\ \A g \in 1 .. Gates : asked.opening[g] = 0
  BY DEF LabelHistory
<1>2. labels \in Seq(LabelHistory)
  BY LabelTypes
<1>3. longer = Append(labels, asked)
  OBVIOUS
<1> HIDE DEF asked
<1>4. /\ longer \in Seq(LabelHistory)
      /\ Len(longer) = Len(labels) + 1
      /\ longer[Len(labels) + 1] = asked
      /\ \A i \in 1 .. Len(labels) : longer[i] = labels[i]
  BY <1>1, <1>2, <1>3
<1> QED BY <1>1, <1>4

LEMMA TypeInit == InitGates => GateTypeOK
<1> SUFFICES ASSUME InitGates PROVE GateTypeOK
  OBVIOUS
<1> USE GateAssumption DEF InitGates
<1>1. now \in Times /\ active \in BOOLEAN
  BY DEF Times
<1>2. observer \in [1 .. Gates -> Observation]
  BY DEF Observation
<1>3. thread \in [Threads -> [pc : {"wait", "gate", "label", "send", "ended"},
                              gate : 1 .. Gates, wake : Nat]]
  BY DEF Waiting
<1>4. /\ grants \in [1 .. Gates -> Seq(Nat)]
      /\ labels \in Seq(LabelHistory) /\ Len(labels) <= MaxLabels
      /\ task \in [Threads -> 0 .. MaxLabels]
      /\ tries \in [Threads -> 0 .. (MaxTries - 1)]
  OBVIOUS
<1> QED BY <1>1, <1>2, <1>3, <1>4 DEF GateTypeOK, Observation

\* What observe_if_permitted does to the gate and to the thread that tried it.
LEMMA TryGateType ==
    ASSUME GateTypeOK, NEW t \in Threads, TryGate(t)
    PROVE  GateTypeOK'
<1> DEFINE g == thread[t].gate
           o == Rolled(g)
           States == [pc : {"wait", "gate", "label", "send", "ended"},
                      gate : 1 .. Gates, wake : Nat]
<1>1. g \in 1 .. Gates /\ now \in Nat /\ now \in Times
  BY GateAssumption DEF GateTypeOK, Times
<1>2. o \in Observation
  BY <1>1, RolledType
<1>3. Past(g) \in States
  BY <1>1, PastType
<1>4. /\ observer \in [1 .. Gates -> Observation]
      /\ thread \in [Threads -> States]
      /\ grants \in [1 .. Gates -> Seq(Nat)]
  BY DEF GateTypeOK, Observation
<1>5. PICK weighted \in Weighted(o, g) :
        \/ /\ Permitted(o.count + weighted, g)
           /\ observer' = [observer EXCEPT ![g] = [o EXCEPT !.count = @ + 1]]
           /\ grants' = [grants EXCEPT ![g] = Append(@, now)]
           /\ labels' = [labels EXCEPT ![task[t]].opening[g] = Len(grants[g]) + 1]
           /\ thread' = [thread EXCEPT ![t] = Past(g)]
        \/ /\ ~Permitted(o.count + weighted, g)
           /\ observer' = [observer EXCEPT ![g] = o]
           /\ TurnedAway(t, g)
           /\ UNCHANGED <<grants, labels>>
  BY DEF TryGate
<1> HIDE DEF g, o
<1>6. CASE /\ observer' = [observer EXCEPT ![g] = [o EXCEPT !.count = @ + 1]]
           /\ grants' = [grants EXCEPT ![g] = Append(@, now)]
           /\ labels' = [labels EXCEPT ![task[t]].opening[g] = Len(grants[g]) + 1]
           /\ thread' = [thread EXCEPT ![t] = Past(g)]
  <2>1. [o EXCEPT !.count = @ + 1] \in Observation
    BY <1>2 DEF Observation
  <2>2. observer' \in [1 .. Gates -> Observation]
    BY <1>1, <1>4, <1>6, <2>1
  <2>3. Append(grants[g], now) \in Seq(Nat)
    <3>1. grants[g] \in Seq(Nat) /\ now \in Nat
      BY <1>1, <1>4
    <3> QED BY <3>1
  <2>4. grants' \in [1 .. Gates -> Seq(Nat)]
    BY <1>1, <1>4, <1>6, <2>3
  <2>5. thread' \in [Threads -> States]
    BY <1>3, <1>4, <1>6
  <2>6. labels' \in Seq(LabelHistory) /\ Len(labels') = Len(labels)
    <3>1. labels' = Opened(t, g)
      BY <1>6 DEF Opened
    <3> QED BY <1>1, <3>1, OpenedType
  <2> QED BY <2>2, <2>4, <2>5, <2>6 DEF GateTypeOK, TryGate, Observation, Times
<1>7. CASE /\ observer' = [observer EXCEPT ![g] = o]
           /\ TurnedAway(t, g)
           /\ UNCHANGED <<grants, labels>>
  <2>1. observer' \in [1 .. Gates -> Observation]
    BY <1>1, <1>2, <1>4, <1>7
  <2>2. [thread[t] EXCEPT !.wake = now + Interval(g)] \in States
    <3>1. now + Interval(g) \in Nat
      BY <1>1, IntervalNat
    <3>2. thread[t] \in States
      BY <1>4
    <3> QED BY <3>1, <3>2
  <2>3. thread' \in [Threads -> States]
    <3>1. (IF active THEN [thread[t] EXCEPT !.wake = now + Interval(g)]
                     ELSE Past(g)) \in States
      BY <1>3, <2>2
    <3>2. thread' = [thread EXCEPT ![t] =
             IF active THEN [thread[t] EXCEPT !.wake = now + Interval(g)]
                       ELSE Past(g)]
      BY <1>7 DEF TurnedAway
    <3> QED BY <1>4, <3>1, <3>2
  <2> QED BY <1>4, <1>7, <2>1, <2>3 DEF GateTypeOK, TryGate, Observation, Times
<1> QED BY <1>5, <1>6, <1>7

LEMMA TypeStep == GateTypeOK /\ [NextGate]_gateVars => GateTypeOK'
<1> SUFFICES ASSUME GateTypeOK, [NextGate]_gateVars PROVE GateTypeOK'
  OBVIOUS
<1>1. CASE Tick
  <2>1. now' \in Times
    BY <1>1, GateAssumption DEF Tick, GateTypeOK, Times
  <2> QED BY <1>1, <2>1 DEF Tick, GateTypeOK, Times
<1>2. CASE ForceStop
  BY <1>2 DEF ForceStop, GateTypeOK, Times
<1>3. ASSUME NEW t \in Threads, TakeReport(t) PROVE GateTypeOK'
  <2>1. /\ labels' \in Seq(LabelHistory) /\ Len(labels') <= MaxLabels
        /\ task' \in [Threads -> 0 .. MaxLabels]
    <3>1. /\ labels' = Append(labels, [by |-> t,
               opening |-> [g \in 1 .. Gates |-> 0], sent |-> <<>>])
          /\ task' = [task EXCEPT ![t] = Len(labels) + 1]
          /\ Len(labels) < MaxLabels
      BY <1>3 DEF TakeReport, Takes
    <3>2. labels' \in Seq(LabelHistory) /\ Len(labels') = Len(labels) + 1
      BY <3>1, AskedType
    <3>3. MaxLabels \in Nat /\ Len(labels) \in Nat
      BY GateAssumption, LabelTypes
    <3> QED BY <3>1, <3>2, <3>3 DEF GateTypeOK
  <2>2. [pc |-> "gate", gate |-> 1, wake |-> now] \in
            [pc : {"wait", "gate", "label", "send", "ended"},
             gate : 1 .. Gates, wake : Nat]
    BY GateAssumption DEF GateTypeOK, Times
  <2>3. thread' \in [Threads -> [pc : {"wait", "gate", "label", "send", "ended"},
                                 gate : 1 .. Gates, wake : Nat]]
    BY <1>3, <2>2 DEF TakeReport, Takes, GateTypeOK
  <2> QED BY <1>3, <2>1, <2>3 DEF TakeReport, Takes, GateTypeOK, Times
<1>4. ASSUME NEW t \in Threads, TryGate(t) PROVE GateTypeOK'
  BY <1>4, TryGateType
<1>5. ASSUME NEW t \in Threads, LabelSubject(t) PROVE GateTypeOK'
  <2>1. PICK S, r :
          /\ S = [pc : {"wait", "gate", "label", "send", "ended"},
                  gate : 1 .. Gates, wake : Nat]
          /\ r = [thread[t] EXCEPT !.pc = IF active THEN "send" ELSE "ended"]
    OBVIOUS
  <2>2. thread \in [Threads -> S] /\ thread' = [thread EXCEPT ![t] = r]
    BY <1>5, <2>1 DEF LabelSubject, GateTypeOK
  <2>3. r \in S
    <3>1. thread[t] \in S
      BY <2>2
    <3> QED BY <2>1, <3>1
  <2>4. thread' \in [Threads -> S]
    BY <2>2, <2>3
  <2> QED BY <1>5, <2>1, <2>4 DEF LabelSubject, GateTypeOK, Times
<1>8. ASSUME NEW t \in Threads, Send(t) PROVE GateTypeOK'
  <2>1. labels' \in Seq(LabelHistory) /\ Len(labels') <= MaxLabels
    <3>1. task[t] \in Nat /\ labels \in Seq(LabelHistory)
          /\ Len(labels) <= MaxLabels
      BY GateAssumption DEF GateTypeOK
    <3>2. CASE labels' = [labels EXCEPT ![task[t]].sent = Append(@, now)]
      <4>1. labels' = SentOnce(t)
        BY <3>2 DEF SentOnce
      <4> QED BY <3>1, <4>1, SentType
    <3>3. CASE UNCHANGED labels
      BY <3>1, <3>3
    <3> QED BY <1>8, <3>2, <3>3 DEF Send
  <2>2. CASE Again(t)
    <3>1. tries' \in [Threads -> 0 .. (MaxTries - 1)] /\ thread' = thread
      <4>1. tries \in [Threads -> 0 .. (MaxTries - 1)] /\ MaxTries \in Nat
        BY GateAssumption DEF GateTypeOK
      <4>2. tries[t] + 1 \in 0 .. (MaxTries - 1)
        BY <2>2, <4>1 DEF Again
      <4> QED BY <2>2, <4>1, <4>2 DEF Again
    <3> QED BY <1>8, <2>1, <3>1 DEF Send, GateTypeOK, Times
  <2>3. CASE Returns(t)
    <3>1. tries' \in [Threads -> 0 .. (MaxTries - 1)]
      BY <2>3, GateAssumption DEF Returns, GateTypeOK
    <3>2. thread' \in [Threads -> [pc : {"wait", "gate", "label", "send", "ended"},
                                   gate : 1 .. Gates, wake : Nat]]
      BY <2>3, GateAssumption DEF Returns, GateTypeOK, Waiting
    <3> QED BY <1>8, <2>1, <3>1, <3>2 DEF Send, GateTypeOK, Times
  <2> QED BY <1>8, <2>2, <2>3 DEF Send
<1>6. ASSUME NEW t \in Threads, StopSeen(t) PROVE GateTypeOK'
  <2>1. thread' \in [Threads -> [pc : {"wait", "gate", "label", "send", "ended"},
                                 gate : 1 .. Gates, wake : Nat]]
    BY <1>6 DEF StopSeen, GateTypeOK
  <2> QED BY <1>6, <2>1 DEF StopSeen, GateTypeOK, Times
<1>7. CASE UNCHANGED gateVars
  BY <1>7 DEF gateVars, GateTypeOK, Times
<1> QED BY <1>1, <1>2, <1>3, <1>4, <1>5, <1>6, <1>7, <1>8 DEF NextGate

THEOREM GateTypeCorrect == GateSpec => []GateTypeOK
<1>1. InitGates => GateTypeOK
  BY TypeInit
<1>2. GateTypeOK /\ [NextGate]_gateVars => GateTypeOK'
  BY TypeStep
<1> QED BY <1>1, <1>2, PTL DEF GateSpec

-----------------------------------------------------------------------------
(***************************************************************************)
(* What a gate knows of its history. The openings it counts are the last   *)
(* ones; the openings before those are not after the end of the previous   *)
(* window, and those it does not count at all are more than a window       *)
(* before that end. TwiceTheLimit is not inductive without it: a gate that *)
(* had forgotten an opening inside the window could open once too often.   *)
(***************************************************************************)
Remembers(o, times, g) ==
    /\ o.count + o.lastCount <= Len(times)
    /\ o.count <= Limit[g] /\ o.lastCount <= Limit[g]
    /\ o.lastEnd + Window[g] < o.end
    /\ \A i \in 1 .. Len(times) :
          /\ times[i] <= o.end
          /\ i <= Len(times) - o.count => times[i] <= o.lastEnd
          /\ i <= Len(times) - (o.count + o.lastCount)
                => times[i] + Window[g] < o.lastEnd

GateInvariant ==
    \A g \in 1 .. Gates :
        /\ Remembers(observer[g], grants[g], g)
        /\ observer[g].end <= now + Window[g]
        /\ \A i \in 1 .. Len(grants[g]) : grants[g][i] <= now

\* A request finds a gate that still remembers, after the window is rolled.
LEMMA RolledRemembers ==
    ASSUME GateTypeOK, GateInvariant, NEW g \in 1 .. Gates
    PROVE  /\ Remembers(Rolled(g), grants[g], g)
           /\ now <= Rolled(g).end
           /\ Rolled(g).end <= now + Window[g]
<1> DEFINE o == observer[g]
           G == grants[g]
<1>1. /\ o \in Observation /\ now \in Nat
      /\ Window[g] \in Nat \ {0} /\ Limit[g] \in Nat \ {0}
      /\ G \in Seq(Nat)
  <2>1. G \in Seq(Nat) /\ now \in Times /\ o \in Observation
    BY DEF GateTypeOK, Observation
  <2>2. now \in Nat
    BY <2>1, GateAssumption DEF Times
  <2> QED BY <2>1, <2>2, Positive
<1>2. /\ Remembers(o, G, g)
      /\ o.end <= now + Window[g]
      /\ \A i \in 1 .. Len(G) : G[i] <= now
  BY DEF GateInvariant
<1>3. Rolled(g) = IF now > o.end
                    THEN [lastEnd |-> o.end, end |-> now + Window[g],
                          lastCount |-> o.count, count |-> 0]
                    ELSE o
  BY DEF Rolled
<1>4. Len(G) \in Nat /\ \A i \in 1 .. Len(G) : G[i] \in Nat
  BY <1>1
<1> HIDE DEF o, G
<1>5. CASE now > o.end
  <2> DEFINE r == Rolled(g)
  <2>1. /\ r.lastEnd = o.end /\ r.end = now + Window[g]
        /\ r.lastCount = o.count /\ r.count = 0
    BY <1>3, <1>5
  <2> HIDE DEF r
  <2>2. Remembers(r, G, g)
    <3>1. /\ r.count + r.lastCount <= Len(G)
          /\ r.count <= Limit[g] /\ r.lastCount <= Limit[g]
          /\ r.lastEnd + Window[g] < r.end
      BY <1>1, <1>2, <1>4, <1>5, <2>1 DEF Remembers, Observation
    <3>2. ASSUME NEW i \in 1 .. Len(G)
          PROVE  /\ G[i] <= r.end
                 /\ i <= Len(G) - r.count => G[i] <= r.lastEnd
                 /\ i <= Len(G) - (r.count + r.lastCount)
                       => G[i] + Window[g] < r.lastEnd
      <4>1. /\ G[i] \in Nat /\ o.count \in Nat /\ o.end \in Nat
            /\ o.lastEnd \in Nat /\ Window[g] \in Nat
        BY <1>1, <1>4 DEF Observation
      <4>2. /\ G[i] <= o.end
            /\ i <= Len(G) - o.count => G[i] <= o.lastEnd
            /\ o.lastEnd + Window[g] < o.end
        BY <1>2 DEF Remembers
      <4>3. G[i] <= r.end /\ (i <= Len(G) - r.count => G[i] <= r.lastEnd)
        BY <1>1, <1>5, <2>1, <4>1, <4>2
      <4>4. i <= Len(G) - (r.count + r.lastCount)
               => G[i] + Window[g] < r.lastEnd
        BY <1>4, <2>1, <4>1, <4>2
      <4> QED BY <4>3, <4>4
    <3> QED BY <3>1, <3>2 DEF Remembers
  <2>3. now <= r.end /\ r.end <= now + Window[g]
    BY <1>1, <2>1
  <2> QED BY <2>2, <2>3 DEF r, G
<1>6. CASE ~(now > o.end)
  <2>1. Rolled(g) = o
    BY <1>3, <1>6
  <2>2. now <= o.end
    BY <1>1, <1>6 DEF Observation
  <2> QED BY <1>2, <2>1, <2>2 DEF G
<1> QED BY <1>5, <1>6

(***************************************************************************)
(* An opening: the gate remembers one more, and the opening that is        *)
(* 2 * Limit before it is more than a window ago.                          *)
(***************************************************************************)
LEMMA OpeningRemembers ==
    ASSUME NEW g \in 1 .. Gates, NEW o \in Observation, NEW G \in Seq(Nat),
           NEW x \in Nat, NEW weighted \in Nat,
           Remembers(o, G, g), x <= o.end, o.end <= x + Window[g],
           Permitted(o.count + weighted, g)
    PROVE  /\ Remembers([o EXCEPT !.count = @ + 1], Append(G, x), g)
           /\ \A i \in 1 .. Len(G) :
                 i + 2 * Limit[g] = Len(G) + 1 => x - G[i] > Window[g]
<1> DEFINE r == [o EXCEPT !.count = @ + 1]
           H == Append(G, x)
           W == Window[g]
           L == Limit[g]
           n == Len(G)
<1>1. W \in Nat \ {0} /\ L \in Nat \ {0}
  BY Positive
<1>2. n \in Nat /\ \A i \in 1 .. n : G[i] \in Nat
  OBVIOUS
<1>3. /\ o.count \in Nat /\ o.lastCount \in Nat
      /\ o.lastEnd \in Nat /\ o.end \in Nat
  BY DEF Observation
<1>4. /\ r.count = o.count + 1 /\ r.lastCount = o.lastCount
      /\ r.lastEnd = o.lastEnd /\ r.end = o.end
  BY DEF Observation
<1>5. Len(H) = n + 1 /\ H[n + 1] = x /\ \A i \in 1 .. n : H[i] = G[i]
  OBVIOUS
<1>6. /\ o.count + o.lastCount <= n
      /\ o.count <= L /\ o.lastCount <= L
      /\ o.lastEnd + W < o.end
      /\ \A i \in 1 .. n :
            /\ G[i] <= o.end
            /\ i <= n - o.count => G[i] <= o.lastEnd
            /\ i <= n - (o.count + o.lastCount) => G[i] + W < o.lastEnd
  BY DEF Remembers
<1>7. x <= o.end /\ o.end <= x + W
  OBVIOUS
<1>8. o.count < L
  BY <1>1, <1>3 DEF Permitted
<1>9. Remembers(r, H, g) <=>
      /\ r.count + r.lastCount <= Len(H)
      /\ r.count <= L /\ r.lastCount <= L
      /\ r.lastEnd + W < r.end
      /\ \A i \in 1 .. Len(H) :
            /\ H[i] <= r.end
            /\ i <= Len(H) - r.count => H[i] <= r.lastEnd
            /\ i <= Len(H) - (r.count + r.lastCount) => H[i] + W < r.lastEnd
  BY DEF Remembers
<1> HIDE DEF r, H, W, L, n
<1>10. /\ r.count + r.lastCount <= Len(H)
       /\ r.count <= L /\ r.lastCount <= L
       /\ r.lastEnd + W < r.end
  BY SMTT(30), <1>1, <1>2, <1>3, <1>4, <1>5, <1>6, <1>8
<1>11. ASSUME NEW i \in 1 .. Len(H)
       PROVE  /\ H[i] <= r.end
              /\ i <= Len(H) - r.count => H[i] <= r.lastEnd
              /\ i <= Len(H) - (r.count + r.lastCount) => H[i] + W < r.lastEnd
  <2>1. CASE i = n + 1
    BY SMTT(30), <1>2, <1>3, <1>4, <1>5, <1>7, <2>1
  <2>2. CASE i \in 1 .. n
    <3>1. Len(H) - r.count = n - o.count
      BY SMTT(30), <1>2, <1>3, <1>4, <1>5
    <3>2. Len(H) - (r.count + r.lastCount) = n - (o.count + o.lastCount)
      <4>1. r.count + r.lastCount = (o.count + o.lastCount) + 1
        BY SMTT(30), <1>3, <1>4
      <4>2. o.count + o.lastCount \in Nat
        BY <1>3, SMTT(40)
      <4> QED BY <1>2, <1>5, <4>1, <4>2
    <3> QED BY <1>4, <1>5, <1>6, <2>2, <3>1, <3>2
  <2> QED BY <1>2, <1>5, <2>1, <2>2
<1>12. Remembers(r, H, g)
  BY <1>9, <1>10, <1>11
<1>13. ASSUME NEW i \in 1 .. n, i + 2 * L = n + 1
       PROVE  x - G[i] > W
  <2>1. i <= n - (o.count + o.lastCount)
    BY <1>1, <1>2, <1>3, <1>6, <1>8, <1>13
  <2>2. G[i] + W < o.lastEnd
    BY <1>6, <2>1
  <2>3. o.lastEnd < x
    BY SMTT(30), <1>1, <1>3, <1>6, <1>7
  <2>4. G[i] \in Nat
    BY <1>2
  <2> QED BY <1>1, <1>3, <2>2, <2>3, <2>4
<1> QED BY <1>12, <1>13 DEF r, H, W, L, n

LEMMA GateInit == InitGates => GateInvariant /\ TwiceTheLimit
<1> SUFFICES ASSUME InitGates PROVE GateInvariant /\ TwiceTheLimit
  OBVIOUS
<1>1. ASSUME NEW g \in 1 .. Gates
      PROVE  /\ Remembers(observer[g], grants[g], g)
             /\ observer[g].end <= now + Window[g]
             /\ \A i \in 1 .. Len(grants[g]) : grants[g][i] <= now
             /\ Apart(grants[g], 2 * Limit[g], Window[g])
  <2>1. /\ observer[g] = [lastEnd |-> 0, end |-> StartTime + Window[g],
                          lastCount |-> 0, count |-> 0]
        /\ grants[g] = <<>> /\ now = StartTime
    BY DEF InitGates
  <2>2. Len(grants[g]) = 0 /\ 1 .. Len(grants[g]) = {}
    BY <2>1
  <2>3. Window[g] \in Nat \ {0} /\ Limit[g] \in Nat \ {0}
    BY Positive
  <2>4. /\ observer[g].count = 0 /\ observer[g].lastCount = 0
        /\ observer[g].lastEnd = 0 /\ observer[g].end = StartTime + Window[g]
        /\ StartTime \in Nat \ {0}
    BY <2>1, GateAssumption
  <2>5. Remembers(observer[g], grants[g], g)
    BY <2>2, <2>3, <2>4 DEF Remembers
  <2>6. observer[g].end <= now + Window[g]
    BY <2>1, <2>3, <2>4
  <2> QED BY <2>2, <2>5, <2>6 DEF Apart
<1> QED BY <1>1 DEF GateInvariant, TwiceTheLimit

\* The gates stay open no longer when only time passes.
LEMMA GateWaits ==
    ASSUME GateTypeOK, GateInvariant, now' \in Nat, now <= now',
           UNCHANGED <<observer, grants>>
    PROVE  GateInvariant'
<1> SUFFICES ASSUME NEW g \in 1 .. Gates
             PROVE  /\ Remembers(observer[g], grants[g], g)
                    /\ observer[g].end <= now' + Window[g]
                    /\ \A i \in 1 .. Len(grants[g]) : grants[g][i] <= now'
  BY DEF GateInvariant, Remembers
<1>1. /\ observer[g].end \in Nat /\ now \in Nat /\ Window[g] \in Nat
      /\ \A i \in 1 .. Len(grants[g]) : grants[g][i] \in Nat
  BY GateTypes, Positive DEF Observation
<1>2. /\ Remembers(observer[g], grants[g], g)
      /\ observer[g].end <= now + Window[g]
      /\ \A i \in 1 .. Len(grants[g]) : grants[g][i] <= now
  BY DEF GateInvariant
<1> QED BY <1>1, <1>2

LEMMA TryGateKeeps ==
    ASSUME GateTypeOK, GateInvariant, TwiceTheLimit, NEW t \in Threads, TryGate(t)
    PROVE  GateInvariant' /\ TwiceTheLimit'
<1> DEFINE g == thread[t].gate
           o == Rolled(g)
<1>1. g \in 1 .. Gates /\ now \in Nat /\ now \in Times /\ now' = now
  BY GateAssumption DEF GateTypeOK, Times, TryGate
<1>2. /\ o \in Observation
      /\ Remembers(o, grants[g], g) /\ now <= o.end
      /\ o.end <= now + Window[g]
  BY <1>1, RolledType, RolledRemembers
<1>3. \A h \in 1 .. Gates :
         grants[h] \in Seq(Nat) /\ Len(grants[h]) \in Nat
         /\ \A i \in 1 .. Len(grants[h]) : grants[h][i] \in Nat
  BY GateTypes
<1>4. PICK weighted \in Weighted(o, g) :
        \/ /\ Permitted(o.count + weighted, g)
           /\ observer' = [observer EXCEPT ![g] = [o EXCEPT !.count = @ + 1]]
           /\ grants' = [grants EXCEPT ![g] = Append(@, now)]
        \/ /\ observer' = [observer EXCEPT ![g] = o]
           /\ UNCHANGED grants
  BY DEF TryGate
<1>5. weighted \in Nat
  BY <1>1, <1>2, WeightedNat
<1>6. /\ observer \in [1 .. Gates -> Observation]
      /\ grants \in [1 .. Gates -> Seq(Nat)]
  BY DEF GateTypeOK, Observation
<1> HIDE DEF g, o
<1>7. \A h \in 1 .. Gates :
        /\ Remembers(observer[h], grants[h], h)
        /\ observer[h].end <= now + Window[h]
        /\ \A i \in 1 .. Len(grants[h]) : grants[h][i] <= now
        /\ Apart(grants[h], 2 * Limit[h], Window[h])
  BY DEF GateInvariant, TwiceTheLimit
<1>8. ASSUME NEW h \in 1 .. Gates
      PROVE  /\ Remembers(observer'[h], grants'[h], h)
             /\ observer'[h].end <= now + Window[h]
             /\ \A i \in 1 .. Len(grants'[h]) : grants'[h][i] <= now
             /\ Apart(grants'[h], 2 * Limit[h], Window[h])
  <2>1. CASE h # g
    <3>1. observer'[h] = observer[h] /\ grants'[h] = grants[h]
      BY <1>4, <1>6, <2>1
    <3> QED BY <1>7, <3>1
  <2>2. CASE h = g /\ observer' = [observer EXCEPT ![g] = o]
             /\ UNCHANGED grants
    <3>1. observer'[h] = o /\ grants'[h] = grants[h]
      BY <1>1, <1>6, <2>2
    <3> QED BY <1>2, <1>7, <2>2, <3>1
  <2>3. CASE h = g /\ Permitted(o.count + weighted, g)
             /\ observer' = [observer EXCEPT ![g] = [o EXCEPT !.count = @ + 1]]
             /\ grants' = [grants EXCEPT ![g] = Append(@, now)]
    <3> DEFINE G == grants[g]
               H == Append(G, now)
    <3>1. observer'[h] = [o EXCEPT !.count = @ + 1] /\ grants'[h] = H
      BY <1>1, <1>6, <2>3
    <3>2. G \in Seq(Nat) /\ Len(G) \in Nat
          /\ \A i \in 1 .. Len(G) : G[i] \in Nat
      BY <1>1, <1>3
    <3>3. /\ Len(H) = Len(G) + 1 /\ H[Len(G) + 1] = now
          /\ \A i \in 1 .. Len(G) : H[i] = G[i]
      BY <1>1, <3>2
    <3>4. /\ Remembers([o EXCEPT !.count = @ + 1], H, g)
          /\ \A i \in 1 .. Len(G) :
                i + 2 * Limit[g] = Len(G) + 1 => now - G[i] > Window[g]
      BY <1>1, <1>2, <1>5, <2>3, <3>2, OpeningRemembers
    <3>5. [o EXCEPT !.count = @ + 1].end = o.end
      BY <1>2 DEF Observation
    <3>6. /\ \A i \in 1 .. Len(G) : G[i] <= now
          /\ Apart(G, 2 * Limit[g], Window[g])
          /\ Window[g] \in Nat /\ Limit[g] \in Nat \ {0}
      BY <1>1, <1>7, Positive
    <3> HIDE DEF G, H
    <3>7. \A i \in 1 .. Len(H) : H[i] <= now
      <4> SUFFICES ASSUME NEW i \in 1 .. Len(H) PROVE H[i] <= now
        OBVIOUS
      <4>1. i \in 1 .. Len(G) \/ i = Len(G) + 1
        BY <3>2, <3>3
      <4> QED BY <1>1, <3>3, <3>6, <4>1
    <3>8. Apart(H, 2 * Limit[g], Window[g])
      <4> SUFFICES ASSUME NEW i \in 1 .. Len(H), i + 2 * Limit[g] <= Len(H)
                   PROVE  H[i + 2 * Limit[g]] - H[i] > Window[g]
        BY DEF Apart
      <4>1. i \in 1 .. Len(G) /\ H[i] = G[i]
        BY <3>2, <3>3, <3>6, SMTT(40)
      <4>2. CASE i + 2 * Limit[g] = Len(G) + 1
        BY <3>3, <3>4, <4>1, <4>2
      <4>3. CASE i + 2 * Limit[g] # Len(G) + 1
        <5>1. /\ i + 2 * Limit[g] \in 1 .. Len(G)
              /\ i + 2 * Limit[g] <= Len(G)
          <6>1. Len(G) \in Nat /\ Len(H) = Len(G) + 1 /\ i \in Nat \ {0}
            BY <3>2, <3>3, <4>1
          <6>2. 2 * Limit[g] \in Nat
            BY <1>1, Positive
          <6>3. i + 2 * Limit[g] <= Len(H) /\ i + 2 * Limit[g] # Len(G) + 1
            BY <4>3
          <6> QED BY <6>1, <6>2, <6>3
        <5>2. H[i + 2 * Limit[g]] = G[i + 2 * Limit[g]]
          BY <3>3, <5>1
        <5>3. G[i + 2 * Limit[g]] - G[i] > Window[g]
          BY <3>6, <4>1, <5>1 DEF Apart
        <5> QED BY <4>1, <5>2, <5>3
      <4> QED BY <4>2, <4>3
    <3> QED BY <1>2, <2>3, <3>1, <3>4, <3>5, <3>7, <3>8
  <2> QED BY <1>4, <2>1, <2>2, <2>3
<1> QED BY <1>1, <1>8 DEF GateInvariant, TwiceTheLimit, Remembers, Apart

LEMMA GateStep ==
    GateTypeOK /\ GateInvariant /\ TwiceTheLimit /\ [NextGate]_gateVars
        => GateInvariant' /\ TwiceTheLimit'
<1> SUFFICES ASSUME GateTypeOK, GateInvariant, TwiceTheLimit, [NextGate]_gateVars
             PROVE  GateInvariant' /\ TwiceTheLimit'
  OBVIOUS
<1>1. now \in Nat
  BY GateAssumption DEF GateTypeOK, Times
<1>2. ASSUME NEW t \in Threads, TryGate(t)
      PROVE  GateInvariant' /\ TwiceTheLimit'
  BY <1>2, TryGateKeeps
<1>3. CASE UNCHANGED <<observer, grants>> /\ now' \in {now, now + 1}
  <2>1. now' \in Nat /\ now <= now'
    BY <1>1, <1>3
  <2>2. GateInvariant'
    BY <1>3, <2>1, GateWaits
  <2>3. TwiceTheLimit'
    BY <1>3 DEF TwiceTheLimit, Apart
  <2> QED BY <2>2, <2>3
<1>4. CASE \A t \in Threads : ~TryGate(t)
  <2>1. UNCHANGED <<observer, grants>> /\ now' \in {now, now + 1}
    BY <1>4 DEF NextGate, Tick, ForceStop, TakeReport, Takes, LabelSubject,
                   Send, StopSeen, gateVars
  <2> QED BY <1>3, <2>1
<1> QED BY <1>2, <1>4

(***************************************************************************)
(* TwiceTheLimit, for all windows and limits and any rounding of weights.  *)
(***************************************************************************)
THEOREM GateBound == GateSpec => []TwiceTheLimit
<1>1. InitGates => GateTypeOK /\ GateInvariant /\ TwiceTheLimit
  BY TypeInit, GateInit
<1>2. GateTypeOK /\ GateInvariant /\ TwiceTheLimit /\ [NextGate]_gateVars
        => GateTypeOK' /\ GateInvariant' /\ TwiceTheLimit'
  BY TypeStep, GateStep
<1> QED BY <1>1, <1>2, PTL DEF GateSpec

-----------------------------------------------------------------------------
(***************************************************************************)
(* From permits to labels. A thread has the last label that it took in     *)
(* hand; no two labels went through the same opening of a gate; and what a *)
(* label was sent at comes after its opening of each gate, and before the  *)
(* openings of the labels that its thread took later. None of that         *)
(* depends on how often the label is sent, or on when the call returns.    *)
(***************************************************************************)
InHand ==
    \A t \in Threads :
        /\ task[t] \in 0 .. Len(labels)
        /\ task[t] # 0 => labels[task[t]].by = t
        /\ thread[t].pc \in {"gate", "label", "send"} => task[t] # 0
        /\ \A k \in 1 .. Len(labels) : labels[k].by = t => k <= task[t]

\* The gates behind a thread, when it holds a permit of each of them.
Through(t, g) ==
    \/ thread[t].pc = "send"
    \/ active /\ thread[t].pc = "label"
    \/ active /\ thread[t].pc = "gate" /\ thread[t].gate > g

Permits ==
    /\ \A k \in 1 .. Len(labels), g \in 1 .. Gates :
          labels[k].opening[g] <= Len(grants[g])
    /\ \A j, k \in 1 .. Len(labels), g \in 1 .. Gates :
          j # k /\ labels[k].opening[g] # 0
              => labels[j].opening[g] # labels[k].opening[g]
    /\ \A t \in Threads, g \in 1 .. Gates :
          Through(t, g) => labels[task[t]].opening[g] # 0

\* A label that was sent in time: after its openings, and before the later
\* ones of its thread.
Timely ==
    /\ \A k \in 1 .. Len(labels), g \in 1 .. Gates :
          \A i \in 1 .. Len(labels[k].sent) :
              /\ labels[k].opening[g] # 0
              /\ grants[g][labels[k].opening[g]] <= labels[k].sent[i]
              /\ labels[k].sent[i] <= now
    /\ \A j, k \in 1 .. Len(labels), g \in 1 .. Gates :
          j < k /\ labels[j].by = labels[k].by /\ labels[k].opening[g] # 0 =>
              \A i \in 1 .. Len(labels[j].sent) :
                  labels[j].sent[i] <= grants[g][labels[k].opening[g]]

Tried ==
    /\ \A t \in Threads :
          /\ thread[t].pc \in {"gate", "label"} => labels[task[t]].sent = <<>>
          /\ thread[t].pc = "send" => Len(labels[task[t]].sent) <= tries[t]
    /\ \A k \in 1 .. Len(labels) : Len(labels[k].sent) <= MaxTries

InOrder ==
    \A g \in 1 .. Gates : \A i, j \in 1 .. Len(grants[g]) :
        i <= j => grants[g][i] <= grants[g][j]

Ledger == InHand /\ Permits /\ Timely /\ Tried /\ InOrder

LEMMA LedgerInit == InitGates => Ledger
<1> SUFFICES ASSUME InitGates PROVE Ledger
  OBVIOUS
<1>1. labels = <<>> /\ Len(labels) = 0 /\ 1 .. Len(labels) = {}
  BY DEF InitGates
<1>2. \A t \in Threads : thread[t].pc = "wait" /\ task[t] = 0
  BY DEF InitGates, Waiting
<1>3. \A g \in 1 .. Gates : 1 .. Len(grants[g]) = {}
  BY DEF InitGates
<1>4. InHand
  BY <1>1, <1>2 DEF InHand
<1>5. Permits
  BY <1>1, <1>2 DEF Permits, Through
<1>6. Timely /\ Tried /\ InOrder
  BY <1>1, <1>2, <1>3 DEF Timely, Tried, InOrder
<1> QED BY <1>4, <1>5, <1>6 DEF Ledger

LEMMA GateNow == ASSUME GateTypeOK PROVE now \in Nat
  BY GateAssumption DEF GateTypeOK, Times

\* The times in the histories are numbers.
LEMMA HistoryTypes ==
    ASSUME GateTypeOK
    PROVE  /\ \A g \in 1 .. Gates : \A i \in 1 .. Len(grants[g]) :
                 grants[g][i] \in Nat
           /\ \A k \in 1 .. Len(labels) : \A i \in 1 .. Len(labels[k].sent) :
                 labels[k].sent[i] \in Nat
<1>1. \A k \in 1 .. Len(labels) : labels[k].sent \in Seq(Nat)
  BY LabelTypes
<1> QED BY <1>1, GateTypes

\* A step that leaves the histories alone, and after which no thread is
\* further than before.
LEMMA LedgerWaits ==
    ASSUME GateTypeOK, Ledger, now' \in Nat, now <= now',
           UNCHANGED <<grants, labels, task, tries>>,
           \A t \in Threads :
              \/ thread'[t].pc \in {"wait", "ended"}
              \/ /\ thread'[t].pc = thread[t].pc
                 /\ active' => active
                 /\ thread'[t].gate = thread[t].gate
              \/ /\ thread'[t].pc = "send" /\ thread[t].pc = "label" /\ active
              \/ /\ thread'[t].pc \in {"gate", "label"}
                 /\ thread[t].pc = "gate" /\ ~active'
    PROVE  Ledger'
<1>1. InHand'
  BY DEF Ledger, InHand
<1>2. \A t \in Threads, g \in 1 .. Gates : Through(t, g)' => Through(t, g)
  BY DEF Through
<1>3. Permits'
  BY <1>2 DEF Ledger, Permits
<1>4. Timely'
  <2>1. /\ now \in Nat
        /\ \A k \in 1 .. Len(labels) : \A i \in 1 .. Len(labels[k].sent) :
              labels[k].sent[i] \in Nat
    BY GateNow, HistoryTypes
  <2>2. \A k \in 1 .. Len(labels), g \in 1 .. Gates :
           \A i \in 1 .. Len(labels[k].sent) :
               /\ labels[k].opening[g] # 0
               /\ grants[g][labels[k].opening[g]] <= labels[k].sent[i]
               /\ labels[k].sent[i] <= now
    BY DEF Ledger, Timely
  <2>3. ASSUME NEW k \in 1 .. Len(labels), NEW g \in 1 .. Gates,
               NEW i \in 1 .. Len(labels[k].sent)
        PROVE  labels[k].sent[i] <= now'
    <3>1. labels[k].sent[i] <= now
      BY <2>2
    <3>2. labels[k].sent[i] \in Nat
      BY <2>1
    <3> QED BY <2>1, <3>1, <3>2
  <2> QED BY <2>2, <2>3 DEF Ledger, Timely
<1>5. Tried'
  <2>1. ASSUME NEW t \in Threads, thread'[t].pc = "send", thread[t].pc = "label"
        PROVE  Len(labels[task[t]].sent) <= tries[t]
    <3>1. labels[task[t]].sent = <<>>
      BY <2>1 DEF Ledger, Tried
    <3>2. tries[t] \in Nat
      BY GateAssumption DEF GateTypeOK
    <3> QED BY <3>1, <3>2
  <2> QED BY <2>1 DEF Ledger, Tried
<1>6. InOrder'
  BY DEF Ledger, InOrder
<1> QED BY <1>1, <1>3, <1>4, <1>5, <1>6 DEF Ledger

LEMMA TakeReportLedger ==
    ASSUME GateTypeOK, Ledger, NEW t \in Threads, TakeReport(t)
    PROVE  Ledger'
<1> DEFINE n == Len(labels) + 1
<1>1. /\ thread[t].pc = "wait" /\ UNCHANGED <<now, active, tries, grants>>
      /\ labels' = Append(labels, [by |-> t,
            opening |-> [g \in 1 .. Gates |-> 0], sent |-> <<>>])
      /\ task' = [task EXCEPT ![t] = n]
      /\ thread' = [thread EXCEPT ![t] = [pc |-> "gate", gate |-> 1, wake |-> now]]
  BY DEF TakeReport, Takes
<1>2. /\ Len(labels) \in Nat /\ Len(labels') = n
      /\ labels'[n].by = t /\ labels'[n].sent = <<>>
      /\ \A g \in 1 .. Gates : labels'[n].opening[g] = 0
      /\ \A i \in 1 .. Len(labels) : labels'[i] = labels[i]
  BY <1>1, AskedType, LabelTypes
<1>3. /\ thread'[t].pc = "gate" /\ thread'[t].gate = 1 /\ task'[t] = n
      /\ \A s \in Threads : s # t => /\ thread'[s] = thread[s]
                                     /\ task'[s] = task[s]
  BY <1>1 DEF GateTypeOK
<1> HIDE DEF n
<1>4. /\ n \in Nat \ {0} /\ n > Len(labels)
      /\ \A k \in 1 .. Len(labels') : k \in 1 .. Len(labels) \/ k = n
  BY <1>2 DEF n
<1>5. InHand'
  <2>1. InHand
    BY DEF Ledger
  <2>2. \A s \in Threads : s # t =>
           /\ task'[s] \in 0 .. Len(labels')
           /\ task'[s] # 0 => labels'[task'[s]].by = s
           /\ thread'[s].pc \in {"gate", "label", "send"} => task'[s] # 0
           /\ \A k \in 1 .. Len(labels') : labels'[k].by = s => k <= task'[s]
    BY <1>2, <1>3, <1>4, <2>1 DEF InHand, n
  <2>3. /\ task'[t] \in 0 .. Len(labels')
        /\ task'[t] # 0 => labels'[task'[t]].by = t
        /\ thread'[t].pc \in {"gate", "label", "send"} => task'[t] # 0
        /\ \A k \in 1 .. Len(labels') : labels'[k].by = t => k <= task'[t]
    BY <1>2, <1>3, <1>4
  <2> QED BY <2>2, <2>3 DEF InHand
<1>6. \A s \in Threads : s # t /\ task[s] # 0 =>
          task[s] \in 1 .. Len(labels) /\ labels'[task'[s]] = labels[task[s]]
  <2>1. InHand
    BY DEF Ledger
  <2> QED BY <1>2, <1>3, <2>1 DEF InHand
<1>7. Permits'
  <2>1. Permits /\ InHand
    BY DEF Ledger
  <2>2. \A k \in 1 .. Len(labels'), g \in 1 .. Gates :
           labels'[k].opening[g] <= Len(grants'[g])
    <3>1. \A g \in 1 .. Gates : 0 <= Len(grants[g])
      BY GateTypes
    <3> QED BY <1>1, <1>2, <1>4, <2>1, <3>1 DEF Permits
  <2>3. \A j, k \in 1 .. Len(labels'), g \in 1 .. Gates :
           j # k /\ labels'[k].opening[g] # 0
               => labels'[j].opening[g] # labels'[k].opening[g]
    BY <1>2, <1>4, <2>1, SMTT(40) DEF Permits
  <2>4. ASSUME NEW s \in Threads, NEW g \in 1 .. Gates, Through(s, g)'
        PROVE  labels'[task'[s]].opening[g] # 0
    <3>1. s # t
      <4>1. ~(1 > g)
        OBVIOUS
      <4> QED BY <1>3, <2>4, <4>1 DEF Through
    <3>2. Through(s, g) /\ task[s] # 0
      BY <1>1, <1>3, <2>1, <2>4, <3>1 DEF Through, InHand
    <3> QED BY <1>6, <2>1, <3>1, <3>2 DEF Permits
  <2> QED BY <2>2, <2>3, <2>4 DEF Permits
<1>8. Timely'
  <2>1. Timely
    BY DEF Ledger
  <2>2. ASSUME NEW k \in 1 .. Len(labels'), NEW i \in 1 .. Len(labels'[k].sent)
        PROVE  k \in 1 .. Len(labels) /\ labels'[k] = labels[k]
    <3>1. k # n
      BY <1>2, <2>2
    <3> QED BY <1>2, <1>4, <3>1
  <2>3. ASSUME NEW k \in 1 .. Len(labels'), NEW g \in 1 .. Gates,
               NEW i \in 1 .. Len(labels'[k].sent)
        PROVE  /\ labels'[k].opening[g] # 0
               /\ grants[g][labels'[k].opening[g]] <= labels'[k].sent[i]
               /\ labels'[k].sent[i] <= now
    <3>1. k \in 1 .. Len(labels) /\ labels'[k] = labels[k]
      BY <2>2
    <3> QED BY <2>1, <3>1 DEF Timely
  <2>4. ASSUME NEW j \in 1 .. Len(labels'), NEW k \in 1 .. Len(labels'),
               NEW g \in 1 .. Gates, NEW i \in 1 .. Len(labels'[j].sent),
               j < k, labels'[j].by = labels'[k].by, labels'[k].opening[g] # 0
        PROVE  labels'[j].sent[i] <= grants[g][labels'[k].opening[g]]
    <3>1. j \in 1 .. Len(labels) /\ labels'[j] = labels[j]
      BY <2>2
    <3>2. k \in 1 .. Len(labels) /\ labels'[k] = labels[k]
      BY <1>2, <1>4, <2>4
    <3> QED BY <2>1, <2>4, <3>1, <3>2 DEF Timely
  <2> QED BY <1>1, <2>3, <2>4, ZenonT(60) DEF Timely
<1>9. Tried'
  <2>1. Tried /\ InHand
    BY DEF Ledger
  <2>2. ASSUME NEW s \in Threads
        PROVE  /\ thread'[s].pc \in {"gate", "label"}
                      => labels'[task'[s]].sent = <<>>
               /\ thread'[s].pc = "send"
                      => Len(labels'[task'[s]].sent) <= tries'[s]
    <3>1. CASE s = t
      BY <1>2, <1>3, <3>1
    <3>2. CASE s # t
      BY <1>1, <1>3, <1>6, <2>1, <3>2 DEF Tried, InHand
    <3> QED BY <3>1, <3>2
  <2>3. ASSUME NEW k \in 1 .. Len(labels')
        PROVE  Len(labels'[k].sent) <= MaxTries
    <3>1. CASE k \in 1 .. Len(labels)
      <4>1. Len(labels[k].sent) <= MaxTries
        BY <2>1, <3>1 DEF Tried
      <4>2. labels'[k] = labels[k]
        BY <1>2, <3>1
      <4> QED BY <4>1, <4>2
    <3>2. CASE k \notin 1 .. Len(labels)
      <4>1. labels'[k].sent = <<>>
        BY <1>2, <1>4, <3>2
      <4> QED BY <4>1, GateAssumption
    <3> QED BY <3>1, <3>2
  <2> QED BY <2>2, <2>3 DEF Tried
<1>10. InOrder'
  BY <1>1 DEF Ledger, InOrder
<1> QED BY <1>5, <1>7, <1>8, <1>9, <1>10 DEF Ledger

\* An opening: the label in hand went through it, and it is the latest.
LEMMA OpeningLedger ==
    ASSUME GateTypeOK, Ledger, GateInvariant, NEW t \in Threads,
           NEW g \in 1 .. Gates, thread[t].gate = g, thread[t].pc = "gate",
           UNCHANGED <<now, active, task, tries>>,
           grants' = [grants EXCEPT ![g] = Append(@, now)],
           labels' = [labels EXCEPT ![task[t]].opening[g] = Len(grants[g]) + 1],
           thread' = [thread EXCEPT ![t] = Past(g)]
    PROVE  Ledger'
<1> DEFINE m == task[t]
           n == Len(grants[g]) + 1
<1>1. /\ Len(grants[g]) \in Nat /\ n \in Nat \ {0} /\ now \in Nat
      /\ Len(labels) \in Nat /\ m \in Nat /\ n \in Nat
  <2>1. Len(grants[g]) \in Nat /\ now \in Nat
    BY GateTypes
  <2>2. Len(labels) \in Nat
    BY LabelTypes
  <2>3. m \in Nat
    BY GateAssumption DEF GateTypeOK
  <2> QED BY <2>1, <2>2, <2>3
<1>2. InHand /\ Permits /\ Timely /\ Tried /\ InOrder
  BY DEF Ledger
<1>3. m \in 1 .. Len(labels) /\ labels[m].by = t /\ labels[m].sent = <<>>
  <2>1. m # 0 /\ m \in 0 .. Len(labels) /\ labels[m].by = t
    BY <1>2 DEF InHand
  <2> QED BY <1>1, <1>2, <2>1 DEF Tried
<1>4. labels' = Opened(t, g)
  BY DEF Opened
<1>5. \A s \in Threads : s # t => thread'[s] = thread[s]
  BY DEF GateTypeOK
<1>6. /\ thread'[t] = Past(g)
      /\ thread'[t].pc \in {"gate", "label"}
      /\ thread'[t].pc = "gate" => thread'[t].gate = g + 1
  BY DEF GateTypeOK, Past
<1>7. \A s \in Threads : s # t /\ task[s] # 0 =>
          task[s] \in 1 .. Len(labels) /\ task[s] # m
  BY <1>2, <1>3 DEF InHand
<1> HIDE DEF m, n
<1>8. /\ Len(labels') = Len(labels)
      /\ \A i \in 1 .. Len(labels) :
            /\ labels'[i].by = labels[i].by
            /\ labels'[i].sent = labels[i].sent
            /\ \A h \in 1 .. Gates : labels'[i].opening[h] =
                  IF i = m /\ h = g THEN n ELSE labels[i].opening[h]
  <2>1. Len(labels') = Len(labels) /\ OnlyOpened(t, g)
    BY <1>4, OpenedType
  <2> QED BY <2>1 DEF OnlyOpened, m, n
<1>9. /\ grants'[g] = Append(grants[g], now)
      /\ \A h \in 1 .. Gates : h # g => grants'[h] = grants[h]
      /\ grants[g] \in Seq(Nat)
  BY DEF GateTypeOK
<1>10. /\ Len(grants'[g]) = n /\ grants'[g][n] = now
       /\ \A i \in 1 .. Len(grants[g]) : grants'[g][i] = grants[g][i]
  BY <1>1, <1>9 DEF n
<1>11. \A h \in 1 .. Gates :
          /\ Len(grants[h]) \in Nat /\ Len(grants[h]) <= Len(grants'[h])
          /\ \A i \in 1 .. Len(grants[h]) : grants'[h][i] = grants[h][i]
  <2> SUFFICES ASSUME NEW h \in 1 .. Gates
               PROVE  /\ Len(grants[h]) \in Nat
                      /\ Len(grants[h]) <= Len(grants'[h])
                      /\ \A i \in 1 .. Len(grants[h]) :
                            grants'[h][i] = grants[h][i]
    OBVIOUS
  <2>1. Len(grants[h]) \in Nat
    BY GateTypes
  <2>2. CASE h = g
    BY <1>1, <1>10, <2>1, <2>2 DEF n
  <2>3. CASE h # g
    BY <1>9, <2>1, <2>3
  <2> QED BY <2>2, <2>3
\* What was opened before is as it was.
<1>12. ASSUME NEW k \in 1 .. Len(labels), NEW h \in 1 .. Gates,
              labels[k].opening[h] # 0
       PROVE  /\ labels[k].opening[h] \in 1 .. Len(grants[h])
              /\ grants'[h][labels[k].opening[h]]
                    = grants[h][labels[k].opening[h]]
  <2>1. labels[k].opening[h] \in Nat /\ labels[k].opening[h] <= Len(grants[h])
    BY <1>2, LabelTypes DEF Permits
  <2>2. labels[k].opening[h] \in 1 .. Len(grants[h])
    BY <1>11, <1>12, <2>1
  <2> QED BY <1>11, <2>2
<1>13. InHand'
  <2>1. \A s \in Threads : thread'[s].pc \in {"gate", "label", "send"}
            => thread[s].pc \in {"gate", "label", "send"}
    BY <1>5
  <2> QED BY <1>2, <1>8, <2>1 DEF InHand
<1>14. Permits'
  <2>1. ASSUME NEW k \in 1 .. Len(labels'), NEW h \in 1 .. Gates
        PROVE  labels'[k].opening[h] <= Len(grants'[h])
    <3>1. labels[k].opening[h] \in Nat /\ labels[k].opening[h] <= Len(grants[h])
      BY <1>2, <1>8, LabelTypes DEF Permits
    <3>2. CASE k = m /\ h = g
      BY <1>1, <1>8, <1>10, <3>2
    <3>3. CASE ~(k = m /\ h = g)
      <4>1. labels'[k].opening[h] = labels[k].opening[h]
        BY <1>8, <3>3
      <4>2. Len(grants'[h]) \in Nat
        BY <1>1, <1>9, <1>10, <1>11
      <4> QED BY <1>11, <3>1, <4>1, <4>2
    <3> QED BY <3>2, <3>3
  <2>2. ASSUME NEW j \in 1 .. Len(labels'), NEW k \in 1 .. Len(labels'),
               NEW h \in 1 .. Gates, j # k, labels'[k].opening[h] # 0
        PROVE  labels'[j].opening[h] # labels'[k].opening[h]
    <3>1. /\ labels[j].opening[h] \in Nat
          /\ labels[j].opening[h] <= Len(grants[h])
          /\ labels[k].opening[h] \in Nat
          /\ labels[k].opening[h] <= Len(grants[h])
      BY <1>2, <1>8, LabelTypes, ZenonT(60) DEF Permits
    <3>2. CASE h # g \/ (j # m /\ k # m)
      BY <1>2, <1>8, <2>2, <3>2 DEF Permits
    <3>3. CASE h = g /\ j = m
      BY <1>1, <1>8, <2>2, <3>1, <3>3 DEF n
    <3>4. CASE h = g /\ k = m
      BY <1>1, <1>8, <2>2, <3>1, <3>4 DEF n
    <3> QED BY <3>2, <3>3, <3>4
  <2>3. ASSUME NEW s \in Threads, NEW h \in 1 .. Gates, Through(s, h)'
        PROVE  labels'[task'[s]].opening[h] # 0
    <3>1. CASE s # t
      <4>1. Through(s, h) /\ task[s] # 0
        BY <1>2, <1>5, <2>3, <3>1 DEF Through, InHand
      <4>2. task[s] \in 1 .. Len(labels) /\ task[s] # m
        BY <1>7, <3>1, <4>1
      <4> QED BY <1>2, <1>8, <4>1, <4>2 DEF Permits
    <3>2. CASE s = t /\ h = g
      BY <1>1, <1>3, <1>8, <3>2 DEF m
    <3>3. CASE s = t /\ h # g
      <4>1. active
        BY <1>6, <2>3, <3>3 DEF Through
      <4>2. g > h
        <5>1. CASE thread'[t].pc = "gate"
          <6>1. g + 1 > h
            BY <1>6, <2>3, <3>3, <5>1 DEF Through
          <6> QED BY <3>3, <6>1
        <5>2. CASE thread'[t].pc = "label"
          <6>1. g = Gates
            BY <1>6, <5>2 DEF Past
          <6> QED BY <3>3, <6>1, GateAssumption
        <5> QED BY <1>6, <5>1, <5>2
      <4>3. labels[m].opening[h] # 0
        BY <1>2, <4>1, <4>2 DEF Permits, Through, m
      <4> QED BY <1>3, <1>8, <3>3, <4>3 DEF m
    <3> QED BY <3>1, <3>2, <3>3
  <2> QED BY <2>1, <2>2, <2>3, SMTT(40) DEF Permits
<1>15. Timely'
  <2>1. ASSUME NEW k \in 1 .. Len(labels'), NEW h \in 1 .. Gates,
               NEW i \in 1 .. Len(labels'[k].sent)
        PROVE  /\ labels'[k].opening[h] # 0
               /\ grants'[h][labels'[k].opening[h]] <= labels'[k].sent[i]
               /\ labels'[k].sent[i] <= now'
    <3>1. k # m
      BY <1>3, <1>8
    <3>2. /\ labels'[k].opening[h] = labels[k].opening[h]
          /\ labels'[k].sent = labels[k].sent
      BY <1>8, <3>1
    <3>3. /\ labels[k].opening[h] # 0
          /\ grants[h][labels[k].opening[h]] <= labels[k].sent[i]
          /\ labels[k].sent[i] <= now
      BY <1>2, <1>8, <3>2 DEF Timely
    <3>4. grants'[h][labels[k].opening[h]] = grants[h][labels[k].opening[h]]
      BY <1>8, <1>12, <3>3
    <3> QED BY <3>2, <3>3, <3>4
  <2>2. ASSUME NEW j \in 1 .. Len(labels'), NEW k \in 1 .. Len(labels'),
               NEW h \in 1 .. Gates,
               j < k /\ labels'[j].by = labels'[k].by /\ labels'[k].opening[h] # 0,
               NEW i \in 1 .. Len(labels'[j].sent)
        PROVE  labels'[j].sent[i] <= grants'[h][labels'[k].opening[h]]
    <3>1. /\ labels'[j].sent = labels[j].sent /\ labels[j].by = labels[k].by
      BY <1>8, <2>2
    <3>2. CASE k = m /\ h = g
      <4>1. labels[j].sent[i] <= now
        BY <1>2, <1>8, <3>1 DEF Timely
      <4>2. labels'[k].opening[h] = n /\ grants'[h][n] = now
        BY <1>8, <1>10, <3>2
      <4> QED BY <3>1, <4>1, <4>2
    <3>3. CASE ~(k = m /\ h = g)
      <4>1. labels'[k].opening[h] = labels[k].opening[h]
        BY <1>8, <3>3
      <4>2. labels[j].sent[i] <= grants[h][labels[k].opening[h]]
        BY <1>2, <1>8, <2>2, <3>1, <4>1 DEF Timely
      <4>3. grants'[h][labels[k].opening[h]] = grants[h][labels[k].opening[h]]
        BY <1>8, <1>12, <2>2, <4>1
      <4> QED BY <3>1, <4>1, <4>2, <4>3
    <3> QED BY <3>2, <3>3
  <2>3. \A k \in 1 .. Len(labels'), h \in 1 .. Gates :
           \A i \in 1 .. Len(labels'[k].sent) :
               /\ labels'[k].opening[h] # 0
               /\ grants'[h][labels'[k].opening[h]] <= labels'[k].sent[i]
               /\ labels'[k].sent[i] <= now'
    BY <2>1
  <2>4. \A j, k \in 1 .. Len(labels'), h \in 1 .. Gates :
           j < k /\ labels'[j].by = labels'[k].by /\ labels'[k].opening[h] # 0 =>
               \A i \in 1 .. Len(labels'[j].sent) :
                   labels'[j].sent[i] <= grants'[h][labels'[k].opening[h]]
    BY <2>2
  <2> QED BY <2>3, <2>4 DEF Timely
<1>16. Tried'
  <2>1. ASSUME NEW s \in Threads
        PROVE  /\ thread'[s].pc \in {"gate", "label"}
                      => labels'[task'[s]].sent = <<>>
               /\ thread'[s].pc = "send"
                      => Len(labels'[task'[s]].sent) <= tries'[s]
    <3>1. CASE s = t
      BY <1>3, <1>6, <1>8, <3>1 DEF m
    <3>2. CASE s # t /\ thread[s].pc \in {"gate", "label", "send"}
      <4>1. task[s] \in 1 .. Len(labels)
        BY <1>2, <1>7, <3>2 DEF InHand
      <4> QED BY <1>2, <1>5, <1>8, <3>2, <4>1 DEF Tried
    <3>3. CASE s # t /\ thread[s].pc \notin {"gate", "label", "send"}
      BY <1>5, <3>3
    <3> QED BY <3>1, <3>2, <3>3
  <2> QED BY <1>2, <1>8, <2>1 DEF Tried
<1>17. InOrder'
  <2> SUFFICES ASSUME NEW h \in 1 .. Gates, NEW i \in 1 .. Len(grants'[h]),
                      NEW j \in 1 .. Len(grants'[h]), i <= j
               PROVE  grants'[h][i] <= grants'[h][j]
    BY DEF InOrder
  <2>1. CASE h # g
    BY <1>2, <1>9, <2>1 DEF InOrder
  <2>2. CASE h = g /\ j # n
    <3>1. i \in 1 .. Len(grants[g]) /\ j \in 1 .. Len(grants[g])
      BY <1>1, <1>10, <2>2 DEF n
    <3> QED BY <1>2, <1>10, <2>2, <3>1 DEF InOrder
  <2>3. CASE h = g /\ j = n /\ i # n
    <3>1. i \in 1 .. Len(grants[g])
      BY <1>1, <1>10, <2>3 DEF n
    <3>2. grants[g][i] <= now
      BY <3>1 DEF GateInvariant
    <3> QED BY <1>10, <2>3, <3>1, <3>2
  <2>4. CASE h = g /\ j = n /\ i = n
    BY <1>1, <1>10, <2>4
  <2> QED BY <2>1, <2>2, <2>3, <2>4
<1> QED BY <1>13, <1>14, <1>15, <1>16, <1>17 DEF Ledger

LEMMA TryGateLedger ==
    ASSUME GateTypeOK, Ledger, GateInvariant, NEW t \in Threads, TryGate(t),
           NEW g \in 1 .. Gates, thread[t].gate = g
    PROVE  Ledger'
<1>1. /\ thread[t].pc = "gate" /\ UNCHANGED <<now, active, task, tries>>
      /\ \/ /\ grants' = [grants EXCEPT ![g] = Append(@, now)]
            /\ labels' = [labels EXCEPT ![task[t]].opening[g] = Len(grants[g]) + 1]
            /\ thread' = [thread EXCEPT ![t] = Past(g)]
         \/ TurnedAway(t, g) /\ UNCHANGED <<grants, labels>>
  BY DEF TryGate
<1>2. CASE TurnedAway(t, g) /\ UNCHANGED <<grants, labels>>
  <2>1. \A s \in Threads : s # t => thread'[s] = thread[s]
    BY <1>2 DEF TurnedAway, GateTypeOK
  <2>2. CASE active
    <3>1. thread' = [thread EXCEPT ![t] = [@ EXCEPT !.wake = now + Interval(g)]]
      BY <1>2, <2>2 DEF TurnedAway
    <3>2. thread'[t].pc = thread[t].pc /\ thread'[t].gate = thread[t].gate
      BY <3>1 DEF GateTypeOK
    <3>3. now \in Nat /\ now <= now
      BY GateNow
    <3> QED BY <1>1, <1>2, <2>1, <3>2, <3>3, LedgerWaits
  <2>3. CASE ~active
    <3>1. thread'[t] = Past(g) /\ thread'[t].pc \in {"gate", "label"}
      BY <1>2, <2>3 DEF TurnedAway, GateTypeOK, Past
    <3>2. now \in Nat /\ now <= now
      BY GateNow
    <3> QED BY <1>1, <1>2, <2>1, <2>3, <3>1, <3>2, LedgerWaits
  <2> QED BY <2>2, <2>3
<1> QED BY <1>1, <1>2, OpeningLedger

LEMMA LabelLedger ==
    ASSUME GateTypeOK, Ledger, NEW t \in Threads, LabelSubject(t)
    PROVE  Ledger'
<1>1. /\ thread[t].pc = "label"
      /\ UNCHANGED <<now, active, task, tries, grants, labels>>
      /\ thread'[t].pc = IF active THEN "send" ELSE "ended"
      /\ \A s \in Threads : s # t => thread'[s] = thread[s]
  BY DEF LabelSubject, GateTypeOK
<1>2. now \in Nat /\ now <= now
  BY GateNow
<1> QED BY <1>1, <1>2, LedgerWaits

\* The label in hand is sent, once more or for the first time.
LEMMA SendLedger ==
    ASSUME GateTypeOK, Ledger, GateInvariant, NEW t \in Threads, Send(t)
    PROVE  Ledger'
<1> DEFINE m == task[t]
<1>1. /\ thread[t].pc = "send" /\ UNCHANGED <<now, active, task, grants>>
      /\ labels' = SentOnce(t) \/ UNCHANGED labels
      /\ Again(t) \/ Returns(t)
  BY DEF Send, SentOnce
<1>2. InHand /\ Permits /\ Timely /\ Tried /\ InOrder
  BY DEF Ledger
<1>3. now \in Nat /\ Len(labels) \in Nat /\ MaxTries \in Nat /\ tries[t] \in Nat
  <2>1. now \in Nat /\ Len(labels) \in Nat
    BY GateNow, LabelTypes
  <2>2. MaxTries \in Nat /\ tries[t] \in Nat
    BY GateAssumption DEF GateTypeOK
  <2> QED BY <2>1, <2>2
<1>4. m \in 1 .. Len(labels) /\ labels[m].by = t
  BY <1>1, <1>2, <1>3 DEF InHand
<1>5. \A s \in Threads : s # t =>
          thread'[s] = thread[s] /\ tries'[s] = tries[s]
  BY <1>1 DEF Again, Returns, GateTypeOK
<1>6. \/ /\ thread'[t] = thread[t] /\ tries'[t] = tries[t] + 1
         /\ tries[t] + 1 < MaxTries
      \/ thread'[t].pc = "wait"
  BY <1>1 DEF Again, Returns, GateTypeOK, Waiting
<1>7. \A s \in Threads : s # t /\ task[s] # 0 =>
          task[s] \in 1 .. Len(labels) /\ task[s] # m
  BY <1>2, <1>4 DEF InHand
<1>8. /\ Len(labels') = Len(labels)
      /\ \A i \in 1 .. Len(labels) :
            /\ labels'[i].by = labels[i].by
            /\ labels'[i].opening = labels[i].opening
            /\ i # m => labels'[i].sent = labels[i].sent
      /\ \/ labels'[m].sent = Append(labels[m].sent, now)
         \/ labels'[m].sent = labels[m].sent
  <2>1. CASE labels' = SentOnce(t)
    <3>1. Len(labels') = Len(labels) /\ OnlySent(t)
      BY <2>1, SentType
    <3> QED BY <1>4, <3>1 DEF OnlySent
  <2>2. CASE UNCHANGED labels
    BY <2>2
  <2> QED BY <1>1, <2>1, <2>2
<1>9. /\ labels[m].sent \in Seq(Nat) /\ Len(labels[m].sent) \in Nat
      /\ Len(labels[m].sent) <= tries[t]
  BY <1>1, <1>2, <1>4, LabelTypes DEF Tried
<1> HIDE DEF m
<1>10. /\ Len(labels'[m].sent) <= Len(labels[m].sent) + 1
       /\ Len(labels'[m].sent) \in Nat
       /\ \A i \in 1 .. Len(labels'[m].sent) :
             \/ labels'[m].sent[i] = now
             \/ i \in 1 .. Len(labels[m].sent)
                /\ labels'[m].sent[i] = labels[m].sent[i]
  <2>1. CASE labels'[m].sent = Append(labels[m].sent, now)
    <3>1. /\ Len(labels'[m].sent) = Len(labels[m].sent) + 1
          /\ labels'[m].sent[Len(labels[m].sent) + 1] = now
          /\ \A i \in 1 .. Len(labels[m].sent) :
                labels'[m].sent[i] = labels[m].sent[i]
      BY <1>3, <1>9, <2>1
    <3> QED BY <1>9, <3>1
  <2>2. CASE labels'[m].sent = labels[m].sent
    BY <1>9, <2>2
  <2> QED BY <1>8, <2>1, <2>2
<1>11. InHand'
  <2>1. \A s \in Threads : thread'[s].pc \in {"gate", "label", "send"}
            => thread[s].pc \in {"gate", "label", "send"}
    BY <1>1, <1>5, <1>6
  <2> QED BY <1>1, <1>2, <1>8, <2>1 DEF InHand
<1>12. Permits'
  <2>1. \A s \in Threads, g \in 1 .. Gates : Through(s, g)' => Through(s, g)
    BY <1>1, <1>5, <1>6 DEF Through
  <2>2. \A s \in Threads, g \in 1 .. Gates : Through(s, g)' =>
            labels'[task'[s]].opening[g] # 0
    <3>1. \A s \in Threads, g \in 1 .. Gates :
              Through(s, g) => task[s] \in 1 .. Len(labels)
      BY <1>2, <1>3 DEF InHand, Through
    <3> QED BY <1>1, <1>2, <1>8, <2>1, <3>1 DEF Permits
  <2>3. \A k \in 1 .. Len(labels'), g \in 1 .. Gates :
           labels'[k].opening[g] <= Len(grants'[g])
    BY <1>1, <1>2, <1>8 DEF Permits
  <2>4. \A j, k \in 1 .. Len(labels'), g \in 1 .. Gates :
           j # k /\ labels'[k].opening[g] # 0
               => labels'[j].opening[g] # labels'[k].opening[g]
    BY <1>2, <1>8 DEF Permits
  <2> QED BY <2>2, <2>3, <2>4 DEF Permits
<1>13. Timely'
  <2>1. ASSUME NEW k \in 1 .. Len(labels'), NEW g \in 1 .. Gates,
               NEW i \in 1 .. Len(labels'[k].sent)
        PROVE  /\ labels'[k].opening[g] # 0
               /\ grants'[g][labels'[k].opening[g]] <= labels'[k].sent[i]
               /\ labels'[k].sent[i] <= now'
    <3>1. CASE i \in 1 .. Len(labels[k].sent)
               /\ labels'[k].sent[i] = labels[k].sent[i]
      <4>1. /\ labels[k].opening[g] # 0
            /\ grants[g][labels[k].opening[g]] <= labels[k].sent[i]
            /\ labels[k].sent[i] <= now
        BY <1>2, <1>8, <3>1 DEF Timely
      <4> QED BY <1>1, <1>8, <3>1, <4>1
    <3>2. CASE k = m /\ labels'[k].sent[i] = now
      <4>1. labels[m].opening[g] # 0
        BY <1>1, <1>2 DEF Permits, Through, m
      <4>2. labels[m].opening[g] \in 1 .. Len(grants[g])
        <5>1. /\ labels[m].opening[g] \in Nat
              /\ labels[m].opening[g] <= Len(grants[g])
          BY <1>2, <1>4, LabelTypes DEF Permits, m
        <5> QED BY <4>1, <5>1, GateTypes
      <4>3. grants[g][labels[m].opening[g]] <= now
        BY <4>2 DEF GateInvariant
      <4> QED BY <1>1, <1>3, <1>4, <1>8, <3>2, <4>1, <4>3 DEF m
    <3>3. k # m => i \in 1 .. Len(labels[k].sent)
                   /\ labels'[k].sent[i] = labels[k].sent[i]
      BY <1>8
    <3> QED BY <1>10, <3>1, <3>2, <3>3
  <2>2. ASSUME NEW j \in 1 .. Len(labels'), NEW k \in 1 .. Len(labels'),
               NEW g \in 1 .. Gates,
               j < k /\ labels'[j].by = labels'[k].by /\ labels'[k].opening[g] # 0,
               NEW i \in 1 .. Len(labels'[j].sent)
        PROVE  labels'[j].sent[i] <= grants'[g][labels'[k].opening[g]]
    <3>1. j # m
      <4>1. \A n \in 1 .. Len(labels) : labels[n].by = t => n <= m
        BY <1>2 DEF InHand, m
      <4>2. labels[m].by = t
        BY <1>4 DEF m
      <4> QED BY <1>3, <1>8, <2>2, <4>1, <4>2
    <3>2. labels'[j].sent = labels[j].sent
      BY <1>8, <3>1
    <3> QED BY <1>1, <1>2, <1>8, <2>2, <3>2 DEF Timely
  <2> QED BY <2>1, <2>2 DEF Timely
<1>14. Tried'
  <2>1. ASSUME NEW s \in Threads
        PROVE  /\ thread'[s].pc \in {"gate", "label"}
                      => labels'[task'[s]].sent = <<>>
               /\ thread'[s].pc = "send"
                      => Len(labels'[task'[s]].sent) <= tries'[s]
    <3>1. CASE s = t
      <4>1. task'[t] = m
        BY <1>1 DEF m
      <4>2. CASE thread'[t] = thread[t] /\ tries'[t] = tries[t] + 1
        <5>1. Len(labels'[m].sent) <= tries[t] + 1
          BY <1>3, <1>9, <1>10, SMTT(40)
        <5> QED BY <1>1, <3>1, <4>1, <4>2, <5>1
      <4>3. CASE thread'[t].pc = "wait"
        BY <3>1, <4>3
      <4> QED BY <1>6, <4>2, <4>3
    <3>2. CASE s # t /\ thread[s].pc \in {"gate", "label", "send"}
      <4>1. task[s] \in 1 .. Len(labels) /\ task[s] # m
        BY <1>2, <1>7, <3>2 DEF InHand
      <4> QED BY <1>1, <1>2, <1>5, <1>8, <3>2, <4>1 DEF Tried
    <3>3. CASE s # t /\ thread[s].pc \notin {"gate", "label", "send"}
      BY <1>5, <3>3
    <3> QED BY <3>1, <3>2, <3>3
  <2>2. tries[t] + 1 <= MaxTries
    BY <1>3, GateAssumption DEF GateTypeOK
  <2>3. \A k \in 1 .. Len(labels') : Len(labels'[k].sent) <= MaxTries
    <3>1. Len(labels'[m].sent) <= MaxTries
      BY <1>3, <1>9, <1>10, <2>2, SMTT(40)
    <3> QED BY <1>2, <1>8, <3>1 DEF Tried
  <2> QED BY <2>1, <2>3 DEF Tried
<1>15. InOrder'
  BY <1>1, <1>2 DEF InOrder
<1> QED BY <1>11, <1>12, <1>13, <1>14, <1>15 DEF Ledger

LEMMA LedgerStep ==
    GateTypeOK /\ GateInvariant /\ Ledger /\ [NextGate]_gateVars => Ledger'
<1> SUFFICES ASSUME GateTypeOK, GateInvariant, Ledger, [NextGate]_gateVars
             PROVE  Ledger'
  OBVIOUS
<1>1. ASSUME NEW t \in Threads, TryGate(t) PROVE Ledger'
  <2>1. thread[t].gate \in 1 .. Gates
    BY DEF GateTypeOK
  <2> QED BY <1>1, <2>1, TryGateLedger
<1>2. ASSUME NEW t \in Threads, LabelSubject(t) PROVE Ledger'
  BY <1>2, LabelLedger
<1>3. ASSUME NEW t \in Threads, Send(t) PROVE Ledger'
  BY <1>3, SendLedger
<1>4. ASSUME NEW t \in Threads, TakeReport(t) PROVE Ledger'
  BY <1>4, TakeReportLedger
<1>5. ASSUME NEW t \in Threads, StopSeen(t) PROVE Ledger'
  <2>1. /\ UNCHANGED <<now, active, grants, labels, task, tries>>
        /\ thread'[t].pc = "ended"
        /\ \A s \in Threads : s # t => thread'[s] = thread[s]
    BY <1>5 DEF StopSeen, GateTypeOK
  <2>2. now \in Nat /\ now <= now
    BY GateNow
  <2> QED BY <2>1, <2>2, LedgerWaits
<1>6. CASE Tick \/ ForceStop \/ UNCHANGED gateVars
  <2>1. /\ UNCHANGED <<grants, labels, task, tries, thread>>
        /\ now' \in {now, now + 1} /\ (active' => active)
    BY <1>6 DEF Tick, ForceStop, gateVars
  <2>2. now' \in Nat /\ now <= now'
    BY <2>1, GateNow
  <2> QED BY <2>1, <2>2, LedgerWaits
<1> QED BY <1>1, <1>2, <1>3, <1>4, <1>5, <1>6 DEF NextGate

(***************************************************************************)
(* LabelBursts. Of the labels that are sent in a window, those whose       *)
(* opening of the gate is in the window too are as many as these openings  *)
(* at most; the others were opened before it, and no thread has two such.  *)
(***************************************************************************)
LEMMA FewApart ==
    ASSUME NEW G \in Seq(Nat), NEW two \in Nat \ {0}, NEW W \in Nat,
           NEW from \in Nat,
           \A i \in 1 .. Len(G) : i + two <= Len(G) => G[i + two] - G[i] > W,
           \A i, j \in 1 .. Len(G) : i <= j => G[i] <= G[j],
           NEW I, I = {i \in 1 .. Len(G) : G[i] \in from .. (from + W)}
    PROVE  IsFiniteSet(I) /\ Cardinality(I) <= two
<1>1. CASE I = {}
  <2>1. Cardinality(I) = 0 /\ IsFiniteSet(I)
    BY <1>1, FS_EmptySet
  <2> QED BY <2>1
<1>2. CASE I # {}
  <2>1. I \subseteq Nat
    OBVIOUS
  <2>2. PICK first \in I : \A i \in I : ~ (<<i, first>> \in OpToRel(<, Nat))
    BY <1>2, <2>1, NatLessThanWellFounded, WFMin
  <2>3. ASSUME NEW i \in I PROVE first <= i
    <3>1. i \in Nat /\ first \in Nat /\ <<i, first>> \in Nat \X Nat
      BY <2>1
    <3>2. i < first => <<i, first>> \in OpToRel(<, Nat)
      BY <3>1 DEF OpToRel
    <3>3. ~(i < first)
      BY <2>2, <3>2
    <3> QED BY <3>1, <3>3
  <2>4. first \in Nat
    BY <2>1
  <2>5. ASSUME NEW i \in I PROVE i \in first .. (first + two - 1)
    <3>1. /\ i \in 1 .. Len(G) /\ first \in 1 .. Len(G) /\ first <= i
          /\ Len(G) \in Nat /\ \A n \in 1 .. Len(G) : G[n] \in Nat
          /\ G[i] <= from + W /\ from <= G[first]
      BY <2>3, SMTT(40)
    <3>2. ASSUME first + two <= i PROVE FALSE
      <4>1. first + two \in 1 .. Len(G) /\ first + two <= Len(G)
        BY <2>4, <3>1, <3>2
      <4>2. G[first + two] - G[first] > W
        BY <3>1, <4>1
      <4>3. G[first + two] <= G[i]
        BY <3>1, <3>2, <4>1
      <4>4. G[first + two] \in Nat /\ G[first] \in Nat /\ G[i] \in Nat
        BY <3>1, <4>1
      <4> QED BY <3>1, <4>2, <4>3, <4>4, SMTT(40)
    <3> QED BY <2>4, <3>1, <3>2
  <2>6. /\ IsFiniteSet(first .. (first + two - 1))
        /\ Cardinality(first .. (first + two - 1)) = two
    <3> DEFINE last == first + two - 1
    <3>1. last \in Int /\ first \in Int /\ ~(first > last)
          /\ last - first + 1 = two
      BY <2>4
    <3> HIDE DEF last
    <3>2. IsFiniteSet(first .. last)
          /\ Cardinality(first .. last) = last - first + 1
      BY <3>1, FS_Interval
    <3> QED BY <3>1, <3>2 DEF last
  <2> QED BY <2>5, <2>6, FS_Subset, ZenonT(60)
<1> QED BY <1>1, <1>2

LEMMA LedgerBounds == GateTypeOK /\ Ledger /\ TwiceTheLimit => LabelBursts
<1> SUFFICES ASSUME GateTypeOK, Ledger, TwiceTheLimit, NEW g \in 1 .. Gates,
                    NEW from \in Times
             PROVE  Cardinality(SentIn(from, from + Window[g]))
                        <= 2 * Limit[g] + Cardinality(Threads)
  BY DEF LabelBursts, Ledger, Tried
<1> DEFINE G == grants[g]
           W == Window[g]
           two == 2 * Limit[g]
           N == Cardinality(Threads)
           S == SentIn(from, from + W)
           I == {i \in 1 .. Len(G) : G[i] \in from .. (from + W)}
           Fresh == {k \in S : G[labels[k].opening[g]] >= from}
           Held == {k \in S : G[labels[k].opening[g]] < from}
<1>1. /\ two \in Nat \ {0} /\ W \in Nat /\ from \in Nat
      /\ G \in Seq(Nat) /\ Len(G) \in Nat /\ Len(labels) \in Nat
      /\ \A i \in 1 .. Len(G) : G[i] \in Nat
  <2>1. two \in Nat \ {0} /\ W \in Nat
    BY Positive
  <2>2. from \in Nat
    BY GateAssumption DEF Times
  <2> QED BY <2>1, <2>2, GateTypes, LabelTypes
<1>2. N \in Nat /\ IsFiniteSet(Threads)
  BY GateAssumption, FS_CardinalityType
<1>3. IsFiniteSet(I) /\ Cardinality(I) <= two
  <2>1. \A i \in 1 .. Len(G) : i + two <= Len(G) => G[i + two] - G[i] > W
    BY DEF TwiceTheLimit, Apart
  <2>2. \A i, j \in 1 .. Len(G) : i <= j => G[i] <= G[j]
    BY DEF Ledger, InOrder
  <2> QED BY <1>1, <2>1, <2>2, FewApart
\* What is known of a label that is sent in the window.
<1>4. ASSUME NEW k \in S
      PROVE  /\ k \in 1 .. Len(labels) /\ labels[k].by \in Threads
             /\ labels[k].opening[g] # 0
             /\ labels[k].opening[g] \in 1 .. Len(G)
             /\ G[labels[k].opening[g]] <= from + W
             /\ \E i \in 1 .. Len(labels[k].sent) :
                   labels[k].sent[i] \in Nat /\ from <= labels[k].sent[i]
  <2>1. PICK i \in 1 .. Len(labels[k].sent) :
                labels[k].sent[i] \in from .. (from + W)
    BY DEF SentIn
  <2>2. k \in 1 .. Len(labels)
    BY DEF SentIn
  <2>3. labels[k].opening[g] \in Nat /\ labels[k].by \in Threads
        /\ labels[k].sent[i] \in Nat
    BY <2>1, <2>2, LabelTypes, HistoryTypes
  <2>4. /\ labels[k].opening[g] # 0 /\ labels[k].opening[g] <= Len(G)
        /\ G[labels[k].opening[g]] <= labels[k].sent[i]
    BY <2>1, <2>2 DEF Ledger, Timely, Permits
  <2>5. labels[k].opening[g] \in 1 .. Len(G)
    BY <1>1, <2>3, <2>4, SMTT(40)
  <2>6. G[labels[k].opening[g]] <= from + W /\ from <= labels[k].sent[i]
    <3>1. G[labels[k].opening[g]] \in Nat
      BY <1>1, <2>5
    <3>2. from <= labels[k].sent[i] /\ labels[k].sent[i] <= from + W
      BY <2>1
    <3>3. G[labels[k].opening[g]] <= labels[k].sent[i]
      BY <2>4
    <3> HIDE DEF G, W
    <3> QED BY <1>1, <2>3, <3>1, <3>2, <3>3, SMTT(40)
  <2> QED BY <2>1, <2>2, <2>3, <2>4, <2>5, <2>6
<1>5. IsFiniteSet(S)
  <2>1. S \subseteq 1 .. Len(labels)
    BY DEF SentIn
  <2>2. IsFiniteSet(1 .. Len(labels))
    BY <1>1, FS_Interval
  <2> QED BY <2>1, <2>2, FS_Subset
<1>6. /\ IsFiniteSet(Fresh) /\ IsFiniteSet(Held) /\ S = Fresh \cup Held
      /\ Fresh \cap Held = {}
  <2>1. Fresh \subseteq S /\ Held \subseteq S
    OBVIOUS
  <2>2. \A k \in S : G[labels[k].opening[g]] \in Nat
    BY <1>1, <1>4
  <2>3. S = Fresh \cup Held /\ Fresh \cap Held = {}
    BY <1>1, <2>2, SMTT(40)
  <2> QED BY <1>5, <2>1, <2>3, FS_Subset
<1> HIDE DEF S
<1>7. Cardinality(Fresh) <= Cardinality(I)
  <2> DEFINE f == [k \in Fresh |-> labels[k].opening[g]]
  <2>1. ASSUME NEW k \in Fresh PROVE f[k] \in I
    <3>1. /\ labels[k].opening[g] \in 1 .. Len(G)
          /\ G[labels[k].opening[g]] <= from + W
          /\ G[labels[k].opening[g]] >= from
      BY <1>4
    <3>2. PICK i : i = labels[k].opening[g]
      OBVIOUS
    <3>3. G[i] \in Nat
      BY <1>1, <3>1, <3>2
    <3>4. i \in I
      BY <1>1, <3>1, <3>2, <3>3
    <3> QED BY <3>2, <3>4
  <2>2. \A j, k \in Fresh : j # k => f[j] # f[k]
    BY <1>4 DEF Ledger, Permits
  <2>3. f \in [Fresh -> I]
    BY <2>1
  <2> HIDE DEF f, Fresh, I
  <2>4. ASSUME Cardinality(I) < Cardinality(Fresh) PROVE FALSE
    <3>1. \E j, k \in Fresh : j # k /\ f[j] = f[k]
      BY <1>3, <1>6, <2>3, <2>4, FS_PigeonHole
    <3> QED BY <2>2, <3>1
  <2>5. Cardinality(I) \in Nat /\ Cardinality(Fresh) \in Nat
    BY <1>3, <1>6, FS_CardinalityType
  <2> QED BY <2>4, <2>5
<1>8. Cardinality(Held) <= N
  <2> DEFINE f == [k \in Held |-> labels[k].by]
  <2>1. f \in [Held -> Threads]
    BY <1>4
  <2>2. ASSUME NEW j \in Held, NEW k \in Held, j < k, f[j] = f[k] PROVE FALSE
    <3>1. PICK i \in 1 .. Len(labels[j].sent) :
                  labels[j].sent[i] \in Nat /\ from <= labels[j].sent[i]
      BY <1>4
    <3>2. /\ j \in 1 .. Len(labels) /\ k \in 1 .. Len(labels)
          /\ labels[j].by = labels[k].by /\ labels[k].opening[g] # 0
      BY <1>4, <2>2
    <3>3. labels[j].sent[i] <= G[labels[k].opening[g]]
      BY <2>2, <3>1, <3>2 DEF Ledger, Timely
    <3>4. G[labels[k].opening[g]] < from /\ G[labels[k].opening[g]] \in Nat
      BY <1>1, <1>4
    <3>5. labels[j].sent[i] \in Nat /\ from <= labels[j].sent[i]
      BY <3>1
    <3> HIDE DEF G
    <3> QED BY <1>1, <3>3, <3>4, <3>5, SMTT(40)
  <2>3. \A j, k \in Held : j # k => f[j] # f[k]
    <3>1. \A k \in Held : k \in Nat
      BY <1>1, <1>4
    <3>2. \A j, k \in Held : j # k => j < k \/ k < j
      BY <3>1
    <3> HIDE DEF f, Held
    <3> QED BY <2>2, <3>2
  <2> HIDE DEF f, Held
  <2>4. ASSUME Cardinality(Threads) < Cardinality(Held) PROVE FALSE
    <3>1. \E j, k \in Held : j # k /\ f[j] = f[k]
      BY <1>2, <1>6, <2>1, <2>4, FS_PigeonHole
    <3> QED BY <2>3, <3>1
  <2>5. Cardinality(Held) \in Nat
    BY <1>6, FS_CardinalityType
  <2> QED BY <1>2, <2>4, <2>5
<1> HIDE DEF Fresh, Held, I
<1>9. Cardinality(S) = Cardinality(Fresh) + Cardinality(Held)
  <2>1. Cardinality(Fresh \cap Held) = 0
    BY <1>6, FS_EmptySet
  <2>2. Cardinality(Fresh) \in Nat /\ Cardinality(Held) \in Nat
    BY <1>6, FS_CardinalityType
  <2> QED BY <1>6, <2>1, <2>2, FS_Union
<1>10. Cardinality(S) <= two + N
  <2>1. /\ Cardinality(Fresh) \in Nat /\ Cardinality(Held) \in Nat
        /\ Cardinality(I) \in Nat
    BY <1>3, <1>6, FS_CardinalityType
  <2> HIDE DEF two, N
  <2> QED BY <1>1, <1>2, <1>3, <1>7, <1>8, <1>9, <2>1
<1> QED BY <1>10 DEF S

\* For all threads, gates, windows, limits and tries: whatever the server
\* answers, and however often a label is sent again.
THEOREM LabelBound == GateSpec => []LabelBursts
<1>1. InitGates => GateTypeOK /\ GateInvariant /\ TwiceTheLimit /\ Ledger
  BY TypeInit, GateInit, LedgerInit
<1>2. GateTypeOK /\ GateInvariant /\ TwiceTheLimit /\ Ledger /\ [NextGate]_gateVars
        => GateTypeOK' /\ GateInvariant' /\ TwiceTheLimit' /\ Ledger'
  BY TypeStep, GateStep, LedgerStep
<1>3. GateTypeOK /\ Ledger /\ TwiceTheLimit => LabelBursts
  BY LedgerBounds
<1> QED BY <1>1, <1>2, <1>3, PTL DEF GateSpec

=============================================================================
