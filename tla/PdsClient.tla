------------------------------ MODULE PdsClient ------------------------------
(***************************************************************************)
(* How a report_agent thread writes to the labeler, through its own client *)
(* and session.                                                            *)
(*                                                                         *)
(*   report_agent thread --> client --> PDS --> labeler                    *)
(*                             |  ^                                        *)
(*                             v  |                                        *)
(*                          pds_session                                    *)
(*                                                                         *)
(* A report is one write, a label is two: the label, then the              *)
(* acknowledgement that closes the report. Before each try of a write the  *)
(* session looks at its access token, and asks for another when it is      *)
(* about to expire: refreshSession, and createSession when that is         *)
(* rejected. All of them are tried again after an end of file, MaxTries    *)
(* times, whether or not the server did what it was asked.                 *)
(*                                                                         *)
(* A session is the time at which its access token expires, and 0 before   *)
(* it is opened. The system clock is a counter.                            *)
(***************************************************************************)
EXTENDS Naturals

CONSTANTS
    Reports, Labels,        \* what the thread is asked to write
    MaxTries,               \* 5 in each of the loops
    AccessExpiryBuffer,
    AccessLife,             \* how long a token lasts from the server's answer
    TimeLimit,              \* of a request
    StartTime, MaxTime      \* the clock, and a bound on it

Jobs == Reports \cup Labels
Writes == {"report", "label", "ack"}

ASSUME ClientAssumption ==
    /\ Reports \cap Labels = {}
    /\ MaxTries \in Nat \ {0}
    /\ StartTime \in Nat /\ MaxTime \in Nat
    /\ AccessExpiryBuffer \in Nat /\ AccessLife \in Nat /\ TimeLimit \in Nat
    /\ AccessExpiryBuffer < StartTime /\ StartTime <= MaxTime
    /\ TimeLimit <= AccessExpiryBuffer /\ AccessExpiryBuffer < AccessLife

VARIABLES
    now,            \* system_clock
    active,         \* controller._active
    queue,          \* what is left to write; other threads are left out
    expiry,         \* _access_expiry
    ready,          \* client._is_ready
    pc, job, write, \* where the thread is, and what it writes
    tries,          \* retries of the write
    postTries,      \* retries of refreshSession or createSession
    since,          \* when the request in hand began
    stored,         \* what the labeler did, for each job and write
    unheard,        \* history: how often it did so without an answer
    exhausted       \* history: the labels that ended in an empty response

session == <<expiry, ready>>
call == <<pc, job, write, tries, postTries, since>>
server == <<stored, unheard, exhausted>>
vars == <<now, active, queue, session, call, server>>

NoJob == "none"
Requests == {"connect_first", "refresh", "connect", "send"}

TypeOK ==
    /\ now \in StartTime .. MaxTime /\ active \in BOOLEAN /\ ready \in BOOLEAN
    /\ queue \subseteq Jobs
    /\ expiry \in Nat
    /\ pc \in Requests \cup {"wait", "check", "ended"}
    /\ pc \notin {"connect_first", "wait", "ended"} =>
          /\ job \in Jobs \ queue
          /\ write \in (IF job \in Reports THEN {"report"} ELSE {"label", "ack"})
    /\ tries \in 0 .. (MaxTries - 1) /\ postTries \in 0 .. (MaxTries - 1)
    /\ since \in StartTime .. now
    /\ stored \in [Jobs -> [Writes -> 0 .. MaxTries]]
    /\ unheard \in [Jobs -> [Writes -> 0 .. MaxTries]]
    /\ exhausted \subseteq Labels

Init ==
    /\ now = StartTime /\ active = TRUE
    /\ queue = Jobs
    /\ expiry = 0 /\ ready = FALSE
    /\ pc = "connect_first" /\ job = NoJob /\ write = "report"
    /\ tries = 0 /\ postTries = 0 /\ since = StartTime
    /\ stored = [j \in Jobs |-> [w \in Writes |-> 0]]
    /\ unheard = [j \in Jobs |-> [w \in Writes |-> 0]]
    /\ exhausted = {}

-----------------------------------------------------------------------------
\* Time passes, but every request has a time limit.
Tick ==
    /\ now < MaxTime
    /\ pc \in Requests => now - since < TimeLimit
    /\ now' = now + 1
    /\ UNCHANGED <<active, queue, session, call, server>>

Begin(next) ==
    /\ pc' = next
    /\ since' = now

JobEnds ==
    /\ pc' = "wait" /\ job' = NoJob /\ write' = "report"
    /\ tries' = 0 /\ postTries' = 0
    /\ UNCHANGED since

\* client::set_config: a client that cannot open its session is used all
\* the same.
Connected ==
    /\ pc = "connect_first"
    /\ expiry' = now + AccessLife /\ ready' = TRUE
    /\ JobEnds
    /\ UNCHANGED <<now, active, queue, server>>

ConnectFails ==
    /\ pc = "connect_first"
    /\ JobEnds
    /\ UNCHANGED <<now, active, queue, session, server>>

TakeJob ==
    /\ pc = "wait" /\ active
    /\ \E j \in queue :
          /\ queue' = queue \ {j}
          /\ job' = j
          /\ write' = IF j \in Reports THEN "report" ELSE "label"
    /\ pc' = "check"
    /\ UNCHANGED <<now, active, session, tries, postTries, since, server>>

StopSeen ==
    /\ pc = "wait" /\ ~active
    /\ pc' = "ended"
    /\ UNCHANGED <<now, active, queue, session, job, write, tries, postTries,
                   since, server>>

ForceStop ==
    /\ active
    /\ active' = FALSE
    /\ UNCHANGED <<now, queue, session, call, server>>

-----------------------------------------------------------------------------
(***************************************************************************)
(* The ends of one try of a write.                                         *)
(***************************************************************************)
\* Variant: the token is only looked at before the first try.
RetryUnchecked ==
    /\ tries' = tries + 1
    /\ Begin("send")
    /\ UNCHANGED <<job, write, exhausted>>

Retry ==
    /\ tries' = tries + 1
    /\ pc' = "check"
    /\ UNCHANGED <<job, write, since, exhausted>>

Acknowledge ==
    /\ pc' = "check" /\ write' = "ack" /\ tries' = 0
    /\ UNCHANGED <<job, since>>

\* Variant: the loop is not left after an answer.
WriteDoneAgain ==
    IF tries + 1 < MaxTries THEN Retry /\ postTries' = 0
    ELSE JobEnds /\ UNCHANGED exhausted

\* send_report_for_subject and acknowledge_subject return, label_subject
\* goes on to acknowledge.
WriteDone ==
    /\ IF write = "label" THEN Acknowledge /\ postTries' = 0 ELSE JobEnds
    /\ UNCHANGED exhausted

\* Variant: label_subject goes on after an error.
WriteFailsSilently == WriteDone

\* An exception is logged, and ends the job.
WriteFails == JobEnds /\ UNCHANGED exhausted

\* The loop of emit_event leaves with an empty response, as after a success;
\* the one of send_report_for_subject counts an error.
OutOfTries ==
    /\ IF write = "label" THEN Acknowledge /\ postTries' = 0 ELSE JobEnds
    /\ exhausted' = IF write = "label" THEN exhausted \cup {job} ELSE exhausted

\* Variant: one try too many.
EndOfFileOneMore ==
    IF tries < MaxTries THEN Retry /\ postTries' = 0 ELSE OutOfTries

EndOfFile ==
    IF tries + 1 < MaxTries THEN Retry /\ postTries' = 0 ELSE OutOfTries

-----------------------------------------------------------------------------
(***************************************************************************)
(* pds_session. An end of file that is left after the last try of a POST   *)
(* is one to the write around it, and any other error ends the write.      *)
(***************************************************************************)
CheckRefresh ==
    /\ pc = "check"
    /\ Begin(IF expiry < now + AccessExpiryBuffer THEN "refresh" ELSE "send")
    /\ UNCHANGED <<now, active, queue, session, job, write, tries, postTries,
                   server>>

SessionOpened ==
    /\ pc \in {"refresh", "connect"}
    /\ expiry' = now + AccessLife
    /\ Begin("send")
    /\ postTries' = 0
    /\ UNCHANGED <<now, active, queue, ready, job, write, tries, server>>

\* Variant: the token is looked at again, and no session is opened.
InvalidTokenAgain ==
    /\ pc = "refresh"
    /\ pc' = "check" /\ postTries' = 0
    /\ UNCHANGED <<now, active, queue, session, job, write, tries, since, server>>

\* refreshSession is rejected with "InvalidToken".
InvalidToken ==
    /\ pc = "refresh"
    /\ Begin("connect")
    /\ postTries' = 0
    /\ UNCHANGED <<now, active, queue, session, job, write, tries, server>>

SessionEndOfFile ==
    /\ pc \in {"refresh", "connect"}
    /\ IF postTries + 1 < MaxTries
         THEN /\ postTries' = postTries + 1
              /\ Begin(pc)
              /\ UNCHANGED <<job, write, tries, exhausted>>
         ELSE EndOfFile
    /\ UNCHANGED <<now, active, queue, session, stored, unheard>>

SessionFails ==
    /\ pc \in {"refresh", "connect"}
    /\ WriteFails
    /\ UNCHANGED <<now, active, queue, session, stored, unheard>>

-----------------------------------------------------------------------------
(***************************************************************************)
(* createReport and emitEvent. The server refuses an expired token.        *)
(***************************************************************************)
Accepts == pc = "send" /\ now <= expiry

Answered ==
    /\ Accepts
    /\ stored' = [stored EXCEPT ![job][write] = @ + 1]
    /\ WriteDone
    /\ UNCHANGED <<now, active, queue, session, unheard>>

\* The request is applied or not, and the connection ends.
AppliedUnheard ==
    /\ Accepts
    /\ stored' = [stored EXCEPT ![job][write] = @ + 1]
    /\ unheard' = [unheard EXCEPT ![job][write] = @ + 1]

NotApplied == pc = "send" /\ UNCHANGED <<stored, unheard>>

SendEndOfFile ==
    /\ AppliedUnheard \/ NotApplied
    /\ EndOfFile
    /\ UNCHANGED <<now, active, queue, session>>

SendFails ==
    /\ AppliedUnheard \/ NotApplied
    /\ WriteFails
    /\ UNCHANGED <<now, active, queue, session>>

Next ==
    \/ Tick \/ ForceStop
    \/ Connected \/ ConnectFails
    \/ TakeJob \/ StopSeen
    \/ CheckRefresh \/ SessionOpened \/ InvalidToken
    \/ SessionEndOfFile \/ SessionFails
    \/ Answered \/ SendEndOfFile \/ SendFails

Spec == Init /\ [][Next]_vars

\* The thread runs on, and its requests end, with some answer or other.
FairSpec ==
    Spec /\ WF_vars(\/ Connected \/ ConnectFails \/ TakeJob \/ StopSeen
                    \/ CheckRefresh \/ SessionOpened \/ InvalidToken
                    \/ SessionEndOfFile \/ SessionFails
                    \/ Answered \/ SendEndOfFile \/ SendFails)

-----------------------------------------------------------------------------
(***************************************************************************)
(* No write is under way with an access token that has expired, whatever   *)
(* became of the writes and sessions before it.                            *)
(***************************************************************************)
TokenFresh == pc = "send" => now <= expiry

(***************************************************************************)
(* The labeler has a report, label or acknowledgement twice only if it     *)
(* did not get an answer through, and never more often than the loop       *)
(* turns.                                                                  *)
(***************************************************************************)
StoredOnce ==
    \A j \in Jobs : \A w \in Writes :
        /\ stored[j][w] <= unheard[j][w] + 1
        /\ pc = "send" /\ job = j /\ write = w => stored[j][w] = unheard[j][w]

(***************************************************************************)
(* A report is closed only for a subject that was labelled, or whose label *)
(* was taken for written after the last end of file.                       *)
(***************************************************************************)
ClosedIfLabelled ==
    \A j \in Jobs :
        stored[j]["ack"] > 0 => stored[j]["label"] > 0 \/ j \in exhausted

(***************************************************************************)
(* No job keeps the thread for ever, whatever the servers answer.          *)
(***************************************************************************)
JobsEnd == pc \notin {"wait", "ended"} ~> pc \in {"wait", "ended"}

=============================================================================
