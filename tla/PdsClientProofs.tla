--------------------------- MODULE PdsClientProofs ---------------------------
(***************************************************************************)
(* Proofs about PdsClient, for any jobs, any number of tries and any       *)
(* length of sessions and requests.                                        *)
(***************************************************************************)
EXTENDS PdsClient, TLAPS

\* The parts of TypeOK.
Flags == active \in BOOLEAN /\ ready \in BOOLEAN

Clock ==
    /\ now \in StartTime .. MaxTime
    /\ since \in StartTime .. now
    /\ expiry \in Nat

Thread ==
    /\ queue \subseteq Jobs
    /\ pc \in Requests \cup {"wait", "check", "ended"}
    /\ pc \notin {"connect_first", "wait", "ended"} =>
          /\ job \in Jobs \ queue
          /\ write \in (IF job \in Reports THEN {"report"} ELSE {"label", "ack"})

Tries == tries \in 0 .. (MaxTries - 1) /\ postTries \in 0 .. (MaxTries - 1)

Server ==
    /\ stored \in [Jobs -> [Writes -> 0 .. MaxTries]]
    /\ unheard \in [Jobs -> [Writes -> 0 .. MaxTries]]
    /\ exhausted \subseteq Labels

Busy == {"check", "refresh", "connect", "send"}

\* A request lasts no longer than its time limit, and a write is sent with a
\* token that was good for longer than that when the request began.
Timed ==
    /\ pc \in Requests => now <= since + TimeLimit
    /\ pc = "send" => since + AccessExpiryBuffer <= expiry

\* A job starts with a whole set of tries, and nothing stored for it.
Untouched ==
    /\ pc = "wait" => tries = 0
    /\ \A j \in queue : \A w \in Writes : stored[j][w] = 0 /\ unheard[j][w] = 0

\* What is stored of the write in hand is what went unheard, once a try at
\* most, and nothing is stored of the write after it.
InHand ==
    pc \in Busy =>
        /\ stored[job][write] = unheard[job][write]
        /\ stored[job][write] <= tries
        /\ write # "ack" => stored[job]["ack"] = 0 /\ unheard[job]["ack"] = 0
        /\ write = "ack" => stored[job]["label"] > 0 \/ job \in exhausted

Counted == \A j \in Jobs : \A w \in Writes : stored[j][w] <= unheard[j][w] + 1

Parts ==
    /\ Flags /\ Clock /\ Thread /\ Tries /\ Server
    /\ Timed /\ Untouched /\ InHand /\ Counted /\ ClosedIfLabelled

IInv == TypeOK /\ Timed /\ Untouched /\ InHand /\ Counted /\ ClosedIfLabelled

\* The type invariant in the parts that the provers take one at a time.
LEMMA IInvParts == IInv <=> Parts
  BY Zenon DEF IInv, Parts, TypeOK, Flags, Clock, Thread, Tries, Server

-----------------------------------------------------------------------------
\* The invariant holds of a client that has not opened its session.
LEMMA InitParts == ASSUME Init PROVE Parts
<1>1. active = TRUE /\ ready = FALSE
  BY DEF Init
<1>2. Flags
  BY Zenon, <1>1 DEF Flags
<1>3. Clock
  BY ClientAssumption DEF Init, Clock
<1>4. Thread
  BY DEF Init, Thread, Jobs, Requests
<1>5. Tries
  BY ClientAssumption DEF Init, Tries
<1>6. Server
  BY ClientAssumption DEF Init, Server, Writes
<1>7. Timed
  BY ClientAssumption DEF Init, Timed, Requests
<1>8. Untouched
  BY DEF Init, Untouched, Jobs
<1>9. InHand
  BY DEF Init, InHand, Busy
<1>10. Counted
  BY DEF Init, Counted
<1>11. ClosedIfLabelled
  BY DEF Init, ClosedIfLabelled, Writes
<1>. QED BY <1>2, <1>3, <1>4, <1>5, <1>6, <1>7, <1>8, <1>9, <1>10, <1>11 DEF Parts

-----------------------------------------------------------------------------
(***************************************************************************)
(* Steps that leave the labeler alone.                                     *)
(***************************************************************************)
\* Time, stops and the opening of the first session disturb no count.
LEMMA QuietSteps ==
  ASSUME Parts, Tick \/ ForceStop \/ Connected \/ ConnectFails \/ StopSeen
  PROVE  Parts'
<1>1. CASE Tick
  <2>1. Flags'
    BY Zenon, <1>1 DEF Parts, Flags, Tick, session, call, server
  <2>2. /\ Thread' /\ Tries' /\ Server' /\ Untouched' /\ InHand' /\ Counted'
        /\ ClosedIfLabelled'
    BY <1>1 DEF Parts, Thread, Tries, Server, Untouched, InHand, Counted,
      ClosedIfLabelled, Tick, session, call, server
  <2>3. Clock'
    BY <1>1, ClientAssumption DEF Parts, Clock, Tick, session, call, server
  <2>4. Timed'
    BY <1>1, ClientAssumption DEF Parts, Timed, Clock, Requests, Tick,
      session, call, server
  <2>. QED BY <2>1, <2>2, <2>3, <2>4 DEF Parts
<1>2. CASE ForceStop
  <2>1. /\ Clock' /\ Thread' /\ Tries' /\ Server' /\ Timed' /\ Untouched'
        /\ InHand' /\ Counted' /\ ClosedIfLabelled'
    BY <1>2 DEF Parts, Clock, Thread, Tries, Server, Timed, Untouched, InHand,
      Counted, ClosedIfLabelled, ForceStop, session, call, server
  <2>2. Flags'
    BY Zenon, <1>2 DEF Parts, Flags, ForceStop, session, call, server
  <2>. QED BY <2>1, <2>2 DEF Parts
<1>3. CASE Connected
  <2>1. Server' /\ Counted' /\ ClosedIfLabelled'
    BY <1>3 DEF Parts, Server, Counted, ClosedIfLabelled, Connected, JobEnds,
      server
  <2>2. Flags'
    BY Zenon, <1>3 DEF Parts, Flags, Connected, JobEnds, server
  <2>3. Clock'
    BY <1>3, ClientAssumption DEF Parts, Clock, Connected, JobEnds, server
  <2>4. Thread'
    BY <1>3 DEF Parts, Thread, Requests, Jobs, Connected, JobEnds, server
  <2>5. Tries'
    BY <1>3, ClientAssumption DEF Parts, Tries, Connected, JobEnds, server
  <2>6. Timed'
    BY <1>3, ClientAssumption DEF Parts, Timed, Clock, Requests, Connected,
      JobEnds, server
  <2>7. Untouched'
    BY <1>3 DEF Parts, Untouched, Thread, Server, Connected, JobEnds, server
  <2>8. InHand'
    BY <1>3, ClientAssumption DEF Parts, InHand, Untouched, Thread, Server,
      Tries, Busy, Requests, Writes, Jobs, Connected, JobEnds, server
  <2>. QED BY <2>1, <2>2, <2>3, <2>4, <2>5, <2>6, <2>7, <2>8 DEF Parts
<1>4. CASE ConnectFails
  <2>1. Flags'
    BY Zenon, <1>4 DEF Parts, Flags, ConnectFails, JobEnds, session, server
  <2>2. Clock' /\ Server' /\ Counted' /\ ClosedIfLabelled'
    BY <1>4 DEF Parts, Clock, Server, Counted, ClosedIfLabelled, ConnectFails,
      JobEnds, session, server
  <2>3. Thread'
    BY <1>4 DEF Parts, Thread, Requests, Jobs, ConnectFails, JobEnds, session,
      server
  <2>4. Tries'
    BY <1>4, ClientAssumption DEF Parts, Tries, ConnectFails, JobEnds,
      session, server
  <2>5. Timed'
    BY <1>4, ClientAssumption DEF Parts, Timed, Clock, Requests, ConnectFails,
      JobEnds, session, server
  <2>6. Untouched'
    BY <1>4 DEF Parts, Untouched, Thread, Server, ConnectFails, JobEnds,
      session, server
  <2>7. InHand'
    BY <1>4, ClientAssumption DEF Parts, InHand, Untouched, Thread, Server,
      Tries, Busy, Requests, Writes, Jobs, ConnectFails, JobEnds, session,
      server
  <2>. QED BY <2>1, <2>2, <2>3, <2>4, <2>5, <2>6, <2>7 DEF Parts
<1>5. CASE StopSeen
  <2>1. Flags'
    BY Zenon, <1>5 DEF Parts, Flags, StopSeen, session, server
  <2>2. Clock' /\ Tries' /\ Server' /\ Counted' /\ ClosedIfLabelled'
    BY <1>5 DEF Parts, Clock, Tries, Server, Counted, ClosedIfLabelled,
      StopSeen, session, server
  <2>3. Thread'
    BY <1>5 DEF Parts, Thread, Requests, Jobs, StopSeen, session, server
  <2>4. Timed'
    BY <1>5, ClientAssumption DEF Parts, Timed, Clock, Requests, StopSeen,
      session, server
  <2>5. Untouched'
    BY <1>5 DEF Parts, Untouched, Thread, Server, StopSeen, session, server
  <2>6. InHand'
    BY <1>5, ClientAssumption DEF Parts, InHand, Untouched, Thread, Server,
      Tries, Busy, Requests, Writes, Jobs, StopSeen, session, server
  <2>. QED BY <2>1, <2>2, <2>3, <2>4, <2>5, <2>6 DEF Parts
<1>. QED BY <1>1, <1>2, <1>3, <1>4, <1>5

\* The next job is untouched, and the token is looked at before it is used.
LEMMA JobSteps ==
  ASSUME Parts, TakeJob \/ CheckRefresh \/ SessionOpened \/ InvalidToken
  PROVE  Parts'
<1>1. CASE TakeJob
  <2>1. Flags'
    BY Zenon, <1>1 DEF Parts, Flags, TakeJob, session, server
  <2>2. Clock' /\ Tries' /\ Server' /\ Counted' /\ ClosedIfLabelled'
    BY <1>1 DEF Parts, Clock, Tries, Server, Counted, ClosedIfLabelled,
      TakeJob, session, server
  <2>3. Thread'
    BY <1>1 DEF Parts, Thread, Requests, Jobs, TakeJob, session, server
  <2>4. Timed'
    BY <1>1, ClientAssumption DEF Parts, Timed, Clock, Requests, TakeJob,
      session, server
  <2>5. Untouched'
    BY <1>1 DEF Parts, Untouched, Thread, Server, TakeJob, session, server
  <2>6. InHand'
    BY <1>1, ClientAssumption DEF Parts, InHand, Untouched, Thread, Server,
      Tries, Busy, Requests, Writes, Jobs, TakeJob, session, server
  <2>. QED BY <2>1, <2>2, <2>3, <2>4, <2>5, <2>6 DEF Parts
<1>2. CASE CheckRefresh
  <2>1. Flags'
    BY Zenon, <1>2 DEF Parts, Flags, CheckRefresh, Begin, session, server
  <2>2. Tries' /\ Server' /\ Counted' /\ ClosedIfLabelled'
    BY <1>2 DEF Parts, Tries, Server, Counted, ClosedIfLabelled, CheckRefresh,
      Begin, session, server
  <2>3. Clock'
    BY <1>2, ClientAssumption DEF Parts, Clock, CheckRefresh, Begin, session,
      server
  <2>4. Thread'
    BY <1>2 DEF Parts, Thread, Requests, Jobs, CheckRefresh, Begin, session,
      server
  <2>5. Timed'
    BY <1>2, ClientAssumption DEF Parts, Timed, Clock, Requests, CheckRefresh,
      Begin, session, server
  <2>6. Untouched'
    BY <1>2 DEF Parts, Untouched, Thread, Server, CheckRefresh, Begin,
      session, server
  <2>7. InHand'
    BY <1>2, ClientAssumption DEF Parts, InHand, Untouched, Thread, Server,
      Tries, Busy, Requests, Writes, Jobs, CheckRefresh, Begin, session, server
  <2>. QED BY <2>1, <2>2, <2>3, <2>4, <2>5, <2>6, <2>7 DEF Parts
<1>3. CASE SessionOpened
  <2>1. Flags'
    BY Zenon, <1>3 DEF Parts, Flags, SessionOpened, Begin, server
  <2>2. Server' /\ Counted' /\ ClosedIfLabelled'
    BY <1>3 DEF Parts, Server, Counted, ClosedIfLabelled, SessionOpened,
      Begin, server
  <2>3. Clock'
    BY <1>3, ClientAssumption DEF Parts, Clock, SessionOpened, Begin, server
  <2>4. Thread'
    BY <1>3 DEF Parts, Thread, Requests, Jobs, SessionOpened, Begin, server
  <2>5. Tries'
    BY <1>3, ClientAssumption DEF Parts, Tries, SessionOpened, Begin, server
  <2>6. Timed'
    BY <1>3, ClientAssumption DEF Parts, Timed, Clock, Requests,
      SessionOpened, Begin, server
  <2>7. Untouched'
    BY <1>3 DEF Parts, Untouched, Thread, Server, SessionOpened, Begin, server
  <2>8. InHand'
    BY <1>3, ClientAssumption DEF Parts, InHand, Untouched, Thread, Server,
      Tries, Busy, Requests, Writes, Jobs, SessionOpened, Begin, server
  <2>. QED BY <2>1, <2>2, <2>3, <2>4, <2>5, <2>6, <2>7, <2>8 DEF Parts
<1>4. CASE InvalidToken
  <2>1. Flags'
    BY Zenon, <1>4 DEF Parts, Flags, InvalidToken, Begin, session, server
  <2>2. Server' /\ Counted' /\ ClosedIfLabelled'
    BY <1>4 DEF Parts, Server, Counted, ClosedIfLabelled, InvalidToken, Begin,
      session, server
  <2>3. Clock'
    BY <1>4, ClientAssumption DEF Parts, Clock, InvalidToken, Begin, session,
      server
  <2>4. Thread'
    BY <1>4 DEF Parts, Thread, Requests, Jobs, InvalidToken, Begin, session,
      server
  <2>5. Tries'
    BY <1>4, ClientAssumption DEF Parts, Tries, InvalidToken, Begin, session,
      server
  <2>6. Timed'
    BY <1>4, ClientAssumption DEF Parts, Timed, Clock, Requests, InvalidToken,
      Begin, session, server
  <2>7. Untouched'
    BY <1>4 DEF Parts, Untouched, Thread, Server, InvalidToken, Begin,
      session, server
  <2>8. InHand'
    BY <1>4, ClientAssumption DEF Parts, InHand, Untouched, Thread, Server,
      Tries, Busy, Requests, Writes, Jobs, InvalidToken, Begin, session, server
  <2>. QED BY <2>1, <2>2, <2>3, <2>4, <2>5, <2>6, <2>7, <2>8 DEF Parts
<1>. QED BY <1>1, <1>2, <1>3, <1>4

\* What becomes of the session may be the end of a try.
LEMMA SessionSteps ==
  ASSUME Parts, SessionEndOfFile \/ SessionFails
  PROVE  Parts'
<1>1. CASE SessionEndOfFile
  <2>1. Flags'
    BY Zenon, <1>1 DEF Parts, Flags, SessionEndOfFile, EndOfFile, Retry,
      OutOfTries, Acknowledge, JobEnds, Begin, session
  <2>2. Counted'
    BY <1>1 DEF Parts, Counted, SessionEndOfFile, EndOfFile, Retry,
      OutOfTries, Acknowledge, JobEnds, Begin, session
  <2>3. Clock'
    BY <1>1, ClientAssumption DEF Parts, Clock, SessionEndOfFile, EndOfFile,
      Retry, OutOfTries, Acknowledge, JobEnds, Begin, session
  <2>4. Thread'
    BY <1>1 DEF Parts, Thread, Requests, Jobs, SessionEndOfFile, EndOfFile,
      Retry, OutOfTries, Acknowledge, JobEnds, Begin, session
  <2>5. Tries'
    BY <1>1, ClientAssumption DEF Parts, Tries, SessionEndOfFile, EndOfFile,
      Retry, OutOfTries, Acknowledge, JobEnds, Begin, session
  <2>6. Server'
    BY <1>1, ClientAssumption DEF Parts, Server, Tries, Thread, InHand, Busy,
      Writes, Jobs, Requests, SessionEndOfFile, EndOfFile, Retry, OutOfTries,
      Acknowledge, JobEnds, Begin, session
  <2>7. Timed'
    BY <1>1, ClientAssumption DEF Parts, Timed, Clock, Requests,
      SessionEndOfFile, EndOfFile, Retry, OutOfTries, Acknowledge, JobEnds,
      Begin, session
  <2>8. Untouched'
    BY <1>1 DEF Parts, Untouched, Thread, Server, SessionEndOfFile, EndOfFile,
      Retry, OutOfTries, Acknowledge, JobEnds, Begin, session
  <2>9. InHand'
    BY <1>1, ClientAssumption DEF Parts, InHand, Untouched, Thread, Server,
      Tries, Busy, Requests, Writes, Jobs, SessionEndOfFile, EndOfFile, Retry,
      OutOfTries, Acknowledge, JobEnds, Begin, session
  <2>10. ClosedIfLabelled'
    BY <1>1 DEF Parts, ClosedIfLabelled, Server, InHand, Thread, Busy,
      Requests, Jobs, SessionEndOfFile, EndOfFile, Retry, OutOfTries,
      Acknowledge, JobEnds, Begin, session
  <2>. QED BY <2>1, <2>2, <2>3, <2>4, <2>5, <2>6, <2>7, <2>8, <2>9, <2>10 DEF Parts
<1>2. CASE SessionFails
  <2>1. Flags'
    BY Zenon, <1>2 DEF Parts, Flags, SessionFails, WriteFails, JobEnds,
      session
  <2>2. Clock' /\ Server' /\ Counted' /\ ClosedIfLabelled'
    BY <1>2 DEF Parts, Clock, Server, Counted, ClosedIfLabelled, SessionFails,
      WriteFails, JobEnds, session
  <2>3. Thread'
    BY <1>2 DEF Parts, Thread, Requests, Jobs, SessionFails, WriteFails,
      JobEnds, session
  <2>4. Tries'
    BY <1>2, ClientAssumption DEF Parts, Tries, SessionFails, WriteFails,
      JobEnds, session
  <2>5. Timed'
    BY <1>2, ClientAssumption DEF Parts, Timed, Clock, Requests, SessionFails,
      WriteFails, JobEnds, session
  <2>6. Untouched'
    BY <1>2 DEF Parts, Untouched, Thread, Server, SessionFails, WriteFails,
      JobEnds, session
  <2>7. InHand'
    BY <1>2, ClientAssumption DEF Parts, InHand, Untouched, Thread, Server,
      Tries, Busy, Requests, Writes, Jobs, SessionFails, WriteFails, JobEnds,
      session
  <2>. QED BY <2>1, <2>2, <2>3, <2>4, <2>5, <2>6, <2>7 DEF Parts
<1>. QED BY <1>1, <1>2

-----------------------------------------------------------------------------
(***************************************************************************)
(* Steps of the labeler.                                                   *)
(***************************************************************************)
\* Only an acknowledgement in hand can close a report, and it comes after
\* the label of the same job.
LEMMA ClosedStep ==
  ASSUME Parts, pc = "send", exhausted \subseteq exhausted',
         \/ stored' = stored
         \/ stored' = [stored EXCEPT ![job][write] = @ + 1]
  PROVE  ClosedIfLabelled'
<1>. SUFFICES ASSUME NEW j \in Jobs, stored'[j]["ack"] > 0
             PROVE  stored'[j]["label"] > 0 \/ j \in exhausted'
  BY DEF ClosedIfLabelled
<1>1. /\ job \in Jobs /\ write \in Writes
      /\ stored[j]["ack"] \in Nat /\ stored[j]["label"] \in Nat
  BY DEF Parts, Thread, Server, Writes
<1>2. CASE stored[j]["ack"] > 0
  <2>1. stored[j]["label"] > 0 \/ j \in exhausted
    BY <1>2 DEF Parts, ClosedIfLabelled
  <2>2. stored'[j]["label"] >= stored[j]["label"]
    BY <1>1 DEF Parts, Server, Writes
  <2>3. stored'[j]["label"] \in Nat
    BY <1>1 DEF Parts, Server, Writes
  <2>. QED BY <1>1, <2>1, <2>2, <2>3
<1>3. CASE ~(stored[j]["ack"] > 0)
  <2>1. j = job /\ write = "ack"
    BY <1>1, <1>3 DEF Parts, Server, Writes
  <2>2. stored[j]["label"] > 0 \/ j \in exhausted
    BY <2>1 DEF Parts, InHand, Busy
  <2>3. stored'[j]["label"] = stored[j]["label"]
    BY <1>1, <2>1 DEF Parts, Server, Writes
  <2>. QED BY <2>2, <2>3
<1>. QED BY <1>2, <1>3

\* Each try stores the write in hand once at most, heard or unheard.
LEMMA WriteSteps ==
  ASSUME Parts, Answered \/ SendEndOfFile \/ SendFails
  PROVE  Parts'
<1>1. CASE Answered
  <2>1. Flags'
    BY Zenon, <1>1 DEF Parts, Flags, Answered, Accepts, WriteDone,
      Acknowledge, JobEnds, session
  <2>2. Clock'
    BY <1>1 DEF Parts, Clock, Answered, Accepts, WriteDone, Acknowledge,
      JobEnds, session
  <2>3. Thread'
    BY <1>1 DEF Parts, Thread, Requests, Jobs, Answered, Accepts, WriteDone,
      Acknowledge, JobEnds, session
  <2>4. Tries'
    BY <1>1, ClientAssumption DEF Parts, Tries, Answered, Accepts, WriteDone,
      Acknowledge, JobEnds, session
  <2>5. Server'
    BY <1>1, ClientAssumption DEF Parts, Server, Tries, Thread, InHand, Busy,
      Writes, Jobs, Requests, Answered, Accepts, WriteDone, Acknowledge,
      JobEnds, session
  <2>6. Timed'
    BY <1>1, ClientAssumption DEF Parts, Timed, Clock, Requests, Answered,
      Accepts, WriteDone, Acknowledge, JobEnds, session
  <2>7. Untouched'
    BY <1>1 DEF Parts, Untouched, Thread, Server, Answered, Accepts,
      WriteDone, Acknowledge, JobEnds, session
  <2>8. InHand'
    BY <1>1, ClientAssumption DEF Parts, InHand, Untouched, Thread, Server,
      Tries, Busy, Requests, Writes, Jobs, Answered, Accepts, WriteDone,
      Acknowledge, JobEnds, session
  <2>9. Counted'
    BY <1>1 DEF Parts, Counted, Server, InHand, Thread, Busy, Requests, Jobs,
      Answered, Accepts, WriteDone, Acknowledge, JobEnds, session
  <2>10. ClosedIfLabelled'
    BY <1>1, ClosedStep DEF Answered, Accepts, WriteDone, Acknowledge,
      JobEnds, session
  <2>. QED BY <2>1, <2>2, <2>3, <2>4, <2>5, <2>6, <2>7, <2>8, <2>9, <2>10 DEF Parts
<1>2. CASE SendEndOfFile
  <2>1. Flags'
    BY Zenon, <1>2 DEF Parts, Flags, SendEndOfFile, AppliedUnheard,
      NotApplied, Accepts, EndOfFile, Retry, OutOfTries, Acknowledge, JobEnds,
      session
  <2>2. Clock'
    BY <1>2 DEF Parts, Clock, SendEndOfFile, AppliedUnheard, NotApplied,
      Accepts, EndOfFile, Retry, OutOfTries, Acknowledge, JobEnds, session
  <2>3. Thread'
    BY <1>2 DEF Parts, Thread, Requests, Jobs, SendEndOfFile, AppliedUnheard,
      NotApplied, Accepts, EndOfFile, Retry, OutOfTries, Acknowledge, JobEnds,
      session
  <2>4. Tries'
    BY <1>2, ClientAssumption DEF Parts, Tries, SendEndOfFile, AppliedUnheard,
      NotApplied, Accepts, EndOfFile, Retry, OutOfTries, Acknowledge, JobEnds,
      session
  <2>5. Server'
    BY <1>2, ClientAssumption DEF Parts, Server, Tries, Thread, InHand, Busy,
      Writes, Jobs, Requests, SendEndOfFile, AppliedUnheard, NotApplied,
      Accepts, EndOfFile, Retry, OutOfTries, Acknowledge, JobEnds, session
  <2>6. Timed'
    BY <1>2, ClientAssumption DEF Parts, Timed, Clock, Requests,
      SendEndOfFile, AppliedUnheard, NotApplied, Accepts, EndOfFile, Retry,
      OutOfTries, Acknowledge, JobEnds, session
  <2>7. Untouched'
    BY ZenonT(30), <1>2 DEF Parts, Untouched, Thread, Server, SendEndOfFile,
      AppliedUnheard, NotApplied, Accepts, EndOfFile, Retry, OutOfTries,
      Acknowledge, JobEnds, session
  <2>8. InHand'
    BY <1>2, ClientAssumption DEF Parts, InHand, Untouched, Thread, Server,
      Tries, Busy, Requests, Writes, Jobs, SendEndOfFile, AppliedUnheard,
      NotApplied, Accepts, EndOfFile, Retry, OutOfTries, Acknowledge, JobEnds,
      session
  <2>9. Counted'
    BY <1>2 DEF Parts, Counted, Server, InHand, Thread, Busy, Requests, Jobs,
      SendEndOfFile, AppliedUnheard, NotApplied, Accepts, EndOfFile, Retry,
      OutOfTries, Acknowledge, JobEnds, session
  <2>10. ClosedIfLabelled'
    BY <1>2, ClosedStep DEF SendEndOfFile, AppliedUnheard, NotApplied,
      Accepts, EndOfFile, Retry, OutOfTries, Acknowledge, JobEnds, session
  <2>. QED BY <2>1, <2>2, <2>3, <2>4, <2>5, <2>6, <2>7, <2>8, <2>9, <2>10 DEF Parts
<1>3. CASE SendFails
  <2>1. Flags'
    BY Zenon, <1>3 DEF Parts, Flags, SendFails, AppliedUnheard, NotApplied,
      Accepts, WriteFails, JobEnds, session
  <2>2. Clock'
    BY <1>3 DEF Parts, Clock, SendFails, AppliedUnheard, NotApplied, Accepts,
      WriteFails, JobEnds, session
  <2>3. Thread'
    BY <1>3 DEF Parts, Thread, Requests, Jobs, SendFails, AppliedUnheard,
      NotApplied, Accepts, WriteFails, JobEnds, session
  <2>4. Tries'
    BY <1>3, ClientAssumption DEF Parts, Tries, SendFails, AppliedUnheard,
      NotApplied, Accepts, WriteFails, JobEnds, session
  <2>5. Server'
    BY <1>3, ClientAssumption DEF Parts, Server, Tries, Thread, InHand, Busy,
      Writes, Jobs, Requests, SendFails, AppliedUnheard, NotApplied, Accepts,
      WriteFails, JobEnds, session
  <2>6. Timed'
    BY <1>3, ClientAssumption DEF Parts, Timed, Clock, Requests, SendFails,
      AppliedUnheard, NotApplied, Accepts, WriteFails, JobEnds, session
  <2>7. Untouched'
    BY <1>3 DEF Parts, Untouched, Thread, Server, SendFails, AppliedUnheard,
      NotApplied, Accepts, WriteFails, JobEnds, session
  <2>8. InHand'
    BY <1>3, ClientAssumption DEF Parts, InHand, Untouched, Thread, Server,
      Tries, Busy, Requests, Writes, Jobs, SendFails, AppliedUnheard,
      NotApplied, Accepts, WriteFails, JobEnds, session
  <2>9. Counted'
    BY <1>3 DEF Parts, Counted, Server, InHand, Thread, Busy, Requests, Jobs,
      SendFails, AppliedUnheard, NotApplied, Accepts, WriteFails, JobEnds,
      session
  <2>10. ClosedIfLabelled'
    BY <1>3, ClosedStep DEF SendFails, AppliedUnheard, NotApplied, Accepts,
      WriteFails, JobEnds, session
  <2>. QED BY <2>1, <2>2, <2>3, <2>4, <2>5, <2>6, <2>7, <2>8, <2>9, <2>10 DEF Parts
<1>. QED BY <1>1, <1>2, <1>3

-----------------------------------------------------------------------------
\* Every step keeps the invariant.
LEMMA NextParts == ASSUME Parts, [Next]_vars PROVE Parts'
<1>1. CASE UNCHANGED vars
  <2>1. Flags'
    BY Zenon, <1>1 DEF Parts, Flags, vars, session
  <2>2. /\ Clock' /\ Thread' /\ Tries' /\ Server'
        /\ Timed' /\ Untouched' /\ InHand' /\ Counted' /\ ClosedIfLabelled'
    BY <1>1 DEF Parts, Clock, Thread, Tries, Server, Timed, Untouched, InHand,
       Counted, ClosedIfLabelled, vars, session, call, server
  <2>. QED BY <2>1, <2>2 DEF Parts
<1>. QED BY <1>1, QuietSteps, JobSteps, SessionSteps, WriteSteps DEF Next

LEMMA Invariance == Spec => []Parts
<1>1. Init => Parts
  BY InitParts
<1>2. Parts /\ [Next]_vars => Parts'
  BY NextParts
<1>. QED BY <1>1, <1>2, PTL DEF Spec

-----------------------------------------------------------------------------
(***************************************************************************)
(* The client, its counts and what the labeler did keep their types; the   *)
(* tries of a write bound what is stored of it.                            *)
(***************************************************************************)
THEOREM ClientTypeCorrect == Spec => []TypeOK
<1>1. Parts => TypeOK
  BY IInvParts DEF IInv
<1>. QED BY <1>1, Invariance, PTL

(***************************************************************************)
(* No write is under way with an access token that has expired.            *)
(***************************************************************************)
THEOREM TokensFresh == Spec => []TokenFresh
<1>1. Parts => TokenFresh
  BY ClientAssumption DEF Parts, Clock, Timed, TokenFresh, Requests
<1>. QED BY <1>1, Invariance, PTL

(***************************************************************************)
(* Only unheard writes are repeated.                                       *)
(***************************************************************************)
THEOREM StoredOnceEach == Spec => []StoredOnce
<1>1. Parts => StoredOnce
  BY DEF Parts, Counted, InHand, Busy, StoredOnce
<1>. QED BY <1>1, Invariance, PTL

(***************************************************************************)
(* No report is closed without its label, but after the last end of file.  *)
(***************************************************************************)
THEOREM ClosedAfterLabel == Spec => []ClosedIfLabelled
<1>1. Parts => ClosedIfLabelled
  BY DEF Parts
<1>. QED BY <1>1, Invariance, PTL

=============================================================================
