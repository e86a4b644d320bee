------------------------------ MODULE LabelGate ------------------------------
(***************************************************************************)
(* The rate limits in front of the labels that report_agent emits.         *)
(*                                                                         *)
(* Each thread passes three gates before every label, for a second, an     *)
(* hour and a day, and sleeps and tries again while one is closed. A gate  *)
(* is a rate_observer: it counts what it let through in the current fixed  *)
(* window and in the one before, and estimates the count of the window     *)
(* that ends now by weighting the latter with the part of it still inside. *)
(* Behind the last gate the client sends the label, and sends it again     *)
(* after an end of file, without coming back to the gates.                 *)
(*                                                                         *)
(* The system clock is a counter; 0 is the epoch.                          *)
(***************************************************************************)
EXTENDS Naturals, Sequences, FiniteSets

CONSTANTS
    Threads,        \* _number_of_threads of report_agent
    Gates,          \* the number of gates, 3
    Window, Limit,  \* of each gate, the shortest window first
    StartTime,      \* when the process starts
    MaxTries,       \* of a label that the client sends, 5
    MaxTime,        \* bound on the clock
    MaxLabels       \* bound on the labels asked for

ASSUME GateAssumption ==
    /\ Gates \in Nat \ {0}
    /\ Window \in [1 .. Gates -> Nat \ {0}]
    /\ Limit \in [1 .. Gates -> Nat \ {0}]
    /\ StartTime \in Nat \ {0} /\ MaxTime \in Nat /\ StartTime <= MaxTime
    /\ MaxTries \in Nat \ {0} /\ MaxLabels \in Nat
    /\ IsFiniteSet(Threads)

VARIABLES
    now,            \* system_clock
    active,         \* controller._active
    observer,       \* the rate_observer of each gate
    thread,         \* thread: [pc, gate, wake]
    task,           \* thread: the label it has in hand, its place in labels
    tries,          \* thread: retries of the label that it sends
    grants,         \* history: when each gate opened
    labels          \* history: of each label asked for, which thread took
                    \* it, which opening of each gate it went through, and
                    \* when it was sent

gateVars == <<now, active, observer, thread, task, tries, grants, labels>>

Times == 0 .. MaxTime

LabelHistory ==
    [by : Threads, opening : [1 .. Gates -> Nat], sent : Seq(Nat)]

GateTypeOK ==
    /\ now \in Times /\ active \in BOOLEAN
    /\ observer \in [1 .. Gates -> [lastEnd : Nat, end : Nat,
                                    lastCount : Nat, count : Nat]]
    /\ thread \in [Threads -> [pc : {"wait", "gate", "label", "send", "ended"},
                               gate : 1 .. Gates, wake : Nat]]
    /\ task \in [Threads -> 0 .. MaxLabels]
    /\ tries \in [Threads -> 0 .. (MaxTries - 1)]
    /\ grants \in [1 .. Gates -> Seq(Nat)]
    /\ labels \in Seq(LabelHistory) /\ Len(labels) <= MaxLabels

Waiting == [pc |-> "wait", gate |-> 1, wake |-> 0]

InitGates ==
    /\ now = StartTime /\ active = TRUE
    /\ observer = [g \in 1 .. Gates |->
          [lastEnd |-> 0, end |-> StartTime + Window[g],
           lastCount |-> 0, count |-> 0]]
    /\ thread = [t \in Threads |-> Waiting]
    /\ task = [t \in Threads |-> 0] /\ tries = [t \in Threads |-> 0]
    /\ grants = [g \in 1 .. Gates |-> <<>>]
    /\ labels = <<>>

-----------------------------------------------------------------------------
Tick ==
    /\ now < MaxTime
    /\ now' = now + 1
    /\ UNCHANGED <<active, observer, thread, task, tries, grants, labels>>

Takes(t, to) ==
    /\ thread[t].pc = "wait"
    /\ Len(labels) < MaxLabels
    /\ labels' = Append(labels,
          [by |-> t, opening |-> [g \in 1 .. Gates |-> 0], sent |-> <<>>])
    /\ task' = [task EXCEPT ![t] = Len(labels) + 1]
    /\ thread' = [thread EXCEPT ![t] = [pc |-> to, gate |-> 1, wake |-> now]]
    /\ UNCHANGED <<now, active, observer, tries, grants>>

\* Variant: a thread that has been through the gates is not held up again.
TakeReportPermitted(t) == Takes(t, IF task[t] = 0 THEN "gate" ELSE "label")

\* A report that calls for a label.
TakeReport(t) == Takes(t, "gate")

-----------------------------------------------------------------------------
\* requests_so_far: a window that has ended becomes the previous one, and
\* the new one starts with this request, whenever that comes.
Rolled(g) ==
    IF now > observer[g].end
      THEN [lastEnd |-> observer[g].end, end |-> now + Window[g],
            lastCount |-> observer[g].count, count |-> 0]
      ELSE observer[g]

\* What is left of the previous window in the one that ends now. The weight
\* is a float: a product that is whole may come out just below, any other
\* just as well reach the next whole number.
Overlap(o, g) ==
    IF o.lastEnd + Window[g] > now THEN (o.lastEnd + Window[g]) - now ELSE 0

Weighted(o, g) ==
    LET product == Overlap(o, g) * o.lastCount
        whole == product \div Window[g] IN
    IF product % Window[g] # 0 THEN {whole, whole + 1}
    ELSE IF whole = 0 THEN {0} ELSE {whole, whole - 1}

\* event_interval
Interval(g) == IF Window[g] \div Limit[g] = 0 THEN 1 ELSE Window[g] \div Limit[g]

\* Variant: one more than the limit.
PermittedAtLimit(estimate, g) == estimate <= Limit[g]

Permitted(estimate, g) == estimate < Limit[g]

\* Variant: the last gate is taken for one with another behind it.
PastAndOn(g) == [pc |-> "gate", gate |-> g + 1, wake |-> now]

\* To the next gate, and from the last one to the label.
Past(g) ==
    IF g = Gates THEN [pc |-> "label", gate |-> g, wake |-> now]
                 ELSE [pc |-> "gate", gate |-> g + 1, wake |-> now]

\* Variant: a thread that the gate turned away tries until it is let through.
Insists(t, g) == thread' = [thread EXCEPT ![t].wake = now + Interval(g)]

\* A thread that the gate turned away sleeps, or when the process is
\* stopping goes on to the next gate without a permit.
TurnedAway(t, g) ==
    thread' = [thread EXCEPT ![t] =
        IF active THEN [@ EXCEPT !.wake = now + Interval(g)] ELSE Past(g)]

\* observe_if_permitted, and what label_subject does with the answer.
TryGate(t) ==
    /\ thread[t].pc = "gate"
    /\ now >= thread[t].wake
    /\ LET g == thread[t].gate
           o == Rolled(g) IN
        \E weighted \in Weighted(o, g) :
            \/ /\ Permitted(o.count + weighted, g)
               /\ observer' = [observer EXCEPT ![g] =
                     [o EXCEPT !.count = @ + 1]]
               /\ grants' = [grants EXCEPT ![g] = Append(@, now)]
               /\ labels' = [labels EXCEPT ![task[t]].opening[g] =
                     Len(grants[g]) + 1]
               /\ thread' = [thread EXCEPT ![t] = Past(g)]
            \/ /\ ~Permitted(o.count + weighted, g)
               /\ observer' = [observer EXCEPT ![g] = o]
               /\ TurnedAway(t, g)
               /\ UNCHANGED <<grants, labels>>
    /\ UNCHANGED <<now, active, task, tries>>

\* The label goes to the client, some time after the last gate opened, or
\* nowhere when the process is stopping, which ends the loop of the thread.
LabelSubject(t) ==
    /\ thread[t].pc = "label"
    /\ thread' = [thread EXCEPT ![t].pc = IF active THEN "send" ELSE "ended"]
    /\ UNCHANGED <<now, active, observer, task, tries, grants, labels>>

\* An end of file: the loop goes round, without a look at active.
Again(t) ==
    /\ tries[t] + 1 < MaxTries
    /\ tries' = [tries EXCEPT ![t] = @ + 1]
    /\ UNCHANGED thread

\* An answer, another exception, or an end of file after the last try; the
\* acknowledgement that follows is no label.
Returns(t) ==
    /\ thread' = [thread EXCEPT ![t] = Waiting]
    /\ tries' = [tries EXCEPT ![t] = 0]

\* One try of emit_event, in client::label_subject: the label is sent, or
\* check_refresh fails before that.
Send(t) ==
    /\ thread[t].pc = "send"
    /\ \/ labels' = [labels EXCEPT ![task[t]].sent = Append(@, now)]
       \/ UNCHANGED labels
    /\ Again(t) \/ Returns(t)
    /\ UNCHANGED <<now, active, observer, task, grants>>

-----------------------------------------------------------------------------
Longest == CHOOSE n \in {Interval(g) : g \in 1 .. Gates} :
               \A g \in 1 .. Gates : n >= Interval(g)

\* Late enough before the bound for a sleeping thread to wake.
ForceStop ==
    /\ active
    /\ now + Longest <= MaxTime
    /\ active' = FALSE
    /\ UNCHANGED <<now, observer, thread, task, tries, grants, labels>>

StopSeen(t) ==
    /\ ~active
    /\ thread[t].pc = "wait"
    /\ thread' = [thread EXCEPT ![t].pc = "ended"]
    /\ UNCHANGED <<now, active, observer, task, tries, grants, labels>>

NextGate ==
    \/ Tick \/ ForceStop
    \/ \E t \in Threads :
          \/ TakeReport(t) \/ TryGate(t) \/ LabelSubject(t) \/ Send(t)
          \/ StopSeen(t)

GateSpec == InitGates /\ [][NextGate]_gateVars

\* Time passes, threads run, and a request to the server ends.
Fairness ==
    /\ WF_gateVars(Tick)
    /\ \A t \in Threads :
          /\ WF_gateVars(TryGate(t))
          /\ WF_gateVars(LabelSubject(t))
          /\ WF_gateVars(Send(t))
          /\ WF_gateVars(StopSeen(t))

FairSpec == GateSpec /\ Fairness

-----------------------------------------------------------------------------
(***************************************************************************)
(* What the estimate of observe_if_permitted is worth: a gate opens more   *)
(* often than its limit when the openings before it came late in their     *)
(* window, but at most twice its limit in any window, wherever that starts *)
(* (of 2 * Limit + 1 openings the first and the last are more than a       *)
(* window apart), and no rounding of the weight matters to that.           *)
(***************************************************************************)
Apart(times, n, w) ==
    \A i \in 1 .. Len(times) : i + n <= Len(times) => times[i + n] - times[i] > w

TwiceTheLimit ==
    \A g \in 1 .. Gates : Apart(grants[g], 2 * Limit[g], Window[g])

(***************************************************************************)
(* A permit is used late, after a wait for the next gate or for the        *)
(* server, and a label is sent again without another. Still a thread has   *)
(* one label in hand at a time: in any window, those that a request to the *)
(* server is made for are at most twice the limit and one for each thread, *)
(* and for each of them the client makes MaxTries requests at most.        *)
(***************************************************************************)
SentIn(from, to) ==
    {k \in 1 .. Len(labels) :
        \E i \in 1 .. Len(labels[k].sent) : labels[k].sent[i] \in from .. to}

LabelBursts ==
    /\ \A g \in 1 .. Gates, from \in Times :
          Cardinality(SentIn(from, from + Window[g]))
              <= 2 * Limit[g] + Cardinality(Threads)
    /\ \A k \in 1 .. Len(labels) : Len(labels[k].sent) <= MaxTries

(***************************************************************************)
(* A stop reaches every thread, those asleep in front of a gate and those  *)
(* that send a label again too: after force_stop each of them ends,        *)
(* whatever the gates and the server say.                                  *)
(***************************************************************************)
ThreadsStop == ~active ~> \A t \in Threads : thread[t].pc = "ended"

=============================================================================
