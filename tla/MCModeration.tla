---------------------------- MODULE MCModeration ----------------------------
(***************************************************************************)
(* Model checking what two programs have the same labeler do: the gates in *)
(* front of the labels of firehose-client, and the jobs of db-crawler. The *)
(* two share no state, so that no step of one can matter to the other: in  *)
(* each behaviour only one of them moves.                                  *)
(***************************************************************************)
EXTENDS MCModerationJobs, MCLabelGate

VARIABLE moving

moderationVars == <<vars, gateVars, moving>>

\* Of the jobs at rest, one start is enough.
InitModeration ==
    /\ moving \in {"jobs", "gates"}
    /\ Init /\ InitGates
    /\ moving = "gates" => gone = {}

JobsMove ==
    /\ moving = "jobs"
    /\ Next
    /\ UNCHANGED <<gateVars, moving>>

GatesMove ==
    /\ moving = "gates"
    /\ NextGate
    /\ UNCHANGED <<vars, moving>>

NextModeration == JobsMove \/ GatesMove

\* The fairness of LabelGate.
ModerationSpec ==
    /\ InitModeration /\ [][NextModeration]_moderationVars
    /\ WF_gateVars(moving = "gates" /\ Tick)
    /\ \A t \in Threads :
          /\ WF_gateVars(moving = "gates" /\ TryGate(t))
          /\ WF_gateVars(moving = "gates" /\ LabelSubject(t))
          /\ WF_gateVars(moving = "gates" /\ Send(t))
          /\ WF_gateVars(moving = "gates" /\ StopSeen(t))
=============================================================================
