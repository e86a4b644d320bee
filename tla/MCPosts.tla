------------------------------- MODULE MCPosts -------------------------------
(***************************************************************************)
(* Model checking what becomes of a post: AccountActivity counts it, and   *)
(* EmbedChecker follows its links. The two share no state, so that no step *)
(* of one can matter to the other: in each behaviour only one of them      *)
(* moves.                                                                  *)
(***************************************************************************)
EXTENDS MCAccountActivity, MCEmbedChecker

VARIABLE moving

postVars == <<vars, checkerVars, moving>>

\* Of the checker at rest, one start is enough.
InitPosts ==
    /\ moving \in {"recorder", "checker"}
    /\ Init /\ InitChecker
    /\ moving = "recorder" => followLinks

RecorderMoves ==
    /\ moving = "recorder"
    /\ Next
    /\ UNCHANGED <<checkerVars, moving>>

CheckerMoves ==
    /\ moving = "checker"
    /\ NextCheck
    /\ UNCHANGED <<vars, moving>>

NextPosts == RecorderMoves \/ CheckerMoves

\* The fairness of FairSpec in EmbedChecker.
PostsSpec ==
    /\ InitPosts /\ [][NextPosts]_postVars
    /\ \A t \in Threads : WF_checkerVars(moving = "checker" /\ Step(t))
=============================================================================
