---------------------------- MODULE ListContract ----------------------------
(***************************************************************************)
(* What the groups of moderation lists promise: an account enters a group  *)
(* only on request, one at a time, and nothing the lists go through (being *)
(* archived as full, a restart, an answer that gets lost) takes it out or  *)
(* moves it to another group.                                              *)
(***************************************************************************)
CONSTANTS Dids, Groups

VARIABLES
    requested,      \* pairs <<did, group>> anybody asked for
    listed          \* the accounts each group blocks

Init ==
    /\ requested = {}
    /\ listed \in [Groups -> SUBSET Dids]

Request ==
    /\ requested' \in SUBSET (Dids \X Groups)
    /\ requested \subseteq requested'
    /\ UNCHANGED listed

List ==
    /\ \E pair \in requested :
          /\ pair[1] \notin listed[pair[2]]
          /\ listed' = [listed EXCEPT ![pair[2]] = @ \cup {pair[1]}]
    /\ UNCHANGED requested

Next == Request \/ List

Spec == Init /\ [][Next]_<<requested, listed>>
=============================================================================
