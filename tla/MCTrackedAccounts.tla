------------------------- MODULE MCTrackedAccounts -------------------------
(***************************************************************************)
(* Model checking TrackedAccounts: three accounts, one without a profile,  *)
(* and batches of two, so that a refresh leaves one over.                  *)
(***************************************************************************)
EXTENDS TrackedAccounts

MCDids == {"alice", "bob", "carol"}
MCGone == {"carol"}
MCOpen == {MCDids}
=============================================================================
