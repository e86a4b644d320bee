-------------------------- MODULE MCModerationJobs --------------------------
(***************************************************************************)
(* Model checking ModerationJobs: three accounts and batches of two, so    *)
(* that one account is left over; each filter matches another.             *)
(***************************************************************************)
EXTENDS ModerationJobs

MCAccounts == {"alice", "bob", "carol"}
MCReports == {[alice |-> {"auto"}, bob |-> {"manual"}, carol |-> {}]}
MCAckFilter == {"alice"}
MCLabelFilter == {"bob"}
=============================================================================
