---------------------------- MODULE MCListManager ----------------------------
(***************************************************************************)
(* Model checking ListManager: a list that the second account fills, and   *)
(* requests enough to archive it, restart, and ask again.                  *)
(***************************************************************************)
EXTENDS ListManager

CONSTANTS d1, d2, d3

MCDids == {d1, d2, d3}
MCBlacklists == {{d1}, {d1, d2}}
MCInitialMembers == {{d1}}
\* The server answers with the newest list first.
MCNewestOf(ids) == CHOOSE i \in ids : \A j \in ids : j <= i
=============================================================================
