--------------------------- MODULE RewindContract ---------------------------
(***************************************************************************)
(* What the rewind tables promise, whatever threads maintain them: a       *)
(* stored position is one up to which every event has been accounted for,  *)
(* so a consumer that resumes after it misses nothing. A position may move *)
(* back, and marks are never removed.                                      *)
(***************************************************************************)
EXTENDS Naturals

VARIABLES accounted, point, marks

Complete(p) == 1 .. p \subseteq accounted

Init ==
    /\ point \in Nat
    /\ Complete(point)
    /\ marks = {}

Account ==
    /\ accounted \subseteq accounted'
    /\ UNCHANGED <<point, marks>>

MovePoint ==
    /\ point' \in Nat
    /\ Complete(point')
    /\ UNCHANGED <<accounted, marks>>

AddMarks ==
    /\ marks \subseteq marks' /\ marks' \subseteq Nat
    /\ \A p \in marks' \ marks : Complete(p)
    /\ UNCHANGED <<accounted, point>>

Next == Account \/ MovePoint \/ AddMarks

Spec == Init /\ [][Next]_<<accounted, point, marks>>
=============================================================================
