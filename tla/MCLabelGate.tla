----------------------------- MODULE MCLabelGate -----------------------------
(***************************************************************************)
(* Model checking LabelGate: windows and limits small enough for each gate *)
(* to be the one that closes.                                              *)
(***************************************************************************)
EXTENDS LabelGate

CONSTANTS t1, t2

MCThreads == {t1, t2}
MCWindow2 == <<2, 3>>
MCLimit2 == <<1, 1>>
=============================================================================
