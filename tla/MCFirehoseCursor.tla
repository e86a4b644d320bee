-------------------------- MODULE MCFirehoseCursor --------------------------
(***************************************************************************)
(* Model checking FirehoseCursor: events of every kind, the one that ends  *)
(* the post_processor last, so that what precedes it has to be handled.    *)
(***************************************************************************)
EXTENDS FirehoseCursor

MCKind == <<"plain", "dropped", "matched", "plain", "throws">>
\* No event ends the post_processor: for the runs about reconnecting.
MCKindQuiet == <<"plain", "matched", "plain", "plain", "plain">>
=============================================================================
