---------------------------- MODULE MCRuleRouting ----------------------------
(***************************************************************************)
(* Model checking RuleRouting: records with several matches of different   *)
(* scopes, a handle, and tables that drop a rule, add one and change what  *)
(* one asks for. A text is the sequence of the filters in it.              *)
(***************************************************************************)
EXTENDS RuleRouting

CONSTANTS d1

MCEmits(text, table) == SelectSeq(text, LAMBDA f : f \in DOMAIN table)

MCTexts ==
    {<<"scam", "spam", "slur">>, <<"scam", "spam">>, <<"slur">>}

MCRule(report, label, profileOnly, block) ==
    [report |-> report, label |-> label, profileOnly |-> profileOnly,
     block |-> block]

MCTables ==
    { [slur |-> MCRule("content", TRUE, FALSE, NoGroup),
       spam |-> MCRule("account", FALSE, FALSE, "spam"),
       scam |-> MCRule("content", FALSE, TRUE, "scams")],
      [slur |-> MCRule("content", FALSE, FALSE, NoGroup),
       spam |-> MCRule("none", FALSE, FALSE, "spam")] }

MCMessages ==
    { <<[path |-> Profile, text |-> <<"scam", "spam", "slur">>]>>,
      <<[path |-> "post", text |-> <<"scam", "spam">>],
        [path |-> Profile, text |-> <<"slur">>]>>,
      <<[path |-> Handle, text |-> <<"slur">>]>> }
=============================================================================
