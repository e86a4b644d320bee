----------------------------- MODULE RuleRouting -----------------------------
(***************************************************************************)
(* From a match to what is done about it.                                  *)
(*                                                                         *)
(*   post_processor --\                                                    *)
(*                     >- matches -> action_router -> report_agent threads *)
(*   embed_checker  --/        \           |                               *)
(*                          matcher        `--> list_manager               *)
(*                             ^                                           *)
(*                      auxiliary_data                                     *)
(*                                                                         *)
(* A match is a key into the table of rules. The rule itself is looked up  *)
(* again by the action_router, for each match and under the lock of the    *)
(* matcher, while the auxiliary_data thread may replace the table at any   *)
(* time; skip lists are replaced too, and are read later still.            *)
(*                                                                         *)
(* Which filters of a table a text matches, with their contingent strings, *)
(* and in which order the tries give them, is left to a constant.          *)
(***************************************************************************)
EXTENDS Naturals, Sequences

CONSTANTS
    Dids, Filters, Groups,
    NoGroup,        \* the rule has no block= action
    RuleTables,     \* what match_filters may hold: functions from filters
    Texts,
    Emits(_, _),    \* the filters of a table that a text matches, in order
    Messages,       \* sequences of [path, text], what a payload offers
    Producers,      \* post_processor, and the threads of embed_checker
    Reporters,      \* the threads of report_agent
    MaxMessages,    \* bound on what the producers take
    MaxRefreshes    \* bound on replacements of the table and the skip list

Profile == "profile"
Handle == "handle"      \* HandleSentinel
Account == ""           \* the path of an account-level report
ContentPaths == {Profile, "post"}
Paths == ContentPaths \cup {Handle}

Rules == [report : {"none", "content", "account"}, label : BOOLEAN,
          profileOnly : BOOLEAN, block : Groups \cup {NoGroup}]

Candidates == [path : Paths, text : Texts]

\* rule::rule gives a rule with a label some scope to report.
WellFormed(r) == r.label => r.report # "none"

ASSUME RoutingAssumption ==
    /\ Dids # {} /\ NoGroup \notin Groups
    /\ \A table \in RuleTables :
          /\ DOMAIN table \subseteq Filters
          /\ \A f \in DOMAIN table : table[f] \in Rules /\ WellFormed(table[f])
    /\ RuleTables # {}
    /\ \A text \in Texts, table \in RuleTables :
          Emits(text, table) \in Seq(DOMAIN table)
    /\ Messages \subseteq Seq(Candidates)
    /\ MaxMessages \in Nat /\ MaxRefreshes \in Nat

VARIABLES
    up, active,     \* the process runs; controller._active
    rules,          \* matcher._rule_lookup and the tries, always replaced together
    skipped,        \* the accounts in _blacklist, _whitelist or _ignored
    producer,       \* thread: [did, rest, matches], what is still to be matched
    routes,         \* action_router._queue
    router,         \* action_router thread, see Routing
    toBlock,        \* history: pairs given to list_manager
    reports,        \* report_agent._queue
    reporter,       \* thread: [pc, did, entries], entries still to be decided
    inForce,        \* history: the rules a match may be judged by
    outcomes,       \* history: what was decided
    taken,          \* number of messages taken
    refreshed       \* number of refreshes

threads == <<producer, router, reporter>>
queues  == <<routes, reports>>
history == <<toBlock, inForce, outcomes>>
bounds  == <<taken, refreshed>>
vars == <<up, active, rules, skipped, threads, queues, history, bounds>>

(***************************************************************************)
(* The router is at match "at" of the first of "results"; "wide" says that *)
(* path and cid were cleared for the rest of that result; "mapped" is the  *)
(* _scoped_matches of the account so far.                                  *)
(***************************************************************************)
Entries == [path : ContentPaths \cup {Account}, filter : Filters, label : BOOLEAN]
Matches == [path : Paths, hits : Seq(Filters)]
Idle == [pc |-> "wait", did |-> CHOOSE d \in Dids : TRUE, entries |-> {}]
Quiet ==
    [pc |-> "wait", did |-> CHOOSE d \in Dids : TRUE, results |-> <<>>,
     at |-> 1, wide |-> FALSE, mapped |-> {}]
Waiting == [did |-> CHOOSE d \in Dids : TRUE, rest |-> <<>>, matches |-> <<>>]

Facts == Dids \X Filters \X Paths

TypeOK ==
    /\ up \in BOOLEAN /\ active \in BOOLEAN
    /\ rules \in RuleTables
    /\ skipped \subseteq Dids
    /\ producer \in [Producers -> [did : Dids, rest : Seq(Candidates),
                                   matches : Seq(Matches)]]
    /\ routes \in Seq([did : Dids, results : Seq(Matches)])
    /\ router \in [pc : {"wait", "route", "ended"}, did : Dids,
                   results : Seq(Matches), at : Nat, wide : BOOLEAN,
                   mapped : SUBSET Entries]
    /\ toBlock \subseteq Dids \X Groups
    /\ reports \in Seq([did : Dids, entries : SUBSET Entries])
    /\ reporter \in [Reporters -> [pc : {"wait", "decide", "ended"}, did : Dids,
                                   entries : SUBSET Entries]]
    /\ inForce \in [Facts -> SUBSET Rules]
    /\ outcomes \subseteq
          [kind : {"label", "report", "skip"}, did : Dids, scope : SUBSET Entries]
    /\ taken \in 0 .. MaxMessages /\ refreshed \in 0 .. MaxRefreshes

Init ==
    /\ up = TRUE /\ active = TRUE
    /\ rules \in RuleTables /\ skipped = {}
    /\ producer = [p \in Producers |-> Waiting]
    /\ routes = <<>> /\ router = Quiet
    /\ reports = <<>> /\ reporter = [t \in Reporters |-> Idle]
    /\ toBlock = {} /\ outcomes = {}
    /\ inForce = [fact \in Facts |-> {}]
    /\ taken = 0 /\ refreshed = 0

-----------------------------------------------------------------------------
(***************************************************************************)
(* The auxiliary_data thread. A table with a rule that does not parse is   *)
(* not installed. What a match already queued means is up to the new one.  *)
(***************************************************************************)
RefreshRules ==
    /\ up /\ active
    /\ refreshed < MaxRefreshes
    /\ \E replacement \in RuleTables \ {rules} :
          /\ rules' = replacement
          /\ inForce' = [fact \in Facts |->
                IF inForce[fact] # {} /\ fact[2] \in DOMAIN replacement
                  THEN inForce[fact] \cup {replacement[fact[2]]}
                  ELSE inForce[fact]]
    /\ refreshed' = refreshed + 1
    /\ UNCHANGED <<up, active, skipped, threads, queues, toBlock, outcomes, taken>>

\* update_blacklist, update_whitelist, update_ignored: one of the three lists.
\* (What the first queues for list_manager is UpdateBlacklist of ListManager.)
RefreshSkipped ==
    /\ up /\ active
    /\ refreshed < MaxRefreshes
    /\ skipped' \in (SUBSET Dids) \ {skipped}
    /\ refreshed' = refreshed + 1
    /\ UNCHANGED <<up, active, rules, threads, queues, history, taken>>

-----------------------------------------------------------------------------
(***************************************************************************)
(* A producer takes the lock of the matcher once for each path. It waits   *)
(* for a message without a time limit, and may take one after a stop.      *)
(***************************************************************************)
TakeMessage(p) ==
    /\ up
    /\ producer[p].rest = <<>> /\ producer[p].matches = <<>>
    /\ taken < MaxMessages
    /\ \E did \in Dids, message \in Messages :
          producer' = [producer EXCEPT ![p] =
                          [did |-> did, rest |-> message, matches |-> <<>>]]
    /\ taken' = taken + 1
    /\ UNCHANGED <<up, active, rules, skipped, router, reporter, queues, history,
                   refreshed>>

In(f, hits) == \E i \in DOMAIN hits : hits[i] = f

MatchAgainst(p, tries) ==
    LET next == Head(producer[p].rest)
        hits == Emits(next.text, tries) IN
    /\ producer' = [producer EXCEPT
          ![p].rest = Tail(@),
          ![p].matches = IF hits = <<>> THEN @
                         ELSE Append(@, [path |-> next.path, hits |-> hits])]
    /\ inForce' = [fact \in Facts |->
          IF /\ fact[1] = producer[p].did /\ fact[3] = next.path
             /\ In(fact[2], hits) /\ fact[2] \in DOMAIN rules
            THEN inForce[fact] \cup {rules[fact[2]]}
            ELSE inForce[fact]]

\* Variant: the table is replaced, and the tries stay as they were.
MatchPathByOldTries(p) ==
    /\ up
    /\ producer[p].rest # <<>>
    /\ \E tries \in RuleTables : MatchAgainst(p, tries)
    /\ UNCHANGED <<up, active, rules, skipped, router, reporter, queues, toBlock,
                   outcomes, bounds>>

MatchPath(p) ==
    /\ up
    /\ producer[p].rest # <<>>
    /\ MatchAgainst(p, rules)
    /\ UNCHANGED <<up, active, rules, skipped, router, reporter, queues, toBlock,
                   outcomes, bounds>>

\* action_router::wait_enqueue
EnqueueMatches(p) ==
    /\ up
    /\ producer[p].rest = <<>> /\ producer[p].matches # <<>>
    /\ routes' = Append(routes, [did |-> producer[p].did,
                                 results |-> producer[p].matches])
    /\ producer' = [producer EXCEPT ![p] = Waiting]
    /\ UNCHANGED <<up, active, rules, skipped, router, reporter, reports, history,
                   bounds>>

-----------------------------------------------------------------------------
(***************************************************************************)
(* The action_router looks at the controller, and then waits without a     *)
(* time limit: it may take one item more after a stop.                     *)
(***************************************************************************)
TakeMatches ==
    /\ up
    /\ router.pc = "wait"
    /\ routes # <<>>
    /\ router' = [Quiet EXCEPT !.pc = "route", !.did = Head(routes).did,
                               !.results = Head(routes).results]
    /\ routes' = Tail(routes)
    /\ UNCHANGED <<up, active, rules, skipped, producer, reporter, reports,
                   history, bounds>>

Current == Head(router.results)
Keyword == Current.hits[router.at]

\* Variant: path and cid are declared outside the loop over the results.
AdvanceAsCleared(wide) ==
    IF router.at < Len(Current.hits)
      THEN [router EXCEPT !.at = @ + 1, !.wide = wide]
      ELSE [router EXCEPT !.at = 1, !.wide = wide, !.results = Tail(@)]

\* The match after this one, in the next result with its own path and cid.
Advance(wide) ==
    IF router.at < Len(Current.hits)
      THEN [router EXCEPT !.at = @ + 1, !.wide = wide]
      ELSE [router EXCEPT !.at = 1, !.wide = FALSE, !.results = Tail(@)]

Confirmed(r) == r.profileOnly => Current.path = Profile

\* Variant: nothing special about handles.
WidenedByScopeOnly(r) == router.wide \/ r.report = "account"

Widened(r) == router.wide \/ Current.path = Handle \/ r.report = "account"

RouteMatch ==
    /\ up
    /\ router.pc = "route" /\ router.results # <<>>
    /\ Keyword \in DOMAIN rules
    /\ LET r == rules[Keyword] IN
        \/ /\ r.report = "none"
           /\ router' = Advance(router.wide)
           /\ UNCHANGED toBlock
        \/ /\ r.report # "none"
           /\ toBlock' = IF r.block = NoGroup THEN toBlock
                         ELSE toBlock \cup {<<router.did, r.block>>}
           /\ router' = [Advance(Widened(r)) EXCEPT !.mapped =
                 IF Confirmed(r)
                   THEN @ \cup {[path |-> IF Widened(r) THEN Account
                                                        ELSE Current.path,
                                 filter |-> Keyword, label |-> r.label]}
                   ELSE @]
    /\ UNCHANGED <<up, active, rules, skipped, producer, reporter, queues, inForce,
                   outcomes, bounds>>

\* Variant: the exception ends the thread, and nothing but the thread.
RouterDies ==
    /\ up
    /\ router.pc = "route" /\ router.results # <<>>
    /\ Keyword \notin DOMAIN rules
    /\ router' = [Quiet EXCEPT !.pc = "ended"]
    /\ UNCHANGED <<up, active, rules, skipped, producer, reporter, queues, history,
                   bounds>>

\* find_rule throws, nothing catches it in this thread, and the handler
\* that the controller installed aborts the process.
RuleGone ==
    /\ up
    /\ router.pc = "route" /\ router.results # <<>>
    /\ Keyword \notin DOMAIN rules
    /\ up' = FALSE
    /\ UNCHANGED <<active, rules, skipped, threads, queues, history, bounds>>

FinishRouting ==
    /\ up
    /\ router.pc = "route" /\ router.results = <<>>
    /\ reports' = IF router.mapped = {} THEN reports
                  ELSE Append(reports, [did |-> router.did,
                                        entries |-> router.mapped])
    /\ router' = [Quiet EXCEPT !.pc = IF active THEN "wait" ELSE "ended"]
    /\ UNCHANGED <<up, active, rules, skipped, producer, reporter, routes, history,
                   bounds>>

-----------------------------------------------------------------------------
(***************************************************************************)
(* The threads of report_agent. They wait for at most 10 seconds.          *)
(***************************************************************************)
NextReport == IF active THEN "wait" ELSE "ended"

TakeReport(t) ==
    /\ up
    /\ reporter[t].pc = "wait"
    /\ reports # <<>>
    /\ reporter' = [reporter EXCEPT ![t] =
          [pc |-> "decide", did |-> Head(reports).did,
           entries |-> Head(reports).entries]]
    /\ reports' = Tail(reports)
    /\ UNCHANGED <<up, active, rules, skipped, producer, router, routes, history,
                   bounds>>

\* The scopes come in the order of a hash table. A scope with a label gets
\* it, unless the process is stopping; any other is reported for review,
\* unless the account is on a list when it is looked up.
Decision(did, scope) ==
    IF \E e \in scope : e.label
      THEN IF active THEN "label" ELSE "skip"
      ELSE IF did \in skipped THEN "skip" ELSE "report"

DecideScope(t) ==
    /\ up
    /\ reporter[t].pc = "decide" /\ reporter[t].entries # {}
    /\ \E path \in {e.path : e \in reporter[t].entries} :
          LET scope == {e \in reporter[t].entries : e.path = path}
              left == reporter[t].entries \ scope IN
          /\ outcomes' = outcomes \cup
                {[kind |-> Decision(reporter[t].did, scope),
                  did |-> reporter[t].did, scope |-> scope]}
          /\ reporter' = [reporter EXCEPT ![t] =
                IF left = {} THEN [Idle EXCEPT !.pc = NextReport]
                             ELSE [@ EXCEPT !.entries = left]]
    /\ UNCHANGED <<up, active, rules, skipped, producer, router, queues, toBlock,
                   inForce, bounds>>

StopSeen(t) ==
    /\ up /\ ~active
    /\ reporter[t].pc = "wait"
    /\ reporter' = [reporter EXCEPT ![t].pc = "ended"]
    /\ UNCHANGED <<up, active, rules, skipped, producer, router, queues, history,
                   bounds>>

-----------------------------------------------------------------------------
\* Any thread that ends with an exception.
ForceStop ==
    /\ up /\ active
    /\ active' = FALSE
    /\ UNCHANGED <<up, rules, skipped, threads, queues, history, bounds>>

\* main returns, and with it every thread ends.
Exit ==
    /\ up /\ ~active
    /\ up' = FALSE
    /\ UNCHANGED <<active, rules, skipped, threads, queues, history, bounds>>

Next ==
    \/ RefreshRules \/ RefreshSkipped
    \/ \E p \in Producers : TakeMessage(p) \/ MatchPath(p) \/ EnqueueMatches(p)
    \/ TakeMatches \/ RouteMatch \/ RuleGone \/ FinishRouting
    \/ \E t \in Reporters : TakeReport(t) \/ DecideScope(t) \/ StopSeen(t)
    \/ ForceStop \/ Exit

Spec == Init /\ [][Next]_vars

\* Every thread that can take a step takes one.
Fairness ==
    /\ \A p \in Producers : WF_vars(MatchPath(p)) /\ WF_vars(EnqueueMatches(p))
    /\ WF_vars(TakeMatches \/ RouteMatch \/ RuleGone \/ FinishRouting)
    /\ WF_vars(\E t \in Reporters : TakeReport(t))
    /\ \A t \in Reporters : WF_vars(DecideScope(t))

FairSpec == Spec /\ Fairness

-----------------------------------------------------------------------------
(***************************************************************************)
(* What the rules in force, "force", say of the matches of an account.     *)
(*                                                                         *)
(* A path is dealt with as the account itself: it is the handle, or a rule *)
(* for another match on it reports accounts.                               *)
(***************************************************************************)
ForAccount(force, did, p) ==
    \/ p = Handle
    \/ \E f \in Filters : \E r \in force[<<did, f, p>>] : r.report = "account"

\* Some rule asks for the entry: in this scope, with or without a label as it
\* has, and for the kind of record that matched.
Justified(force, did, e) ==
    \E p \in IF e.path = Account THEN Paths ELSE {e.path} :
        /\ e.path = Account => ForAccount(force, did, p)
        /\ \E r \in force[<<did, e.filter, p>>] :
              /\ r.report # "none"
              /\ r.label = e.label
              /\ r.profileOnly => p = Profile
              /\ e.path # Account => r.report = "content"

\* What was decided of a scope is what the rules in it ask for: a label only
\* if one of them does, and a report only if none does.
DecisionJustified(force, o) ==
    /\ \A e \in o.scope : Justified(force, o.did, e)
    /\ o.kind = "label" => \E e \in o.scope : e.label
    /\ o.kind = "report" => \A e \in o.scope : ~e.label

\* Some rule reports what it matches, and asks for the block. The kind of
\* record is not looked at: see BlocksInScope.
BlockJustified(force, did, group) ==
    \E f \in Filters, p \in Paths : \E r \in force[<<did, f, p>>] :
        r.report # "none" /\ r.block = group

(***************************************************************************)
(* Nothing is done to an account that no rule asked for. A label or report *)
(* goes back, for each filter that it names, to a rule that asks for that, *)
(* in that scope and for that kind of record; a block goes back to a rule  *)
(* that the account matched in a record of any kind.                       *)
(***************************************************************************)
SanctionsJustified ==
    /\ \A o \in outcomes : DecisionJustified(inForce, o)
    /\ \A pair \in toBlock : BlockJustified(inForce, pair[1], pair[2])

(***************************************************************************)
(* An account is put on a list only by a rule for the kind of record that  *)
(* matched: a rule for profiles does nothing about a post, as the comments *)
(* at matcher.cpp:233 and 239 have it. The code gives the account to       *)
(* list_manager before it looks at the kind.                               *)
(***************************************************************************)
BlocksInScope ==
    \A pair \in toBlock : \E f \in Filters, p \in Paths :
        \E r \in inForce[<<pair[1], f, p>>] :
            /\ r.report # "none" /\ r.block = pair[2]
            /\ r.profileOnly => p = Profile

(***************************************************************************)
(* The lookup of a rule fails, and takes the process with it, only when    *)
(* the rule was there for the match and has been removed since: what is    *)
(* matched and what is looked up never disagree otherwise.                 *)
(***************************************************************************)
RouterFailsOnlyOnRemovedRule ==
    ~up /\ active =>
        /\ Keyword \notin DOMAIN rules
        /\ inForce[<<router.did, Keyword, Current.path>>] # {}

(***************************************************************************)
(* A match of a filter that every version of the table reports, whatever   *)
(* the record, is decided in the end, unless the process stops: no match   *)
(* is lost on the way through two queues and three threads.                *)
(***************************************************************************)
SureFilters ==
    {f \in Filters : \A table \in RuleTables :
        f \in DOMAIN table /\ table[f].report # "none" /\ ~table[f].profileOnly}

EveryMatchDecided ==
    \A did \in Dids, f \in SureFilters :
        (\E p \in Paths : inForce[<<did, f, p>>] # {})
            ~> (~active \/ ~up
                \/ \E o \in outcomes :
                       o.did = did /\ \E e \in o.scope : e.filter = f)
=============================================================================
