------------------------- MODULE RuleRoutingProofs -------------------------
(***************************************************************************)
(* Proofs about RuleRouting, for any rules, texts, messages and numbers of *)
(* threads: what is done to accounts is justified, and a rule that cannot  *)
(* be looked up was removed after the match.                               *)
(***************************************************************************)
EXTENDS RuleRouting, SequenceTheorems, TLAPS

(***************************************************************************)
(* The inductive invariant says the same of every place that a match goes  *)
(* through: what is there is judged, or justified. It is stated by sets,   *)
(* so that it follows the matches through queues as a type does.           *)
(***************************************************************************)
JudgedMatches(force, did) ==
    {m \in Matches :
        /\ m.hits # <<>>
        /\ \A j \in DOMAIN m.hits : force[<<did, m.hits[j], m.path>>] # {}}

Route == [did : Dids, results : Seq(Matches)]
JudgedRoutes(force) ==
    {r \in Route : r.results \in Seq(JudgedMatches(force, r.did))}

JustifiedEntries(force, did) == {e \in Entries : Justified(force, did, e)}

Report == [did : Dids, entries : SUBSET Entries]
JustifiedReports(force) ==
    {r \in Report : r.entries \subseteq JustifiedEntries(force, r.did)}

Flags == up \in BOOLEAN /\ active \in BOOLEAN

\* The rule in the table is one that a match in flight may be judged by.
Tables ==
    /\ rules \in RuleTables /\ skipped \subseteq Dids
    /\ taken \in 0 .. MaxMessages /\ refreshed \in 0 .. MaxRefreshes
    /\ inForce \in [Facts -> SUBSET Rules]
    /\ \A fact \in Facts :
          inForce[fact] # {} /\ fact[2] \in DOMAIN rules =>
              rules[fact[2]] \in inForce[fact]

Producing == [did : Dids, rest : Seq(Candidates), matches : Seq(Matches)]

ProducersGood ==
    /\ producer \in [Producers -> Producing]
    /\ \A p \in Producers :
          producer[p].matches \in Seq(JudgedMatches(inForce, producer[p].did))

RoutesGood == routes \in Seq(JudgedRoutes(inForce))

Routing == [pc : {"wait", "route", "ended"}, did : Dids, results : Seq(Matches),
            at : Nat, wide : BOOLEAN, mapped : SUBSET Entries]

RouterGood ==
    /\ router \in Routing
    /\ router.results \in Seq(JudgedMatches(inForce, router.did))
    /\ router.mapped \subseteq JustifiedEntries(inForce, router.did)
    /\ router.results # <<>> => router.at \in 1 .. Len(Current.hits)
    /\ router.results # <<>> /\ router.wide =>
          ForAccount(inForce, router.did, Current.path)

ReportsGood == reports \in Seq(JustifiedReports(inForce))

Deciding ==
    [pc : {"wait", "decide", "ended"}, did : Dids, entries : SUBSET Entries]

ReportersGood ==
    /\ reporter \in [Reporters -> Deciding]
    /\ \A t \in Reporters :
          reporter[t].entries \subseteq JustifiedEntries(inForce, reporter[t].did)

Outcome ==
    [kind : {"label", "report", "skip"}, did : Dids, scope : SUBSET Entries]

SanctionsGood ==
    /\ toBlock \subseteq
          {pair \in Dids \X Groups : BlockJustified(inForce, pair[1], pair[2])}
    /\ outcomes \subseteq {o \in Outcome : DecisionJustified(inForce, o)}

Places ==
    /\ Tables /\ ProducersGood /\ RoutesGood /\ RouterGood /\ ReportsGood
    /\ ReportersGood /\ SanctionsGood

IInv == Flags /\ Places /\ RouterFailsOnlyOnRemovedRule

-----------------------------------------------------------------------------
(***************************************************************************)
(* What may be said of a match only grows: the rules it is judged by stay  *)
(* in force.                                                               *)
(***************************************************************************)
Grows ==
    /\ inForce' \in [Facts -> SUBSET Rules]
    /\ \A fact \in Facts : inForce[fact] \subseteq inForce'[fact]

LEMMA SameGrows == ASSUME Tables, UNCHANGED inForce PROVE Grows
  BY DEF Tables, Grows

LEMMA MatchesStayJudged ==
  ASSUME Grows, NEW did \in Dids
  PROVE  JudgedMatches(inForce, did) \subseteq JudgedMatches(inForce', did)
<1> SUFFICES ASSUME NEW m \in JudgedMatches(inForce, did)
             PROVE  m \in JudgedMatches(inForce', did)
  OBVIOUS
<1> USE DEF JudgedMatches
<1>1. m \in Matches /\ m.hits # <<>>
  OBVIOUS
<1>2. SUFFICES ASSUME NEW j \in DOMAIN m.hits
               PROVE  inForce'[<<did, m.hits[j], m.path>>] # {}
  BY <1>1
<1>3. m.hits[j] \in Filters /\ m.path \in Paths
  BY <1>1 DEF Matches
<1>4. <<did, m.hits[j], m.path>> \in Facts
  BY <1>3 DEF Facts
<1>5. inForce[<<did, m.hits[j], m.path>>] # {}
  OBVIOUS
<1>. QED BY <1>4, <1>5 DEF Grows

LEMMA StaysForAccount ==
  ASSUME Grows, NEW did \in Dids, NEW p \in Paths, ForAccount(inForce, did, p)
  PROVE  ForAccount(inForce', did, p)
<1>1. CASE p = Handle
  BY <1>1 DEF ForAccount
<1>2. ASSUME NEW f \in Filters, NEW r \in inForce[<<did, f, p>>],
             r.report = "account"
      PROVE  ForAccount(inForce', did, p)
  <2>1. <<did, f, p>> \in Facts
    BY DEF Facts
  <2>2. r \in inForce'[<<did, f, p>>]
    BY <2>1 DEF Grows
  <2>. QED BY Zenon, <1>2, <2>2 DEF ForAccount
<1>. QED BY Zenon, <1>1, <1>2 DEF ForAccount

LEMMA EntriesStayJustified ==
  ASSUME Grows, NEW did \in Dids
  PROVE  JustifiedEntries(inForce, did) \subseteq JustifiedEntries(inForce', did)
<1> SUFFICES ASSUME NEW e \in JustifiedEntries(inForce, did)
             PROVE  e \in JustifiedEntries(inForce', did)
  OBVIOUS
<1>1. e \in Entries /\ Justified(inForce, did, e)
  BY DEF JustifiedEntries
<1>2. PICK p \in IF e.path = Account THEN Paths ELSE {e.path} :
          /\ e.path = Account => ForAccount(inForce, did, p)
          /\ \E r \in inForce[<<did, e.filter, p>>] :
                /\ r.report # "none"
                /\ r.label = e.label
                /\ r.profileOnly => p = Profile
                /\ e.path # Account => r.report = "content"
  BY Zenon, <1>1 DEF Justified
<1>3. e.filter \in Filters /\ e.path \in ContentPaths \cup {Account}
  BY <1>1 DEF Entries
<1>4. p \in Paths
  BY <1>2, <1>3 DEF Paths
<1>5. <<did, e.filter, p>> \in Facts
  BY <1>3, <1>4 DEF Facts
<1>6. inForce[<<did, e.filter, p>>] \subseteq inForce'[<<did, e.filter, p>>]
  BY <1>5 DEF Grows
<1>7. e.path = Account => ForAccount(inForce', did, p)
  BY <1>2, <1>4, StaysForAccount
<1>8. Justified(inForce', did, e)
  BY Zenon, <1>2, <1>6, <1>7 DEF Justified
<1>. QED BY <1>1, <1>8 DEF JustifiedEntries

LEMMA DecisionsStayJustified ==
  ASSUME Grows, NEW o \in Outcome, DecisionJustified(inForce, o)
  PROVE  DecisionJustified(inForce', o)
<1>1. o.did \in Dids /\ o.scope \subseteq Entries
  BY DEF Outcome
<1>2. o.scope \subseteq JustifiedEntries(inForce, o.did)
  BY <1>1 DEF DecisionJustified, JustifiedEntries
<1>3. o.scope \subseteq JustifiedEntries(inForce', o.did)
  BY <1>1, <1>2, EntriesStayJustified
<1>4. \A e \in o.scope : Justified(inForce', o.did, e)
  BY <1>3 DEF JustifiedEntries
<1>. QED BY Zenon, <1>4 DEF DecisionJustified

LEMMA BlocksStayJustified ==
  ASSUME Grows, NEW did \in Dids, NEW group, BlockJustified(inForce, did, group)
  PROVE  BlockJustified(inForce', did, group)
<1>1. PICK f \in Filters, p \in Paths : \E r \in inForce[<<did, f, p>>] :
          r.report # "none" /\ r.block = group
  BY DEF BlockJustified
<1>2. <<did, f, p>> \in Facts
  BY DEF Facts
<1>3. inForce[<<did, f, p>>] \subseteq inForce'[<<did, f, p>>]
  BY <1>2 DEF Grows
<1>. QED BY Zenon, <1>1, <1>3 DEF BlockJustified

(***************************************************************************)
(* So a place that a step leaves alone stays good.                         *)
(***************************************************************************)
LEMMA ProducerKept ==
  ASSUME ProducersGood, Grows, NEW p \in Producers, producer'[p] = producer[p]
  PROVE  (producer[p].matches \in Seq(JudgedMatches(inForce, producer[p].did)))'
<1>1. PICK did \in Dids : did = producer[p].did
  BY DEF ProducersGood, Producing
<1>2. JudgedMatches(inForce, did) \subseteq JudgedMatches(inForce', did)
  BY MatchesStayJudged
<1>3. producer[p].matches \in Seq(JudgedMatches(inForce', did))
  BY <1>1, <1>2, SeqMonotonic DEF ProducersGood
<1>. QED BY <1>1, <1>3

LEMMA ProducersKept ==
  ASSUME ProducersGood, Grows, UNCHANGED producer
  PROVE  ProducersGood'
<1>1. ASSUME NEW p \in Producers
      PROVE  (producer[p].matches \in Seq(JudgedMatches(inForce, producer[p].did)))'
  BY <1>1, ProducerKept
<1>. QED BY <1>1 DEF ProducersGood

LEMMA RoutesStayJudged ==
  ASSUME Grows
  PROVE  JudgedRoutes(inForce) \subseteq JudgedRoutes(inForce')
<1> SUFFICES ASSUME NEW r \in JudgedRoutes(inForce)
             PROVE  r \in JudgedRoutes(inForce')
  OBVIOUS
<1>1. r \in Route /\ r.results \in Seq(JudgedMatches(inForce, r.did))
  BY DEF JudgedRoutes
<1>2. JudgedMatches(inForce, r.did) \subseteq JudgedMatches(inForce', r.did)
  BY <1>1, MatchesStayJudged DEF Route
<1>3. r.results \in Seq(JudgedMatches(inForce', r.did))
  BY <1>1, <1>2, SeqMonotonic
<1>. QED BY <1>1, <1>3 DEF JudgedRoutes

LEMMA RoutesKept ==
  ASSUME RoutesGood, Grows, UNCHANGED routes
  PROVE  RoutesGood'
BY RoutesStayJudged, SeqMonotonic DEF RoutesGood

LEMMA RouterKept ==
  ASSUME RouterGood, Grows, UNCHANGED router
  PROVE  RouterGood'
<1>1. router.did \in Dids
  BY DEF RouterGood, Routing
<1>2. JudgedMatches(inForce, router.did) \subseteq
          JudgedMatches(inForce', router.did)
  BY <1>1, MatchesStayJudged
<1>3. router.results \in Seq(JudgedMatches(inForce', router.did))
  BY <1>2, SeqMonotonic DEF RouterGood
<1>4. JustifiedEntries(inForce, router.did) \subseteq
          JustifiedEntries(inForce', router.did)
  BY <1>1, EntriesStayJustified
<1>5. ASSUME router.results # <<>>, router.wide
      PROVE  ForAccount(inForce', router.did, Current.path)
  <2>1. Current \in JudgedMatches(inForce, router.did)
    BY <1>5, HeadTailProperties DEF RouterGood, Current
  <2>2. Current.path \in Paths
    BY <2>1 DEF JudgedMatches, Matches
  <2>3. ForAccount(inForce, router.did, Current.path)
    BY <1>5 DEF RouterGood
  <2>. QED BY <1>1, <2>2, <2>3, StaysForAccount
<1>. QED BY <1>3, <1>4, <1>5 DEF RouterGood, Current

LEMMA ReportsStayJustified ==
  ASSUME Grows
  PROVE  JustifiedReports(inForce) \subseteq JustifiedReports(inForce')
<1> SUFFICES ASSUME NEW r \in JustifiedReports(inForce)
             PROVE  r \in JustifiedReports(inForce')
  OBVIOUS
<1>1. r \in Report /\ r.entries \subseteq JustifiedEntries(inForce, r.did)
  BY DEF JustifiedReports
<1>2. JustifiedEntries(inForce, r.did) \subseteq JustifiedEntries(inForce', r.did)
  BY <1>1, EntriesStayJustified DEF Report
<1>. QED BY <1>1, <1>2 DEF JustifiedReports

LEMMA ReportsKept ==
  ASSUME ReportsGood, Grows, UNCHANGED reports
  PROVE  ReportsGood'
BY ReportsStayJustified, SeqMonotonic DEF ReportsGood

LEMMA ReporterKept ==
  ASSUME ReportersGood, Grows, NEW t \in Reporters, reporter'[t] = reporter[t]
  PROVE  (reporter[t].entries \subseteq JustifiedEntries(inForce, reporter[t].did))'
<1>1. PICK did \in Dids : did = reporter[t].did
  BY DEF ReportersGood, Deciding
<1>2. JustifiedEntries(inForce, did) \subseteq JustifiedEntries(inForce', did)
  BY EntriesStayJustified
<1>3. reporter[t].entries \subseteq JustifiedEntries(inForce', did)
  BY <1>1, <1>2 DEF ReportersGood
<1>. QED BY <1>1, <1>3

LEMMA ReportersKept ==
  ASSUME ReportersGood, Grows, UNCHANGED reporter
  PROVE  ReportersGood'
<1>1. ASSUME NEW t \in Reporters
      PROVE  (reporter[t].entries \subseteq JustifiedEntries(inForce, reporter[t].did))'
  BY <1>1, ReporterKept
<1>. QED BY <1>1 DEF ReportersGood

LEMMA SanctionsKept ==
  ASSUME SanctionsGood, Grows, UNCHANGED <<toBlock, outcomes>>
  PROVE  SanctionsGood'
<1>1. ASSUME NEW pair \in toBlock
      PROVE  pair \in Dids \X Groups /\ BlockJustified(inForce', pair[1], pair[2])
  <2>1. pair \in Dids \X Groups /\ BlockJustified(inForce, pair[1], pair[2])
    BY DEF SanctionsGood
  <2>2. pair[1] \in Dids
    BY <2>1
  <2>. QED BY <2>1, <2>2, BlocksStayJustified
<1>2. ASSUME NEW o \in outcomes
      PROVE  o \in Outcome /\ DecisionJustified(inForce', o)
  BY <1>2, DecisionsStayJustified DEF SanctionsGood
<1>. QED BY <1>1, <1>2 DEF SanctionsGood

LEMMA TablesKept ==
  ASSUME Tables, UNCHANGED <<rules, skipped, bounds, inForce>>
  PROVE  Tables'
BY DEF Tables, bounds

\* A step that leaves alone what is in force disturbs only what it changes.
LEMMA OthersKept ==
  ASSUME Places, UNCHANGED inForce
  PROVE  /\ Grows
         /\ UNCHANGED producer => ProducersGood'
         /\ UNCHANGED routes => RoutesGood'
         /\ UNCHANGED router => RouterGood'
         /\ UNCHANGED reports => ReportsGood'
         /\ UNCHANGED reporter => ReportersGood'
         /\ UNCHANGED <<toBlock, outcomes>> => SanctionsGood'
BY SameGrows, ProducersKept, RoutesKept, RouterKept, ReportsKept, ReportersKept,
   SanctionsKept DEF Places

-----------------------------------------------------------------------------
LEMMA IdleTyped ==
    /\ Idle \in Deciding /\ Idle.entries = {}
    /\ Quiet \in Routing /\ Quiet.results = <<>> /\ Quiet.mapped = {}
    /\ Waiting \in Producing /\ Waiting.matches = <<>>
<1>1. (CHOOSE d \in Dids : TRUE) \in Dids
  BY RoutingAssumption
<1>. QED BY <1>1 DEF Idle, Deciding, Quiet, Routing, Waiting, Producing

\* There is nothing to judge at the start.
LEMMA InitGood == ASSUME Init PROVE IInv
<1>1. Flags
  BY Zenon DEF Init, Flags
<1>2. Tables
  BY RoutingAssumption DEF Init, Tables
<1>3. ProducersGood
  <2>1. producer \in [Producers -> Producing]
    BY IdleTyped DEF Init
  <2>2. ASSUME NEW p \in Producers
        PROVE  producer[p].matches \in Seq(JudgedMatches(inForce, producer[p].did))
    <3>1. producer[p].matches = <<>>
      BY IdleTyped DEF Init
    <3>. QED BY <3>1, EmptySeq
  <2>. QED BY <2>1, <2>2 DEF ProducersGood
<1>4. RoutesGood
  BY DEF Init, RoutesGood
<1>5. RouterGood
  BY IdleTyped DEF Init, RouterGood
<1>6. ReportsGood
  BY DEF Init, ReportsGood
<1>7. ReportersGood
  BY IdleTyped DEF Init, ReportersGood
<1>8. SanctionsGood
  BY DEF Init, SanctionsGood
<1>9. RouterFailsOnlyOnRemovedRule
  BY Zenon DEF Init, RouterFailsOnlyOnRemovedRule
<1>. QED BY <1>1, <1>2, <1>3, <1>4, <1>5, <1>6, <1>7, <1>8, <1>9 DEF IInv, Places

(***************************************************************************)
(* The auxiliary_data thread.                                              *)
(***************************************************************************)
LEMMA RefreshRulesGood == ASSUME Places, RefreshRules PROVE Places'
<1>1. PICK replacement \in RuleTables :
          /\ rules' = replacement
          /\ inForce' = [fact \in Facts |->
                IF inForce[fact] # {} /\ fact[2] \in DOMAIN replacement
                  THEN inForce[fact] \cup {replacement[fact[2]]}
                  ELSE inForce[fact]]
  BY DEF RefreshRules
<1>2. ASSUME NEW fact \in Facts
      PROVE  /\ inForce'[fact] \subseteq Rules
             /\ inForce[fact] \subseteq inForce'[fact]
             /\ inForce'[fact] # {} /\ fact[2] \in DOMAIN rules' =>
                   rules'[fact[2]] \in inForce'[fact]
  <2>1. inForce[fact] \subseteq Rules
    BY DEF Places, Tables
  <2>2. \A f \in DOMAIN replacement : replacement[f] \in Rules
    BY RoutingAssumption
  <2>. QED BY <1>1, <2>1, <2>2
<1>3. inForce' \in [Facts -> SUBSET Rules]
  BY <1>1, <1>2
<1>4. Grows
  BY <1>2, <1>3 DEF Grows
<1>5. Tables'
  BY <1>1, <1>2, <1>3, RoutingAssumption DEF Places, Tables, RefreshRules
<1>. QED BY <1>4, <1>5, ProducersKept, RoutesKept, RouterKept, ReportsKept,
            ReportersKept, SanctionsKept
         DEF Places, RefreshRules, threads, queues

LEMMA RefreshSkippedGood == ASSUME Places, RefreshSkipped PROVE Places'
<1>1. Tables'
  BY RoutingAssumption DEF Places, Tables, RefreshSkipped, history
<1>. QED BY <1>1, OthersKept DEF Places, RefreshSkipped, threads, queues, history

(***************************************************************************)
(* The producers.                                                          *)
(***************************************************************************)
LEMMA TakeMessageGood ==
  ASSUME Places, NEW p \in Producers, TakeMessage(p)
  PROVE  Places'
<1>1. Tables'
  BY RoutingAssumption DEF Places, Tables, TakeMessage, history
<1>2. PICK did \in Dids, message \in Messages :
          producer' = [producer EXCEPT ![p] =
                          [did |-> did, rest |-> message, matches |-> <<>>]]
  BY DEF TakeMessage
<1>3. ProducersGood'
  <2>1. message \in Seq(Candidates)
    BY RoutingAssumption
  <2>2. producer' \in [Producers -> Producing]
    BY <1>2, <2>1 DEF Places, ProducersGood, Producing
  <2>3. ASSUME NEW q \in Producers
        PROVE  (producer[q].matches \in Seq(JudgedMatches(inForce, producer[q].did)))'
    <3>1. CASE q = p
      <4>1. producer'[q].matches = <<>>
        BY <1>2, <3>1 DEF Places, ProducersGood
      <4>. QED BY <4>1, EmptySeq
    <3>2. CASE q # p
      <4>1. producer'[q] = producer[q]
        BY <1>2, <3>2 DEF Places, ProducersGood
      <4>. QED BY <4>1, OthersKept, ProducerKept DEF Places, TakeMessage, history
    <3>. QED BY <3>1, <3>2
  <2>. QED BY <2>2, <2>3 DEF ProducersGood
<1>. QED BY <1>1, <1>3, OthersKept DEF Places, TakeMessage, queues, history

\* What a producer adds is judged by the table that it was matched by.
LEMMA MatchPathGood ==
  ASSUME Places, NEW p \in Producers, MatchPath(p)
  PROVE  Places'
<1> DEFINE next == Head(producer[p].rest)
           hits == Emits(next.text, rules)
           match == [path |-> next.path, hits |-> hits]
<1>1. PICK did \in Dids : did = producer[p].did
  BY DEF Places, ProducersGood, Producing
<1>2. next \in Candidates /\ Tail(producer[p].rest) \in Seq(Candidates)
  BY HeadTailProperties DEF Places, ProducersGood, Producing, MatchPath
<1>3. next.path \in Paths /\ next.text \in Texts
  BY <1>2 DEF Candidates
<1>4. rules \in RuleTables /\ inForce \in [Facts -> SUBSET Rules]
  BY DEF Places, Tables
<1>5. DOMAIN rules \subseteq Filters /\ \A f \in DOMAIN rules : rules[f] \in Rules
  BY <1>4, RoutingAssumption
<1>6. hits \in Seq(DOMAIN rules)
  BY <1>3, <1>4, RoutingAssumption
<1>7. hits \in Seq(Filters) /\ match \in Matches
  BY <1>3, <1>5, <1>6, SeqMonotonic DEF Matches
<1>8. inForce' = [fact \in Facts |->
          IF /\ fact[1] = did /\ fact[3] = next.path
             /\ In(fact[2], hits) /\ fact[2] \in DOMAIN rules
            THEN inForce[fact] \cup {rules[fact[2]]}
            ELSE inForce[fact]]
  BY <1>1 DEF MatchPath, MatchAgainst
<1>9. producer' = [producer EXCEPT
          ![p].rest = Tail(@),
          ![p].matches = IF hits = <<>> THEN @ ELSE Append(@, match)]
  BY DEF MatchPath, MatchAgainst
<1>10. Grows
  BY <1>4, <1>5, <1>8 DEF Grows
<1>11. Tables'
  BY <1>4, <1>5, <1>8, RoutingAssumption DEF Places, Tables, MatchPath, bounds
<1>12. hits # <<>> => match \in JudgedMatches(inForce', did)
  <2> SUFFICES ASSUME hits # <<>>,
                      NEW j \in DOMAIN hits
               PROVE  inForce'[<<did, hits[j], next.path>>] # {}
    BY <1>7 DEF JudgedMatches
  <2>1. hits[j] \in DOMAIN rules
    BY <1>6
  <2>2. In(hits[j], hits)
    BY DEF In
  <2>3. <<did, hits[j], next.path>> \in Facts
    BY <1>3, <1>5, <2>1 DEF Facts
  <2>. QED BY <1>8, <2>1, <2>2, <2>3
<1>13. ProducersGood'
  <2>1. producer[p].matches \in Seq(Matches)
    BY DEF Places, ProducersGood, Producing
  <2>2. producer' \in [Producers -> Producing]
    <3>1. \A ms \in Seq(Matches) :
              [producer[p] EXCEPT !.rest = Tail(@), !.matches = ms] \in Producing
      BY <1>2 DEF Places, ProducersGood, Producing
    <3>2. (IF hits = <<>> THEN producer[p].matches
           ELSE Append(producer[p].matches, match)) \in Seq(Matches)
      BY <1>7, <2>1, AppendProperties
    <3>. QED BY <1>9, <3>1, <3>2 DEF Places, ProducersGood
  <2>3. ASSUME NEW q \in Producers
        PROVE  (producer[q].matches \in Seq(JudgedMatches(inForce, producer[q].did)))'
    <3>1. CASE q = p
      <4>1. producer[p].matches \in Seq(JudgedMatches(inForce', did))
        BY <1>1, <1>10, MatchesStayJudged, SeqMonotonic DEF Places, ProducersGood
      <4>2. /\ producer'[p].did = did
            /\ producer'[p].matches = IF hits = <<>> THEN producer[p].matches
                                      ELSE Append(producer[p].matches, match)
        BY <1>1, <1>9 DEF Places, ProducersGood, Producing
      <4>3. producer'[p].matches \in Seq(JudgedMatches(inForce', did))
        BY <1>12, <4>1, <4>2, AppendProperties
      <4>. QED BY <3>1, <4>2, <4>3
    <3>2. CASE q # p
      <4>1. producer'[q] = producer[q]
        BY <1>9, <3>2 DEF Places, ProducersGood
      <4>. QED BY <1>10, <4>1, ProducerKept DEF Places
    <3>. QED BY <3>1, <3>2
  <2>. QED BY <2>2, <2>3 DEF ProducersGood
<1>. QED BY <1>10, <1>11, <1>13, RoutesKept, RouterKept, ReportsKept,
            ReportersKept, SanctionsKept
         DEF Places, MatchPath, queues

LEMMA EnqueueMatchesGood ==
  ASSUME Places, NEW p \in Producers, EnqueueMatches(p)
  PROVE  Places'
<1> DEFINE route == [did |-> producer[p].did, results |-> producer[p].matches]
<1>1. UNCHANGED inForce /\ Tables'
  BY TablesKept DEF Places, EnqueueMatches, history
<1>2. route \in JudgedRoutes(inForce)
  BY DEF Places, ProducersGood, Producing, JudgedRoutes, Route
<1>3. RoutesGood'
  <2>1. JudgedRoutes(inForce') = JudgedRoutes(inForce)
    BY <1>1
  <2>2. routes' = Append(routes, route)
    BY DEF EnqueueMatches
  <2>. QED BY <1>2, <2>1, <2>2, AppendProperties DEF Places, RoutesGood
<1>4. ProducersGood'
  <2>1. producer' = [producer EXCEPT ![p] = Waiting]
    BY DEF EnqueueMatches
  <2>2. producer' \in [Producers -> Producing]
    BY <2>1, IdleTyped DEF Places, ProducersGood
  <2>3. ASSUME NEW q \in Producers
        PROVE  (producer[q].matches \in Seq(JudgedMatches(inForce, producer[q].did)))'
    <3>1. CASE q = p
      <4>1. producer'[q].matches = <<>>
        BY <2>1, <3>1, IdleTyped DEF Places, ProducersGood
      <4>. QED BY <4>1, EmptySeq
    <3>2. CASE q # p
      <4>1. producer'[q] = producer[q]
        BY <2>1, <3>2 DEF Places, ProducersGood
      <4>. QED BY <1>1, <4>1, OthersKept, ProducerKept DEF Places
    <3>. QED BY <3>1, <3>2
  <2>. QED BY <2>2, <2>3 DEF ProducersGood
<1>. QED BY <1>1, <1>3, <1>4, OthersKept DEF Places, EnqueueMatches, history

(***************************************************************************)
(* The action_router.                                                      *)
(***************************************************************************)
\* The first of judged results has a first match.
LEMMA FirstJudged ==
  ASSUME NEW did \in Dids, NEW results \in Seq(JudgedMatches(inForce, did)),
         results # <<>>
  PROVE  /\ Head(results) \in JudgedMatches(inForce, did)
         /\ Head(results).hits \in Seq(Filters)
         /\ 1 \in 1 .. Len(Head(results).hits)
         /\ Tail(results) \in Seq(JudgedMatches(inForce, did))
<1>1. /\ Head(results) \in JudgedMatches(inForce, did)
      /\ Tail(results) \in Seq(JudgedMatches(inForce, did))
  BY HeadTailProperties
<1>2. Head(results).hits \in Seq(Filters) /\ Head(results).hits # <<>>
  BY <1>1 DEF JudgedMatches, Matches
<1>3. 1 \in 1 .. Len(Head(results).hits)
  BY <1>2, EmptySeq
<1>. QED BY <1>1, <1>2, <1>3

LEMMA TakeMatchesGood == ASSUME Places, TakeMatches PROVE Places'
<1>1. UNCHANGED inForce /\ Tables'
  BY TablesKept DEF Places, TakeMatches, history
<1>2. PICK route \in JudgedRoutes(inForce) : route = Head(routes)
  BY HeadTailProperties DEF Places, RoutesGood, TakeMatches
<1>3. RoutesGood'
  <2>1. JudgedRoutes(inForce') = JudgedRoutes(inForce)
    BY <1>1
  <2>. QED BY <2>1, HeadTailProperties DEF Places, RoutesGood, TakeMatches
<1>4. route \in Route /\ route.results \in Seq(JudgedMatches(inForce, route.did))
  BY DEF JudgedRoutes
<1>5. router' = [Quiet EXCEPT !.pc = "route", !.did = route.did,
                              !.results = route.results]
  BY <1>2 DEF TakeMatches
<1>6. /\ router' \in Routing
      /\ router'.did = route.did /\ router'.results = route.results
      /\ router'.mapped = {} /\ router'.at = 1 /\ ~router'.wide
  BY <1>4, <1>5, IdleTyped DEF Routing, Route, Quiet
<1>7. router'.results # <<>> => 1 \in 1 .. Len(Head(router'.results).hits)
  BY <1>4, <1>6, FirstJudged DEF Route
<1>8. RouterGood'
  <2>1. router'.results \in Seq(JudgedMatches(inForce', route.did))
    BY <1>1, <1>4, <1>6
  <2>2. (router.results \in Seq(JudgedMatches(inForce, router.did)))'
    BY <1>6, <2>1
  <2>. QED BY <1>6, <1>7, <2>2 DEF RouterGood, Current
<1>. QED BY <1>1, <1>3, <1>8, OthersKept DEF Places, TakeMatches, history

\* The keyword the router is at was judged when it matched.
LEMMA KeywordJudged ==
  ASSUME Places, router.results # <<>>
  PROVE  /\ router.did \in Dids /\ Current.path \in Paths /\ Keyword \in Filters
         /\ inForce[<<router.did, Keyword, Current.path>>] # {}
         /\ Current.hits \in Seq(Filters) /\ router.at \in 1 .. Len(Current.hits)
<1>1. router.did \in Dids /\ router.at \in 1 .. Len(Current.hits)
  BY DEF Places, RouterGood, Routing
<1>2. Current \in JudgedMatches(inForce, router.did)
  BY <1>1, FirstJudged DEF Places, RouterGood, Current
<1>3. Current.hits \in Seq(Filters) /\ Current.path \in Paths
  BY <1>2 DEF JudgedMatches, Matches
<1>4. router.at \in DOMAIN Current.hits
  BY <1>1, <1>3, LenProperties
<1>. QED BY <1>1, <1>2, <1>3, <1>4 DEF JudgedMatches, Keyword

LEMMA AdvanceTyped ==
  ASSUME Places, router.results # <<>>, NEW wide \in BOOLEAN
  PROVE  /\ Advance(wide) \in Routing
         /\ Advance(wide).did = router.did
         /\ Advance(wide).mapped = router.mapped
         /\ Advance(wide).results \in Seq(JudgedMatches(inForce, router.did))
         /\ Advance(wide).results # <<>> =>
               Advance(wide).at \in 1 .. Len(Head(Advance(wide).results).hits)
         /\ Advance(wide).wide => wide /\ Advance(wide).results = router.results
<1>1. router \in Routing /\ router.results \in Seq(JudgedMatches(inForce, router.did))
  BY DEF Places, RouterGood
<1>2. router.did \in Dids
  BY <1>1 DEF Routing
<1>3. /\ Current.hits \in Seq(Filters)
      /\ router.at \in 1 .. Len(Current.hits)
  BY KeywordJudged
<1>4. CASE router.at < Len(Current.hits)
  <2>1. Advance(wide) = [router EXCEPT !.at = @ + 1, !.wide = wide]
    BY <1>4 DEF Advance
  <2>2. router.at + 1 \in 1 .. Len(Current.hits)
    BY <1>3, <1>4, LenProperties
  <2>3. router.at + 1 \in Nat
    BY <1>1 DEF Routing
  <2>4. Advance(wide) \in Routing
    BY Zenon, <1>1, <2>1, <2>3 DEF Routing
  <2>5. /\ Advance(wide).did = router.did /\ Advance(wide).mapped = router.mapped
        /\ Advance(wide).results = router.results
        /\ Advance(wide).at = router.at + 1 /\ Advance(wide).wide = wide
    BY <1>1, <2>1 DEF Routing
  <2>. QED BY <1>1, <2>2, <2>4, <2>5 DEF Current
<1>5. CASE ~(router.at < Len(Current.hits))
  <2>1. Advance(wide) =
            [router EXCEPT !.at = 1, !.wide = FALSE, !.results = Tail(@)]
    BY <1>5 DEF Advance
  <2>2. /\ Tail(router.results) \in Seq(JudgedMatches(inForce, router.did))
        /\ Tail(router.results) \in Seq(Matches)
    BY <1>1, HeadTailProperties DEF Routing
  <2>3. Tail(router.results) # <<>> =>
            1 \in 1 .. Len(Head(Tail(router.results)).hits)
    BY <1>2, <2>2, FirstJudged
  <2>4. Advance(wide) \in Routing
    <3>1. 1 \in Nat /\ FALSE \in BOOLEAN
      OBVIOUS
    <3>. QED BY Zenon, <1>1, <2>1, <2>2, <3>1 DEF Routing
  <2>5. /\ Advance(wide).did = router.did /\ Advance(wide).mapped = router.mapped
        /\ Advance(wide).results = Tail(router.results)
        /\ Advance(wide).at = 1 /\ ~Advance(wide).wide
    BY <1>1, <2>1 DEF Routing
  <2>. QED BY <2>2, <2>3, <2>4, <2>5
<1>. QED BY <1>4, <1>5

\* The path is cleared for the handle, or by a rule in force for a match on it.
LEMMA WidenedForAccount ==
  ASSUME Places, router.results # <<>>, Keyword \in DOMAIN rules,
         NEW r, r = rules[Keyword], Widened(r)
  PROVE  ForAccount(inForce, router.did, Current.path)
<1>1. /\ router.did \in Dids /\ Current.path \in Paths /\ Keyword \in Filters
      /\ inForce[<<router.did, Keyword, Current.path>>] # {}
  BY KeywordJudged
<1>2. <<router.did, Keyword, Current.path>> \in Facts
  BY <1>1 DEF Facts
<1>3. r \in inForce[<<router.did, Keyword, Current.path>>]
  BY <1>1, <1>2 DEF Places, Tables
<1>4. CASE router.wide
  BY <1>4 DEF Places, RouterGood
<1>5. CASE Current.path = Handle
  BY <1>5 DEF ForAccount
<1>6. CASE r.report = "account"
  BY Zenon, <1>1, <1>3, <1>6 DEF ForAccount
<1>. QED BY Zenon, <1>4, <1>5, <1>6 DEF Widened

\* The rule found again is in force for the match, so the entry it makes is
\* justified by it, in the scope the router is in.
LEMMA EntryJustified ==
  ASSUME Places, router.results # <<>>, Keyword \in DOMAIN rules,
         NEW r, r = rules[Keyword], r.report # "none", Confirmed(r)
  PROVE  [path |-> IF Widened(r) THEN Account ELSE Current.path,
          filter |-> Keyword, label |-> r.label]
             \in JustifiedEntries(inForce, router.did)
<1> DEFINE entry == [path |-> IF Widened(r) THEN Account ELSE Current.path,
                     filter |-> Keyword, label |-> r.label]
<1>1. /\ router.did \in Dids /\ Current.path \in Paths /\ Keyword \in Filters
      /\ inForce[<<router.did, Keyword, Current.path>>] # {}
  BY KeywordJudged
<1>2. r \in Rules
  BY RoutingAssumption DEF Places, Tables
<1>3. r \in inForce[<<router.did, Keyword, Current.path>>]
  <2>1. <<router.did, Keyword, Current.path>> \in Facts
    BY <1>1 DEF Facts
  <2>. QED BY <1>1, <2>1 DEF Places, Tables
<1>4. r.profileOnly => Current.path = Profile
  BY Zenon DEF Confirmed
<1>5. r.label \in BOOLEAN /\ r.report \in {"none", "content", "account"}
  BY <1>2 DEF Rules
<1>6. CASE Widened(r)
  <2>1. /\ entry = [path |-> Account, filter |-> Keyword, label |-> r.label]
        /\ entry \in Entries
    BY <1>1, <1>5, <1>6 DEF Entries
  <2>2. Justified(inForce, router.did, entry)
    <3>1. entry.path = Account /\ entry.filter = Keyword /\ entry.label = r.label
      BY <2>1
    <3>2. Current.path \in IF entry.path = Account THEN Paths ELSE {entry.path}
      BY <1>1, <3>1
    <3>3. ForAccount(inForce, router.did, Current.path)
      BY <1>6, WidenedForAccount
    <3>. QED BY Zenon, <1>2, <1>3, <1>4, <3>1, <3>2, <3>3 DEF Justified
  <2>. QED BY <2>1, <2>2 DEF JustifiedEntries
<1>7. CASE ~Widened(r)
  <2>1. Current.path # Handle /\ r.report = "content"
    BY <1>5, <1>7 DEF Widened
  <2>2. Current.path \in ContentPaths
    BY <1>1, <2>1 DEF Paths
  <2>3. /\ entry = [path |-> Current.path, filter |-> Keyword, label |-> r.label]
        /\ entry \in Entries
    BY <1>1, <1>5, <1>7, <2>2 DEF Entries
  <2>4. Justified(inForce, router.did, entry)
    <3>1. /\ entry.path = Current.path /\ entry.filter = Keyword
          /\ entry.label = r.label
      BY <2>3
    <3>2. entry.path # Account
      BY <2>2, <3>1 DEF ContentPaths, Account, Profile
    <3>3. Current.path \in IF entry.path = Account THEN Paths ELSE {entry.path}
      BY <3>1, <3>2
    <3>. QED BY Zenon, <1>3, <1>4, <2>1, <3>1, <3>2, <3>3 DEF Justified
  <2>. QED BY <2>3, <2>4 DEF JustifiedEntries
<1>. QED BY <1>6, <1>7

LEMMA RouteMatchGood == ASSUME Places, RouteMatch PROVE Places'
<1>1. UNCHANGED inForce /\ Tables'
  BY TablesKept DEF Places, RouteMatch
<1>2. PICK r : r = rules[Keyword]
  OBVIOUS
<1>3. router.results # <<>> /\ Keyword \in DOMAIN rules
  BY DEF RouteMatch
<1>4. /\ router.did \in Dids
      /\ router.mapped \subseteq JustifiedEntries(inForce, router.did)
  BY DEF Places, RouterGood, Routing
<1>5. SUFFICES RouterGood' /\ SanctionsGood'
  BY <1>1, OthersKept DEF Places, RouteMatch, queues
<1>6. UNCHANGED outcomes
  BY DEF RouteMatch
<1>7. CASE r.report = "none"
  <2>1. router' = Advance(router.wide) /\ UNCHANGED toBlock
    BY <1>2, <1>7 DEF RouteMatch
  <2>2. router.wide \in BOOLEAN
    BY DEF Places, RouterGood, Routing
  <2>3. /\ router' \in Routing /\ router'.did = router.did
        /\ router'.mapped = router.mapped
        /\ router'.results \in Seq(JudgedMatches(inForce, router.did))
        /\ router'.results # <<>> =>
              router'.at \in 1 .. Len(Head(router'.results).hits)
        /\ router'.wide => router.wide /\ router'.results = router.results
    BY <1>3, <2>1, <2>2, AdvanceTyped
  <2>4. router'.wide => ForAccount(inForce, router.did, Head(router'.results).path)
    BY <1>3, <2>3 DEF Places, RouterGood, Current
  <2>5. RouterGood'
    BY <1>1, <1>4, <2>3, <2>4 DEF RouterGood, Current
  <2>. QED BY <1>1, <1>6, <2>1, <2>5, OthersKept DEF Places
<1>8. CASE r.report # "none"
  <2> DEFINE entry == [path |-> IF Widened(r) THEN Account ELSE Current.path,
                       filter |-> Keyword, label |-> r.label]
             next == Advance(Widened(r))
             mapped == IF Confirmed(r) THEN router.mapped \cup {entry}
                       ELSE router.mapped
  <2>1. /\ toBlock' = IF r.block = NoGroup THEN toBlock
                      ELSE toBlock \cup {<<router.did, r.block>>}
        /\ router' = [next EXCEPT !.mapped =
              IF Confirmed(r) THEN @ \cup {entry} ELSE @]
    BY <1>2, <1>8 DEF RouteMatch
  <2>2. Widened(r) \in BOOLEAN
    BY Zenon DEF Widened
  <2>3. /\ next \in Routing /\ next.did = router.did /\ next.mapped = router.mapped
        /\ next.results \in Seq(JudgedMatches(inForce, router.did))
        /\ next.results # <<>> => next.at \in 1 .. Len(Head(next.results).hits)
        /\ next.wide => Widened(r) /\ next.results = router.results
    BY <1>3, <2>2, AdvanceTyped
  <2>4. mapped \subseteq JustifiedEntries(inForce, router.did)
    BY <1>2, <1>3, <1>4, <1>8, EntryJustified
  <2>5. mapped \in SUBSET Entries
    BY <2>4 DEF JustifiedEntries
  <2>6. router' = [next EXCEPT !.mapped = mapped]
    BY <2>1, <2>3
  <2> HIDE DEF next, mapped, entry
  <2>7. /\ router' \in Routing
        /\ router'.did = router.did /\ router'.mapped = mapped
        /\ router'.results = next.results /\ router'.at = next.at
        /\ router'.wide = next.wide
    BY <2>3, <2>5, <2>6 DEF Routing
  <2>8. router'.wide => ForAccount(inForce, router.did, Head(router'.results).path)
    BY <1>2, <1>3, <2>3, <2>7, WidenedForAccount DEF Current
  <2>9. RouterGood'
    BY <1>1, <2>3, <2>4, <2>7, <2>8 DEF RouterGood, Current
  <2>10. SanctionsGood'
    <3>1. toBlock' \subseteq
              {pair \in Dids \X Groups : BlockJustified(inForce, pair[1], pair[2])}
      <4>1. /\ Current.path \in Paths /\ Keyword \in Filters
            /\ inForce[<<router.did, Keyword, Current.path>>] # {}
        BY <1>3, KeywordJudged
      <4>2. <<router.did, Keyword, Current.path>> \in Facts
        BY <1>4, <4>1 DEF Facts
      <4>3. r \in inForce[<<router.did, Keyword, Current.path>>]
        BY <1>2, <1>3, <4>1, <4>2 DEF Places, Tables
      <4>4. BlockJustified(inForce, router.did, r.block)
        BY <1>8, <4>1, <4>3 DEF BlockJustified
      <4>5. r.block \in Groups \cup {NoGroup}
        BY <4>2, <4>3 DEF Places, Tables, Rules
      <4>. QED BY <1>4, <2>1, <4>4, <4>5 DEF Places, SanctionsGood
    <3>. QED BY <1>1, <1>6, <3>1 DEF Places, SanctionsGood
  <2>. QED BY <2>9, <2>10
<1>. QED BY <1>7, <1>8

LEMMA FinishRoutingGood == ASSUME Places, FinishRouting PROVE Places'
<1>1. UNCHANGED inForce /\ Tables'
  BY TablesKept DEF Places, FinishRouting, history
<1>2. /\ router.did \in Dids /\ router.mapped \in SUBSET Entries
      /\ router.mapped \subseteq JustifiedEntries(inForce, router.did)
  BY DEF Places, RouterGood, Routing
<1>3. ReportsGood'
  <2> DEFINE report == [did |-> router.did, entries |-> router.mapped]
  <2>1. report \in JustifiedReports(inForce)
    BY <1>2 DEF JustifiedReports, Report
  <2>2. JustifiedReports(inForce') = JustifiedReports(inForce)
    BY <1>1
  <2>3. reports' = IF router.mapped = {} THEN reports ELSE Append(reports, report)
    BY DEF FinishRouting
  <2>. QED BY <2>1, <2>2, <2>3, AppendProperties DEF Places, ReportsGood
<1>4. RouterGood'
  <2>1. PICK pc \in {"wait", "ended"} : router' = [Quiet EXCEPT !.pc = pc]
    BY DEF FinishRouting
  <2>2. /\ router' \in Routing
        /\ router'.results = <<>> /\ router'.mapped = {}
    BY <2>1, IdleTyped DEF Routing
  <2>. QED BY <2>2, EmptySeq DEF RouterGood
<1>. QED BY <1>1, <1>3, <1>4, OthersKept DEF Places, FinishRouting, history

(***************************************************************************)
(* The report_agent threads.                                               *)
(***************************************************************************)
LEMMA TakeReportGood ==
  ASSUME Places, NEW t \in Reporters, TakeReport(t)
  PROVE  Places'
<1>1. UNCHANGED inForce /\ Tables'
  BY TablesKept DEF Places, TakeReport, history
<1>2. PICK report \in JustifiedReports(inForce) : report = Head(reports)
  BY HeadTailProperties DEF Places, ReportsGood, TakeReport
<1>3. /\ report \in Report
      /\ report.entries \subseteq JustifiedEntries(inForce, report.did)
  BY DEF JustifiedReports
<1>4. ReportsGood'
  <2>1. JustifiedReports(inForce') = JustifiedReports(inForce)
    BY <1>1
  <2>. QED BY <2>1, HeadTailProperties DEF Places, ReportsGood, TakeReport
<1>5. ReportersGood'
  <2>1. reporter' = [reporter EXCEPT ![t] =
            [pc |-> "decide", did |-> report.did, entries |-> report.entries]]
    BY <1>2 DEF TakeReport
  <2>2. reporter' \in [Reporters -> Deciding]
    BY <1>3, <2>1 DEF Places, ReportersGood, Deciding, Report
  <2>3. ASSUME NEW u \in Reporters
        PROVE  (reporter[u].entries \subseteq JustifiedEntries(inForce, reporter[u].did))'
    <3>1. CASE u = t
      <4>1. reporter'[u].did = report.did /\ reporter'[u].entries = report.entries
        BY <2>1, <3>1 DEF Places, ReportersGood
      <4>. QED BY <1>1, <1>3, <4>1
    <3>2. CASE u # t
      <4>1. reporter'[u] = reporter[u]
        BY <2>1, <3>2 DEF Places, ReportersGood
      <4>. QED BY <1>1, <4>1, OthersKept, ReporterKept DEF Places
    <3>. QED BY <3>1, <3>2
  <2>. QED BY <2>2, <2>3 DEF ReportersGood
<1>. QED BY <1>1, <1>4, <1>5, OthersKept DEF Places, TakeReport, history

LEMMA DecideScopeGood ==
  ASSUME Places, NEW t \in Reporters, DecideScope(t)
  PROVE  Places'
<1>1. UNCHANGED inForce /\ Tables'
  BY TablesKept DEF Places, DecideScope
<1>2. PICK did \in Dids : did = reporter[t].did
  BY DEF Places, ReportersGood, Deciding
<1>3. /\ reporter[t].entries \subseteq JustifiedEntries(inForce, did)
      /\ reporter[t].entries \in SUBSET Entries
  BY <1>2 DEF Places, ReportersGood, Deciding
<1>4. PICK path \in {e.path : e \in reporter[t].entries} :
          LET scope == {e \in reporter[t].entries : e.path = path}
              left == reporter[t].entries \ scope IN
          /\ outcomes' = outcomes \cup
                {[kind |-> Decision(did, scope), did |-> did, scope |-> scope]}
          /\ reporter' = [reporter EXCEPT ![t] =
                IF left = {} THEN [Idle EXCEPT !.pc = NextReport]
                             ELSE [@ EXCEPT !.entries = left]]
  BY <1>2 DEF DecideScope
<1> DEFINE scope == {e \in reporter[t].entries : e.path = path}
           left == reporter[t].entries \ scope
<1>5. /\ outcomes' = outcomes \cup
            {[kind |-> Decision(did, scope), did |-> did, scope |-> scope]}
      /\ reporter' = [reporter EXCEPT ![t] =
            IF left = {} THEN [Idle EXCEPT !.pc = NextReport]
                         ELSE [@ EXCEPT !.entries = left]]
  BY <1>4
<1>6. /\ scope \subseteq JustifiedEntries(inForce, did)
      /\ left \subseteq JustifiedEntries(inForce, did)
  BY <1>3
<1>7. scope \subseteq Entries /\ left \in SUBSET Entries
  BY <1>3
<1> HIDE DEF scope, left
<1>8. SanctionsGood'
  <2> DEFINE o == [kind |-> Decision(did, scope), did |-> did, scope |-> scope]
  <2>1. /\ Decision(did, scope) \in {"label", "report", "skip"}
        /\ Decision(did, scope) = "label" => \E e \in scope : e.label
        /\ Decision(did, scope) = "report" => \A e \in scope : ~e.label
    BY DEF Decision
  <2>2. o \in Outcome
    BY <1>7, <2>1 DEF Outcome
  <2>3. DecisionJustified(inForce, o)
    BY <1>6, <2>1 DEF DecisionJustified, JustifiedEntries
  <2>4. outcomes' \subseteq {x \in Outcome : DecisionJustified(inForce, x)}
    BY <1>5, <2>2, <2>3 DEF Places, SanctionsGood
  <2>5. UNCHANGED toBlock
    BY DEF DecideScope
  <2>. QED BY <1>1, <2>4, <2>5 DEF Places, SanctionsGood
<1>9. ReportersGood'
  <2>1. NextReport \in {"wait", "ended"}
    BY DEF NextReport
  <2>2. /\ [Idle EXCEPT !.pc = NextReport] \in Deciding
        /\ [Idle EXCEPT !.pc = NextReport].entries = {}
    BY <2>1, IdleTyped DEF Deciding
  <2>3. /\ [reporter[t] EXCEPT !.entries = left] \in Deciding
        /\ [reporter[t] EXCEPT !.entries = left].did = did
        /\ [reporter[t] EXCEPT !.entries = left].entries = left
    BY <1>2, <1>7 DEF Places, ReportersGood, Deciding
  <2>4. reporter' \in [Reporters -> Deciding]
    BY <1>5, <2>2, <2>3 DEF Places, ReportersGood
  <2>5. ASSUME NEW u \in Reporters
        PROVE  (reporter[u].entries \subseteq JustifiedEntries(inForce, reporter[u].did))'
    <3>1. CASE u = t
      <4>1. CASE left = {}
        <5>1. reporter'[u].entries = {}
          BY <1>5, <2>2, <3>1, <4>1 DEF Places, ReportersGood
        <5>. QED BY <5>1
      <4>2. CASE left # {}
        <5>1. reporter'[u].did = did /\ reporter'[u].entries = left
          BY <1>5, <2>3, <3>1, <4>2 DEF Places, ReportersGood
        <5>. QED BY <1>1, <1>6, <5>1
      <4>. QED BY <4>1, <4>2
    <3>2. CASE u # t
      <4>1. reporter'[u] = reporter[u]
        BY <1>5, <3>2 DEF Places, ReportersGood
      <4>. QED BY <1>1, <4>1, OthersKept, ReporterKept DEF Places
    <3>. QED BY <3>1, <3>2
  <2>. QED BY <2>4, <2>5 DEF ReportersGood
<1>. QED BY <1>1, <1>8, <1>9, OthersKept DEF Places, DecideScope, queues

LEMMA StopSeenGood ==
  ASSUME Places, NEW t \in Reporters, StopSeen(t)
  PROVE  Places'
<1>1. UNCHANGED inForce /\ Tables'
  BY TablesKept DEF Places, StopSeen, history
<1>2. reporter' = [reporter EXCEPT ![t].pc = "ended"]
  BY DEF StopSeen
<1>3. ReportersGood'
  <2>1. reporter' \in [Reporters -> Deciding]
    BY <1>2 DEF Places, ReportersGood, Deciding
  <2>2. ASSUME NEW u \in Reporters
        PROVE  (reporter[u].entries \subseteq JustifiedEntries(inForce, reporter[u].did))'
    <3>1. reporter'[u].did = reporter[u].did
          /\ reporter'[u].entries = reporter[u].entries
      BY <1>2 DEF Places, ReportersGood, Deciding
    <3>. QED BY <1>1, <3>1 DEF Places, ReportersGood
  <2>. QED BY <2>1, <2>2 DEF ReportersGood
<1>. QED BY <1>1, <1>3, OthersKept DEF Places, StopSeen, queues, history

LEMMA QuietGood ==
  ASSUME Places, RuleGone \/ ForceStop \/ Exit \/ UNCHANGED vars
  PROVE  Places'
<1>1. UNCHANGED <<rules, skipped, threads, queues, history, bounds>>
  BY DEF RuleGone, ForceStop, Exit, vars
<1>2. UNCHANGED inForce /\ Tables'
  BY <1>1, TablesKept DEF Places, history
<1>. QED BY <1>1, <1>2, OthersKept DEF Places, threads, queues, history

-----------------------------------------------------------------------------
LEMMA PlacesStep == ASSUME Places, [Next]_vars PROVE Places'
<1>1. CASE RefreshRules \/ RefreshSkipped
  BY <1>1, RefreshRulesGood, RefreshSkippedGood
<1>2. ASSUME NEW p \in Producers,
             TakeMessage(p) \/ MatchPath(p) \/ EnqueueMatches(p)
      PROVE  Places'
  BY <1>2, TakeMessageGood, MatchPathGood, EnqueueMatchesGood
<1>3. CASE TakeMatches \/ RouteMatch \/ FinishRouting
  BY <1>3, TakeMatchesGood, RouteMatchGood, FinishRoutingGood
<1>4. ASSUME NEW t \in Reporters, TakeReport(t) \/ DecideScope(t) \/ StopSeen(t)
      PROVE  Places'
  BY <1>4, TakeReportGood, DecideScopeGood, StopSeenGood
<1>5. CASE RuleGone \/ ForceStop \/ Exit \/ UNCHANGED vars
  BY <1>5, QuietGood
<1>. QED BY Zenon, <1>1, <1>2, <1>3, <1>4, <1>5 DEF Next

\* Only an exit and a rule that is gone take the process down.
LEMMA FlagsStep ==
  ASSUME Flags, [Next]_vars
  PROVE  /\ Flags'
         /\ ~up' => (~up /\ UNCHANGED vars) \/ RuleGone \/ Exit
<1> USE DEF Flags
<1>1. CASE RefreshRules \/ RefreshSkipped
  BY Zenon, <1>1 DEF RefreshRules, RefreshSkipped
<1>2. ASSUME NEW p \in Producers,
             TakeMessage(p) \/ MatchPath(p) \/ EnqueueMatches(p)
      PROVE  Flags' /\ up'
  BY Zenon, <1>2 DEF TakeMessage, MatchPath, EnqueueMatches
<1>3. CASE TakeMatches \/ RouteMatch \/ FinishRouting
  BY Zenon, <1>3 DEF TakeMatches, RouteMatch, FinishRouting
<1>4. ASSUME NEW t \in Reporters, TakeReport(t) \/ DecideScope(t) \/ StopSeen(t)
      PROVE  Flags' /\ up'
  BY Zenon, <1>4 DEF TakeReport, DecideScope, StopSeen
<1>5. CASE ForceStop
  BY Zenon, <1>5 DEF ForceStop
<1>6. CASE RuleGone \/ Exit
  BY Zenon, <1>6 DEF RuleGone, Exit
<1>7. CASE UNCHANGED vars
  BY Zenon, <1>7 DEF vars
<1>. QED BY Zenon, <1>1, <1>2, <1>3, <1>4, <1>5, <1>6, <1>7 DEF Next

LEMMA RouterFailsStep ==
  ASSUME IInv, [Next]_vars
  PROVE  RouterFailsOnlyOnRemovedRule'
<1> SUFFICES ASSUME ~up', active'
             PROVE  /\ (Keyword \notin DOMAIN rules)'
                    /\ (inForce[<<router.did, Keyword, Current.path>>] # {})'
  BY Zenon DEF RouterFailsOnlyOnRemovedRule
<1>1. CASE ~up /\ UNCHANGED vars
  <2>1. active /\ RouterFailsOnlyOnRemovedRule
    BY Zenon, <1>1 DEF IInv, vars
  <2>2. UNCHANGED <<router, rules, inForce>>
    BY <1>1 DEF vars, threads, history
  <2>. QED BY <1>1, <2>1, <2>2 DEF RouterFailsOnlyOnRemovedRule, Keyword, Current
<1>2. CASE RuleGone
  <2>1. /\ Keyword \notin DOMAIN rules
        /\ inForce[<<router.did, Keyword, Current.path>>] # {}
    BY <1>2, KeywordJudged DEF RuleGone, IInv
  <2>2. UNCHANGED <<router, rules, inForce>>
    BY <1>2 DEF RuleGone, threads, history
  <2>. QED BY <2>1, <2>2 DEF Keyword, Current
<1>3. CASE Exit
  BY Zenon, <1>3 DEF Exit
<1>. QED BY Zenon, <1>1, <1>2, <1>3, FlagsStep DEF IInv

THEOREM Inductive == Spec => []IInv
<1>1. Init => IInv
  BY InitGood
<1>2. IInv /\ [Next]_vars => IInv'
  BY Zenon, PlacesStep, FlagsStep, RouterFailsStep DEF IInv
<1>. QED BY <1>1, <1>2, PTL DEF Spec

LEMMA InvariantTyped == ASSUME IInv PROVE TypeOK
<1> USE DEF IInv, Places
<1>1. up \in BOOLEAN /\ active \in BOOLEAN
  BY Zenon DEF Flags
<1>2. /\ rules \in RuleTables /\ skipped \subseteq Dids
      /\ inForce \in [Facts -> SUBSET Rules]
      /\ taken \in 0 .. MaxMessages /\ refreshed \in 0 .. MaxRefreshes
  BY DEF Tables
<1>3. producer \in [Producers -> Producing]
  BY DEF ProducersGood
<1>4. routes \in Seq(Route)
  <2>1. JudgedRoutes(inForce) \subseteq Route
    BY DEF JudgedRoutes
  <2>. QED BY <2>1, SeqMonotonic DEF RoutesGood
<1>5. router \in Routing
  BY DEF RouterGood
<1>6. reports \in Seq(Report)
  <2>1. JustifiedReports(inForce) \subseteq Report
    BY DEF JustifiedReports
  <2>. QED BY <2>1, SeqMonotonic DEF ReportsGood
<1>7. reporter \in [Reporters -> Deciding]
  BY DEF ReportersGood
<1>8. toBlock \subseteq Dids \X Groups /\ outcomes \subseteq Outcome
  BY DEF SanctionsGood
<1>. QED BY Zenon, <1>1, <1>2, <1>3, <1>4, <1>5, <1>6, <1>7, <1>8
         DEF TypeOK, Producing, Route, Routing, Report, Deciding, Outcome

(***************************************************************************)
(* The rules, the skip lists, the queues and the threads keep their type,  *)
(* whatever tables auxiliary_data installs.                                *)
(***************************************************************************)
THEOREM RoutingTypeCorrect == Spec => []TypeOK
BY Inductive, InvariantTyped, PTL

(***************************************************************************)
(* Whatever is reported or labelled goes back to rules that ask for just   *)
(* that, in that scope and for that kind of record, and that were in force *)
(* when the account matched or since; a block goes back to such a rule for *)
(* a match in any kind of record. For any sequence of refreshes and any    *)
(* order of the threads.                                                   *)
(***************************************************************************)
THEOREM SanctionsAreJustified == Spec => []SanctionsJustified
<1>1. IInv => SanctionsJustified
  BY DEF IInv, Places, SanctionsGood, SanctionsJustified
<1>. QED BY <1>1, Inductive, PTL

(***************************************************************************)
(* The router looks a rule up in vain only after a refresh that removed it.*)
(***************************************************************************)
THEOREM RouterFailsOnRemovedRule == Spec => []RouterFailsOnlyOnRemovedRule
<1>1. IInv => RouterFailsOnlyOnRemovedRule
  BY Zenon DEF IInv
<1>. QED BY <1>1, Inductive, PTL

=============================================================================
