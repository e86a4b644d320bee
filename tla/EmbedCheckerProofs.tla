------------------------- MODULE EmbedCheckerProofs -------------------------
(***************************************************************************)
(* Proofs about EmbedChecker, for any threads, posts, sites and            *)
(* redirections, any limit of redirections and any tables of hosts.        *)
(***************************************************************************)
EXTENDS EmbedChecker, SequenceTheorems, TLAPS

Repos == {c.repo : c \in Contents}

Lists == [repo : Repos, embeds : Seq(EmbedInfo)]

Handlers == [repo : Repos \cup {"none"}, root : Urls \cup {NoUrl}, chain : Seq(Urls)]

ThreadState ==
    [pc : Busy \cup {"wait", "ended"}, list : Lists \cup {<<>>}, at : Nat,
     url : Urls \cup {NoUrl}, handler : Handlers]

\* A list is that of a post.
InPost(list) ==
    /\ list.embeds # <<>>
    /\ \E c \in posted : c.repo = list.repo /\ EmbedsOf(c) = list.embeds

\* A busy thread is at an embed of its list, on behalf of who posted it.
AtEmbed(th) ==
    th.pc \in Busy =>
        /\ th.list \in Lists /\ InPost(th.list)
        /\ th.at \in 1 .. Len(th.list.embeds)
        /\ th.handler.repo = th.list.repo

\* A thread that has a URL in hand is at a link.
AtLink(th) ==
    /\ th.pc \in Busy \ {"embed"} =>
          /\ th.url \in Urls
          /\ th.list.embeds[th.at].kind = "link"
    /\ th.pc = "decide" => th.url = th.list.embeds[th.at].key

Way(chain, root) ==
    /\ Len(chain) >= 1 /\ chain[1] = root
    /\ \A i \in 1 .. (Len(chain) - 1) : chain[i + 1] \in Redirections[chain[i]]

Final(chain) == chain[Len(chain)]

\* A thread that follows a link is on a way that starts at it, where all but
\* the last URL have been requested.
OnWay(th) ==
    LET chain == th.handler.chain IN
    /\ th.pc \in {"request", "redirected", "decide_redirect"} =>
          /\ followLinks
          /\ th.handler.root = th.list.embeds[th.at].key
          /\ Way(chain, th.handler.root)
          /\ Len(chain) <= UrlRedirectLimit + 1
    /\ th.pc \in {"request", "decide_redirect"} => th.url = Final(chain)
    /\ th.pc = "redirected" =>
          /\ Len(chain) <= UrlRedirectLimit
          /\ th.url \in Redirections[Final(chain)]
          /\ requests[Final(chain)] > 0
    /\ th.pc = "decide_redirect" =>
          /\ Len(chain) > 1
          /\ requests[chain[Len(chain) - 1]] > 0

ThreadOK(th) == AtEmbed(th) /\ AtLink(th) /\ OnWay(th)

Flags == running \in BOOLEAN /\ followLinks \in BOOLEAN

Counts ==
    /\ popular \in HostTables \cup {InitialHosts}
    /\ contents \in 0 .. MaxContents /\ refreshes \in 0 .. MaxRefreshes
    /\ posted \subseteq Contents

Queue ==
    /\ lists \in Seq(Lists)
    /\ \A i \in 1 .. Len(lists) : InPost(lists[i])

Tables == seen \in [EmbedInfo -> Nat] /\ requests \in [Urls -> Nat]

AllThreads ==
    /\ thread \in [Threads -> ThreadState]
    /\ \A t \in Threads : ThreadOK(thread[t])

\* A URL belongs to the thread that saw it first, until it is requested.
Owns(th, url) ==
    th.url = url /\ th.pc \in {"decide", "request", "decide_redirect"}

Owned ==
    /\ \A url \in Urls : requests[url] <= 1
    /\ \A url \in Urls : requests[url] > 0 => UriSeen(url)
    /\ \A t \in Threads : \A url \in Urls :
          Owns(thread[t], url) => requests[url] = 0 /\ UriSeen(url)
    /\ \A t, s \in Threads : \A url \in Urls :
          Owns(thread[t], url) /\ Owns(thread[s], url) => t = s

Parts ==
    /\ Flags /\ Counts /\ Queue /\ Tables /\ AllThreads /\ Owned
    /\ OnlyTargetsPassedOver /\ MatchesAttributed

-----------------------------------------------------------------------------
\* The invariant is CheckerTypeOK and the three properties, strengthened.
LEMMA PartsSuffice ==
  Parts => /\ CheckerTypeOK /\ FollowedOnce
           /\ OnlyTargetsPassedOver /\ MatchesAttributed
<1>. SUFFICES ASSUME Parts PROVE CheckerTypeOK /\ FollowedOnce
  BY DEF Parts
<1>1. FollowedOnce
  BY DEF Parts, Owned, FollowedOnce
<1>2. \A i \in DOMAIN lists :
         lists[i].embeds \in Seq(EmbedInfo) /\ lists[i].embeds # <<>>
  <2>1. lists \in Seq(Lists) /\ \A i \in 1 .. Len(lists) : lists[i].embeds # <<>>
    BY DEF Parts, Queue, InPost
  <2>2. \A i \in 1 .. Len(lists) : lists[i] \in Lists
    BY <2>1
  <2>. QED BY <2>1, <2>2 DEF Lists
<1>3. ASSUME NEW t \in Threads, thread[t].pc \in Busy
      PROVE  thread[t].at \in DOMAIN thread[t].list.embeds
  <2>1. thread[t].list \in Lists /\ thread[t].at \in 1 .. Len(thread[t].list.embeds)
    BY <1>3 DEF Parts, AllThreads, ThreadOK, AtEmbed
  <2>. QED BY <2>1 DEF Lists
<1>4. ASSUME NEW t \in Threads,
             thread[t].pc \in {"request", "redirected", "decide_redirect"}
      PROVE  /\ followLinks
             /\ thread[t].handler.root = thread[t].list.embeds[thread[t].at].key
             /\ Len(thread[t].handler.chain) \in 1 .. (UrlRedirectLimit + 1)
             /\ thread[t].pc # "redirected" =>
                  thread[t].url = thread[t].handler.chain[Len(thread[t].handler.chain)]
  <2>1. thread[t].handler.chain \in Seq(Urls)
    BY DEF Parts, AllThreads, ThreadState, Handlers
  <2>2. OnWay(thread[t])
    BY DEF Parts, AllThreads, ThreadOK
  <2>. QED BY <1>4, <2>1, <2>2, EmbedAssumption DEF OnWay, Way, Final
<1>5. \A t \in Threads :
         /\ thread[t].pc \in Busy \cup {"wait", "ended"}
         /\ thread[t].pc \in Busy \ {"embed"} => thread[t].url \in Urls
  BY DEF Parts, AllThreads, ThreadOK, ThreadState, AtLink
<1>. QED BY <1>1, <1>2, <1>3, <1>4, <1>5 DEF Parts, Flags, Counts, Tables, CheckerTypeOK

\* What a post embeds is typed.
LEMMA EmbedsTyped ==
  ASSUME NEW kind \in {"image", "video", "record"}, NEW keys \in Seq(Cids)
  PROVE  Embeds(kind, keys) \in Seq(EmbedInfo)
  BY DEF Embeds, EmbedInfo

LEMMA LinksTyped ==
  ASSUME NEW keys \in Seq(Urls)
  PROVE  Embeds("link", keys) \in Seq(EmbedInfo)
  BY DEF Embeds, EmbedInfo

LEMMA PostsTyped ==
  ASSUME NEW c \in Contents
  PROVE  EmbedsOf(c) \in Seq(EmbedInfo)
<1>1. c.media \in Seq(Cids) /\ c.links \in Seq(Urls)
  BY EmbedAssumption
<1>2. Embeds("link", c.links) \in Seq(EmbedInfo)
  BY <1>1, LinksTyped
<1>3. Embeds("image", c.media) \in Seq(EmbedInfo)
      /\ Embeds("video", c.media) \in Seq(EmbedInfo)
  BY <1>1, EmbedsTyped
<1>4. CASE c.embed = "external"
  <2>1. <<c.uri>> \in Seq(Urls)
    BY <1>4, EmbedAssumption
  <2>2. Embeds("link", <<c.uri>>) \in Seq(EmbedInfo)
    BY <2>1, LinksTyped
  <2>3. EmbedsOf(c) = (Embeds("link", <<c.uri>>) \o Embeds("image", c.media))
                         \o Embeds("link", c.links)
    BY <1>4 DEF EmbedsOf
  <2>. QED BY <1>2, <1>3, <2>2, <2>3, ConcatProperties
<1>5. CASE c.embed = "record_with_media"
  <2>1. <<c.uri>> \in Seq(Cids)
    BY <1>5, EmbedAssumption
  <2>2. Embeds("record", <<c.uri>>) \in Seq(EmbedInfo)
    BY <2>1, EmbedsTyped
  <2>3. EmbedsOf(c) = Embeds("record", <<c.uri>>) \o Embeds("link", c.links)
    BY <1>5 DEF EmbedsOf
  <2>. QED BY <1>2, <2>2, <2>3, ConcatProperties
<1>6. CASE c.embed = "images"
  <2>1. EmbedsOf(c) = Embeds("image", c.media) \o Embeds("link", c.links)
    BY <1>6 DEF EmbedsOf
  <2>. QED BY <1>2, <1>3, <2>1, ConcatProperties
<1>7. CASE c.embed = "video"
  <2>1. EmbedsOf(c) = Embeds("video", c.media) \o Embeds("link", c.links)
    BY <1>7 DEF EmbedsOf
  <2>. QED BY <1>2, <1>3, <2>1, ConcatProperties
<1>8. CASE c.embed = "none"
  BY <1>8 DEF EmbedsOf
<1>9. CASE c.embed \notin {"external", "record_with_media", "images", "video", "none"}
  <2>1. EmbedsOf(c) = <<>> \o Embeds("link", c.links)
    BY <1>9 DEF EmbedsOf
  <2>. QED BY <1>2, <2>1, ConcatProperties, EmptySeq
<1>. QED BY <1>4, <1>5, <1>6, <1>7, <1>8, <1>9

-----------------------------------------------------------------------------
\* Initially nothing is queued, and every thread waits.
LEMMA InitParts == InitChecker => Parts
<1>. SUFFICES ASSUME InitChecker PROVE Parts
  OBVIOUS
<1>. USE DEF InitChecker
<1>1. Flags /\ running
  BY Zenon DEF Flags
<1>2. Counts
  BY EmbedAssumption DEF Counts
<1>3. Queue
  BY DEF Queue
<1>4. Tables
  BY DEF Tables
<1>5. AllThreads
  <2>1. Idle \in ThreadState
    BY DEF Idle, NewHandler, ThreadState, Handlers
  <2>2. Idle.pc = "wait"
    BY DEF Idle
  <2>3. thread \in [Threads -> ThreadState] /\ \A t \in Threads : thread[t].pc = "wait"
    BY <2>1, <2>2
  <2>. QED BY <2>3 DEF AllThreads, ThreadOK, AtEmbed, AtLink, OnWay, Busy
<1>6. \A t \in Threads : thread[t].pc = "wait"
  BY DEF Idle
<1>7. Owned
  BY <1>6 DEF Owned, Owns
<1>8. \A url \in WellFormed : ~UriSeen(url)
  BY EmbedAssumption DEF UriSeen, Link, EmbedInfo
<1>9. OnlyTargetsPassedOver
  BY <1>8 DEF OnlyTargetsPassedOver
<1>10. MatchesAttributed
  BY DEF MatchesAttributed
<1>. QED BY <1>1, <1>2, <1>3, <1>4, <1>5, <1>7, <1>9, <1>10 DEF Parts

-----------------------------------------------------------------------------
(***************************************************************************)
(* What all the steps have in common: posts and requests are never taken   *)
(* back, and at most one thread moves.                                     *)
(***************************************************************************)
Onwards ==
    /\ followLinks' = followLinks /\ posted \subseteq posted'
    /\ requests' \in [Urls -> Nat]
    /\ \A url \in Urls : requests'[url] >= requests[url]

Moves(t) ==
    /\ thread' = [s \in Threads |-> thread'[s]]
    /\ \A s \in Threads \ {t} : thread'[s] = thread[s]

LEMMA BecomeMoves ==
  ASSUME AllThreads, NEW t \in Threads, NEW next, Become(t, next)
  PROVE  Moves(t) /\ thread'[t] = next
  BY DEF AllThreads, Become, Moves

LEMMA Unrequested ==
  ASSUME Tables, requests' = requests, followLinks' = followLinks, posted' = posted
  PROVE  Onwards
  BY DEF Tables, Onwards

\* A thread that does not move stays as it should be.
LEMMA OthersKept ==
  ASSUME AllThreads, Tables, Onwards, NEW s \in Threads, thread'[s] = thread[s]
  PROVE  ThreadOK(thread[s])'
<1>1. ThreadOK(thread[s]) /\ thread[s] \in ThreadState
  BY DEF AllThreads
<1>2. AtEmbed(thread[s])'
  BY <1>1 DEF ThreadOK, AtEmbed, InPost, Onwards
<1>3. AtLink(thread[s])'
  BY <1>1 DEF ThreadOK, AtLink
<1>4. OnWay(thread[s])'
  <2>. DEFINE chain == thread[s].handler.chain
  <2>1. chain \in Seq(Urls)
    BY <1>1 DEF ThreadState, Handlers
  <2>2. \A i \in 1 .. Len(chain) : requests[chain[i]] > 0 => requests'[chain[i]] > 0
    BY SMTT(30), <2>1 DEF Onwards, Tables
  <2>3. ASSUME thread[s].pc \in {"request", "redirected", "decide_redirect"}
        PROVE  Len(chain) >= 1 /\ Len(chain) \in 1 .. Len(chain)
    BY <2>1, <2>3, <1>1 DEF ThreadOK, OnWay, Way
  <2>4. ASSUME thread[s].pc = "redirected" PROVE requests'[Final(chain)] > 0
    BY <2>2, <2>3, <2>4, <1>1 DEF ThreadOK, OnWay, Final
  <2>5. ASSUME thread[s].pc = "decide_redirect"
        PROVE  requests'[chain[Len(chain) - 1]] > 0
    <3>1. Len(chain) > 1 /\ requests[chain[Len(chain) - 1]] > 0
      BY <2>5, <1>1 DEF ThreadOK, OnWay
    <3>2. Len(chain) \in Nat
      BY <2>1, LenProperties
    <3>. HIDE DEF chain
    <3>3. Len(chain) - 1 \in 1 .. Len(chain)
      BY <3>1, <3>2
    <3>. QED BY <2>2, <3>1, <3>3
  <2>6. OnWay(thread[s]) /\ followLinks' = followLinks
    BY <1>1 DEF ThreadOK, Onwards
  <2>. HIDE DEF chain
  <2>7. chain = thread[s].handler.chain
    BY DEF chain
  <2>. QED BY <2>4, <2>5, <2>6, <2>7 DEF OnWay
<1>. QED BY <1>2, <1>3, <1>4 DEF ThreadOK

LEMMA ThreadsKept ==
  ASSUME AllThreads, Tables, Onwards, NEW t \in Threads, Moves(t),
         thread'[t] \in ThreadState, ThreadOK(thread[t])'
  PROVE  AllThreads'
<1>1. \A s \in Threads \ {t} : ThreadOK(thread[s])'
  BY OthersKept DEF Moves
<1>2. \A s \in Threads : ThreadOK(thread[s])'
  BY <1>1
<1>3. thread' \in [Threads -> ThreadState]
  <2>1. \A s \in Threads : thread'[s] \in ThreadState
    BY DEF AllThreads, Moves
  <2>2. thread' = [s \in Threads |-> thread'[s]]
    BY DEF Moves
  <2>. QED BY <2>1, <2>2
<1>. QED BY <1>2, <1>3 DEF AllThreads

-----------------------------------------------------------------------------
(***************************************************************************)
(* The next embed, or the end of the list.                                 *)
(***************************************************************************)
LEMMA AdvanceKept ==
  ASSUME AllThreads, Tables, Flags, Onwards, posted' = posted,
         NEW t \in Threads, thread[t].pc \in Busy, Moves(t),
         thread'[t] = NextEmbed(thread[t])
  PROVE  AllThreads' /\ thread'[t].pc \in {"embed", "wait", "ended"}
<1>. DEFINE th == thread[t]
<1>1. th \in ThreadState /\ AtEmbed(th) /\ th.pc \in Busy
  BY DEF AllThreads, ThreadOK
<1>2. th.list \in Lists /\ InPost(th.list) /\ th.at \in 1 .. Len(th.list.embeds)
  BY <1>1 DEF AtEmbed
<1>3. th.list.embeds \in Seq(EmbedInfo) /\ th.list.repo \in Repos
  BY <1>2 DEF Lists
<1>4. CASE th.at < Len(th.list.embeds)
  <2>. DEFINE next == [th EXCEPT !.pc = "embed", !.at = th.at + 1, !.url = NoUrl,
                                 !.handler = NewHandler(th.list.repo)]
  <2>1. thread'[t] = next
    BY <1>4 DEF NextEmbed, HandlerFor
  <2>2. NewHandler(th.list.repo) \in Handlers
    BY <1>3 DEF NewHandler, Handlers
  <2>3. /\ next \in ThreadState /\ next.pc = "embed" /\ next.at = th.at + 1
        /\ next.list = th.list /\ next.handler = NewHandler(th.list.repo)
    <3>1. th.at + 1 \in Nat /\ "embed" \in Busy /\ th \in ThreadState
      BY <1>1 DEF ThreadState, Busy
    <3>. HIDE DEF th
    <3>. QED BY <2>2, <3>1 DEF ThreadState
  <2>4. next.at \in 1 .. Len(th.list.embeds)
    BY <1>2, <1>3, <1>4, <2>3
  <2>. HIDE DEF next
  <2>5. AtEmbed(thread[t])'
    BY <1>2, <2>1, <2>3, <2>4 DEF AtEmbed, InPost, NewHandler
  <2>6. AtLink(thread[t])' /\ OnWay(thread[t])'
    BY <2>1, <2>3 DEF AtLink, OnWay
  <2>. QED BY <2>1, <2>3, <2>5, <2>6, ThreadsKept DEF ThreadOK
<1>5. CASE ~(th.at < Len(th.list.embeds))
  <2>. DEFINE next == [th EXCEPT !.pc = IF running THEN "wait" ELSE "ended",
                                 !.list = <<>>, !.at = 0, !.url = NoUrl]
  <2>1. thread'[t] = next
    BY <1>5 DEF NextEmbed
  <2>2. next \in ThreadState /\ next.pc \in {"wait", "ended"}
    BY <1>1 DEF ThreadState
  <2>. HIDE DEF next
  <2>3. AtEmbed(thread[t])' /\ AtLink(thread[t])' /\ OnWay(thread[t])'
    BY <2>1, <2>2 DEF AtEmbed, AtLink, OnWay, Busy
  <2>. QED BY <2>1, <2>2, <2>3, ThreadsKept DEF ThreadOK
<1>. QED BY <1>4, <1>5

-----------------------------------------------------------------------------
(***************************************************************************)
(* Who owns a URL.                                                         *)
(***************************************************************************)
SeenOnwards == \A url \in Urls : UriSeen(url) => UriSeen(url)'

LEMMA SightOnwards ==
  ASSUME Tables, NEW embed \in EmbedInfo, Sight(embed)
  PROVE  seen' \in [EmbedInfo -> Nat] /\ SeenOnwards
BY DEF Tables, Sight, SeenOnwards, UriSeen, Link, EmbedInfo

LEMMA LinkSight ==
  ASSUME Tables, NEW url \in Urls, Sight(Link(url))
  PROVE  /\ seen' \in [EmbedInfo -> Nat] /\ SeenOnwards /\ UriSeen(url)'
         /\ \A other \in Urls \ {url} : UriSeen(other)' = UriSeen(other)
<1>1. Link(url) \in EmbedInfo
  BY DEF Link, EmbedInfo
<1>2. seen' \in [EmbedInfo -> Nat] /\ SeenOnwards
  BY <1>1, SightOnwards
<1>3. UriSeen(url)'
  BY <1>1 DEF Tables, Sight, UriSeen
<1>4. \A other \in Urls \ {url} : UriSeen(other)' = UriSeen(other)
  BY DEF Tables, Sight, UriSeen, Link
<1>. QED BY <1>2, <1>3, <1>4

\* A step that enters no URL into anybody's hands.
LEMMA NobodyAcquires ==
  ASSUME Owned, SeenOnwards, requests' = requests, NEW t \in Threads, Moves(t),
         \A url \in Urls : Owns(thread[t], url)' => Owns(thread[t], url)
  PROVE  Owned'
<1>1. \A s \in Threads : \A url \in Urls :
         Owns(thread[s], url)' => Owns(thread[s], url)
  BY DEF Moves, Owns
<1>. QED BY <1>1 DEF Owned, SeenOnwards

LEMMA FirstAcquires ==
  ASSUME Owned, Tables, SeenOnwards, requests' = requests, NEW t \in Threads, Moves(t),
         NEW url \in Urls, ~UriSeen(url), UriSeen(url)', thread'[t].url = url
  PROVE  Owned'
<1>1. requests[url] = 0 /\ \A s \in Threads : ~Owns(thread[s], url)
  BY DEF Owned, Tables
<1>2. \A s \in Threads \ {t} : \A other \in Urls :
         Owns(thread[s], other)' => Owns(thread[s], other) /\ other # url
  BY <1>1 DEF Moves, Owns
<1>3. \A other \in Urls : Owns(thread[t], other)' => other = url
  BY DEF Owns
<1>4. \A other \in Urls : requests'[other] <= 1
      /\ (requests'[other] > 0 => UriSeen(other)')
  BY DEF Owned, SeenOnwards
<1>5. \A s \in Threads : \A other \in Urls :
         Owns(thread[s], other)' => requests'[other] = 0 /\ UriSeen(other)'
  BY <1>1, <1>2, <1>3 DEF Owned, SeenOnwards
<1>6. \A r, s \in Threads : \A other \in Urls :
         Owns(thread[r], other)' /\ Owns(thread[s], other)' => r = s
  BY <1>2, <1>3 DEF Owned
<1>. QED BY <1>4, <1>5, <1>6 DEF Owned

LEMMA RequestReleases ==
  ASSUME Owned, Tables, NEW t \in Threads, Moves(t), Is(t, "request"),
         thread[t].url \in Urls, Request(t), seen' = seen,
         \A url \in Urls : ~Owns(thread[t], url)'
  PROVE  /\ Owned' /\ requests' \in [Urls -> Nat]
         /\ requests'[thread[t].url] = 1
         /\ \A url \in Urls : requests'[url] >= requests[url]
<1>. DEFINE url == thread[t].url
<1>1. Owns(thread[t], url)
  BY DEF Owns, Is
<1>2. requests[url] = 0 /\ UriSeen(url)
  BY <1>1 DEF Owned
<1>3. /\ requests' \in [Urls -> Nat] /\ requests'[url] = 1
      /\ \A other \in Urls \ {url} : requests'[other] = requests[other]
  BY <1>2 DEF Tables, Request
<1>4. \A other \in Urls : UriSeen(other)' = UriSeen(other)
  BY DEF UriSeen
<1>5. \A s \in Threads : \A other \in Urls :
         Owns(thread[s], other)' => /\ Owns(thread[s], other)
                                    /\ s # t /\ other # url
  <2>1. ASSUME NEW s \in Threads, NEW other \in Urls, Owns(thread[s], other)'
        PROVE  s # t /\ Owns(thread[s], other)
    BY <2>1 DEF Moves, Owns
  <2>2. \A s \in Threads : Owns(thread[s], url) => s = t
    BY <1>1 DEF Owned
  <2>. QED BY <2>1, <2>2
<1>. HIDE DEF url
<1>6. url = thread[t].url /\ url \in Urls
  BY DEF url
<1>7. \A other \in Urls :
         /\ requests'[other] <= 1 /\ requests'[other] >= requests[other]
         /\ requests'[other] > 0 => UriSeen(other)'
  <2>. TAKE other \in Urls
  <2>1. CASE other = url
    BY <1>2, <1>3, <1>4, <2>1
  <2>2. CASE other # url
    BY <1>3, <1>4, <2>2 DEF Owned, Tables
  <2>. QED BY <2>1, <2>2
<1>8. \A s \in Threads : \A other \in Urls :
         Owns(thread[s], other)' => requests'[other] = 0 /\ UriSeen(other)'
  BY <1>3, <1>4, <1>5 DEF Owned
<1>9. \A r, s \in Threads : \A other \in Urls :
         Owns(thread[r], other)' /\ Owns(thread[s], other)' => r = s
  BY <1>5 DEF Owned
<1>. QED BY <1>3, <1>6, <1>7, <1>8, <1>9 DEF Owned

-----------------------------------------------------------------------------
(***************************************************************************)
(* Which links are passed over.                                            *)
(***************************************************************************)
Targeted(url) == \E from \in Urls : requests[from] > 0 /\ url \in Redirections[from]

LEMMA NothingPassedOver ==
  ASSUME OnlyTargetsPassedOver, Tables, Onwards,
         \A url \in WellFormed :
            UriSeen(url)' => UriSeen(url) \/ AboutToBeRequested(url)',
         \A url \in WellFormed :
            followLinks /\ NeverPopular(url) /\ AboutToBeRequested(url) =>
               AboutToBeRequested(url)' \/ requests'[url] > 0 \/ Targeted(url)
  PROVE  OnlyTargetsPassedOver'
<1>1. \A url \in Urls : requests[url] > 0 => requests'[url] > 0
  BY DEF Onwards, Tables
<1>2. \A url \in WellFormed : requests[url] > 0 => requests'[url] > 0
  BY <1>1, EmbedAssumption
<1>3. \A url : Targeted(url) => Targeted(url)'
  BY <1>1 DEF Targeted
<1>4. \A url : NeverPopular(url)' = NeverPopular(url)
  BY DEF NeverPopular
<1>. QED BY <1>2, <1>3, <1>4 DEF OnlyTargetsPassedOver, Targeted, Onwards

\* The hands of the other threads hold what they held.
LEMMA StillInHand ==
  ASSUME NEW t \in Threads, Moves(t), NEW url, AboutToBeRequested(url),
         ~Owns(thread[t], url)
  PROVE  AboutToBeRequested(url)'
BY DEF AboutToBeRequested, Owns, Moves

LEMMA InHand ==
  ASSUME NEW t \in Threads, NEW url, Owns(thread[t], url)'
  PROVE  AboutToBeRequested(url)'
BY DEF AboutToBeRequested, Owns

-----------------------------------------------------------------------------
(***************************************************************************)
(* What a step leaves alone.                                               *)
(***************************************************************************)
LEMMA QueueKept ==
  ASSUME Queue, lists' = lists, posted \subseteq posted'
  PROVE  Queue'
<1>1. \A i \in 1 .. Len(lists) : InPost(lists[i])'
  BY DEF Queue, InPost
<1>. QED BY <1>1 DEF Queue, InPost

LEMMA MatchesKept ==
  ASSUME MatchesAttributed, matches' = matches, posted \subseteq posted'
  PROVE  MatchesAttributed'
BY DEF MatchesAttributed

\* A step in which no thread moves, and no table changes.
LEMMA ThreadsRest ==
  ASSUME Parts, thread' = thread, seen' = seen, requests' = requests,
         followLinks' = followLinks, matches' = matches, posted \subseteq posted'
  PROVE  Tables' /\ AllThreads' /\ Owned' /\ OnlyTargetsPassedOver' /\ MatchesAttributed'
<1>1. Tables /\ AllThreads /\ Owned /\ OnlyTargetsPassedOver /\ MatchesAttributed
  BY DEF Parts
<1>2. Onwards
  BY <1>1 DEF Onwards, Tables
<1>3. AllThreads'
  BY <1>1, <1>2, OthersKept DEF AllThreads
<1>4. \A url : UriSeen(url)' = UriSeen(url)
  BY DEF UriSeen
<1>5. \A url : AboutToBeRequested(url)' = AboutToBeRequested(url)
  BY DEF AboutToBeRequested
<1>6. OnlyTargetsPassedOver'
  BY <1>1, <1>2, <1>4, <1>5, NothingPassedOver
<1>7. Owned'
  BY <1>1, <1>4 DEF Owned, Owns
<1>. QED BY <1>1, <1>3, <1>6, <1>7, MatchesKept DEF Tables

LEMMA HandleContentKeeps ==
  ASSUME Parts, NEW c \in Contents, HandleContent(c)
  PROVE  Parts'
<1>. USE DEF HandleContent
<1>1. posted \subseteq posted' /\ c \in posted'
  OBVIOUS
<1>2. Flags'
  BY Zenon DEF Parts, Flags
<1>3. Counts'
  BY EmbedAssumption DEF Parts, Counts, counts, tables
<1>4. Tables' /\ AllThreads' /\ Owned' /\ OnlyTargetsPassedOver' /\ MatchesAttributed'
  BY <1>1, ThreadsRest DEF tables
<1>5. Queue'
  <2>1. CASE EmbedsOf(c) = <<>>
    BY <1>1, <2>1, QueueKept DEF Parts
  <2>2. CASE EmbedsOf(c) # <<>>
    <3>. DEFINE list == [repo |-> c.repo, embeds |-> EmbedsOf(c)]
    <3>1. list \in Lists
      BY PostsTyped DEF Lists, Repos
    <3>2. lists' = Append(lists, list) /\ lists \in Seq(Lists)
      BY <2>2 DEF Parts, Queue
    <3>3. InPost(list)'
      BY <1>1, <2>2 DEF InPost
    <3>. HIDE DEF list
    <3>4. /\ lists' \in Seq(Lists) /\ Len(lists') = Len(lists) + 1
          /\ \A i \in 1 .. Len(lists) : lists'[i] = lists[i]
          /\ lists'[Len(lists) + 1] = list
      BY <3>1, <3>2, AppendProperties
    <3>5. \A l : InPost(l) => InPost(l)'
      BY <1>1 DEF InPost
    <3>6. \A i \in 1 .. Len(lists) : InPost(lists'[i])
      BY <3>4 DEF Parts, Queue
    <3>8. \A i \in 1 .. Len(lists') : i \in 1 .. Len(lists) \/ i = Len(lists) + 1
      <4>1. Len(lists) \in Nat
        BY <3>2, LenProperties
      <4>. QED BY <3>4, <4>1
    <3>9. \A i \in 1 .. Len(lists') : InPost(lists[i])'
      <4>. TAKE i \in 1 .. Len(lists')
      <4>1. CASE i \in 1 .. Len(lists)
        BY <3>5, <3>6, <4>1
      <4>2. CASE i = Len(lists) + 1
        BY <3>3, <3>4, <4>2
      <4>. QED BY <3>8, <4>1, <4>2
    <3>. QED BY <3>4, <3>9 DEF Queue
  <2>. QED BY <2>1, <2>2
<1>. QED BY <1>2, <1>3, <1>4, <1>5 DEF Parts

LEMMA RefreshHostsKeeps ==
  ASSUME Parts, NEW hosts \in HostTables, RefreshHosts(hosts)
  PROVE  Parts'
<1>. USE DEF RefreshHosts
<1>1. Flags'
  BY Zenon DEF Parts, Flags
<1>2. Counts'
  BY EmbedAssumption DEF Parts, Counts
<1>3. Tables' /\ AllThreads' /\ Owned' /\ OnlyTargetsPassedOver' /\ MatchesAttributed'
  BY ThreadsRest
<1>4. Queue'
  BY QueueKept DEF Parts
<1>. QED BY <1>1, <1>2, <1>3, <1>4 DEF Parts

LEMMA ForceStopKeeps ==
  ASSUME Parts, StopChecker
  PROVE  Parts'
<1>. USE DEF StopChecker
<1>1. Flags'
  BY Zenon DEF Parts, Flags
<1>2. Counts'
  BY DEF Parts, Counts, counts, tables
<1>3. Tables' /\ AllThreads' /\ Owned' /\ OnlyTargetsPassedOver' /\ MatchesAttributed'
  BY ThreadsRest DEF tables
<1>4. Queue'
  BY QueueKept DEF Parts
<1>. QED BY <1>1, <1>2, <1>3, <1>4 DEF Parts

-----------------------------------------------------------------------------
(***************************************************************************)
(* The steps of a thread.                                                  *)
(***************************************************************************)
LEMMA ThreadStepSuffices ==
  ASSUME Parts, UNCHANGED <<running, followLinks, posted, counts, popular>>,
         Queue', Tables', AllThreads', Owned', OnlyTargetsPassedOver', MatchesAttributed'
  PROVE  Parts'
<1>1. Flags'
  BY Zenon DEF Parts, Flags
<1>2. Counts'
  BY DEF Parts, Counts, counts
<1>. QED BY <1>1, <1>2 DEF Parts

LEMMA TakeListKeeps ==
  ASSUME Parts, NEW t \in Threads, TakeList(t)
  PROVE  Parts'
<1>. USE DEF TakeList
<1>. DEFINE next == [thread[t] EXCEPT !.pc = "embed", !.list = Head(lists), !.at = 1,
                                      !.handler = NewHandler(Head(lists).repo)]
<1>1. /\ Flags /\ Queue /\ Tables /\ AllThreads /\ Owned
      /\ OnlyTargetsPassedOver /\ MatchesAttributed
  BY DEF Parts
<1>2. Become(t, next)
  BY DEF HandlerFor
<1>3. /\ lists \in Seq(Lists) /\ lists # <<>> /\ Head(lists) \in Lists
      /\ Tail(lists) \in Seq(Lists)
  BY <1>1, HeadTailProperties DEF Queue
<1>4. /\ Head(lists) = lists[1] /\ Len(lists) \in Nat /\ Len(lists) > 0
      /\ Len(Tail(lists)) = Len(lists) - 1
      /\ \A i \in 1 .. Len(Tail(lists)) : Tail(lists)[i] = lists[i + 1]
  BY <1>3, HeadTailProperties, LenProperties, EmptySeq
<1>5. InPost(Head(lists))
  BY <1>1, <1>4 DEF Queue
<1>6. /\ next \in ThreadState /\ next.pc = "embed" /\ next.at = 1
      /\ next.list = Head(lists) /\ next.handler = NewHandler(Head(lists).repo)
      /\ next.handler.repo = Head(lists).repo
  <2>1. NewHandler(Head(lists).repo) \in Handlers
    BY <1>3 DEF NewHandler, Handlers, Lists
  <2>2. "embed" \in Busy /\ thread[t] \in ThreadState
    BY <1>1 DEF Busy, AllThreads
  <2>. QED BY <1>3, <2>1, <2>2 DEF ThreadState, NewHandler
<1>7. 1 \in 1 .. Len(Head(lists).embeds)
  <2>1. Head(lists).embeds \in Seq(EmbedInfo) /\ Head(lists).embeds # <<>>
    BY <1>3, <1>5 DEF Lists, InPost
  <2>. QED BY <2>1, LenProperties, EmptySeq
<1>. HIDE DEF next
<1>8. Moves(t) /\ thread'[t] = next
  BY <1>1, <1>2, BecomeMoves
<1>9. Onwards
  BY <1>1, Unrequested
<1>10. AllThreads'
  <2>1. AtEmbed(thread[t])'
    BY <1>3, <1>5, <1>6, <1>7, <1>8 DEF AtEmbed, InPost
  <2>2. AtLink(thread[t])' /\ OnWay(thread[t])'
    BY <1>6, <1>8 DEF AtLink, OnWay
  <2>. QED BY <1>1, <1>6, <1>8, <1>9, <2>1, <2>2, ThreadsKept DEF ThreadOK
<1>11. Owned'
  <2>1. \A url \in Urls : ~Owns(thread[t], url)'
    BY <1>6, <1>8 DEF Owns
  <2>2. SeenOnwards
    BY DEF SeenOnwards, UriSeen, tables
  <2>. QED BY <1>1, <1>8, <2>1, <2>2, NobodyAcquires
<1>12. OnlyTargetsPassedOver'
  <2>1. \A url : ~Owns(thread[t], url)
    BY DEF Owns, Is
  <2>2. \A url : AboutToBeRequested(url) => AboutToBeRequested(url)'
    BY <1>8, <2>1, StillInHand
  <2>3. \A url : UriSeen(url)' = UriSeen(url)
    BY DEF UriSeen, tables
  <2>. QED BY <1>1, <1>9, <2>2, <2>3, NothingPassedOver
<1>13. Queue'
  <2>1. \A i \in 1 .. Len(Tail(lists)) : i + 1 \in 1 .. Len(lists)
    BY <1>4
  <2>2. \A i \in 1 .. Len(Tail(lists)) : InPost(Tail(lists)[i])
    BY <1>1, <1>4, <2>1 DEF Queue
  <2>. QED BY <1>3, <2>2 DEF Queue, InPost
<1>. QED BY <1>1, <1>10, <1>11, <1>12, <1>13, MatchesKept, ThreadStepSuffices
         DEF Tables, tables, Parts

\* A thread that is at an embed, and what it is counted by.
LEMMA AtAnEmbed ==
  ASSUME AllThreads, NEW t \in Threads, thread[t].pc \in Busy
  PROVE  LET embed == thread[t].list.embeds[thread[t].at] IN
         embed \in EmbedInfo
         /\ (embed.kind = "link" => embed.key \in Urls /\ embed = Link(embed.key))
<1>1. /\ thread[t].list.embeds \in Seq(EmbedInfo)
      /\ thread[t].at \in 1 .. Len(thread[t].list.embeds)
  BY DEF AllThreads, ThreadOK, AtEmbed, Lists
<1>2. thread[t].list.embeds[thread[t].at] \in EmbedInfo
  BY <1>1
<1>. QED BY <1>2 DEF EmbedInfo, Link

LEMMA SeenMediaKeeps ==
  ASSUME Parts, NEW t \in Threads, SeenMedia(t)
  PROVE  Parts'
<1>. USE DEF SeenMedia
<1>1. /\ Flags /\ Queue /\ Tables /\ AllThreads /\ Owned
      /\ OnlyTargetsPassedOver /\ MatchesAttributed
  BY DEF Parts
<1>. DEFINE embed == thread[t].list.embeds[thread[t].at]
<1>2. thread[t].pc = "embed" /\ thread[t].pc \in Busy
  BY DEF Is, Busy
<1>3. embed \in EmbedInfo /\ embed.kind # "link" /\ Sight(embed)
  BY <1>1, <1>2, AtAnEmbed
<1>. HIDE DEF embed
<1>4. seen' \in [EmbedInfo -> Nat] /\ SeenOnwards
  BY <1>1, <1>3, SightOnwards
<1>5. \A url \in Urls : UriSeen(url)' = UriSeen(url)
  BY <1>1, <1>3 DEF Tables, Sight, UriSeen, Link
<1>6. Moves(t) /\ thread'[t] = NextEmbed(thread[t])
  BY <1>1, BecomeMoves
<1>7. Onwards
  BY <1>1, Unrequested
<1>8. AllThreads' /\ thread'[t].pc \in {"embed", "wait", "ended"}
  BY <1>1, <1>2, <1>6, <1>7, AdvanceKept
<1>9. Owned'
  <2>1. \A url \in Urls : ~Owns(thread[t], url)'
    BY <1>8 DEF Owns
  <2>. QED BY <1>1, <1>4, <1>6, <2>1, NobodyAcquires
<1>10. OnlyTargetsPassedOver'
  <2>1. \A url : AboutToBeRequested(url) => AboutToBeRequested(url)'
    BY <1>2, <1>6, StillInHand DEF Owns
  <2>. QED BY <1>1, <1>5, <1>7, <2>1, NothingPassedOver, EmbedAssumption
<1>11. Queue' /\ MatchesAttributed'
  BY <1>1, QueueKept, MatchesKept
<1>. QED BY <1>1, <1>4, <1>8, <1>9, <1>10, <1>11, ThreadStepSuffices DEF Tables

LEMMA SeenLinkKeeps ==
  ASSUME Parts, NEW t \in Threads, SeenLink(t)
  PROVE  Parts'
<1>. USE DEF SeenLink
<1>1. /\ Flags /\ Queue /\ Tables /\ AllThreads /\ Owned
      /\ OnlyTargetsPassedOver /\ MatchesAttributed
  BY DEF Parts
<1>. DEFINE embed == thread[t].list.embeds[thread[t].at]
<1>2. thread[t].pc = "embed" /\ thread[t].pc \in Busy
  BY DEF Is, Busy
<1>3. PICK url \in Urls : /\ url = embed.key /\ embed = Link(url)
                          /\ embed.kind = "link" /\ Sight(Link(url))
  BY <1>1, <1>2, AtAnEmbed
<1>4. Become(t, IF UriSeen(url) THEN NextEmbed(thread[t])
                ELSE [thread[t] EXCEPT !.pc = "decide", !.url = url])
  BY <1>3
<1>5. embed = thread[t].list.embeds[thread[t].at]
  OBVIOUS
<1>. HIDE DEF embed
<1>7. /\ seen' \in [EmbedInfo -> Nat] /\ SeenOnwards /\ UriSeen(url)'
      /\ \A other \in Urls \ {url} : UriSeen(other)' = UriSeen(other)
  BY <1>1, <1>3, LinkSight
<1>8. Onwards
  BY <1>1, Unrequested
<1>9. \A other : ~Owns(thread[t], other)
  BY <1>2 DEF Owns
<1>10. Queue' /\ MatchesAttributed' /\ Tables'
  BY <1>1, <1>7, QueueKept, MatchesKept DEF Tables
<1>11. Moves(t)
  BY <1>1, <1>4, BecomeMoves
<1>12. \A other : AboutToBeRequested(other) => AboutToBeRequested(other)'
  BY <1>9, <1>11, StillInHand
<1>13. CASE UriSeen(url)
  <2>1. thread'[t] = NextEmbed(thread[t])
    BY <1>1, <1>4, <1>13, BecomeMoves
  <2>2. AllThreads' /\ thread'[t].pc \in {"embed", "wait", "ended"}
    BY <1>1, <1>2, <1>8, <1>11, <2>1, AdvanceKept
  <2>3. \A other \in Urls : ~Owns(thread[t], other)'
    BY <2>2 DEF Owns
  <2>4. Owned'
    BY <1>1, <1>7, <1>11, <2>3, NobodyAcquires
  <2>5. OnlyTargetsPassedOver'
    <3>1. \A other \in WellFormed : UriSeen(other)' => UriSeen(other)
      BY <1>7, <1>13, EmbedAssumption
    <3>. QED BY <1>1, <1>8, <1>12, <3>1, NothingPassedOver
  <2>. QED BY <1>1, <1>10, <2>2, <2>4, <2>5, ThreadStepSuffices
<1>14. CASE ~UriSeen(url)
  <2>. DEFINE next == [thread[t] EXCEPT !.pc = "decide", !.url = url]
  <2>1. thread'[t] = next
    BY <1>1, <1>4, <1>14, BecomeMoves
  <2>2. /\ next \in ThreadState /\ next.pc = "decide" /\ next.url = url
        /\ next.list = thread[t].list /\ next.at = thread[t].at
        /\ next.handler = thread[t].handler
    BY <1>1, <1>3 DEF AllThreads, ThreadState, Busy
  <2>. HIDE DEF next
  <2>3. AllThreads'
    <3>1. AtEmbed(thread[t])'
      BY <1>1, <1>2, <2>1, <2>2 DEF AllThreads, ThreadOK, AtEmbed, InPost
    <3>2. AtLink(thread[t])'
      BY <1>3, <1>5, <2>1, <2>2 DEF AtLink
    <3>3. OnWay(thread[t])'
      BY <2>1, <2>2 DEF OnWay
    <3>. QED BY <1>1, <1>8, <1>11, <2>1, <2>2, <3>1, <3>2, <3>3, ThreadsKept DEF ThreadOK
  <2>4. Owned'
    BY <1>1, <1>3, <1>7, <1>11, <1>14, <2>1, <2>2, FirstAcquires
  <2>5. OnlyTargetsPassedOver'
    <3>1. Owns(thread[t], url)'
      BY <2>1, <2>2 DEF Owns
    <3>2. \A other \in WellFormed :
             UriSeen(other)' => UriSeen(other) \/ AboutToBeRequested(other)'
      BY <1>7, <3>1, InHand, EmbedAssumption
    <3>. QED BY <1>1, <1>8, <1>12, <3>2, NothingPassedOver
  <2>. QED BY <1>1, <1>10, <2>3, <2>4, <2>5, ThreadStepSuffices
<1>. QED BY <1>13, <1>14

LEMMA WayBegins ==
  ASSUME NEW url \in Urls, NEW chain, chain = <<url>>
  PROVE  Len(chain) = 1 /\ Final(chain) = url /\ Way(chain, url)
<1>1. Len(chain) = 1 /\ chain[1] = url
  OBVIOUS
<1>2. 1 .. (Len(chain) - 1) = {}
  BY <1>1
<1>. QED BY <1>1, <1>2 DEF Final, Way

LEMMA DecideLinkKeeps ==
  ASSUME Parts, NEW t \in Threads, DecideLink(t)
  PROVE  Parts'
<1>. USE DEF DecideLink
<1>1. /\ Flags /\ Queue /\ Tables /\ AllThreads /\ Owned
      /\ OnlyTargetsPassedOver /\ MatchesAttributed
  BY DEF Parts
<1>2. thread[t].pc = "decide" /\ thread[t].pc \in Busy
  BY DEF Is, Busy
<1>3. PICK url \in Urls :
         /\ url = thread[t].url /\ thread[t] \in ThreadState
         /\ url = thread[t].list.embeds[thread[t].at].key
         /\ thread[t].list.embeds[thread[t].at].kind = "link"
  BY <1>1, <1>2 DEF AllThreads, ThreadOK, AtLink, Busy
<1>4. Onwards /\ SeenOnwards
  BY <1>1, Unrequested DEF SeenOnwards, UriSeen, tables
<1>5. Queue' /\ MatchesAttributed' /\ Tables'
  BY <1>1, QueueKept, MatchesKept DEF Tables, tables
<1>6. \A other : UriSeen(other)' = UriSeen(other)
  BY DEF UriSeen, tables
<1>7. Moves(t)
  BY <1>1, BecomeMoves
<1>8. \A other : other # url /\ AboutToBeRequested(other) => AboutToBeRequested(other)'
  BY <1>3, <1>7, StillInHand DEF Owns
<1>9. CASE ShouldProcess(url) /\ followLinks
  <2>. DEFINE next == [thread[t] EXCEPT !.pc = "request", !.handler.root = url,
                                        !.handler.chain = <<url>>]
  <2>1. thread'[t] = next
    BY ZenonT(30), <1>1, <1>3, <1>9, BecomeMoves
  <2>2. thread[t].handler \in Handlers
    BY <1>3 DEF ThreadState
  <2>3. /\ next \in ThreadState /\ next.pc = "request" /\ next.url = url
        /\ next.list = thread[t].list /\ next.at = thread[t].at
        /\ next.handler.repo = thread[t].handler.repo /\ next.handler.root = url
        /\ next.handler.chain = <<url>>
    <3>1. <<url>> \in Seq(Urls)
      OBVIOUS
    <3>. DEFINE handler == [thread[t].handler EXCEPT !.root = url, !.chain = <<url>>]
    <3>2. /\ handler \in Handlers /\ handler.repo = thread[t].handler.repo
          /\ handler.root = url /\ handler.chain = <<url>>
      BY <2>2, <3>1 DEF Handlers
    <3>3. next = [thread[t] EXCEPT !.pc = "request", !.handler = handler]
      BY <1>3, <2>2 DEF ThreadState, Handlers
    <3>. HIDE DEF handler, next
    <3>4. "request" \in Busy
      BY DEF Busy
    <3>. QED BY <1>3, <3>2, <3>3, <3>4 DEF ThreadState
  <2>. HIDE DEF next
  <2>5. AllThreads'
    <3>1. AtEmbed(thread[t])'
      BY <1>1, <1>2, <2>1, <2>3 DEF AllThreads, ThreadOK, AtEmbed, InPost
    <3>2. AtLink(thread[t])'
      BY <1>3, <2>1, <2>3 DEF AtLink
    <3>3. PICK chain : chain = <<url>>
      OBVIOUS
    <3>4. Len(chain) = 1 /\ Final(chain) = url /\ Way(chain, url)
      BY <3>3, WayBegins
    <3>5. OnWay(thread[t])'
      <4>1. Len(chain) <= UrlRedirectLimit + 1
        BY <3>4, EmbedAssumption
      <4>2. /\ thread'[t].handler.chain = chain /\ thread'[t].pc = "request"
            /\ thread'[t].url = url /\ thread'[t].handler.root = url
            /\ thread'[t].list.embeds[thread'[t].at].key = url
        BY <1>3, <2>1, <2>3, <3>3
      <4>3. followLinks'
        BY <1>9
      <4>. QED BY <3>4, <4>1, <4>2, <4>3 DEF OnWay
    <3>. QED BY <1>1, <1>4, <1>7, <2>1, <2>3, <3>1, <3>2, <3>5, ThreadsKept DEF ThreadOK
  <2>6. \A other : Owns(thread[t], other)' <=> Owns(thread[t], other)
    BY <1>2, <1>3, <2>1, <2>3 DEF Owns
  <2>7. Owned'
    BY <1>1, <1>4, <1>7, <2>6, NobodyAcquires
  <2>8. \A other : AboutToBeRequested(other) => AboutToBeRequested(other)'
    BY <1>7, <2>6, StillInHand, InHand
  <2>9. OnlyTargetsPassedOver'
    BY <1>1, <1>4, <1>6, <2>8, NothingPassedOver
  <2>. QED BY <1>1, <1>5, <2>5, <2>7, <2>9, ThreadStepSuffices DEF tables
<1>10. CASE ~(ShouldProcess(url) /\ followLinks)
  <2>1. thread'[t] = NextEmbed(thread[t])
    BY <1>1, <1>3, <1>10, BecomeMoves
  <2>2. AllThreads' /\ thread'[t].pc \in {"embed", "wait", "ended"}
    BY <1>1, <1>2, <1>4, <1>7, <2>1, AdvanceKept
  <2>3. \A other \in Urls : ~Owns(thread[t], other)'
    BY <2>2 DEF Owns
  <2>4. Owned'
    BY <1>1, <1>4, <1>7, <2>3, NobodyAcquires
  <2>5. followLinks => ~(url \in WellFormed /\ NeverPopular(url))
    BY <1>1, <1>10 DEF ShouldProcess, NeverPopular, Parts, Counts
  <2>6. OnlyTargetsPassedOver'
    BY <1>1, <1>4, <1>6, <1>8, <2>5, NothingPassedOver
  <2>. QED BY <1>1, <1>5, <2>2, <2>4, <2>6, ThreadStepSuffices DEF tables
<1>. QED BY <1>9, <1>10

LEMMA RequestEndsKeeps ==
  ASSUME Parts, NEW t \in Threads, RequestEnds(t)
  PROVE  Parts'
<1>. USE DEF RequestEnds
<1>1. /\ Flags /\ Queue /\ Tables /\ AllThreads /\ Owned
      /\ OnlyTargetsPassedOver /\ MatchesAttributed
  BY DEF Parts
<1>2. Is(t, "request") /\ thread[t].pc = "request" /\ thread[t].pc \in Busy
  BY DEF Is, Busy
<1>3. PICK url \in Urls : url = thread[t].url
  BY <1>1, <1>2 DEF AllThreads, ThreadOK, AtLink, Busy
<1>4. Moves(t) /\ thread'[t] = NextEmbed(thread[t])
  BY <1>1, BecomeMoves
<1>5. Onwards
  BY <1>1, <1>3 DEF Onwards, Tables, Request
<1>6. AllThreads' /\ thread'[t].pc \in {"embed", "wait", "ended"}
  BY <1>1, <1>2, <1>4, <1>5, AdvanceKept
<1>7. \A other \in Urls : ~Owns(thread[t], other)'
  BY <1>6 DEF Owns
<1>8. Owned' /\ requests' \in [Urls -> Nat] /\ requests'[url] = 1
  BY <1>1, <1>2, <1>3, <1>4, <1>7, RequestReleases DEF tables
<1>9. OnlyTargetsPassedOver'
  <2>1. \A other : UriSeen(other)' = UriSeen(other)
    BY DEF UriSeen, tables
  <2>2. \A other : other # url /\ AboutToBeRequested(other) => AboutToBeRequested(other)'
    BY <1>3, <1>4, StillInHand DEF Owns
  <2>3. requests'[url] > 0
    BY <1>8
  <2>. QED BY <1>1, <1>5, <2>1, <2>2, <2>3, NothingPassedOver
<1>10. Queue' /\ MatchesAttributed' /\ Tables'
  BY <1>1, <1>8, QueueKept, MatchesKept DEF Tables, tables
<1>. QED BY <1>1, <1>6, <1>8, <1>9, <1>10, ThreadStepSuffices DEF tables

LEMMA RequestRedirectedKeeps ==
  ASSUME Parts, NEW t \in Threads, NEW target \in Urls, RequestRedirected(t, target)
  PROVE  Parts'
<1>. USE DEF RequestRedirected
<1>1. /\ Flags /\ Queue /\ Tables /\ AllThreads /\ Owned
      /\ OnlyTargetsPassedOver /\ MatchesAttributed
  BY DEF Parts
<1>2. Is(t, "request") /\ thread[t].pc = "request" /\ thread[t].pc \in Busy
  BY DEF Is, Busy
<1>3. PICK url \in Urls : url = thread[t].url
  BY <1>1, <1>2 DEF AllThreads, ThreadOK, AtLink, Busy
<1>4. thread[t] \in ThreadState /\ ThreadOK(thread[t])
  BY <1>1 DEF AllThreads
<1>. DEFINE next == [thread[t] EXCEPT !.pc = "redirected", !.url = target]
<1>5. Moves(t) /\ thread'[t] = next
  BY <1>1, BecomeMoves
<1>6. /\ next \in ThreadState /\ next.pc = "redirected" /\ next.url = target
      /\ next.list = thread[t].list /\ next.at = thread[t].at
      /\ next.handler = thread[t].handler
  BY <1>4 DEF ThreadState, Busy
<1>. HIDE DEF next
<1>7. Onwards
  BY <1>1, <1>3 DEF Onwards, Tables, Request
<1>8. \A other \in Urls : ~Owns(thread[t], other)'
  BY <1>5, <1>6 DEF Owns
<1>9. Owned' /\ requests' \in [Urls -> Nat] /\ requests'[url] = 1
  BY <1>1, <1>2, <1>3, <1>5, <1>8, RequestReleases DEF tables
<1>10. AllThreads'
  <2>1. AtEmbed(thread[t])'
    BY <1>2, <1>4, <1>5, <1>6 DEF ThreadOK, AtEmbed, InPost
  <2>2. AtLink(thread[t])'
    BY <1>2, <1>4, <1>5, <1>6 DEF ThreadOK, AtLink, Busy
  <2>3. PICK chain : chain = thread[t].handler.chain
    OBVIOUS
  <2>4. /\ followLinks' /\ Way(chain, thread[t].handler.root)
        /\ thread[t].handler.root = thread[t].list.embeds[thread[t].at].key
        /\ Final(chain) = url /\ Len(chain) <= UrlRedirectLimit
    BY <1>2, <1>3, <1>4, <1>7, <2>3 DEF ThreadOK, OnWay, Onwards
  <2>5. Len(chain) <= UrlRedirectLimit + 1
    <3>1. Len(chain) \in Nat
      BY <1>4, <2>3, LenProperties DEF ThreadState, Handlers
    <3>. QED BY <2>4, <3>1, EmbedAssumption
  <2>6. target \in Redirections[url] /\ requests'[url] > 0
    BY <1>3, <1>9
  <2>7. /\ thread'[t].handler.chain = chain /\ thread'[t].pc = "redirected"
        /\ thread'[t].url = target
        /\ thread'[t].handler.root = thread[t].handler.root
        /\ thread'[t].handler.root = thread'[t].list.embeds[thread'[t].at].key
    BY <1>5, <1>6, <2>3, <2>4
  <2>8. OnWay(thread[t])'
    BY <2>4, <2>5, <2>6, <2>7 DEF OnWay
  <2>. QED BY <1>1, <1>5, <1>6, <1>7, <2>1, <2>2, <2>8, ThreadsKept DEF ThreadOK
<1>11. OnlyTargetsPassedOver'
  <2>1. \A other : UriSeen(other)' = UriSeen(other)
    BY DEF UriSeen, tables
  <2>2. \A other : other # url /\ AboutToBeRequested(other) => AboutToBeRequested(other)'
    BY <1>3, <1>5, StillInHand DEF Owns
  <2>3. requests'[url] > 0
    BY <1>9
  <2>. QED BY <1>1, <1>7, <2>1, <2>2, <2>3, NothingPassedOver
<1>12. Queue' /\ MatchesAttributed' /\ Tables'
  BY <1>1, <1>9, QueueKept, MatchesKept DEF Tables, tables
<1>. QED BY <1>1, <1>9, <1>10, <1>11, <1>12, ThreadStepSuffices DEF tables

\* One redirection more.
LEMMA WayGoesOn ==
  ASSUME NEW chain \in Seq(Urls), NEW root, NEW url \in Urls, Way(chain, root),
         url \in Redirections[Final(chain)], NEW longer, longer = Append(chain, url)
  PROVE  /\ longer \in Seq(Urls) /\ Len(longer) = Len(chain) + 1
         /\ Way(longer, root)
         /\ Len(longer) > 1 /\ longer[Len(longer) - 1] = Final(chain)
<1>1. /\ longer \in Seq(Urls) /\ Len(longer) = Len(chain) + 1
      /\ \A i \in 1 .. Len(chain) : longer[i] = chain[i]
      /\ longer[Len(chain) + 1] = url
  BY AppendProperties
<1>2. Len(chain) \in Nat /\ Len(chain) >= 1 /\ chain[1] = root
  BY LenProperties DEF Way
<1>3. /\ Len(longer) > 1 /\ Len(longer) - 1 = Len(chain)
      /\ Len(chain) \in 1 .. Len(chain) /\ 1 \in 1 .. Len(chain)
  BY <1>1, <1>2
<1>4. longer[Len(longer) - 1] = Final(chain) /\ longer[1] = root
  BY <1>1, <1>2, <1>3 DEF Final
<1>5. ASSUME NEW i \in 1 .. (Len(longer) - 1)
      PROVE  longer[i + 1] \in Redirections[longer[i]]
  <2>1. CASE i = Len(chain)
    BY <1>1, <1>3, <2>1 DEF Final
  <2>2. CASE i # Len(chain)
    <3>1. i \in 1 .. (Len(chain) - 1) /\ i \in 1 .. Len(chain) /\ i + 1 \in 1 .. Len(chain)
      BY <1>2, <1>3, <2>2
    <3>. QED BY <1>1, <3>1 DEF Way
  <2>. QED BY <2>1, <2>2
<1>. QED BY <1>1, <1>2, <1>3, <1>4, <1>5 DEF Way

LEMMA SeenRedirectionKeeps ==
  ASSUME Parts, NEW t \in Threads, SeenRedirection(t)
  PROVE  Parts'
<1>. USE DEF SeenRedirection
<1>1. /\ Flags /\ Queue /\ Tables /\ AllThreads /\ Owned
      /\ OnlyTargetsPassedOver /\ MatchesAttributed
  BY DEF Parts
<1>2. thread[t].pc = "redirected" /\ thread[t].pc \in Busy
  BY DEF Is, Busy
<1>3. PICK url \in Urls : url = thread[t].url
  BY <1>1, <1>2 DEF AllThreads, ThreadOK, AtLink, Busy
<1>4. thread[t] \in ThreadState /\ ThreadOK(thread[t])
  BY <1>1 DEF AllThreads
<1>5. /\ seen' \in [EmbedInfo -> Nat] /\ SeenOnwards /\ UriSeen(url)'
      /\ \A other \in Urls \ {url} : UriSeen(other)' = UriSeen(other)
  BY <1>1, <1>3, LinkSight
<1>6. Onwards
  BY <1>1, Unrequested
<1>7. \A other : ~Owns(thread[t], other)
  BY <1>2 DEF Owns
<1>8. Queue' /\ MatchesAttributed' /\ Tables'
  BY <1>1, <1>5, QueueKept, MatchesKept DEF Tables
<1>9. Moves(t)
  BY <1>1, BecomeMoves
<1>10. \A other : AboutToBeRequested(other) => AboutToBeRequested(other)'
  BY <1>7, <1>9, StillInHand
<1>11. CASE UriSeen(url)
  <2>1. thread'[t] = NextEmbed(thread[t])
    BY <1>1, <1>3, <1>11, BecomeMoves
  <2>2. AllThreads' /\ thread'[t].pc \in {"embed", "wait", "ended"}
    BY <1>1, <1>2, <1>6, <1>9, <2>1, AdvanceKept
  <2>3. \A other \in Urls : ~Owns(thread[t], other)'
    BY <2>2 DEF Owns
  <2>4. Owned'
    BY <1>1, <1>5, <1>9, <2>3, NobodyAcquires
  <2>5. OnlyTargetsPassedOver'
    <3>1. \A other \in WellFormed : UriSeen(other)' => UriSeen(other)
      BY <1>5, <1>11, EmbedAssumption
    <3>. QED BY <1>1, <1>6, <1>10, <3>1, NothingPassedOver
  <2>. QED BY <1>1, <1>8, <2>2, <2>4, <2>5, ThreadStepSuffices
<1>12. CASE ~UriSeen(url)
  <2>1. PICK chain \in Seq(Urls) : chain = thread[t].handler.chain
    BY <1>4 DEF ThreadState, Handlers
  <2>2. PICK longer : longer = Append(chain, url)
    OBVIOUS
  <2>3. /\ Way(chain, thread[t].handler.root) /\ Len(chain) <= UrlRedirectLimit
        /\ url \in Redirections[Final(chain)] /\ requests[Final(chain)] > 0
        /\ followLinks
        /\ thread[t].handler.root = thread[t].list.embeds[thread[t].at].key
    BY <1>2, <1>3, <1>4, <2>1 DEF ThreadOK, OnWay
  <2>4. /\ longer \in Seq(Urls) /\ Len(longer) = Len(chain) + 1
        /\ Way(longer, thread[t].handler.root) /\ Final(longer) = url
        /\ Len(longer) > 1 /\ longer[Len(longer) - 1] = Final(chain)
    <3>1. PICK root : root = thread[t].handler.root
      OBVIOUS
    <3>2. Way(chain, root) /\ url \in Redirections[Final(chain)]
      BY <2>3, <3>1
    <3>3. /\ longer \in Seq(Urls) /\ Len(longer) = Len(chain) + 1
          /\ Way(longer, root) /\ Final(longer) = url
          /\ Len(longer) > 1 /\ longer[Len(longer) - 1] = Final(chain)
      <4>. HIDE DEF SeenRedirection
      <4>1. /\ chain \in Seq(Urls) /\ url \in Urls /\ Way(chain, root)
            /\ url \in Redirections[Final(chain)] /\ longer = Append(chain, url)
        BY <2>2, <3>2
      <4>2. longer \in Seq(Urls) /\ Len(longer) = Len(chain) + 1
        BY <4>1, WayGoesOn
      <4>3. Way(longer, root)
        BY <4>1, WayGoesOn
      <4>4. Final(longer) = url
        BY <4>1, <4>2, AppendProperties DEF Final
      <4>5. Len(longer) > 1 /\ longer[Len(longer) - 1] = Final(chain)
        BY <4>1, WayGoesOn
      <4>. QED BY <4>2, <4>3, <4>4, <4>5
    <3>. QED BY <3>1, <3>3
  <2>. DEFINE next == [thread[t] EXCEPT !.pc = "decide_redirect",
                                        !.handler.chain = Append(@, thread[t].url)]
  <2>5. thread'[t] = next
    BY <1>1, <1>3, <1>12, BecomeMoves
  <2>6. /\ next \in ThreadState /\ next.pc = "decide_redirect" /\ next.url = url
        /\ next.list = thread[t].list /\ next.at = thread[t].at
        /\ next.handler.repo = thread[t].handler.repo
        /\ next.handler.root = thread[t].handler.root
        /\ next.handler.chain = longer
    <3>. DEFINE handler == [thread[t].handler EXCEPT !.chain = longer]
    <3>1. thread[t].handler \in Handlers
      BY <1>4 DEF ThreadState
    <3>2. /\ handler \in Handlers /\ handler.repo = thread[t].handler.repo
          /\ handler.root = thread[t].handler.root /\ handler.chain = longer
      BY <2>4, <3>1 DEF Handlers
    <3>3. next = [thread[t] EXCEPT !.pc = "decide_redirect", !.handler = handler]
      BY <1>3, <1>4, <2>1, <2>2, <3>1 DEF ThreadState, Handlers
    <3>. HIDE DEF handler, next
    <3>4. "decide_redirect" \in Busy
      BY DEF Busy
    <3>. QED BY <1>3, <1>4, <3>2, <3>3, <3>4 DEF ThreadState
  <2>. HIDE DEF next
  <2>7. AllThreads'
    <3>1. AtEmbed(thread[t])'
      BY <1>2, <1>4, <2>5, <2>6 DEF ThreadOK, AtEmbed, InPost
    <3>2. AtLink(thread[t])'
      BY <1>2, <1>4, <2>5, <2>6 DEF ThreadOK, AtLink, Busy
    <3>3. Len(longer) <= UrlRedirectLimit + 1
      <4>1. Len(chain) \in Nat
        BY <2>1, LenProperties
      <4>2. Len(chain) <= UrlRedirectLimit /\ Len(longer) = Len(chain) + 1
        BY <2>3, <2>4
      <4>3. UrlRedirectLimit \in Nat
        BY EmbedAssumption
      <4>. HIDE DEF SeenRedirection
      <4>. QED BY <4>1, <4>2, <4>3
    <3>4. /\ thread'[t].handler.chain = longer /\ thread'[t].pc = "decide_redirect"
          /\ thread'[t].url = url
          /\ thread'[t].handler.root = thread[t].handler.root
          /\ thread'[t].handler.root = thread'[t].list.embeds[thread'[t].at].key
          /\ followLinks' /\ requests' = requests
      BY <2>3, <2>5, <2>6
    <3>5. OnWay(thread[t])'
      BY <2>3, <2>4, <3>3, <3>4 DEF OnWay
    <3>. QED BY <1>1, <1>6, <1>9, <2>5, <2>6, <3>1, <3>2, <3>5, ThreadsKept DEF ThreadOK
  <2>8. Owned'
    BY <1>1, <1>5, <1>9, <1>12, <2>5, <2>6, FirstAcquires
  <2>9. OnlyTargetsPassedOver'
    <3>1. Owns(thread[t], url)'
      BY <2>5, <2>6 DEF Owns
    <3>2. \A other \in WellFormed :
             UriSeen(other)' => UriSeen(other) \/ AboutToBeRequested(other)'
      BY <1>5, <3>1, InHand, EmbedAssumption
    <3>. QED BY <1>1, <1>6, <1>10, <3>2, NothingPassedOver
  <2>. QED BY <1>1, <1>8, <2>7, <2>8, <2>9, ThreadStepSuffices
<1>. QED BY <1>11, <1>12

LEMMA DecideRedirectionKeeps ==
  ASSUME Parts, NEW t \in Threads, DecideRedirection(t)
  PROVE  Parts'
<1>. USE DEF DecideRedirection
<1>1. /\ Flags /\ Queue /\ Tables /\ AllThreads /\ Owned
      /\ OnlyTargetsPassedOver /\ MatchesAttributed
  BY DEF Parts
<1>2. thread[t].pc = "decide_redirect" /\ thread[t].pc \in Busy
  BY DEF Is, Busy
<1>3. PICK url \in Urls : url = thread[t].url
  BY <1>1, <1>2 DEF AllThreads, ThreadOK, AtLink, Busy
<1>4. thread[t] \in ThreadState /\ ThreadOK(thread[t])
  BY <1>1 DEF AllThreads
<1>5. PICK chain \in Seq(Urls) : chain = thread[t].handler.chain
  BY <1>4 DEF ThreadState, Handlers
<1>6. /\ Way(chain, thread[t].handler.root) /\ Final(chain) = url
      /\ Len(chain) > 1 /\ requests[chain[Len(chain) - 1]] > 0
      /\ thread[t].handler.root = thread[t].list.embeds[thread[t].at].key
  BY <1>2, <1>3, <1>4, <1>5 DEF ThreadOK, OnWay
<1>7. /\ chain[Len(chain) - 1] \in Urls
      /\ url \in Redirections[chain[Len(chain) - 1]]
  <2>1. Len(chain) \in Nat
    BY <1>5, LenProperties
  <2>2. PICK n \in 1 .. (Len(chain) - 1) : n = Len(chain) - 1 /\ n + 1 = Len(chain)
    BY <1>6, <2>1
  <2>3. chain[n + 1] \in Redirections[chain[n]]
    BY <1>6, <2>2 DEF Way
  <2>4. n \in 1 .. Len(chain)
    BY <2>1, <2>2
  <2>5. chain[n] = chain[Len(chain) - 1] /\ chain[n + 1] = url
    BY <1>6, <2>2 DEF Final
  <2>6. chain[n] \in Urls
    BY <1>5, <2>4
  <2>. QED BY <2>3, <2>5, <2>6
<1>8. Onwards /\ SeenOnwards
  BY <1>1, Unrequested DEF SeenOnwards, UriSeen, tables
<1>9. Queue' /\ Tables'
  BY <1>1, QueueKept DEF Tables, tables
<1>10. \A other : UriSeen(other)' = UriSeen(other)
  BY DEF UriSeen, tables
<1>11. Moves(t)
  BY <1>1, BecomeMoves
<1>12. \A other : other # url /\ AboutToBeRequested(other) => AboutToBeRequested(other)'
  BY <1>3, <1>11, StillInHand DEF Owns
<1>13. MatchesAttributed'
  <2>. DEFINE match == [repo |-> thread[t].handler.repo,
                        root |-> thread[t].handler.root, chain |-> chain]
  <2>1. matches' = matches \/ (url \in Matched /\ matches' = matches \cup {match})
    BY <1>3, <1>5
  <2>2. CASE matches' = matches
    BY <1>1, <2>2, MatchesKept
  <2>3. CASE url \in Matched /\ matches' = matches \cup {match}
    <3>1. PICK c \in posted : /\ c.repo = thread[t].list.repo
                              /\ EmbedsOf(c) = thread[t].list.embeds
      BY <1>2, <1>4 DEF ThreadOK, AtEmbed, InPost
    <3>2. PICK i \in DOMAIN EmbedsOf(c) :
             EmbedsOf(c)[i] = thread[t].list.embeds[thread[t].at] /\ i = thread[t].at
      <4>1. /\ thread[t].at \in 1 .. Len(thread[t].list.embeds)
            /\ thread[t].list.embeds \in Seq(EmbedInfo)
        BY <1>2, <1>4 DEF ThreadOK, AtEmbed, Lists
      <4>2. thread[t].at \in DOMAIN thread[t].list.embeds
        BY <4>1
      <4>. QED BY <3>1, <4>2
    <3>3. EmbedsOf(c)[i] = Link(thread[t].handler.root)
      <4>1. thread[t].list.embeds[thread[t].at].kind = "link"
        BY <1>2, <1>4 DEF ThreadOK, AtLink, Busy
      <4>2. thread[t].list.embeds[thread[t].at]
               = Link(thread[t].list.embeds[thread[t].at].key)
        BY <1>1, <1>2, <4>1, AtAnEmbed
      <4>. QED BY <1>6, <3>2, <4>2
    <3>4. c.repo = thread[t].handler.repo
      BY <1>2, <1>4, <3>1 DEF ThreadOK, AtEmbed
    <3>5. /\ match.repo = thread[t].handler.repo /\ match.root = thread[t].handler.root
          /\ match.chain = chain
      OBVIOUS
    <3>. HIDE DEF match
    <3>6. /\ Len(match.chain) > 1 /\ match.chain[1] = match.root
          /\ match.chain[Len(match.chain)] \in Matched
          /\ \A k \in 1 .. (Len(match.chain) - 1) :
                match.chain[k + 1] \in Redirections[match.chain[k]]
      BY <1>6, <2>3, <3>5 DEF Way, Final
    <3>7. c \in posted' /\ posted' = posted
      BY <3>1
    <3>. QED BY <1>1, <2>3, <3>2, <3>3, <3>4, <3>5, <3>6, <3>7 DEF MatchesAttributed
  <2>. QED BY <2>1, <2>2, <2>3
<1>14. CASE GoOn(url)
  <2>. DEFINE next == [thread[t] EXCEPT !.pc = "request"]
  <2>1. thread'[t] = next
    BY <1>1, <1>3, <1>14, BecomeMoves
  <2>2. /\ next \in ThreadState /\ next.pc = "request" /\ next.url = url
        /\ next.list = thread[t].list /\ next.at = thread[t].at
        /\ next.handler = thread[t].handler
    BY <1>3, <1>4 DEF ThreadState, Busy
  <2>. HIDE DEF next
  <2>3. AllThreads'
    <3>1. AtEmbed(thread[t])'
      BY <1>2, <1>4, <2>1, <2>2 DEF ThreadOK, AtEmbed, InPost
    <3>2. AtLink(thread[t])'
      BY <1>2, <1>4, <2>1, <2>2 DEF ThreadOK, AtLink, Busy
    <3>3. OnWay(thread[t])'
      <4>1. /\ thread'[t].handler.chain = chain /\ thread'[t].pc = "request"
            /\ thread'[t].url = url
            /\ thread'[t].handler.root = thread[t].handler.root
            /\ thread'[t].handler.root = thread'[t].list.embeds[thread'[t].at].key
        BY <1>5, <1>6, <2>1, <2>2
      <4>2. followLinks /\ Len(chain) <= UrlRedirectLimit + 1
        BY <1>2, <1>4, <1>5 DEF ThreadOK, OnWay
      <4>. QED BY <1>6, <4>1, <4>2 DEF OnWay
    <3>. QED BY <1>1, <1>8, <1>11, <2>1, <2>2, <3>1, <3>2, <3>3, ThreadsKept DEF ThreadOK
  <2>4. \A other : Owns(thread[t], other)' <=> Owns(thread[t], other)
    BY <1>2, <1>3, <2>1, <2>2 DEF Owns
  <2>5. Owned'
    BY <1>1, <1>8, <1>11, <2>4, NobodyAcquires
  <2>6. \A other : AboutToBeRequested(other) => AboutToBeRequested(other)'
    BY <1>11, <2>4, StillInHand, InHand
  <2>7. OnlyTargetsPassedOver'
    BY <1>1, <1>8, <1>10, <2>6, NothingPassedOver
  <2>. QED BY <1>1, <1>9, <1>13, <2>3, <2>5, <2>7, ThreadStepSuffices DEF tables
<1>15. CASE ~GoOn(url)
  <2>1. thread'[t] = NextEmbed(thread[t])
    BY <1>1, <1>3, <1>15, BecomeMoves
  <2>2. AllThreads' /\ thread'[t].pc \in {"embed", "wait", "ended"}
    BY <1>1, <1>2, <1>8, <1>11, <2>1, AdvanceKept
  <2>3. \A other \in Urls : ~Owns(thread[t], other)'
    BY <2>2 DEF Owns
  <2>4. Owned'
    BY <1>1, <1>8, <1>11, <2>3, NobodyAcquires
  <2>5. Targeted(url)
    BY <1>6, <1>7 DEF Targeted
  <2>6. OnlyTargetsPassedOver'
    BY <1>1, <1>8, <1>10, <1>12, <2>5, NothingPassedOver
  <2>. QED BY <1>1, <1>9, <1>13, <2>2, <2>4, <2>6, ThreadStepSuffices DEF tables
<1>. QED BY <1>14, <1>15

-----------------------------------------------------------------------------
\* A step that changes nothing.
LEMMA StutterKeeps ==
  ASSUME Parts, UNCHANGED checkerVars
  PROVE  Parts'
<1>. USE DEF checkerVars, tables, counts
<1>1. Flags'
  BY Zenon DEF Parts, Flags
<1>2. Counts'
  BY DEF Parts, Counts
<1>3. Tables' /\ AllThreads' /\ Owned' /\ OnlyTargetsPassedOver' /\ MatchesAttributed'
  BY ThreadsRest
<1>4. Queue'
  BY QueueKept DEF Parts
<1>. QED BY <1>1, <1>2, <1>3, <1>4 DEF Parts

LEMMA PartsStep == Parts /\ [NextCheck]_checkerVars => Parts'
<1>. SUFFICES ASSUME Parts, [NextCheck]_checkerVars PROVE Parts'
  OBVIOUS
<1>1. CASE \E c \in Contents : HandleContent(c)
  BY <1>1, HandleContentKeeps
<1>2. CASE \E hosts \in HostTables : RefreshHosts(hosts)
  BY <1>2, RefreshHostsKeeps
<1>3. CASE \E t \in Threads : Step(t)
  <2>. PICK t \in Threads : Step(t)
    BY <1>3
  <2>1. CASE TakeList(t)
    BY <2>1, TakeListKeeps
  <2>2. CASE SeenMedia(t)
    BY <2>2, SeenMediaKeeps
  <2>3. CASE SeenLink(t)
    BY <2>3, SeenLinkKeeps
  <2>4. CASE DecideLink(t)
    BY <2>4, DecideLinkKeeps
  <2>5. CASE RequestEnds(t)
    BY <2>5, RequestEndsKeeps
  <2>6. CASE Redirected(t)
    BY <2>6, RequestRedirectedKeeps DEF Redirected
  <2>7. CASE SeenRedirection(t)
    BY <2>7, SeenRedirectionKeeps
  <2>8. CASE DecideRedirection(t)
    BY <2>8, DecideRedirectionKeeps
  <2>. QED BY <2>1, <2>2, <2>3, <2>4, <2>5, <2>6, <2>7, <2>8 DEF Step
<1>4. CASE StopChecker
  BY <1>4, ForceStopKeeps
<1>5. CASE UNCHANGED checkerVars
  BY <1>5, StutterKeeps
<1>. QED BY <1>1, <1>2, <1>3, <1>4, <1>5 DEF NextCheck

LEMMA PartsAlways == CheckerSpec => []Parts
BY InitParts, PartsStep, PTL DEF CheckerSpec

-----------------------------------------------------------------------------
(***************************************************************************)
(* The checker's state is what the code takes it for: a thread that works  *)
(* is at an embed of its list, one that follows a link is on a way of at   *)
(* most _url_redirect_limit redirections from it, and no list is empty.    *)
(***************************************************************************)
THEOREM EmbedTypeCorrect == CheckerSpec => []CheckerTypeOK
BY PartsAlways, PartsSuffice, PTL

(***************************************************************************)
(* However many threads look at the tables at once, no URL is requested    *)
(* twice: uri_seen hands a URL to the one thread that saw it first, and    *)
(* the others find its count above zero before any request is made.        *)
(***************************************************************************)
THEOREM LinksFollowedOnce == CheckerSpec => []FollowedOnce
BY PartsAlways, PartsSuffice, PTL

(***************************************************************************)
(* A match found behind a link is charged to an account that posted the    *)
(* link, and lies on a way of redirections from it: the handler that is    *)
(* bound to redirectFn is the one of the embed in hand.                    *)
(***************************************************************************)
THEOREM MatchesAreAttributed == CheckerSpec => []MatchesAttributed
BY PartsAlways, PartsSuffice, PTL

(***************************************************************************)
(* A well-formed link on a host that is never popular is requested, or     *)
(* about to be, once it was seen, unless a redirection led to it:          *)
(* on_url_redirect is the only place that enters a link and drops it.      *)
(***************************************************************************)
THEOREM OnlyTargetsArePassedOver == CheckerSpec => []OnlyTargetsPassedOver
BY PartsAlways, PartsSuffice, PTL
=============================================================================
