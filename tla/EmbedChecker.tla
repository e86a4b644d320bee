---------------------------- MODULE EmbedChecker ----------------------------
(***************************************************************************)
(* What embed_checker does with what posts embed.                          *)
(*                                                                         *)
(*   handle_content --> _queue --> threads --> restc-cpp --> web sites     *)
(*                                    |  ^         |                       *)
(*                             _checked_*  |       v                       *)
(*   auxiliary_data --> _popular_hosts   on_url_redirect --> action_router *)
(*                                                                         *)
(* Images, videos and quoted records are counted. A link is counted too,   *)
(* and followed the first time it is seen, unless its host is popular. On  *)
(* the way each redirection is counted, and decides whether to go on. The  *)
(* tables are shared by the threads, under a lock that is taken for one    *)
(* look at a time.                                                         *)
(***************************************************************************)
EXTENDS Naturals, Sequences

CONSTANTS
    Threads,            \* _number_of_threads
    Urls,
    Cids,               \* of images and videos, and URIs of quoted records
    WellFormed,         \* the ones that parse_uri accepts
    Host,               \* the host of each
    Redirections,       \* where a site may redirect each
    UrlRedirectLimit,
    Matched,            \* the ones that match a rule as "redirected_url"
    Contents,           \* posts, see HandleContent
    InitialHosts,       \* the popular hosts at startup
    HostTables,         \* the popular hosts that may replace them
    MaxContents, MaxRefreshes   \* bounds on posts and on refreshes

ASSUME EmbedAssumption ==
    /\ WellFormed \subseteq Urls /\ Matched \subseteq Urls
    /\ DOMAIN Host = Urls
    /\ Redirections \in [Urls -> SUBSET Urls]
    /\ UrlRedirectLimit \in Nat
    /\ MaxContents \in Nat /\ MaxRefreshes \in Nat
    /\ \A c \in Contents :
          /\ c.media \in Seq(Cids) /\ c.links \in Seq(Urls)
          /\ c.embed = "external" => c.uri \in Urls
          /\ c.embed = "record_with_media" => c.uri \in Cids

VARIABLES
    running,            \* controller._active
    followLinks,        \* _follow_links
    popular,            \* _popular_hosts
    lists,              \* _queue, of [repo, embeds]
    thread,             \* threads: [pc, list, at, url, handler]
    seen,               \* _checked_images, _records, _uris and _videos
    matches,            \* handed to action_router
    posted,             \* history: the posts handled
    requests,           \* history: how often each URL was asked for
    contents, refreshes \* number of posts and of refreshes

tables == <<popular, seen>>
counts == <<contents, refreshes>>
checkerVars == <<running, followLinks, tables, lists, thread, matches, posted,
                 requests, counts>>

\* What embeds are counted by: embed_info.
EmbedInfo ==
    [kind : {"image", "video", "record"}, key : Cids]
    \cup [kind : {"link"}, key : Urls]

NoUrl == "none"
NewHandler(repo) == [repo |-> repo, root |-> NoUrl, chain |-> <<>>]

Idle ==
    [pc |-> "wait", list |-> <<>>, at |-> 0, url |-> NoUrl,
     handler |-> NewHandler("none")]

Busy == {"embed", "decide", "request", "redirected", "decide_redirect"}

CheckerTypeOK ==
    /\ running \in BOOLEAN /\ followLinks \in BOOLEAN
    /\ popular \in HostTables \cup {InitialHosts}
    /\ \A i \in DOMAIN lists :
          lists[i].embeds \in Seq(EmbedInfo) /\ lists[i].embeds # <<>>
    /\ \A t \in Threads :
          LET th == thread[t] IN
          /\ th.pc \in Busy \cup {"wait", "ended"}
          /\ th.pc \in Busy => th.at \in DOMAIN th.list.embeds
          /\ th.pc \in Busy \ {"embed"} => th.url \in Urls
          /\ th.pc \in {"request", "redirected", "decide_redirect"} =>
                /\ followLinks
                /\ th.handler.root = th.list.embeds[th.at].key
                /\ Len(th.handler.chain) \in 1 .. (UrlRedirectLimit + 1)
                /\ th.pc # "redirected" =>
                      th.url = th.handler.chain[Len(th.handler.chain)]
    /\ seen \in [EmbedInfo -> Nat] /\ requests \in [Urls -> Nat]
    /\ contents \in 0 .. MaxContents /\ refreshes \in 0 .. MaxRefreshes

InitChecker ==
    /\ running = TRUE /\ followLinks \in BOOLEAN
    /\ popular = InitialHosts
    /\ lists = <<>> /\ thread = [t \in Threads |-> Idle]
    /\ seen = [e \in EmbedInfo |-> 0]
    /\ matches = {} /\ posted = {} /\ requests = [u \in Urls |-> 0]
    /\ contents = 0 /\ refreshes = 0

-----------------------------------------------------------------------------
(***************************************************************************)
(* Posts. "media" holds the cids of images, of a video or of a thumbnail,  *)
(* "links" the links in facets, which are only looked at beside an embed.  *)
(* The media of a quote are not.                                           *)
(***************************************************************************)
Embeds(kind, keys) == [i \in DOMAIN keys |-> [kind |-> kind, key |-> keys[i]]]

EmbedsOf(c) ==
    LET embedded ==
          CASE c.embed = "external" ->
                  Embeds("link", <<c.uri>>) \o Embeds("image", c.media)
            [] c.embed = "images" -> Embeds("image", c.media)
            [] c.embed = "video" -> Embeds("video", c.media)
            [] c.embed = "record_with_media" -> Embeds("record", <<c.uri>>)
            [] OTHER -> <<>>
    IN IF c.embed = "none" THEN <<>> ELSE embedded \o Embeds("link", c.links)

HandleContent(c) ==
    /\ contents < MaxContents
    /\ contents' = contents + 1
    /\ lists' = IF EmbedsOf(c) = <<>> THEN lists
                ELSE Append(lists, [repo |-> c.repo, embeds |-> EmbedsOf(c)])
    /\ posted' = posted \cup {c}
    /\ UNCHANGED <<running, followLinks, tables, thread, matches, requests,
                   refreshes>>

\* refresh_hosts, by auxiliary_data
RefreshHosts(hosts) ==
    /\ refreshes < MaxRefreshes
    /\ refreshes' = refreshes + 1
    /\ popular' = hosts
    /\ UNCHANGED <<running, followLinks, seen, lists, thread, matches, posted,
                   requests, contents>>

ShouldProcess(url) == url \in WellFormed /\ Host[url] \notin popular

-----------------------------------------------------------------------------
Is(t, pc) == thread[t].pc = pc
Become(t, next) == thread' = [thread EXCEPT ![t] = next]

\* Variant: redirectFn is bound for the first list of the thread only.
HandlerKept(th, repo) ==
    IF th.handler.repo = "none" THEN NewHandler(repo)
    ELSE [NewHandler(repo) EXCEPT !.repo = th.handler.repo]

\* Each embed has a handler of its own, and redirectFn is bound to it.
HandlerFor(th, repo) == NewHandler(repo)

\* Wait for a list without a time limit, and take the first embed.
TakeList(t) ==
    /\ Is(t, "wait") /\ lists # <<>>
    /\ Become(t, [thread[t] EXCEPT !.pc = "embed", !.list = Head(lists),
                     !.at = 1, !.handler = HandlerFor(thread[t], Head(lists).repo)])
    /\ lists' = Tail(lists)
    /\ UNCHANGED <<running, followLinks, tables, matches, posted, requests,
                   counts>>

\* The next embed of the list; a stop is noticed at its end.
NextEmbed(th) ==
    IF th.at < Len(th.list.embeds)
      THEN [th EXCEPT !.pc = "embed", !.at = @ + 1, !.url = NoUrl,
                      !.handler = HandlerFor(th, th.list.repo)]
      ELSE [th EXCEPT !.pc = IF running THEN "wait" ELSE "ended",
                      !.list = <<>>, !.at = 0, !.url = NoUrl]

Link(url) == [kind |-> "link", key |-> url]

\* The count goes up under the lock, whatever the look finds.
Sight(embed) == seen' = [seen EXCEPT ![embed] = @ + 1]

\* Variant: a link is entered only once it has been requested.
UriSeenOnRequest(url) == requests[url] > 0

UriSeen(url) == seen[Link(url)] > 0

\* image_seen, record_seen, video_seen
SeenMedia(t) ==
    /\ Is(t, "embed")
    /\ LET embed == thread[t].list.embeds[thread[t].at] IN
       embed.kind # "link" /\ Sight(embed)
    /\ Become(t, NextEmbed(thread[t]))
    /\ UNCHANGED <<running, followLinks, popular, lists, matches, posted,
                   requests, counts>>

\* operator()(external): uri_seen
SeenLink(t) ==
    /\ Is(t, "embed")
    /\ LET embed == thread[t].list.embeds[thread[t].at] IN
       /\ embed.kind = "link" /\ Sight(embed)
       /\ Become(t, IF UriSeen(embed.key) THEN NextEmbed(thread[t])
                    ELSE [thread[t] EXCEPT !.pc = "decide", !.url = embed.key])
    /\ UNCHANGED <<running, followLinks, popular, lists, matches, posted,
                   requests, counts>>

\* Variant: the condition of the redirections.
DecideLinkLikeRedirection(t) ==
    /\ Is(t, "decide")
    /\ LET th == thread[t] IN
       Become(t, IF ~ShouldProcess(th.url) /\ followLinks
                   THEN [th EXCEPT !.pc = "request", !.handler.root = th.url,
                                   !.handler.chain = <<th.url>>]
                   ELSE NextEmbed(th))
    /\ UNCHANGED <<running, followLinks, tables, lists, matches, posted,
                   requests, counts>>

\* should_process_uri and follow_links
DecideLink(t) ==
    /\ Is(t, "decide")
    /\ LET th == thread[t] IN
       Become(t, IF ShouldProcess(th.url) /\ followLinks
                   THEN [th EXCEPT !.pc = "request", !.handler.root = th.url,
                                   !.handler.chain = <<th.url>>]
                   ELSE NextEmbed(th))
    /\ UNCHANGED <<running, followLinks, tables, lists, matches, posted,
                   requests, counts>>

\* A request is one call of the HTTP client. What the client itself does
\* again, when a connection fails (maxRetries, maxIORetries), is within it.
Request(t) == requests' = [requests EXCEPT ![thread[t].url] = @ + 1]

\* Variant: an exception ends the thread, and the process goes on.
RequestEndsThread(t) ==
    /\ Is(t, "request")
    /\ Request(t)
    /\ \/ Become(t, NextEmbed(thread[t]))
       \/ Become(t, [thread[t] EXCEPT !.pc = "ended"])
    /\ UNCHANGED <<running, followLinks, tables, lists, matches, posted, counts>>

\* An answer, or any exception, the limit of redirections included: the
\* loop around the request is left after one turn.
RequestEnds(t) ==
    /\ Is(t, "request")
    /\ Request(t)
    /\ Become(t, NextEmbed(thread[t]))
    /\ UNCHANGED <<running, followLinks, tables, lists, matches, posted, counts>>

\* Variant: no limit of redirections is set.
RedirectedWithoutLimit(t, url) ==
    /\ Is(t, "request")
    /\ url \in Redirections[thread[t].url]
    /\ Request(t)
    /\ Become(t, [thread[t] EXCEPT !.pc = "redirected", !.url = url])
    /\ UNCHANGED <<running, followLinks, tables, lists, matches, posted, counts>>

RequestRedirected(t, url) ==
    /\ Is(t, "request")
    /\ url \in Redirections[thread[t].url]
    /\ Len(thread[t].handler.chain) <= UrlRedirectLimit
    /\ Request(t)
    /\ Become(t, [thread[t] EXCEPT !.pc = "redirected", !.url = url])
    /\ UNCHANGED <<running, followLinks, tables, lists, matches, posted, counts>>

\* on_url_redirect: uri_seen
SeenRedirection(t) ==
    /\ Is(t, "redirected")
    /\ Sight(Link(thread[t].url))
    /\ Become(t, IF UriSeen(thread[t].url) THEN NextEmbed(thread[t])
                 ELSE [thread[t] EXCEPT !.pc = "decide_redirect",
                          !.handler.chain = Append(@, thread[t].url)])
    /\ UNCHANGED <<running, followLinks, popular, lists, matches, posted,
                   requests, counts>>

\* Stops for a URL that ought to be processed.
GoOn(url) == ~ShouldProcess(url)

DecideRedirection(t) ==
    /\ Is(t, "decide_redirect")
    /\ LET th == thread[t]
           go == GoOn(th.url) IN
       /\ Become(t, IF go THEN [th EXCEPT !.pc = "request"] ELSE NextEmbed(th))
       /\ matches' = IF go /\ th.url \in Matched
                       THEN matches \cup {[repo |-> th.handler.repo,
                                           root |-> th.handler.root,
                                           chain |-> th.handler.chain]}
                       ELSE matches
    /\ UNCHANGED <<running, followLinks, tables, lists, posted, requests, counts>>

StopChecker ==
    /\ running
    /\ running' = FALSE
    /\ UNCHANGED <<followLinks, tables, lists, thread, matches, posted, requests,
                   counts>>

Redirected(t) == \E url \in Urls : RequestRedirected(t, url)

Step(t) ==
    \/ TakeList(t) \/ SeenMedia(t) \/ SeenLink(t) \/ DecideLink(t)
    \/ RequestEnds(t) \/ Redirected(t)
    \/ SeenRedirection(t) \/ DecideRedirection(t)

NextCheck ==
    \/ \E c \in Contents : HandleContent(c)
    \/ \E hosts \in HostTables : RefreshHosts(hosts)
    \/ \E t \in Threads : Step(t)
    \/ StopChecker

CheckerSpec == InitChecker /\ [][NextCheck]_checkerVars

\* A thread runs on, and the time limits of the client end every request.
FairSpec == CheckerSpec /\ \A t \in Threads : WF_checkerVars(Step(t))

-----------------------------------------------------------------------------
(***************************************************************************)
(* The HTTP client is not asked for a URL twice, whether posted or the     *)
(* target of a redirection, and whatever the threads do at once.           *)
(***************************************************************************)
FollowedOnce == \A url \in Urls : requests[url] <= 1

(***************************************************************************)
(* A match found behind a link is charged to an account that posted that   *)
(* link, and lies on a way of redirections that starts there.              *)
(***************************************************************************)
MatchesAttributed ==
    \A m \in matches :
        /\ \E c \in posted :
              /\ c.repo = m.repo
              /\ \E i \in DOMAIN EmbedsOf(c) : EmbedsOf(c)[i] = Link(m.root)
        /\ Len(m.chain) > 1 /\ m.chain[1] = m.root
        /\ m.chain[Len(m.chain)] \in Matched
        /\ \A i \in 1 .. (Len(m.chain) - 1) :
              m.chain[i + 1] \in Redirections[m.chain[i]]

(***************************************************************************)
(* Every list is handled in the end unless the process stops: redirections *)
(* that lead in a circle keep no thread.                                   *)
(***************************************************************************)
ListsHandled ==
    (lists # <<>> \/ \E t \in Threads : thread[t].pc \in Busy)
        ~> \/ ~running
           \/ lists = <<>> /\ \A t \in Threads : thread[t].pc \notin Busy

(***************************************************************************)
(* A link that was seen and never requested, nor is about to be, is one    *)
(* that should not be processed, now or when it was seen; or a redirection *)
(* led to it: on_url_redirect enters the link as seen, and then stops if   *)
(* it ought to be processed, so that nobody looks at it again, although    *)
(* the comment there says that the ones passed over were "already          *)
(* processed, or whitelisted". It is the only way to lose one.             *)
(***************************************************************************)
NeverPopular(url) ==
    \A hosts \in HostTables \cup {InitialHosts} : Host[url] \notin hosts

AboutToBeRequested(url) ==
    \E t \in Threads : /\ thread[t].url = url
                       /\ thread[t].pc \in {"decide", "request", "decide_redirect"}

OnlyTargetsPassedOver ==
    followLinks =>
        \A url \in WellFormed :
            UriSeen(url) /\ NeverPopular(url) =>
                \/ requests[url] > 0 \/ AboutToBeRequested(url)
                \/ \E from \in Urls : requests[from] > 0 /\ url \in Redirections[from]
=============================================================================
