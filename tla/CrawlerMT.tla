------------------------------ MODULE CrawlerMT ------------------------------
(***************************************************************************)
(* The multi-threaded crawler (main_crawler_mt.cpp): worker threads that   *)
(* share the URL frontier, the domain limiter, the robots cache, the       *)
(* pages table and the content store, and the main thread that loads the   *)
(* saved frontier, monitors the crawl, saves what is pending and stops the *)
(* workers.  The process may crash and is started again; the tables and    *)
(* the content store survive.                                              *)
(*                                                                         *)
(* The frontier is used as FrontierMT shows it to behave: add() marks a    *)
(* URL as seen and queues it in two steps, pop() takes one queued URL in   *)
(* one (it holds queue_mutex_ from its look at shutdown_ to the removal),  *)
(* and no URL is queued twice, so that the queue is a set.  Priorities and *)
(* the politeness delays only restrict the order, and are left out.        *)
(***************************************************************************)
EXTENDS Naturals, FiniteSets

CONSTANTS
  Worker, Url, Domain, DomainOf,
  Seed,           \* seed_urls
  SeedsExplicit,  \* the first seed is not the default one
  Acceptable,     \* the URLs URLFilter::is_acceptable accepts
  Disallowed,     \* the URLs the robots.txt of their domain forbids
  LinksOf,        \* the links on the page of a URL
  Content,        \* what a page's bytes hash to
  MaxPerDomain,   \* DomainLimiter::MAX_PAGES_PER_DOMAIN
  MaxPages,       \* --max-pages, 0 for no limit
  MaxFaults,      \* bound: how many calls of a service may fail
  MaxRuns,        \* bound: how often the process is started
  NoUrl, NoContent

\* What the pages table holds of a URL, as far as the crawler writes it: no row,
\* one with status 0, or one with status 200 and the hash of the content.
Row == [status : {"none", "0", "200"}, content : Content \cup {NoContent}]
NoRow == [status |-> "none", content |-> NoContent]

ASSUME CrawlerAssumption ==
  /\ DomainOf \in [Url -> Domain]
  /\ Seed \subseteq Url /\ Acceptable \subseteq Url /\ Disallowed \subseteq Url
  /\ SeedsExplicit \in BOOLEAN
  /\ LinksOf \in [Url -> SUBSET Url]
  /\ MaxPerDomain \in Nat \ {0}
  /\ MaxPages \in Nat /\ MaxFaults \in Nat /\ MaxRuns \in Nat \ {0}
  /\ IsFiniteSet(Worker) /\ Worker # {}
  /\ NoUrl \notin Url
  /\ NoContent \notin Content

VARIABLES
  \* durable
  pages,      \* the pages table, by URL
  store,      \* the keys of the content store
  saved,      \* the URLs of the frontier_state table
  \* shared by the threads
  seen,       \* the frontier's seen_
  queue,      \* the frontier's queue_
  frontierShutdown,   \* the frontier's shutdown_
  stopRequested,      \* g_shutdown_requested
  count,      \* DomainLimiter::domain_counts_
  robots,     \* RobotsCache::cache_: the domains it has an entry of,
  forbidden,  \*   and the URLs the rules of these entries forbid
  crawled,    \* the pages that stats.pages_crawled counts,
  failed,     \*   stats.pages_failed,
  filtered,   \*   and stats.pages_filtered
  \* of each worker
  pc,
  url,        \* the URL it has popped
  page,       \* the content it has fetched
  links,      \* the links it still has to add
  link,       \* the link it has marked as seen and not yet queued
  \* of the main thread
  mainPc,
  loaded,     \* what load_frontier returned
  pending,    \* what export_pending returned
  \* bounds
  faults, runs

durable == <<pages, store, saved>>
frontier == <<seen, queue, frontierShutdown>>
stats == <<crawled, failed, filtered>>
worker == <<pc, url, page, links, link>>
main == <<mainPc, loaded, pending>>
shared == <<stopRequested, count, robots, forbidden>>
bounds == <<faults, runs>>
vars == <<durable, frontier, stats, worker, main, shared, bounds>>

Step == {"off", "loop", "pop", "filter", "limit", "robots", "fetch", "lost",
         "store", "record", "count", "links", "push", "exit"}

MainStep == {"load", "clear", "seeds", "running", "empty", "export", "save",
             "stop", "join", "stopped"}


Goto(w, step) == pc' = [pc EXCEPT ![w] = step]
MainGoto(step) == mainPc' = step

DomainUrls(d) == {u \in Url : DomainOf[u] = d}

\* A call of a service fails, within the bound.
Fault == faults < MaxFaults /\ faults' = faults + 1

-----------------------------------------------------------------------------
\* What a process starts with: empty structures, no worker thread yet.
Started ==
  /\ seen = {} /\ queue = {} /\ frontierShutdown = FALSE
  /\ stopRequested = FALSE
  /\ count = [d \in Domain |-> 0]
  /\ robots = {} /\ forbidden = {}
  /\ crawled = {} /\ failed = {} /\ filtered = {}
  /\ pc = [w \in Worker |-> "off"]
  /\ url = [w \in Worker |-> NoUrl]
  /\ page = [w \in Worker |-> NoContent]
  /\ links = [w \in Worker |-> {}]
  /\ link = [w \in Worker |-> NoUrl]
  /\ mainPc = "load" /\ loaded = {} /\ pending = {}

Init ==
  /\ pages = [u \in Url |-> NoRow]
  /\ store = {}
  /\ saved = {}
  /\ Started
  /\ faults = 0 /\ runs = 1

-----------------------------------------------------------------------------
(* crawler_worker.                                                         *)

\* while (!g_shutdown_requested && !frontier.is_shutdown())
Loop(w) ==
  /\ pc[w] = "loop"
  /\ Goto(w, IF stopRequested \/ frontierShutdown THEN "exit" ELSE "pop")
  /\ url' = [url EXCEPT ![w] = NoUrl]
  /\ page' = [page EXCEPT ![w] = NoContent]
  /\ UNCHANGED <<links, link, durable, frontier, stats, main, shared, bounds>>

PopTake(w) ==
  /\ pc[w] = "pop"
  /\ ~frontierShutdown
  /\ \E u \in queue : /\ queue' = queue \ {u}
                      /\ url' = [url EXCEPT ![w] = u]
  /\ Goto(w, "filter")
  /\ UNCHANGED <<page, links, link, seen, frontierShutdown, durable, stats, main,
                 shared, bounds>>

PopNull(w) ==
  /\ pc[w] = "pop"
  /\ frontierShutdown
  /\ Goto(w, "exit")
  /\ UNCHANGED <<url, page, links, link, durable, frontier, stats, main, shared, bounds>>

\* stats.pages_filtered++; continue
Filtered(w) == /\ filtered' = filtered \cup {url[w]}
               /\ Goto(w, "loop")

\* stats.pages_failed++; continue
Failed(w) == /\ failed' = failed \cup {url[w]}
             /\ Goto(w, "loop")

Filter(w) ==
  /\ pc[w] = "filter"
  /\ \/ url[w] \in Acceptable /\ Goto(w, "limit") /\ UNCHANGED filtered
     \/ url[w] \notin Acceptable /\ Filtered(w)
  /\ UNCHANGED <<url, page, links, link, crawled, failed, durable, frontier, main,
                 shared, bounds>>

\* Mutant: the limit is compared with <= instead of <.
CheckDomainLimitOffByOne(w) ==
  /\ pc[w] = "limit"
  /\ LET room == count[DomainOf[url[w]]] <= MaxPerDomain IN
       \/ room /\ Goto(w, "robots") /\ UNCHANGED filtered
       \/ ~room /\ Filtered(w)
  /\ UNCHANGED <<url, page, links, link, crawled, failed, durable, frontier, main,
                 shared, bounds>>

\* domain_limiter.can_crawl: the count is read here and raised only after the
\* page has been stored, in another critical section.
CheckDomainLimit(w) ==
  /\ pc[w] = "limit"
  /\ LET room == count[DomainOf[url[w]]] < MaxPerDomain IN
       \/ room /\ Goto(w, "robots") /\ UNCHANGED filtered
       \/ ~room /\ Filtered(w)
  /\ UNCHANGED <<url, page, links, link, crawled, failed, durable, frontier, main,
                 shared, bounds>>

\* Mutant: the page that triggers the download of robots.txt is not checked
\* against the rules just downloaded.
CheckRobotsFirstUnchecked(w) ==
  LET d == DomainOf[url[w]] IN
  /\ pc[w] = "robots"
  /\ \/ /\ d \notin robots
        /\ robots' = robots \cup {d}
        /\ forbidden' = forbidden \cup (Disallowed \cap DomainUrls(d))
        /\ Goto(w, "fetch")
        /\ UNCHANGED filtered
     \/ /\ d \in robots
        /\ \/ url[w] \in forbidden /\ Filtered(w)
           \/ url[w] \notin forbidden /\ Goto(w, "fetch") /\ UNCHANGED filtered
        /\ UNCHANGED <<robots, forbidden>>
  /\ UNCHANGED <<url, page, links, link, crawled, failed, durable, frontier, main,
                 stopRequested, count, bounds>>

\* robots_cache.is_allowed, which holds its mutex while it downloads the
\* robots.txt of a new domain.  A failed download leaves an entry without
\* rules, for the rest of the run.
CheckRobots(w) ==
  LET d == DomainOf[url[w]] IN
  /\ pc[w] = "robots"
  /\ \/ d \in robots /\ UNCHANGED <<forbidden, faults>>
     \/ /\ d \notin robots
        /\ \/ /\ forbidden' = forbidden \cup (Disallowed \cap DomainUrls(d))
              /\ UNCHANGED faults
           \/ UNCHANGED forbidden /\ Fault
  /\ robots' = robots \cup {d}
  /\ \/ url[w] \in forbidden' /\ Filtered(w)
     \/ url[w] \notin forbidden' /\ Goto(w, "fetch") /\ UNCHANGED filtered
  /\ UNCHANGED <<url, page, links, link, crawled, failed, durable, frontier, main,
                 stopRequested, count, runs>>

\* fetcher.fetch, all its retries included.  A failure, or an empty page, is
\* counted before it is recorded.
Fetch(w) ==
  /\ pc[w] = "fetch"
  /\ \/ /\ \E c \in Content : page' = [page EXCEPT ![w] = c]
        /\ Goto(w, "store")
        /\ UNCHANGED <<failed, faults>>
     \/ /\ Fault
        /\ failed' = failed \cup {url[w]}
        /\ Goto(w, "lost")
        /\ UNCHANGED page
  /\ UNCHANGED <<url, links, link, crawled, filtered, durable, frontier, main,
                 shared, runs>>

\* The failure is recorded with status 0, over whatever the row held; whether
\* the database took it is not looked at.
RecordFailure(w) ==
  /\ pc[w] = "lost"
  /\ \/ /\ pages' = [pages EXCEPT ![url[w]] = [status |-> "0", content |-> NoContent]]
        /\ UNCHANGED faults
     \/ Fault /\ UNCHANGED pages
  /\ Goto(w, "loop")
  /\ UNCHANGED <<url, page, links, link, store, saved, frontier, stats, main, shared,
                 runs>>

\* Mutant: the page goes on although the content store refused it.
StoreContentUnchecked(w) ==
  /\ pc[w] = "store"
  /\ \/ store' = store \cup {page[w]} /\ UNCHANGED faults
     \/ Fault /\ UNCHANGED store
  /\ Goto(w, "record")
  /\ UNCHANGED <<failed, url, page, links, link, pages, saved, crawled, filtered,
                 frontier, main, shared, runs>>

\* s3.put
StoreContent(w) ==
  /\ pc[w] = "store"
  /\ \/ /\ store' = store \cup {page[w]}
        /\ Goto(w, "record")
        /\ UNCHANGED <<failed, faults>>
     \/ Fault /\ Failed(w) /\ UNCHANGED store
  /\ UNCHANGED <<url, page, links, link, pages, saved, crawled, filtered, frontier,
                 main, shared, runs>>

\* Mutant: a failed database call goes back to the loop uncounted.
RecordPageUncounted(w) ==
  /\ pc[w] = "record"
  /\ \/ /\ pages' = [pages EXCEPT ![url[w]] = [status |-> "200", content |-> page[w]]]
        /\ Goto(w, "count")
        /\ UNCHANGED faults
     \/ Fault /\ Goto(w, "loop") /\ UNCHANGED pages
  /\ UNCHANGED <<failed, url, page, links, link, store, saved, crawled, filtered,
                 frontier, main, shared, runs>>

\* db.mark_crawled(url, 200, ...).  The workers share one connection, on which
\* overlapping transactions fail too.
RecordPage(w) ==
  /\ pc[w] = "record"
  /\ \/ /\ pages' = [pages EXCEPT ![url[w]] = [status |-> "200", content |-> page[w]]]
        /\ Goto(w, "count")
        /\ UNCHANGED <<failed, faults>>
     \/ Fault /\ Failed(w) /\ UNCHANGED pages
  /\ UNCHANGED <<url, page, links, link, store, saved, crawled, filtered, frontier,
                 main, shared, runs>>

\* domain_limiter.record_crawl, then the links of the page are filtered.
RecordCrawl(w) ==
  /\ pc[w] = "count"
  /\ count' = [count EXCEPT ![DomainOf[url[w]]] = @ + 1]
  /\ links' = [links EXCEPT ![w] = LinksOf[url[w]] \cap Acceptable]
  /\ Goto(w, "links")
  /\ UNCHANGED <<url, page, link, stopRequested, robots, forbidden, durable, frontier, stats,
                 main, bounds>>

\* add(): a link that is already in seen_ is rejected.
AddDuplicate(w) ==
  /\ pc[w] = "links"
  /\ \E u \in links[w] \cap seen : links' = [links EXCEPT ![w] = @ \ {u}]
  /\ UNCHANGED <<pc, url, page, link, durable, frontier, stats, main, shared, bounds>>

AddSeen(w) ==
  /\ pc[w] = "links"
  /\ \E u \in links[w] \ seen : /\ seen' = seen \cup {u}
                                /\ link' = [link EXCEPT ![w] = u]
                                /\ links' = [links EXCEPT ![w] = @ \ {u}]
  /\ Goto(w, "push")
  /\ UNCHANGED <<url, page, queue, frontierShutdown, durable, stats, main, shared, bounds>>

\* Mutant: the URL is moved from before it is queued.
AddPushMovedFrom(w) ==
  /\ pc[w] = "push"
  /\ link' = [link EXCEPT ![w] = NoUrl]
  /\ queue' = queue \cup {link'[w]}
  /\ Goto(w, "links")
  /\ UNCHANGED <<url, page, links, seen, frontierShutdown, durable, stats, main,
                 shared, bounds>>

AddPush(w) ==
  /\ pc[w] = "push"
  /\ queue' = queue \cup {link[w]}
  /\ link' = [link EXCEPT ![w] = NoUrl]
  /\ Goto(w, "links")
  /\ UNCHANGED <<url, page, links, seen, frontierShutdown, durable, stats, main,
                 shared, bounds>>

\* stats.pages_crawled++ ends the iteration.
PageDone(w) ==
  /\ pc[w] = "links"
  /\ links[w] = {}
  /\ crawled' = crawled \cup {url[w]}
  /\ Goto(w, "loop")
  /\ UNCHANGED <<url, page, links, link, failed, filtered, durable, frontier, main,
                 shared, bounds>>

-----------------------------------------------------------------------------
(* The main thread.                                                        *)

\* Mutant: the table is cleared before it is read.
LoadFrontierAfterClear ==
  /\ mainPc = "load"
  /\ loaded' = {} /\ saved' = {}
  /\ MainGoto("seeds")
  /\ UNCHANGED <<pages, store, faults, seen, queue, pending, frontierShutdown, stats,
                 worker, shared, runs>>

\* db.load_frontier, which answers an error with the entries read so far, mostly
\* none, and import_urls.
LoadFrontier ==
  /\ mainPc = "load"
  /\ \/ loaded' = saved /\ UNCHANGED faults
     \/ loaded' \in SUBSET saved /\ Fault
  /\ seen' = loaded' /\ queue' = loaded'
  /\ MainGoto(IF loaded' = {} THEN "seeds" ELSE "clear")
  /\ UNCHANGED <<pending, frontierShutdown, durable, stats, worker, shared, runs>>

\* db.clear_frontier; its result is not looked at.
ClearFrontier ==
  /\ mainPc = "clear"
  /\ \/ saved' = {} /\ UNCHANGED faults
     \/ Fault /\ UNCHANGED saved
  /\ MainGoto("seeds")
  /\ UNCHANGED <<loaded, pending, pages, store, frontier, stats, worker, shared, runs>>

\* Seeds given by the user are always added, the default ones only to a crawl
\* that is not resumed; then the workers start.
AddSeeds ==
  /\ mainPc = "seeds"
  /\ LET new == IF SeedsExplicit \/ loaded = {} THEN Seed \ seen ELSE {} IN
       /\ seen' = seen \cup new
       /\ queue' = queue \cup new
  /\ pc' = [w \in Worker |-> "loop"]
  /\ MainGoto("running")
  /\ UNCHANGED <<loaded, pending, url, page, links, link, frontierShutdown, durable,
                 stats, shared, bounds>>

\* One round of the monitor, every 30 seconds.  It shuts the frontier down when
\* enough pages are counted ...
MonitorMaxPages ==
  /\ mainPc = "running"
  /\ ~stopRequested
  /\ MaxPages > 0 /\ Cardinality(crawled) >= MaxPages
  /\ frontierShutdown' = TRUE
  /\ MainGoto("export")
  /\ UNCHANGED <<loaded, pending, seen, queue, durable, stats, worker, shared, bounds>>

\* ... or when no URL is queued, and then a page has been counted: two looks,
\* with the workers running before, between and after them.
MonitorEmpty ==
  /\ mainPc = "running"
  /\ ~stopRequested
  /\ queue = {}
  /\ MainGoto("empty")
  /\ UNCHANGED <<loaded, pending, durable, frontier, stats, worker, shared, bounds>>

MonitorCrawled ==
  /\ mainPc = "empty"
  /\ \/ /\ crawled # {}
        /\ frontierShutdown' = TRUE
        /\ MainGoto("export")
     \/ /\ crawled = {}
        /\ MainGoto("running")
        /\ UNCHANGED frontierShutdown
  /\ UNCHANGED <<loaded, pending, seen, queue, durable, stats, worker, shared, bounds>>

\* SIGINT or SIGTERM, at any time once the handler is installed.
Signal ==
  /\ mainPc # "stopped" /\ ~stopRequested
  /\ stopRequested' = TRUE
  /\ UNCHANGED <<count, robots, forbidden, durable, frontier, stats, worker, main, bounds>>

MonitorStops ==
  /\ mainPc = "running"
  /\ stopRequested
  /\ MainGoto("export")
  /\ UNCHANGED <<loaded, pending, durable, frontier, stats, worker, shared, bounds>>

\* frontier.export_pending: a copy of the queue.  The workers are running.
ExportPending ==
  /\ mainPc = "export"
  /\ pending' = queue
  /\ MainGoto(IF queue = {} THEN "stop" ELSE "save")
  /\ UNCHANGED <<loaded, durable, frontier, stats, worker, shared, bounds>>

\* db.save_frontier: TRUNCATE and the INSERTs are one transaction.
SaveFrontier ==
  /\ mainPc = "save"
  /\ \/ saved' = pending /\ UNCHANGED faults
     \/ Fault /\ UNCHANGED saved
  /\ MainGoto("stop")
  /\ UNCHANGED <<loaded, pending, pages, store, frontier, stats, worker, shared, runs>>

\* frontier.shutdown()
ShutdownFrontier ==
  /\ mainPc = "stop"
  /\ frontierShutdown' = TRUE
  /\ MainGoto("join")
  /\ UNCHANGED <<loaded, pending, seen, queue, durable, stats, worker, shared, bounds>>

JoinWorkers ==
  /\ mainPc = "join"
  /\ \A w \in Worker : pc[w] = "exit"
  /\ MainGoto("stopped")
  /\ UNCHANGED <<loaded, pending, durable, frontier, stats, worker, shared, bounds>>

\* The process crashes, or has stopped, and is started again.
Restart ==
  /\ runs < MaxRuns
  /\ runs' = runs + 1
  /\ seen' = {} /\ queue' = {} /\ frontierShutdown' = FALSE
  /\ stopRequested' = FALSE
  /\ count' = [d \in Domain |-> 0]
  /\ robots' = {} /\ forbidden' = {}
  /\ crawled' = {} /\ failed' = {} /\ filtered' = {}
  /\ pc' = [w \in Worker |-> "off"]
  /\ url' = [w \in Worker |-> NoUrl]
  /\ page' = [w \in Worker |-> NoContent]
  /\ links' = [w \in Worker |-> {}]
  /\ link' = [w \in Worker |-> NoUrl]
  /\ mainPc' = "load" /\ loaded' = {} /\ pending' = {}
  /\ UNCHANGED <<durable, faults>>

\* The process has ended and nobody starts it again.
Ended == /\ mainPc = "stopped" /\ runs = MaxRuns
         /\ UNCHANGED vars

WorkerNext(w) ==
  \/ Loop(w) \/ PopTake(w) \/ PopNull(w)
  \/ Filter(w) \/ CheckDomainLimit(w) \/ CheckRobots(w)
  \/ Fetch(w) \/ RecordFailure(w) \/ StoreContent(w) \/ RecordPage(w)
  \/ RecordCrawl(w) \/ AddDuplicate(w) \/ AddSeen(w) \/ AddPush(w) \/ PageDone(w)

MainNext ==
  \/ LoadFrontier \/ ClearFrontier \/ AddSeeds
  \/ MonitorMaxPages \/ MonitorEmpty \/ MonitorCrawled \/ MonitorStops \/ ExportPending \/ SaveFrontier
  \/ ShutdownFrontier \/ JoinWorkers

Next ==
  \/ \E w \in Worker : WorkerNext(w)
  \/ MainNext
  \/ Signal \/ Restart \/ Ended

Spec == Init /\ [][Next]_vars

-----------------------------------------------------------------------------
(* Properties.                                                             *)

\* Every variable has its type.
TypeOK ==
  /\ pages \in [Url -> Row]
  /\ store \in SUBSET Content
  /\ saved \in SUBSET Url
  /\ seen \in SUBSET Url /\ queue \in SUBSET Url
  /\ frontierShutdown \in BOOLEAN /\ stopRequested \in BOOLEAN
  /\ count \in [Domain -> Nat]
  /\ robots \in SUBSET Domain /\ forbidden \in SUBSET Url
  /\ crawled \in SUBSET Url /\ failed \in SUBSET Url /\ filtered \in SUBSET Url
  /\ pc \in [Worker -> Step]
  /\ url \in [Worker -> Url \cup {NoUrl}]
  /\ page \in [Worker -> Content \cup {NoContent}]
  /\ links \in [Worker -> SUBSET Url]
  /\ link \in [Worker -> Url \cup {NoUrl}]
  /\ mainPc \in MainStep
  /\ loaded \in SUBSET Url /\ pending \in SUBSET Url
  /\ faults \in Nat /\ runs \in Nat

\* The steps in which a worker has a popped URL that no statistic counts yet.
Busy == {"filter", "limit", "robots", "fetch", "store", "record", "count", "links",
         "push"}

\* The URLs popped and not yet counted, and those between seen_ and queue_.
InHand == {url[w] : w \in {v \in Worker : pc[v] \in Busy}}
Arriving == {link[w] : w \in {v \in Worker : pc[v] = "push"}}

Disjoint(S, T) == S \cap T = {}

\* In every run, whatever fails, each URL the crawl has seen is in exactly one
\* place: queued, arriving in the queue, in the hands of one worker, or
\* counted once as crawled, failed or filtered.  No error path of the worker
\* loop forgets a URL or counts it twice.
EveryUrlAccounted ==
  /\ seen = queue \cup Arriving \cup InHand \cup crawled \cup failed \cup filtered
  /\ Disjoint(queue, Arriving)
  /\ Disjoint(queue \cup Arriving, InHand)
  /\ Disjoint(queue \cup Arriving \cup InHand, crawled \cup failed \cup filtered)
  /\ Disjoint(crawled, failed) /\ Disjoint(crawled \cup failed, filtered)
  /\ \A v, w \in Worker : v # w /\ pc[v] \in Busy /\ pc[w] \in Busy
                            => url[v] # url[w]
  /\ \A v, w \in Worker : v # w /\ pc[v] = "push" /\ pc[w] = "push"
                            => link[v] # link[w]

\* A row with status 200, which the indexer will pick up, has its content in
\* the content store: across the failure of either write, and a crash between
\* the two.
StoredBeforeRecorded ==
  \A u \in Url : pages[u].status = "200" => pages[u].content \in store

\* can_crawl and record_crawl are separate critical sections with the whole
\* download between them, so that the limit can be exceeded, but by no more
\* than the other workers that were past the check.
DomainOverrunBounded ==
  \A d \in Domain : count[d] <= MaxPerDomain + Cardinality(Worker) - 1

\* A worker downloads and stores a page only if the robots.txt rules cached for
\* its domain, whoever downloaded them, allow it.
RobotsRespected ==
  \A w \in Worker : pc[w] \in {"fetch", "lost", "store", "record", "count"} =>
    DomainOf[url[w]] \in robots /\ url[w] \notin forbidden

\* The saved URLs that leave the table are in the frontier, except those that a
\* load which failed has not read.
DroppedAreSeen ==
  \A u \in saved \ saved' :
    u \in seen \/ (faults > 0 /\ u \notin loaded /\ mainPc \in {"clear", "save"})

\* A saved URL leaves the table only for the frontier of a running crawl, be it
\* after a crash; when the load has failed, what it did not read is lost with
\* the clear that follows, or when the crawl saves its own frontier.
SavedUrlReloaded == [][DroppedAreSeen]_vars

\* After an orderly stop each URL of the crawl has been dealt with or is saved
\* ("Frontier saved successfully - crawl can be resumed").
StopKeepsFrontier ==
  mainPc = "stopped" => seen \subseteq crawled \cup failed \cup filtered \cup saved
=============================================================================
