------------------------------ MODULE CrawlerST ------------------------------
(***************************************************************************)
(* The single-threaded crawler (main_crawler.cpp) over its frontier        *)
(* (FrontierST), its robots parser (Robots) and its fetcher, whose retries *)
(* are steps of their own.  The signal handler and the clock run beside it.*)
(***************************************************************************)
EXTENDS FrontierST, FiniteSets, Sequences

CONSTANTS
  Agent, RulePath, Length, Starts,  \* of Robots
  Bot,         \* user_agent_, as get_matching_rules looks for it
  HostOf,      \* get_domain, the host of a URL with its port
  Seeds,       \* load_seed_urls
  LinksOf,     \* extract_links, of the page of a URL
  RobotsFiles, \* the files that may be the robots.txt of a host
  MaxPages,    \* max_pages
  MaxRetries,  \* max_retries of the fetcher
  MaxAge,      \* bound: the time that is told apart, no less than any delay
  NoUrl

R == INSTANCE Robots

ASSUME CrawlerSTAssumption ==
  /\ IsFiniteSet(Url)
  /\ {"*", Bot} \subseteq Agent /\ Length \in [RulePath -> Nat]
  /\ Starts \subseteq RulePath \X Url
  /\ HostOf \in [Url -> Domain] /\ Seeds \subseteq Url /\ LinksOf \in [Url -> SUBSET Url]
  /\ MaxPages \in Nat \ {0} /\ MaxRetries \in Nat /\ MaxAge \in Nat
  /\ RobotsFiles \in [Domain -> SUBSET Seq(R!Line)]
  /\ DefaultDelay <= MaxAge
  /\ \A h \in Domain : \A f \in RobotsFiles[h] : R!DelayOf(f, Bot) <= MaxAge
  /\ NoUrl \notin Url

VARIABLES
  \* the robots parser
  rules,       \* rules_
  cache,       \* domain_cache_, {} or the set of the host's rules
  \* the fetcher
  attempt, content,  \* how many attempts the content has data of
  \* run() and crawl_url()
  pc, url, stop, crawled, failed,
  \* the content store and the pages table
  stored, recorded,  \* stored, like content
  \* history
  ready,       \* the entries that were due when get_next was called
  age,         \* the time since the last URL of a domain was taken
  paced,       \* the domains whose delay was set when it was
  file,        \* the robots.txt that was downloaded from a host, {} or its set
  downloaded,  \* the URLs that the crawler has asked for
  blocked      \* the URLs that it has not, because of robots.txt

robots == <<rules, cache>>
fetch == <<attempt, content>>
result == <<crawled, failed, stored, recorded>>
history == <<ready, age, paced, file, downloaded, blocked>>
vars == <<frontier, robots, fetch, pc, url, stop, result, history>>

Pages == Cardinality(crawled)

Host == HostOf[url]

-----------------------------------------------------------------------------
Init ==
  /\ queue = [e \in Entry |-> IF e.url \in Seeds /\ e.priority = SEED THEN 1 ELSE 0]
  /\ seen = Seeds
  /\ skipped = NoEntries
  /\ wait = [d \in Domain |-> 0] /\ crawlDelay = [d \in Domain |-> -1]
  /\ rules = R!NoGroups /\ cache = [d \in Domain |-> {}]
  /\ attempt = 0 /\ content = 0
  /\ pc = "loop" /\ url = NoUrl /\ stop = FALSE /\ crawled = {} /\ failed = {}
  /\ stored = [u \in Url |-> 0] /\ recorded = {}
  /\ ready = {} /\ age = [d \in Domain |-> 0] /\ paced = {}
  /\ file = [d \in Domain |-> {}]
  /\ downloaded = {} /\ blocked = {}

\* The head of the loop of run().
Loop ==
  /\ pc = "loop"
  /\ IF stop \/ Pages >= MaxPages
       THEN pc' = "stopped" /\ UNCHANGED ready
       ELSE /\ pc' = "next"
            /\ ready' = {e \in Entry : queue[e] > 0 /\ CanCrawlDomain(DomainOf[e.url])}
  /\ UNCHANGED <<frontier, robots, fetch, url, stop, result, age, paced, file, downloaded,
                 blocked>>

PassEntry ==
  /\ pc = "next"
  /\ \E e \in Entry : GetNextSkip(e)
  /\ UNCHANGED <<robots, fetch, pc, url, stop, result, history>>

TakeEntry ==
  /\ pc = "next"
  /\ \E e \in Entry :
       LET d == DomainOf[e.url] IN
       /\ GetNextTake(e)
       /\ url' = e.url
       /\ age' = [age EXCEPT ![d] = 0]
       /\ paced' = IF crawlDelay[d] >= 0 THEN paced \cup {d} ELSE paced
  /\ pc' = "robots"
  /\ ready' = {}
  /\ UNCHANGED <<robots, fetch, stop, result, file, downloaded, blocked>>

\* Without a URL run() ends if the frontier is empty, and else sleeps.
NoEntry ==
  /\ pc = "next"
  /\ GetNextNone
  /\ pc' = IF skipped = NoEntries THEN "stopped" ELSE "loop"
  /\ ready' = {}
  /\ UNCHANGED <<robots, fetch, url, stop, result, age, paced, file, downloaded, blocked>>

\* Mutant: the rules of a cached host are not loaded.
RobotsCachedStale ==
  /\ pc = "robots" /\ cache[Host] # {}
  /\ pc' = "check"
  /\ UNCHANGED <<frontier, robots, fetch, url, stop, result, history>>

\* RobotsParser::fetch loads the rules of a host from its cache, or downloads
\* its robots.txt.
RobotsCached ==
  /\ pc = "robots" /\ cache[Host] # {}
  /\ rules' = CHOOSE g \in cache[Host] : TRUE
  /\ pc' = "check"
  /\ UNCHANGED <<frontier, cache, fetch, url, stop, result, history>>

RobotsMissing ==
  /\ pc = "robots" /\ cache[Host] = {}
  /\ pc' = "getRobots"
  /\ UNCHANGED <<frontier, robots, fetch, url, stop, result, history>>

\* Mutant: an attempt does not clear the content.
ClearedNot == content

\* content.clear() at the head of an attempt.
Cleared == 0

\* Mutant: the attempts are not counted.
FetchRetriesForEver ==
  /\ pc \in {"getRobots", "getPage"}
  /\ content' \in {Cleared, Cleared + 1}
  /\ UNCHANGED <<attempt, frontier, robots, pc, url, stop, result, history>>

\* One turn of the loop of HTTPFetcher::fetch that is tried again: a network
\* error, a timeout or a server error.  Data may have come before.
FetchRetries ==
  /\ pc \in {"getRobots", "getPage"}
  /\ attempt < MaxRetries
  /\ content' \in {Cleared, Cleared + 1}
  /\ attempt' = attempt + 1
  /\ UNCHANGED <<frontier, robots, pc, url, stop, result, history>>

\* The last turn, an answer or a final error, and what the caller does: here
\* RobotsParser::fetch.  A robots.txt that could not be downloaded forbids
\* nothing, for good.
RobotsFetched(success) ==
  /\ pc = "getRobots"
  /\ \/ success /\ \E f \in RobotsFiles[Host] : /\ rules' = R!Parse(f)
                                       /\ file' = [file EXCEPT ![Host] = {f}]
     \/ ~success /\ rules' = R!NoGroups /\ UNCHANGED file
  /\ cache' = [cache EXCEPT ![Host] = {rules'}]
  /\ attempt' = 0 /\ content' = 0
  /\ pc' = "check"
  /\ UNCHANGED <<frontier, url, stop, result, ready, age, paced, downloaded, blocked>>

Blocked ==
  /\ pc = "check" /\ ~R!IsAllowed(rules, Bot, url)
  /\ failed' = failed \cup {url} /\ blocked' = blocked \cup {url}
  /\ url' = NoUrl /\ pc' = "loop"
  /\ UNCHANGED <<frontier, robots, fetch, stop, crawled, stored, recorded, ready, age, paced,
                 file, downloaded>>

\* The delay is set for the host with its port; get_crawl_delay_for finds the
\* rules in the cache again.
Allowed ==
  LET delay == R!GetCrawlDelay(rules, Bot) IN
  /\ pc = "check" /\ R!IsAllowed(rules, Bot, url)
  /\ SetCrawlDelay(Host, IF delay <= 0 THEN DefaultDelay ELSE delay)
  /\ downloaded' = downloaded \cup {url}
  /\ pc' = "getPage"
  /\ UNCHANGED <<robots, fetch, url, stop, result, ready, age, paced, file, blocked>>

PageFetched ==
  /\ pc = "getPage"
  /\ content' = Cleared + 1 /\ attempt' = 0
  /\ pc' = "store"
  /\ UNCHANGED <<frontier, robots, url, stop, result, history>>

PageFailed ==
  /\ pc = "getPage"
  /\ content' = 0 /\ attempt' = 0
  /\ failed' = failed \cup {url}
  /\ url' = NoUrl /\ pc' = "loop"
  /\ UNCHANGED <<frontier, robots, stop, crawled, stored, recorded, history>>

\* put and upsert_page may each fail; crawl_url goes on.
StoreContent ==
  /\ pc = "store"
  /\ stored' \in {stored, [stored EXCEPT ![url] = content]}
  /\ pc' = "record"
  /\ UNCHANGED <<frontier, robots, fetch, url, stop, crawled, failed, recorded, history>>

UpsertPage ==
  /\ pc = "record"
  /\ recorded' \in {recorded, recorded \cup {url}}
  /\ pc' = "links"
  /\ UNCHANGED <<frontier, robots, fetch, url, stop, crawled, failed, stored, history>>

AddLinks ==
  /\ pc = "links"
  /\ Add(LinksOf[url], NORMAL)
  /\ content' = 0
  /\ crawled' = crawled \cup {url}
  /\ url' = NoUrl /\ pc' = "loop"
  /\ UNCHANGED <<robots, attempt, stop, failed, stored, recorded, history>>

Signal ==
  /\ ~stop /\ pc # "stopped"
  /\ stop' = TRUE
  /\ UNCHANGED <<frontier, robots, fetch, pc, url, result, history>>

Tick ==
  /\ pc # "stopped"
  /\ Second
  /\ age' = [d \in Domain |-> IF age[d] < MaxAge THEN age[d] + 1 ELSE MaxAge]
  /\ UNCHANGED <<robots, fetch, pc, url, stop, result, ready, paced, file, downloaded,
                 blocked>>

Stopped == pc = "stopped" /\ UNCHANGED vars

Main ==
  \/ Loop \/ PassEntry \/ TakeEntry \/ NoEntry
  \/ RobotsCached \/ RobotsMissing \/ Blocked \/ Allowed
  \/ FetchRetries \/ RobotsFetched(TRUE) \/ RobotsFetched(FALSE)
  \/ PageFetched \/ PageFailed \/ StoreContent \/ UpsertPage \/ AddLinks

Next == Main \/ Signal \/ Tick \/ Stopped

\* The crawler is one running thread, and time passes.
Spec == Init /\ [][Next]_vars /\ WF_vars(Main) /\ WF_vars(Tick)

-----------------------------------------------------------------------------
(* Properties.                                                             *)

Step == {"loop", "next", "robots", "getRobots", "check", "getPage", "store", "record",
         "links", "stopped"}

\* Every variable has its type; in particular no entry is queued twice, and the
\* attempts of a fetch stay within their bound.
TypeOK ==
  /\ queue \in [Entry -> 0..1] /\ skipped \in [Entry -> 0..1]
  /\ seen \subseteq Url
  /\ wait \in [Domain -> Nat] /\ crawlDelay \in [Domain -> Nat \cup {-1}]
  /\ attempt \in 0..MaxRetries /\ content \in 0..(MaxRetries + 1)
  /\ pc \in Step /\ url \in Url \cup {NoUrl} /\ stop \in BOOLEAN
  /\ crawled \subseteq Url /\ failed \subseteq Url /\ recorded \subseteq Url
  /\ stored \in [Url -> 0..(MaxRetries + 1)]

Entries(q, u) == q[[url |-> u, priority |-> SEED]] + q[[url |-> u, priority |-> NORMAL]]

Once(b) == IF b THEN 1 ELSE 0

\* A URL that was ever added is in exactly one place: queued, passed over by the
\* running get_next, worked on, crawled, or failed.  get_next takes entries out
\* of the queue to look behind them.
EveryUrlAccounted ==
  \A u \in Url :
    Entries(queue, u) + Entries(skipped, u)
      + Once(url = u) + Once(u \in crawled) + Once(u \in failed) = Once(u \in seen)

\* get_next returns an entry at least as good as every one that was due when it
\* was called, although it takes entries out and time goes on meanwhile.
BestDueFirst ==
  [][TakeEntry => \A e \in ready :
       \E f \in Entry : /\ f.url = url' /\ queue[f] > 0
                        /\ f.priority <= e.priority]_vars

\* The delay that a host's robots.txt asks for, as far as the crawler knows it.
Wanted(d) ==
  IF \E f \in file[d] : R!DelayOf(f, Bot) > 0
    THEN R!DelayOf(CHOOSE f \in file[d] : TRUE, Bot) ELSE DefaultDelay

\* Once its delay was set, the next two URLs of a domain are taken as far apart
\* as its robots.txt asks for.  (Before that, the default applies: get_next
\* starts the delay before crawl_url knows it.)
CrawlDelayKept ==
  [][TakeEntry => LET d == DomainOf[url'] IN d \in paced => age[d] >= Wanted(d)]_vars

\* What the parser makes of each robots.txt allows what the file does not forbid.
RobotsAgree ==
  \A h \in Domain : \A f \in RobotsFiles[h], u \in Url :
    R!IsAllowed(R!Parse(f), Bot, u) <=> ~R!Forbids(f, Bot, u)

\* The crawler asks for exactly the URLs that the robots.txt of their host, if
\* it could be downloaded, does not forbid: grouped user-agent lines, the
\* longest match, the cache and rules_ of the last host all agree with what the
\* file says.
RobotsRespected ==
  /\ \A u \in downloaded : \A f \in file[HostOf[u]] : ~R!Forbids(f, Bot, u)
  /\ \A u \in blocked : \E f \in file[HostOf[u]] : R!Forbids(f, Bot, u)

\* What is stored of a page is the content of one response, whatever attempts
\* have failed before.
StoredIsOneResponse == \A u \in Url : stored[u] <= 1

Waits(u) == Entries(queue, u) + Entries(skipped, u) > 0

\* A queued URL is taken in the end, unless the crawler stops: neither a delay,
\* nor a better URL, nor a failing server keeps it waiting for ever.
QueuedGetsTaken ==
  \A u \in Url : Waits(u) ~> ~Waits(u) \/ stop \/ Pages >= MaxPages
=============================================================================
