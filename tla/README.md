# BloomSearch in TLA+

TLA+ modules for BloomSearch, a search engine in C++: a crawler, an indexer and
a query engine that work on PostgreSQL, an S3 content store and RocksDB. This
directory models the parts whose correctness depends on the order of steps
(threads, calls that fail, crashes) and what becomes of a URL, a text and a date on
their way through them, model-checks them with TLC and proves the most important
invariants with TLAPS. Source paths are relative to the
repository.

## 1. The system

| component | source | state | operations |
|---|---|---|---|
| URL frontier (MT) | `src/crawler/url_frontier_mt.cpp` | `queue_`, `seen_`, `domain_delays_`, `domain_last_access_`, `shutdown_`; three mutexes and a condition variable | `add`, `add_batch`, `pop`, `set_domain_delay`, `mark_domain_crawled`, `shutdown`, `export_pending`, `import_urls` |
| crawler worker pool | `src/main_crawler_mt.cpp` | `DomainLimiter`, `RobotsCache`, `CrawlerStats`, `g_shutdown_requested` | the worker loop, the monitor, saving and loading the frontier, the signal handler |
| PostgreSQL client | `src/storage/postgres_client.cpp` | tables `pages` and `frontier_state`; one connection | `mark_crawled`, `save_frontier`, `load_frontier`, `clear_frontier`, `get_unindexed_pages`, `mark_page_indexed` |
| content store client | `src/storage/s3_client.cpp` | objects by the hash of the content, or of the URL | `put` with `compress`, `get` with `decompress` |
| indexer process | `src/main_indexer.cpp` | the batch it works on | fetch unindexed pages, index, mark, flush |
| index builder | `src/indexer/index_builder.cpp` | pending postings, metadata and terms; `doc_count_`, `term_count_` | `index_parsed`, `flush`, `remove_document` |
| RocksDB client and index reader | `src/storage/rocksdb/` | keys `term:`, `df:`, `doc:`, `docterms:`, `meta:` | atomic batches, puts, reads with cached statistics |
| ranker, query parser, query program | `src/query/`, `src/main_query.cpp` | `last_query`, `current_limit`, `current_page` of the prompt | parse, collect candidates, score, filter, page |
| single-threaded crawler and frontier | `src/main_crawler.cpp`, `src/crawler/url_frontier.cpp` | `queue_`, `seen_urls_`, `domain_states_`; the counters | `run`, `crawl_url`; `add`, `get_next`, `set_crawl_delay` |
| HTTP fetcher, robots parser, URL filter | `src/crawler/`, `include/crawler/` | `rules_`, `domain_cache_` | download with retries, allow or forbid a URL |
| HTML parser, dates | `src/indexer/html_parser.cpp`, `include/common/date_utils.h` | none | title, text, links, meta tags; the date of a page and its era |
| other text processing, configuration, Redis client | `src/common/`, `src/indexer/`, `src/storage/redis_client.cpp` | none | sequential helpers |

How they interact. The crawler's main thread creates one frontier, one domain
limiter, one robots cache, one database connection and one content store client,
and starts the worker threads on references to them. A worker pops a URL from
the frontier, checks it, downloads it, stores its content, writes its row in
`pages` and adds its links to the frontier. The monitor looks at the frontier
and the statistics every 30 seconds; to stop, it exports the pending URLs to
`frontier_state`, calls `shutdown()` and joins the workers. The indexer, another
process, reads the rows that are not indexed, fetches their contents and hands
them to the index builder, which collects them in memory and writes them to
RocksDB in batches. The query engine only reads RocksDB. The single-threaded
crawler is the predecessor of the worker pool: one thread that takes a URL from its own
frontier, loads the rules of its host, downloads it with the same fetcher, and
writes to the same store and table. A URL changes hands and form on the way: a link
of the page is resolved by the parser, judged by the filter, normalised by the
frontier, judged again when it is popped, and normalised again when a saved frontier
is loaded. A content is stored under a key, which goes by way of the `pages` table
from the crawler to the indexer.

What is hard about it:

* *interleavings*: the frontier uses separate critical sections for `seen_`, for
  `queue_` and for the domains' times, and an atomic flag that no mutex protects;
  the limiter's check and its update are a whole download apart; the frontier is
  exported while the workers run;
* *lost wake-ups*: `notify_one` after the unlock, `notify_all` without the mutex;
* *partial failure*: every step of a worker's iteration can fail, and leaves the
  loop body by its own `continue`; a failed flush keeps the pending documents;
* *time*: the single-threaded frontier takes the URLs that are not due out of its queue
  to look behind them, while time goes on, and the fetcher sleeps between its tries;
* *agreement of sequential parts*: three parsers of links and URLs, two normal forms, a
  filter that sees URLs before and after, and two programs that name the same content;
* *crashes*: between the content store and `pages`, between loading and clearing
  the saved frontier, between a write batch and the statistics after it.

What makes each component correct: the frontier delivers each accepted URL
exactly once and lets every worker go at shutdown; the worker pool accounts for
each URL and records only what it has stored; the limiter and the robots cache
bound what is downloaded; the index holds exactly the texts of its documents, and
its statistics match its posting lists. Between them, a page is crawled
under one URL, the one that the link meant, and the index has the content that was stored,
with a date and an era that the page really has.

## 2. The modules

| module | what it is |
|---|---|
| `UrlDelivery` | the promise of the frontier: an accepted URL is delivered at most once, and eventually unless the frontier stops |
| `FrontierMT` | the frontier at the granularity of its mutexes, driven by the worker loop |
| `FrontierMTProofs` | the proofs about it |
| `CrawlerMT` | the worker pool, the main thread, the tables and the content store, with failing calls, crashes and restarts |
| `CrawlerMTProofs` | the proofs about it |
| `IndexBuilder` | the index builder over RocksDB, with failing reads and writes and crashes |
| `IndexBuilderProofs` | the proofs about it |
| `Indexer` | the indexer process: its batch loop composed with `IndexBuilder` and the `pages` table |
| `IndexerProofs` | the proofs about it |
| `FrontierST` | the single-threaded frontier, whose operations are parts of CrawlerST's actions |
| `Robots` | the robots parser as operators, and what a robots.txt says as a reference |
| `CrawlerST` | the single-threaded crawler over `FrontierST`, `Robots` and the fetcher's retries |
| `CrawlerSTProofs` | the proofs about it |
| `Query` | the query program's prompt over the query parser, the index reader and the ranker |
| `QueryProofs` | the proofs about it |
| `Induction` | what the proofs about parsers and loops rest on: induction over the naturals and over the height of a tree, and that a recursive function exists |
| `Urls` | both normalisations, the resolution of links and the URL filter, over tokens |
| `HtmlParser` | the HTML parser over a tree of nodes |
| `Dates` | the dates of a page and its era |
| `Resources` | what a URL names and what a link means, by RFC 3986: the reference for `Urls` |
| `PageFlow` | the way of a page through either crawler, the store, the table and the indexer, composed of these |
| `PageFlowProofs` | the proofs about it |
| `MC*` | constants of small instances |

**FrontierMT.** A worker's program counter says between which critical sections
it is: `lock`, `held`, `checked` and `blocked` are the acquisition of
`queue_mutex_`, the check of `shutdown_` and the wait in `pop()`; `delay`,
`access` and `sleep` are `wait_for_domain`; `push` and `notify` the later steps of
`add()`. `queue` counts the entries of each URL and priority, so that a
duplicated entry would show. `shutdown()` is two actions, the store of the flag and
`notify_all`, neither of which needs the mutex. Time is an age per domain and the
time a sleeping worker has left; `Tick` advances both. `Init` allows every frontier
that main() can have built from saved URLs and seeds. A URL is a normalised one, with its
domain; `normalize_url` and `extract_domain` themselves are in `Urls`. What a
worker does between two pops is `Reject`, or `SetDomainDelay`, the download,
`MarkDomainCrawled` and any number of `add()`s.

**CrawlerMT.** One action for each step of `crawler_worker` that touches shared
state, with its failure where the code looks for one, and one for each step of
main(). The frontier is used as FrontierMT shows it to behave: `add()` is two
steps, `pop()` one, and the queue is a set. `crawled`, `failed` and `filtered` are
the statistics as sets of URLs, so that a URL counted twice or not at all
would show. `Restart` is a crash at any moment, or a new start after the end; `pages`,
`store` and `saved` survive it. Priorities and delays are left out, since
they restrict the order only; the URL filter and robots.txt are sets of URLs.
A download may return any content. A load of the saved frontier that fails returns any
part of it, as the code answers with the rows it has read; mostly that is none.

**IndexBuilder.** `postings` maps a term, a document and a field to a frequency,
0 where there is no posting; `df`, `docs`, `docTerms` and the two `meta`
variables are the other keys. A text gives the frequency of each term in each
field, and stands for what `index_document` parses and tokenises. A commit is
atomic and may fail; `save_statistics` is two more writes, each of which may
fail, and the process may die between any two. The counters change before
the commit in `flush` and, for the terms, in `remove_document`, as in the code. A read
that fails looks like an absent key to the builder (`RocksDBClient::get`, `exists`):
`index_parsed` then does not remove the older text, `remove_document` returns at once
or leaves out the lists it could not read, `flush` replaces such a list by the pending
postings, and a new process starts with a count of 0. `Faults` counts the reads and
writes that fail, several of which may in one action. `mixed`, `lost` and
`unsaved` are history variables: the documents of which an older text was, or parts
of it were, still there when a newer one was added; those of a list that a flush
replaced; and whether a write or a read of the count has failed.

**Indexer.** The loop of main(), with `IndexBuilder` as an instance: the
document of the index is the page with its id. `IndexDocument` starts the call of
`index_document`, `BuilderStep` is what that call does before it returns, and
main() waits until the builder is idle. `PassOver` is a test page or one whose
content cannot be read, which is marked without being indexed. A batch
remembers the content that each row had when it was fetched, since the crawler
may write the row again meanwhile (`Crawl`, the upsert of `mark_crawled`, which
leaves `indexed` alone). The flush at the end of a batch, the one after the
loop and the one in the destructor are three actions; `Signal` may set the flag
at any moment, `Crash` ends the process at any moment.

**CrawlerST, FrontierST, Robots.** One thread, with the clock and the signal
handler beside it. `get_next` is a step for each turn of its loop: `GetNextSkip`
moves a URL that is not due to `skipped`, the last turn puts these back. Time is in
seconds, kept per domain as the time until its next URL may be taken. `crawl_url` is
a step for each call that takes time or can fail. `RobotsParser::fetch` loads `rules`
from `cache`, or downloads the file: any of those in `RobotsFiles`, which the history
variable `file` remembers. `HTTPFetcher::fetch` is a step per attempt; `content`
counts the attempts of which the string has data. `HostOf` is `get_domain`, with the port, and
`DomainOf` the frontier's `extract_domain`, without it. In `Robots` a file is a
sequence of directives; of a path it matters how long it is and which URLs start
with it. `Parse` and `IsAllowed` compute with a fold, line by line and rule by rule,
what `RulesOf`, `Forbids` and `DelayOf` say of the file as a whole.

**Query.** A query is the sequence of its tokens, a document its words, domain,
era and AI score. `Parse`, `Matches`, `Score` and `Rank` compute what the parser, the
reader and the ranker do: a filter that is not understood becomes a term,
phrases are not stemmed while the index is (`Stem` gives each word its stem), `get_postings` puts the positions of all fields
together, and positions have 16 bits. `Sorted` is what `std::sort` may make of the matches: an
order of their scores, the same for the same matches. The frequencies stand for BM25, which grows
with them. The state is the prompt's, which searches anew for every page. The
properties are stated in terms of what was typed and of the texts. They leave out
where the code does something else than its help says: `era:post-ai`, phrases of stemmed
or stop words, and documents that a phrase finds although its words are not together
(see the hazards in `PROJECT.json`).

**Urls, HtmlParser, Dates, Resources.** A URL is a sequence of tokens: the characters that
the code looks for (`:`, `/`, `?`, `#`, `.`, `&`, `=`), and words, which are in capitals, have an
encoded character, are numbers or contain a date as the constants say. `NormalizeMT` and `NormalizeST` are the
two frontiers' normal forms, `Resolve` the parser's `normalize_url`, `IsAcceptable` the five
rules of the filter. `Resources` says independently what resource a URL names (host
without capitals or default port, path, query, no fragment) and what `Target` a link has on
a page. A page is the tree that Gumbo makes of it; its text is a sequence of items, each of
them a word or a date in one of the forms that the patterns know, with the word before it.
Windows of so many characters are windows of so many items.

**PageFlow.** One worker of the multi-threaded crawler, or the single-threaded
one, with a frontier that starts from one seed, and a site that has one page: `Take`,
`Fetch` or `FetchFails`, `StoreContent`, `RecordPage`, `AddLinks` are its loop, `Start` the
loading of the saved frontier and the seed, `Stop` the export, `Crash` the death of the process at any
moment. The page may have changed when it is crawled again (`SiteChanges`). `Index` is one
page of the indexer, with the key that its row has; it takes up the rows that
`get_unindexed_pages` returns (`Unindexed`): with a `crawled_at`, status 200, and not indexed.
`mark_crawled` always sets `crawled_at`; `upsert_page` sets it only in a row that is there
already (`Row`). A content is named for the page it is;
`compress` puts a frame around it or not, `decompress` takes it off. `FrontierMT` and
`CrawlerMT` have the interleavings of several workers, `Indexer` the failures of the indexer; here the calls
of the crawler fail. The properties state what the code does to be right, and name
each exception: taking any of them out of a property makes TLC find a
counterexample. The exceptions are queries without a path, in a URL or in the one a link is relative
to, links with a scheme in capitals or a query alone, relative links on a page with a slash in its
query, URLs that end in several slashes, hosts with a port that is empty, a second one or no number,
hosts that look like a file or a part of a path, rows that were written twice, and days at the end of a URL. A link of
these forms is not left out of `QueuedIsMeant`: it says which other URL the code makes of it.

## 3. What is checked

Runs that pass:

| run | what it shows | instance |
|---|---|---|
| `frontier` | `ExactlyOnce`, `NoStrandedUrl`, `AtMostOneTakenAfterShutdown`, the refinement `Delivery` with its liveness, `BlockedWorkersLeave` | 3 workers, 2 URLs of a domain, 2 priorities, delays 0 and 1 |
| `crawler` | `EveryUrlAccounted`, `StoredBeforeRecorded`, `DomainOverrunBounded`, `RobotsRespected`, `SavedUrlReloaded` | 2 workers, 4 URLs of 2 domains, a limit of 1 page per domain, 1 failing call, 2 runs of the process |
| `index` | `DfMatchesPostings`, `IndexedExactly`, `NeverUndercounted`, `PendingKept` | 2 documents, 2 texts that share a term, 4 calls of `index_parsed`, batches of 2, 1 failing read or write, 1 crash |
| `indexer` | `MarkedIsKept`, `OneFaultKeepsIndexExact`, `NothingWaitsIdle`, the liveness property `PageGetsMarked` | 3 pages, one of them unreadable, 3 rows written by the crawler, batches of 2, with and without a limit of 3 pages, 1 failing call, 1 crash |
| `crawler_st` | `EveryUrlAccounted`, `RobotsRespected`, `StoredIsOneResponse`, `BestDueFirst`, `CrawlDelayKept`, the liveness property `QueuedGetsTaken` | 4 URLs of 2 hosts, one with a port, 2 seeds, 3 robots files, 1 retry, 2 pages, delays of 1 and 2 |
| `query` | `NothingWrongShown`, `NothingMissed`, `PagesInOrder` | 3 documents of 4 kinds, with or without a `doc:` key, 10 queries, pages of 1 and 2 results, 4 positions instead of 65536 |
| `page` | `NoPageTwice`, `QueuedIsMeant`, `FilteredAlike`, `ReloadKeepsUrls`, `RecordedReachesIndex`, `RecordIsOnePage` | 6 seeds and one that is rejected, 32 links, each alone and 36 pairs of them on a page, 126 texts with up to three dates, 30 heads with meta tags, both crawlers; 2 runs of the process for the pages with one link |

Runs in which TLC finds what a comment or test of the repository says violated:

| run | property | what happens |
|---|---|---|
| `frontier_shutdown` | `AllWorkersLeave` | flag and notification fall between a worker's check of `shutdown_` and its wait; it sleeps for ever, and main() waits in `join` |
| `frontier_politeness` | `PoliteDelivery` | two workers compute their sleep from the same last access and crawl the domain together |
| `crawler_stop` | `StopKeepsFrontier` | a link is queued after the export: it is neither crawled nor saved, though no call has failed |
| `indexer_lost` | `MarkedIsIndexed` | the process dies between the mark of a page and the flush of its batch: the page is marked for ever and not in the index |
| `page_st` | `StoredReachesIndex` | the row that the single-threaded crawler writes for a page has no `crawled_at`, without which the indexer does not take it up: the page stays out of the index for ever. Only when the row is written again does the indexer take it up, and then asks for the empty key, because the content is stored under a key that the row does not have |

Two more comments of the code are wrong by a little, and bounded by a property of a
passing run instead: the workers exceed the "maximum" of pages per domain
(`main_crawler_mt.cpp:71`) by at most the number of workers less one
(`DomainOverrunBounded`), and the count of documents is below a document frequency, for
which the IDF is negative (`ranker.cpp:19`), only after a crash, or a failed write
or read of the count (`NeverUndercounted`).

The bounds. Three workers are the smallest number with which a notification can
wake a worker whose URL a third one takes; two suffice for the races of
CrawlerMT, which are between a worker and another, or a worker and main(). Two
URLs of one domain give contention for the queue and the domain; the crawler has a
third that robots.txt forbids and a fourth that the filter rejects. One fault
(`MaxFaults`) reaches each error path, since every path is taken on its own; one
crash or restart (`MaxCrashes`, `MaxRuns`) at every moment covers the pairs of
writes. `MaxCalls` lets a document be indexed, replaced, and indexed again while
it is pending. Three pages and batches of two make the indexer flush inside a batch
and at its end, with a page left for another one; a page is written twice by
the crawler, or each once. One text is enough there, as the property of the texts
is IndexBuilder's. The single-threaded crawler has three URLs of a host, since the delay of
robots.txt applies from the second to the third, and a seed and a link that wait
together; one retry stands for three, since each clears what the one before it left. The documents and queries of `Query` are chosen so that each filter, each
kind of token and each place of a phrase occurs, in both orders where it matters. The pages
of `PageFlow` are chosen in the same way: every branch of the functions over URLs is taken by a
seed or a link, and two links on a page show whether they are told apart; the dates have each form and
label, before and after the cutoff, inside and outside of each window (of 4, 3, 2 and 1
items), and some are no dates. A URL is too long with 13 tokens (`MaxUrlLength`), and has one parameter
too many with a few. Two runs (`maxRuns` of a case) let a frontier be saved and loaded, and a page be crawled again. `CrawlerMT` is symmetric in its workers, which the run uses
(all of its properties are safety properties). The properties that are also
proved (below) do not depend on the bounds.

Fairness. `FrontierMT`, `Indexer` and `CrawlerST` have liveness properties. In `FrontierMT`, `WF Proceed(w)`: the operating
system runs a runnable thread. `SF` on the two acquisitions of `queue_mutex_`
(`PopLock`, `AddPush`): the mutex is free again and again, and a thread that keeps
asking for it gets it once. `std::mutex` does not promise this, but its
implementations do not starve a thread for ever, and weak fairness would blame the
frontier for an unfair mutex. `WF Tick`: time passes. `WF ShutdownNotifyAll`:
`shutdown()` is not interrupted. Nothing makes anyone call `shutdown()`, and no
spurious wake-up is relied on: a blocked worker that nobody notifies stays blocked. In `Indexer`, `WF Main`: the
process is one thread, which runs; that the crawler writes rows, that somebody
starts the process again or stops it is not assumed, and a call may fail only as often
as `MaxFaults` says. In `CrawlerST`, `WF Main` and `WF Tick`: the thread runs, with
every download ended by curl's timeout, and time passes. That a download succeeds
is not assumed.

`Query` has no fairness, as nobody has to type anything. The properties of the run `page` are about
what is stored, not when, and need none. `page_st` has `WF Crawl` and `WF Index` (`FairSpec`): a
crawler that was started goes on, and the indexer takes up a row as long as there is one for it. That
a crawler is started, stopped or started again is not assumed, nor that a call succeeds.

Deadlock is checked in every run but that of `PageFlow`, which stops when the crawler has been
started as often as its case allows; only the end of CrawlerMT's last run of the
process (`Ended`), of FrontierMT after the last worker has left (`Finished`) and of
CrawlerST (`Stopped`) stutter.

Every property of a passing run has a mutant, a definition changed as a plausible
bug would change it (`PROJECT.json`), for which TLC finds the property violated.

## 4. What is proved

TLAPS proves, for every value of the constants that the modules' assumptions
allow:

* `FrontierMTProofs`: `TypeCorrect` (the types, no negative time among them);
  `DeliveredExactlyOnce` (`ExactlyOnce`); `ImplementsDelivery` (every step of
  the frontier is a step of `UrlDelivery` or stutters); `AtMostOneTaken` (after
  `shutdown_` is set at most one URL leaves the queue); `NoWakeUpLost`
  (`NoStrandedUrl`).

  The inductive invariant is `IInv`: the types, `HasUrl` (a worker in a step
  that uses its URL has one) and `ExactlyOnce` itself, which says of a URL in which
  single place it is. Only four actions move a URL (`AddSeen`, `AddPush`, `PopTake`,
  `PopReturn`); each has a lemma, and `Unmoved` covers the others. The refinement
  follows: a URL that `PopReturn` delivers is carried, hence seen and not returned
  before. `AtMostOneTaken` needs `MutexHeld` instead: a worker inside the critical
  section of `pop()` holds `queue_mutex_`, so that there is only one.
  `NoWakeUpLost` compares two cardinalities, for which workers, URLs and priorities are
  finite (`FiniteAssumption`). `AddPush` adds one to both sides, `PopTake` takes one from both
  (here it needs `ExactlyOnce`: a second copy of the entry would stay queued), a
  notification puts one attentive worker in the place of another, and a worker
  blocks only on an empty queue.

* `CrawlerMTProofs`: `TypeCorrect`; `AllAccounted` (`EveryUrlAccounted`);
  `RobotsObeyed` (`RobotsRespected`); `RecordedIsStored` (`StoredBeforeRecorded`);
  `OverrunBounded` (`DomainOverrunBounded`); `SavedIsReloaded` (`SavedUrlReloaded`).

  `EveryUrlAccounted` is strengthened by what holds while main() prepares a run:
  no worker is active and nothing is counted yet. `OverrunBounded` rests on
  `RoomForPast`: the count of a domain plus the workers past the check of the limit
  for it is at most the limit plus the workers less one. The check adds a worker when the
  count is below the limit, and `record_crawl` moves one from one summand
  to the other. `RecordedIsStored` adds that a page about to be recorded is stored,
  and `SavedIsReloaded` that a crawl has seen what it has loaded, which, unless a call
  has failed, is all that the table holds until the crawl saves its own (`SavedSeen`).

* `IndexBuilderProofs`: `TypeCorrect`; `FrequenciesMatch` (`DfMatchesPostings`); `ExactIndex`
  (`IndexedExactly`); `PendingSafe` (`PendingKept`); `CountedEnough` (`NeverUndercounted`).

  `Exact` strengthens `IndexedExactly` by the same of the pending postings: of a
  document that is neither mixed nor lost at most one text is pending, with exactly its
  postings, and none while the index has one. A flush then adds the postings of
  a document to none, or none to its own. `CountedEnough` needs `Counted`: the metadata and
  the terms of a document are written and removed together, whatever could not be read, no more documents are pending
  than `pending_docs_` counts, and the copies of the count in the database are not too low
  either, but inside a flush or a removal.

* `IndexerProofs`: `TypeCorrect`; `MarkedKept` (`MarkedIsKept`); `NothingWaits`
  (`NothingWaitsIdle`); `OneFaultExact` (`OneFaultKeepsIndexExact`); `BuilderPromises`.

  `KeptInv` adds to `MarkedIsKept` the page that is about to be marked. `OneFaultExact`
  counts faults: without one, every page that the builder has is marked
  (`NoFault`), so that no batch has it; with one, a page that is pending and not
  marked is out of the batch and written before the next (`OneFault`). A
  second merge needs a failed mark and a failed flush, or a failed mark and a removal
  of which a read (that of `is_indexed` included) or the commit fails: `FlushCases` and `RemoveDone` say of the steps of
  the builder that they do all of their work or count a fault.

  `BuilderPromises` carries `DfMatchesPostings`, `IndexedExactly` and `NeverUndercounted` into
  the composed system: `IndexBuilderProofs` is an instance too, whose lemmas say of each step of the
  builder that it keeps its invariants. What is left to show is that each step of the indexer is
  one of the builder, leaves it alone, or adds to the faults, which the two share.

* `CrawlerSTProofs`: `TypeCorrect`; `AllAccounted` (`EveryUrlAccounted`); `BestIsTaken`
  (`BestDueFirst`); `StoredOne` (`StoredIsOneResponse`); `ParserAgrees` (`RobotsAgree`);
  `RobotsObeyed` (`RobotsRespected`); `DelayKept` (`CrawlDelayKept`).

  `EveryUrlAccounted` is inductive with the types alone. Each step that moves an entry
  changes one (`EntryChanged`), but for the end of `get_next`, which puts back all that
  it has passed (`PutBackEntries`). `BestIsTaken` needs `Due`: what was due when `get_next`
  was called is still queued and still due, since only an entry that is not due is taken out, and
  the clock makes no entry less due. `StoredOne` needs that the buffer has one response at
  most. `RobotsObeyed` says of each host what is known of it: nothing, and then
  nothing was asked of it (`Unknown`), that it has no file (`Unruled`), or which file it has
  (`Ruled`), and that `rules_` are those of the host of the URL when it is decided. It
  rests on `ParserAgrees`: of every file the parser makes what the file says. That is
  proved by induction on the lines that the parser has read, of which `Understands` tells what its
  groups, its current agents and `seen_rule` have to be, and by a second one on the rules that
  `is_allowed` has compared. `DelayKept` needs `Paces`: where the delay of a domain
  was set, it is the one that the file asks for, and the time since its last URL and the
  time until its next one make up for it.

* `QueryProofs`: `TypeCorrect`; `PiecesOfOneRanking`; `ShownObeys`
  (`NothingWrongShown`); `NoneMissed` (`NothingMissed`); `PagesFollow` (`PagesInOrder`).

  The parser, the tokenizer, the list of all terms and the score are loops; what each
  of them has computed after so many steps is a lemma by induction (`ParseTokenSays`, `ParseSays`,
  `KeptSays`, `AllTermsSays`, `ScoreType`). `FiltersAgree` and `MatchesObey` turn that into
  what the query means for a document, `MatchesAll` into what a document needs to be found
  (`PhraseFound`: the words of a phrase stand at positions that are not cut to 16 bits, because the
  field is short enough). That `Sorted` chooses something is `OrderExists`, an induction over the
  number of matches, and `RankingSays` follows. The state's invariant `QueryInv` says
  that what is shown are matches and, while only "next" was typed, that `trail` is the beginning of
  the ranking and `shown` its piece for the page: each page is a new search, cut
  at another place, and the pieces join (`PiecesJoin`).

* `PageFlowProofs`: `TypeCorrect`; `OneNameEach` (`NoPageTwice`); `ReloadKept`
  (`ReloadKeepsUrls`); `QueuedMeant` (`QueuedIsMeant`); `JudgedAlike` (`FilteredAlike`);
  `RecordedIndexed` (`RecordedReachesIndex`);
  `RecordsShown` (the part of `RecordIsOnePage` that is not about dates).

  `OneNameEach` and `ReloadKept` are about functions on URLs of any length. The invariant is
  `Named`: all that is in the frontier or saved is a name that the frontier gave, and what is
  given to it is a sequence of words. A name of the multi-threaded frontier is a normal form
  (`NormalMT`: no capitals up to the path, no fragment, a path); one of the single-threaded frontier is
  plain, with nothing left to decode (`NormalST`). `FormSays` says where the code finds the
  parts of a normal form again, by lemmas about its searches from the left (`FirstSays`,
  `SchemeEndSays`). From there, `LocatedTells` gets the scheme, host and rest of a plain URL back
  from its resource, so that two of one resource are the same (`PlainTells`), and
  `NormalStays` that a normal form is its own, unless it ends in a slash or a default port.
  It is there that the prover found two spellings that the property had not named: the
  multi-threaded frontier keeps a port that is empty (`http://h:/a`), and takes
  one default port off where there are two. They are exceptions now, with a link each in
  the instance. That the links of a page are sequences of words (`LinksTyped`) is an induction over the
  height of its tree.

  `QueuedMeant` compares the code with RFC 3986: `PageMT` and `PageST` say that a frontier's name
  of a URL is the same page, `ResolveMeant` that `normalize_url` of the parser makes of a
  link the page that `Target` says, with the cases of a link (with a scheme, with a host, a
  path, relative, a query or a fragment alone) side by side. `QueuedIsMeant` speaks of the links
  of the page as it is now and is not inductive as it stands: what is saved is read again
  when the process starts, what is on its way (`links`, `url`) becomes part of the queue, and an unusual URL
  is changed with each new start. The invariant `Meant` says the same of all of these, with the number
  of times that each was read; `AgainSays` and `ComesAgain` count them. Here the prover found that
  a port that is no number names no page, and that a path on a page with a query and no path is
  misread, too.

  `JudgedAlike` follows the five rules of the filter over a link and its normal form (`FilterAgrees`).
  The two are `Nearly` alike: up to the end of the host they differ by capitals and a default port, behind it
  not at all, so that every place behind the host moves by the same number of words (`NormalizeNearly`).
  The first question mark moves with it (`QuestionAlike`), a parameter of the one URL is one of the other
  (`CountAlike`, by a bijection), and what the filter looks for occurs in both or in neither, as long as
  it occurs behind the host (`ExtensionAlike`, `OccursAlike`). The invariant is `LinksHeld`: the links
  in hand are http or https URLs that the parser resolved (`ResolvedHttp`), since of others the
  frontier would keep nothing. What the prover did not accept was a host that
  looks like a part of a path: `http://page:80/2` is no page of a list for the filter until the frontier takes
  the port off. The property names such hosts now, with that link in the instance.

  `RecordsShown` is that the index does not mix two versions of a page: `KeysNamedKept` says that
  a key of the store names one content, `TextVisible` and `TitleOf` what the text and
  the title of a version are, for a tree of any height. `TextVisible` is an induction over
  that height: the parser goes down with the visible text of each node, a reader's view goes down
  with the knowledge that something above is hidden.

  `RecordedIndexed` needs what a key of the store gives (`StoreGives`: a compressed content is found
  again), and of each row that was written once that it has its content's key (`ReachesFrom`).

The assumptions are those that the modules name (`FrontierAssumption`, `FiniteAssumption`,
`CrawlerAssumption`, `IndexAssumption`, `IndexerAssumption`, `FrontierSTAssumption`,
`CrawlerSTAssumption`, `QueryAssumption`, `UrlsAssumption`, `HtmlAssumption`,
`PageFlowAssumption`); TLC evaluates them in the runs. `UrlsAssumption` says of words what `tolower`
and `decode_unreserved` do to them: a second application changes nothing, delimiters
are left alone and none comes up, `http` and `https`, which have
no capital, are left alone as well. No extension of the filter's list is a delimiter, and
its limit of parameters is not 0. It has 80 and 443, the default ports, among the words that are
numbers, and not the empty one. `HtmlAssumption` says that trees are finite and that the
text of a node is a sequence. `decode_unreserved` goes over a URL once, so that
`%%341` would become `%41`; the model is of URLs whose percent signs are all followed by two digits.

Induction over data. The induction theorems of the prover's library are about an operator,
which the provers cannot be given. `Induction` states them about a set instead: a set that
has 0, and n + 1 whenever it has n, has all naturals (`NatSetInduction`), from the least
element of its complement, which exists since the order is well founded. A loop
is written as a recursive function on the numbers up to the length of its input, which TLA+
defines as a choice; `RecursionExists` shows that there is something to choose, and with it
what the function's values are. `TreeRecursion` does the same for a function on the nodes of a tree,
by induction on their height.

Left to TLC: liveness (`BlockedWorkersLeave`, `PageGetsMarked`, `QueuedGetsTaken`, and the fairness of `Delivery`), which
is out of the prover's reach, and of the safety properties the dates of `RecordIsOnePage`. These come from
patterns over windows of a text, which the model and the property both write as choices of a first
match; they are checked on 126 texts.

## 5. The plan

Done: the modules above, in this order, since a lost or duplicated URL, a worker
that never leaves and an index whose statistics drift are the failures that users
would meet. Next:

1. What the help says of queries and the code does not do: `era:post-ai`, exact phrases.
2. `Robots` on all files of a few lines; the group that a file has for BloomSearchBot,
   which the single-threaded crawler looks for under the name BloomSearchBot/1.0.
3. The fetcher's steps shown to implement the atomic `Fetch` of CrawlerMT.
4. A run for `meta:term_count`, which `remove_document` decrements once per field.
5. The dates of a page proved to be what `RecordIsOnePage` says, pattern by pattern.

## 6. What is not modelled

Floating-point arithmetic: the BM25 score, for which the sum of the frequencies stands.
The AI detector, the stemmer and the snippets: heuristics over characters, sequential and
without state. The Redis client: it is connected to, but no program calls its operations.
The wire protocols of S3 and PostgreSQL, console output, logging and option parsing. A data
race on the shared PostgreSQL connection is modelled as a call that fails.

In `PageFlow`, two hashes differ when the contents do; a site does not answer with what
begins like a frame of the compressor; the characters inside a word do not matter
beyond what the constants say of it, so that a window does not cut a date in two. `.` and `..`
in paths are left as they are by the code, and no link of the instance has them. The
priority of a URL in a frontier restricts the order, which FrontierMT and FrontierST have.

`PROJECT.json` lists every component with its status and every hazard with the
properties that cover it.
