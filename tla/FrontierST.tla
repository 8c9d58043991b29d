------------------------------ MODULE FrontierST ------------------------------
(***************************************************************************)
(* URLFrontier (crawler/url_frontier.cpp), the frontier of the             *)
(* single-threaded crawler: a priority queue in which get_next looks for   *)
(* the first URL whose domain may be crawled now, and puts back the ones   *)
(* it has passed.  Its operations are parts of the crawler's actions; time *)
(* goes on between two turns of get_next's loop.                           *)
(*                                                                         *)
(* Time is in seconds.  A URL is a normalised one.                         *)
(***************************************************************************)
EXTENDS Integers

CONSTANTS
  Url,
  Domain,         \* the keys of domain_states_
  DomainOf,       \* the host of a URL
  DefaultDelay    \* DEFAULT_CRAWL_DELAY_MS

ASSUME FrontierSTAssumption ==
  /\ DomainOf \in [Url -> Domain]
  /\ DefaultDelay \in Nat

VARIABLES
  queue,       \* queue_: how often an entry is in it
  seen,        \* seen_urls_
  skipped,     \* the entries that a running get_next has passed
  wait,        \* next_allowed_time, as the time until then
  crawlDelay   \* crawl_delay_ms, -1 where it is not set

frontier == <<queue, seen, skipped, wait, crawlDelay>>

SEED == 0
NORMAL == 2

Entry == [url : Url, priority : {SEED, NORMAL}]

NoEntries == [e \in Entry |-> 0]

\* Mutant: a URL that is seen is added again.
AddAgain(U, priority) ==
  /\ seen' = seen \cup U
  /\ queue' = [e \in Entry |-> IF e.url \in U /\ e.priority = priority
                                 THEN queue[e] + 1 ELSE queue[e]]
  /\ UNCHANGED <<skipped, wait, crawlDelay>>

\* add(), for each URL of U; those that are seen are not added.
Add(U, priority) ==
  /\ seen' = seen \cup U
  /\ queue' = [e \in Entry |-> IF e.url \in U \ seen /\ e.priority = priority
                                 THEN queue[e] + 1 ELSE queue[e]]
  /\ UNCHANGED <<skipped, wait, crawlDelay>>

\* Mutant: operator< the wrong way round.
IsTopReversed(e) ==
  queue[e] > 0 /\ \A f \in Entry : queue[f] > 0 => f.priority <= e.priority

\* queue_.top(), any one of the best entries.
IsTop(e) == queue[e] > 0 /\ \A f \in Entry : queue[f] > 0 => e.priority <= f.priority

CanCrawlDomain(d) == wait[d] = 0

Empty == queue = NoEntries

\* A turn of the loop of get_next that passes an entry.
GetNextSkip(e) ==
  /\ IsTop(e) /\ ~CanCrawlDomain(DomainOf[e.url])
  /\ queue' = [queue EXCEPT ![e] = @ - 1]
  /\ skipped' = [skipped EXCEPT ![e] = @ + 1]
  /\ UNCHANGED <<seen, wait, crawlDelay>>

\* The entries that get_next has passed go back into the queue.
PutBack(q) ==
  /\ queue' = [e \in Entry |-> q[e] + skipped[e]]
  /\ skipped' = NoEntries

\* Mutant: the domain's time is not updated.
UpdateDomainTimeNot(d) == UNCHANGED wait

UpdateDomainTime(d) ==
  wait' = [wait EXCEPT ![d] = IF crawlDelay[d] >= 0 THEN crawlDelay[d] ELSE DefaultDelay]

\* Mutant: the passed entries are lost when one is found.
GetNextTakeLosing(e) ==
  /\ IsTop(e) /\ CanCrawlDomain(DomainOf[e.url])
  /\ UpdateDomainTime(DomainOf[e.url])
  /\ queue' = [queue EXCEPT ![e] = @ - 1]
  /\ skipped' = NoEntries
  /\ UNCHANGED <<seen, crawlDelay>>

\* The last turn of get_next: the entry is returned.
GetNextTake(e) ==
  /\ IsTop(e) /\ CanCrawlDomain(DomainOf[e.url])
  /\ UpdateDomainTime(DomainOf[e.url])
  /\ PutBack([queue EXCEPT ![e] = @ - 1])
  /\ UNCHANGED <<seen, crawlDelay>>

\* There is none: get_next returns nullopt.
GetNextNone ==
  /\ Empty
  /\ PutBack(queue)
  /\ UNCHANGED <<seen, wait, crawlDelay>>

SetCrawlDelay(d, n) ==
  /\ crawlDelay' = [crawlDelay EXCEPT ![d] = n]
  /\ UNCHANGED <<queue, seen, skipped, wait>>

\* A second goes by.
Second ==
  /\ wait' = [d \in Domain |-> IF wait[d] > 0 THEN wait[d] - 1 ELSE 0]
  /\ UNCHANGED <<queue, seen, skipped, crawlDelay>>
=============================================================================
