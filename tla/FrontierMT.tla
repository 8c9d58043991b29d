----------------------------- MODULE FrontierMT -----------------------------
(***************************************************************************)
(* URLFrontierMT: the thread-safe URL frontier of the crawler              *)
(* (crawler/url_frontier_mt.cpp), at the granularity of its three mutexes, *)
(* its condition variable and its atomic shutdown flag, driven by the      *)
(* worker loop of main_crawler_mt.cpp.                                     *)
(*                                                                         *)
(* A URL here is one that normalize_url and extract_domain accept: on any  *)
(* other, add() returns false and changes nothing.  Time is relative: age  *)
(* is the time since a domain's last access, which stops growing at        *)
(* MaxDelay because the code only compares it with delays.                 *)
(***************************************************************************)
EXTENDS Naturals, FiniteSets

CONSTANTS
  Worker,        \* the crawler threads
  Url,           \* normalised URLs
  Domain,        \* their domains
  DomainOf,      \* extract_domain, as a function on Url
  Priority,      \* priorities a URL can be added with
  Delay,         \* the delays robots.txt may ask for, in ticks of the clock
  DefaultDelay,  \* default_delay_
  MaxDelay,      \* no delay is longer
  NoUrl, NoWorker

ASSUME FrontierAssumption ==
  /\ DomainOf \in [Url -> Domain]
  /\ Priority \subseteq Nat
  /\ MaxDelay \in Nat
  /\ Delay \subseteq 0..MaxDelay
  /\ DefaultDelay \in 0..MaxDelay
  /\ NoUrl \notin Url
  /\ NoWorker \notin Worker

ASSUME FiniteAssumption ==
  /\ IsFiniteSet(Worker)
  /\ IsFiniteSet(Url)
  /\ IsFiniteSet(Priority)

VARIABLES
  seen,      \* seen_, under seen_mutex_
  queue,     \* queue_: how many entries there are of each URL and priority
  mutex,     \* the holder of queue_mutex_
  shutdown,  \* shutdown_, an atomic that no mutex protects
  age,       \* now - domain_last_access_, under domain_mutex_
  delay,     \* domain_delays_, default_delay_ where it has no entry
  pc,        \* where each worker is
  url,       \* the URL each worker is popping, crawling or adding
  wait,      \* the delay a worker has read, then the time it has left to sleep
  popped,    \* stats_.urls_popped, by URL
  stopper    \* where the thread that calls shutdown() is

vars == <<seen, queue, mutex, shutdown, age, delay, pc, url, wait, popped,
          stopper>>

Entry == Url \X Priority

\* The steps of a worker: "lock" and "held" stand before and after the
\* acquisition of queue_mutex_ in pop(), "checked" after it has read shutdown_,
\* "blocked" in queue_cv_.wait; "delay", "access" and "sleep" are
\* wait_for_domain; "got" and "fetch" the worker's own work on the page; in
\* "links" it calls add(), whose later steps are "push" and "notify".
Step == {"loop", "lock", "held", "checked", "blocked", "delay", "access",
         "sleep", "got", "fetch", "links", "push", "notify", "exit"}

Goto(w, step) == pc' = [pc EXCEPT ![w] = step]

At(step) == {w \in Worker : pc[w] = step}

Queued(e) == queue[e] > 0

QueueEmpty == \A e \in Entry : ~Queued(e)

\* What the priority queue may have on top: operator< compares priorities
\* only, so entries of equal priority come in any order.
IsTop(e) == /\ Queued(e)
            /\ \A f \in Entry : Queued(f) => f[2] <= e[2]

-----------------------------------------------------------------------------
\* main() has imported the saved URLs and added the seeds before it starts the
\* workers: each known URL is queued once, with some priority.
Init ==
  /\ seen \in SUBSET Url
  /\ \E p \in [seen -> Priority] :
       queue = [e \in Entry |-> IF e[1] \in seen /\ p[e[1]] = e[2] THEN 1 ELSE 0]
  /\ mutex = NoWorker
  /\ shutdown = FALSE
  /\ age = [d \in Domain |-> MaxDelay]
  /\ delay = [d \in Domain |-> DefaultDelay]
  /\ pc = [w \in Worker |-> "loop"]
  /\ url = [w \in Worker |-> NoUrl]
  /\ wait = [w \in Worker |-> 0]
  /\ popped = [u \in Url |-> 0]
  /\ stopper = "running"

-----------------------------------------------------------------------------
(* The worker loop and pop().                                              *)

\* while (!frontier.is_shutdown()) pop();
Loop(w) ==
  /\ pc[w] = "loop"
  /\ Goto(w, IF shutdown THEN "exit" ELSE "lock")
  /\ url' = [url EXCEPT ![w] = NoUrl]
  /\ UNCHANGED <<seen, queue, mutex, shutdown, age, delay, wait, popped, stopper>>

\* Taking queue_mutex_: on entry, and again when the wait ends.
PopLock(w) ==
  /\ pc[w] = "lock"
  /\ mutex = NoWorker
  /\ mutex' = w
  /\ Goto(w, "held")
  /\ UNCHANGED <<seen, queue, shutdown, age, delay, url, wait, popped, stopper>>

\* if (shutdown_) return std::nullopt; the worker then leaves its loop.
PopNull(w) ==
  /\ pc[w] = "held"
  /\ shutdown
  /\ mutex' = NoWorker
  /\ Goto(w, "exit")
  /\ UNCHANGED <<seen, queue, shutdown, age, delay, url, wait, popped, stopper>>

\* Mutant: pop() no longer looks at shutdown_.
PopOpenIgnoringShutdown(w) ==
  /\ pc[w] = "held"
  /\ Goto(w, "checked")
  /\ UNCHANGED <<seen, queue, mutex, shutdown, age, delay, url, wait, popped, stopper>>

\* shutdown_ was read as false.  shutdown() does not take queue_mutex_, so the
\* flag may change before the worker acts on what it read.
PopOpen(w) ==
  /\ pc[w] = "held"
  /\ ~shutdown
  /\ Goto(w, "checked")
  /\ UNCHANGED <<seen, queue, mutex, shutdown, age, delay, url, wait, popped, stopper>>

\* queue_cv_.wait(lock) releases the mutex and blocks in one step.
PopBlock(w) ==
  /\ pc[w] = "checked"
  /\ QueueEmpty
  /\ mutex' = NoWorker
  /\ Goto(w, "blocked")
  /\ UNCHANGED <<seen, queue, shutdown, age, delay, url, wait, popped, stopper>>

\* Mutant: the entry is copied from the top and never popped.
PopTakeNoRemoval(w) ==
  /\ pc[w] = "checked"
  /\ \E e \in Entry : IsTop(e) /\ url' = [url EXCEPT ![w] = e[1]]
  /\ mutex' = NoWorker
  /\ Goto(w, "delay")
  /\ UNCHANGED <<seen, queue, shutdown, age, delay, wait, popped, stopper>>

\* queue_.top(), queue_.pop(), lock.unlock().
PopTake(w) ==
  /\ pc[w] = "checked"
  /\ \E e \in Entry : /\ IsTop(e)
                      /\ queue' = [queue EXCEPT ![e] = @ - 1]
                      /\ url' = [url EXCEPT ![w] = e[1]]
  /\ mutex' = NoWorker
  /\ Goto(w, "delay")
  /\ UNCHANGED <<seen, shutdown, age, delay, wait, popped, stopper>>

\* C++ lets a condition variable wake a thread nobody notified.
SpuriousWake(w) ==
  /\ pc[w] = "blocked"
  /\ Goto(w, "lock")
  /\ UNCHANGED <<seen, queue, mutex, shutdown, age, delay, url, wait, popped, stopper>>

\* wait_for_domain reads the delay and the last access in two critical
\* sections of domain_mutex_, so either may change in between and afterwards.
ReadDelay(w) ==
  /\ pc[w] = "delay"
  /\ wait' = [wait EXCEPT ![w] = delay[DomainOf[url[w]]]]
  /\ Goto(w, "access")
  /\ UNCHANGED <<seen, queue, mutex, shutdown, age, delay, url, popped, stopper>>

\* Mutant: the sleep is computed even when the delay has already elapsed.
ReadLastAccessUnguarded(w) ==
  /\ pc[w] = "access"
  /\ wait' = [wait EXCEPT ![w] = age[DomainOf[url[w]]] - @]
  /\ Goto(w, "sleep")
  /\ UNCHANGED <<seen, queue, mutex, shutdown, age, delay, url, popped, stopper>>

ReadLastAccess(w) ==
  /\ pc[w] = "access"
  /\ LET elapsed == age[DomainOf[url[w]]] IN
       wait' = [wait EXCEPT ![w] = IF elapsed < @ THEN @ - elapsed ELSE 0]
  /\ Goto(w, "sleep")
  /\ UNCHANGED <<seen, queue, mutex, shutdown, age, delay, url, popped, stopper>>

\* The sleep is over: pop() returns, without looking at shutdown_ again.
PopReturn(w) ==
  /\ pc[w] = "sleep"
  /\ wait[w] = 0
  /\ popped' = [popped EXCEPT ![url[w]] = @ + 1]
  /\ Goto(w, "got")
  /\ UNCHANGED <<seen, queue, mutex, shutdown, age, delay, url, wait, stopper>>

-----------------------------------------------------------------------------
(* The worker between two calls of pop().                                  *)

\* The URL filter, the domain limit or robots.txt rejects the URL.
Reject(w) ==
  /\ pc[w] = "got"
  /\ Goto(w, "loop")
  /\ UNCHANGED <<seen, queue, mutex, shutdown, age, delay, url, wait, popped, stopper>>

\* set_domain_delay with the delay robots.txt asks for; then the page is
\* fetched.
SetDomainDelay(w) ==
  /\ pc[w] = "got"
  /\ \E d \in Delay : delay' = [delay EXCEPT ![DomainOf[url[w]]] = d]
  /\ Goto(w, "fetch")
  /\ UNCHANGED <<seen, queue, mutex, shutdown, age, url, wait, popped, stopper>>

MarkDomainCrawled(w) ==
  /\ pc[w] = "fetch"
  /\ age' = [age EXCEPT ![DomainOf[url[w]]] = 0]
  /\ Goto(w, "links")
  /\ UNCHANGED <<seen, queue, mutex, shutdown, delay, url, wait, popped, stopper>>

-----------------------------------------------------------------------------
(* add(), for each link of the page: add_batch calls it in turn.  A link   *)
(* already in seen_ only counts as a duplicate, which changes nothing here. *)

\* Mutant: the URL is looked up in seen_ and never inserted.
AddSeenNoInsert(w) ==
  /\ pc[w] = "links"
  /\ \E u \in Url \ seen : url' = [url EXCEPT ![w] = u]
  /\ Goto(w, "push")
  /\ UNCHANGED <<seen, queue, mutex, shutdown, age, delay, wait, popped, stopper>>

\* The first critical section: look up and insert under seen_mutex_.
AddSeen(w) ==
  /\ pc[w] = "links"
  /\ \E u \in Url \ seen : /\ seen' = seen \cup {u}
                           /\ url' = [url EXCEPT ![w] = u]
  /\ Goto(w, "push")
  /\ UNCHANGED <<queue, mutex, shutdown, age, delay, wait, popped, stopper>>

\* The second: push under queue_mutex_, whether or not shutdown_ is set.
AddPush(w) ==
  /\ pc[w] = "push"
  /\ mutex = NoWorker
  /\ \E p \in Priority : queue' = [queue EXCEPT ![<<url[w], p>>] = @ + 1]
  /\ Goto(w, "notify")
  /\ UNCHANGED <<seen, mutex, shutdown, age, delay, url, wait, popped, stopper>>

\* Mutant: the push is not followed by a notification.
AddNotifyNobody(w) ==
  /\ pc[w] = "notify"
  /\ Goto(w, "links")
  /\ UNCHANGED <<seen, queue, mutex, shutdown, age, delay, url, wait, popped, stopper>>

\* queue_cv_.notify_one(), after the mutex has been released.
AddNotify(w) ==
  /\ pc[w] = "notify"
  /\ \/ /\ At("blocked") = {}
        /\ Goto(w, "links")
     \/ \E b \in At("blocked") :
          pc' = [pc EXCEPT ![w] = "links", ![b] = "lock"]
  /\ UNCHANGED <<seen, queue, mutex, shutdown, age, delay, url, wait, popped, stopper>>

LinksDone(w) ==
  /\ pc[w] = "links"
  /\ Goto(w, "loop")
  /\ UNCHANGED <<seen, queue, mutex, shutdown, age, delay, url, wait, popped, stopper>>

-----------------------------------------------------------------------------
(* shutdown(), which the main thread calls once when a signal stops it and  *)
(* twice when it stops by itself, and the clock.                           *)

ShutdownFlag ==
  /\ stopper # "flagged"
  /\ shutdown' = TRUE
  /\ stopper' = "flagged"
  /\ UNCHANGED <<seen, queue, mutex, age, delay, pc, url, wait, popped>>

\* Mutant: one worker is woken instead of all.
ShutdownNotifyOne ==
  /\ stopper = "flagged"
  /\ stopper' = "stopped"
  /\ \/ At("blocked") = {} /\ UNCHANGED pc
     \/ \E b \in At("blocked") : Goto(b, "lock")
  /\ UNCHANGED <<seen, queue, mutex, shutdown, age, delay, url, wait, popped>>

\* queue_cv_.notify_all(), without queue_mutex_.
ShutdownNotifyAll ==
  /\ stopper = "flagged"
  /\ stopper' = "stopped"
  /\ pc' = [w \in Worker |-> IF pc[w] = "blocked" THEN "lock" ELSE pc[w]]
  /\ UNCHANGED <<seen, queue, mutex, shutdown, age, delay, url, wait, popped>>

Tick ==
  /\ \/ \E d \in Domain : age[d] < MaxDelay
     \/ \E w \in At("sleep") : wait[w] > 0
  /\ age' = [d \in Domain |-> IF age[d] < MaxDelay THEN age[d] + 1 ELSE MaxDelay]
  /\ wait' = [w \in Worker |-> IF pc[w] = "sleep" /\ wait[w] > 0
                                 THEN wait[w] - 1 ELSE wait[w]]
  /\ UNCHANGED <<seen, queue, mutex, shutdown, delay, pc, url, popped, stopper>>

-----------------------------------------------------------------------------
\* The steps of a worker that wait for no lock.
Proceed(w) ==
  \/ Loop(w) \/ PopNull(w) \/ PopOpen(w) \/ PopBlock(w) \/ PopTake(w)
  \/ ReadDelay(w) \/ ReadLastAccess(w) \/ PopReturn(w)
  \/ Reject(w) \/ SetDomainDelay(w) \/ MarkDomainCrawled(w)
  \/ AddSeen(w) \/ AddNotify(w) \/ LinksDone(w)

\* Every worker has left and the clock has nothing left to measure.
Finished == /\ stopper = "stopped" /\ At("exit") = Worker
            /\ UNCHANGED vars

Next ==
  \/ \E w \in Worker : Proceed(w) \/ PopLock(w) \/ AddPush(w) \/ SpuriousWake(w)
  \/ ShutdownFlag \/ ShutdownNotifyAll
  \/ Tick
  \/ Finished

\* The operating system runs every runnable thread, a thread that finds
\* queue_mutex_ free again and again takes it once, and time passes.  Nobody
\* has to shut the frontier down, but who has set the flag notifies.
Fairness ==
  /\ \A w \in Worker : WF_vars(Proceed(w)) /\ SF_vars(PopLock(w)) /\ SF_vars(AddPush(w))
  /\ WF_vars(ShutdownNotifyAll)
  /\ WF_vars(Tick)

Spec == Init /\ [][Next]_vars /\ Fairness

-----------------------------------------------------------------------------
(* Properties.                                                             *)

\* Every variable has its type; in particular no time is ever negative.
TypeOK ==
  /\ seen \in SUBSET Url
  /\ queue \in [Entry -> Nat]
  /\ mutex \in Worker \cup {NoWorker}
  /\ shutdown \in BOOLEAN
  /\ age \in [Domain -> 0..MaxDelay]
  /\ delay \in [Domain -> Delay \cup {DefaultDelay}]
  /\ pc \in [Worker -> Step]
  /\ url \in [Worker -> Url \cup {NoUrl}]
  /\ wait \in [Worker -> 0..MaxDelay]
  /\ popped \in [Url -> Nat]
  /\ stopper \in {"running", "flagged", "stopped"}

\* The worker has a URL that is neither in the queue nor with the crawler: on
\* its way in, between the two critical sections of add(), or on its way out.
Carries(w, u) == /\ pc[w] \in {"push", "delay", "access", "sleep"}
                 /\ url[w] = u

Carried(u) == \E w \in Worker : Carries(w, u)

Pending(u) == \E e \in Entry : e[1] = u /\ Queued(e)

Returned(u) == popped[u] > 0

\* No URL is in two places at once, or twice in one.
NoSecondCopy ==
  /\ \A u \in Url : \A w1, w2 \in Worker :
       Carries(w1, u) /\ Carries(w2, u) => w1 = w2
  /\ \A e \in Entry : queue[e] <= 1
  /\ \A e, f \in Entry : Queued(e) /\ Queued(f) /\ e[1] = f[1] => e = f
  /\ \A u \in Url : popped[u] <= 1
  /\ \A u \in Url : /\ ~(Carried(u) /\ Pending(u))
                    /\ ~(Carried(u) /\ Returned(u))
                    /\ ~(Pending(u) /\ Returned(u))

\* What seen_ holds is exactly what is somewhere: a URL that add() has marked
\* as seen cannot vanish, and nothing is delivered that was not added.
NothingLost ==
  \A u \in Url : u \in seen <=> Carried(u) \/ Pending(u) \/ Returned(u)

\* add() checks seen_ and pushes in separate critical sections, and pop()
\* takes and returns in separate steps; nevertheless every URL that was ever
\* seen is in exactly one place: being added, queued, being popped, or
\* returned once (test_thread_safety "No duplicate consumption").
ExactlyOnce == NoSecondCopy /\ NothingLost

\* The workers that will look at the queue again, or will make one look.
Attentive == At("lock") \cup At("held") \cup At("checked") \cup At("notify")

\* notify_one comes after the unlock, may hit a worker that finds its URL
\* gone, or nobody at all; yet as long as a worker is blocked, every queued
\* URL has an attentive worker: no wake-up is lost between add() and pop().
NoStrandedUrl ==
  ~shutdown /\ At("blocked") # {} =>
    Cardinality({e \in Entry : Queued(e)}) <= Cardinality(Attentive)

\* With shutdown_ set no worker gets past the check, and a worker that takes a
\* URL was the last one past it.
TakenAfterShutdown ==
  shutdown =>
    /\ At("checked")' \subseteq At("checked")
    /\ queue' # queue /\ (\E w \in Worker : pc[w] # pc'[w] /\ pc'[w] = "delay")
         => At("checked")' = {}

\* After shutdown_ is set, at most one URL leaves the queue: the one of the
\* worker that held queue_mutex_ with shutdown_ read as false.
AtMostOneTakenAfterShutdown == [][TakenAfterShutdown]_vars

\* The frontier keeps the promise of UrlDelivery, its liveness included.
Promise == INSTANCE UrlDelivery WITH
             accepted <- seen,
             delivered <- popped,
             stopped <- shutdown

Delivery == Promise!Spec

\* Every worker that is blocked when shutdown() gets to notify_all leaves
\* (test_shutdown_blocked_threads, which lets the workers block first).
BlockedWorkersLeave ==
  \A w \in Worker : (pc[w] = "blocked" /\ stopper = "flagged") ~> (pc[w] = "exit")

\* After shutdown() every worker leaves: "All blocked threads woke up".
AllWorkersLeave == shutdown ~> (At("exit") = Worker)

\* pop() hands out a URL only when its domain's delay has passed since the
\* domain was last crawled: "rate limiting works correctly per domain".
PoliteDelivery ==
  [][\A w \in Worker : pc[w] = "sleep" /\ pc'[w] = "got" =>
       LET d == DomainOf[url[w]] IN age[d] >= delay[d]]_vars
=============================================================================
