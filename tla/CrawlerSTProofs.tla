--------------------------- MODULE CrawlerSTProofs ---------------------------
(***************************************************************************)
(* What TLAPS proves of CrawlerST, for any URLs, hosts and delays, any     *)
(* number of retries and any robots files.                                 *)
(***************************************************************************)
EXTENDS CrawlerST, Induction, TLAPS

\* The steps in which run() has a URL in its hands.
Working == {"robots", "getRobots", "check", "getPage", "store", "record", "links"}

Typed ==
  /\ queue \in [Entry -> Nat] /\ skipped \in [Entry -> Nat]
  /\ seen \in SUBSET Url /\ crawled \in SUBSET Url /\ failed \in SUBSET Url
  /\ pc \in Step /\ url \in Url \cup {NoUrl}
  /\ pc \in Working <=> url # NoUrl

\* The steps that leave the frontier and the URL in hand as they are.
Unmoved ==
  UNCHANGED <<queue, seen, skipped, crawled, failed, url>>

\* Initially every variable that says where a URL is has its type.
LEMMA InitTyped == Init => Typed
  BY CrawlerSTAssumption DEF Init, Typed, NoEntries, Step, Working

\* No URL is in hand when url is NoUrl.
LEMMA NoUrlIsNone == NoUrl \notin Url
  BY CrawlerSTAssumption

\* The steps of a fetch, of the store and of the signal move no URL.
LEMMA QuietSteps ==
  ASSUME Typed,
         Loop \/ RobotsCached \/ RobotsMissing \/ Allowed \/ FetchRetries
           \/ RobotsFetched(TRUE) \/ RobotsFetched(FALSE) \/ PageFetched
           \/ StoreContent \/ UpsertPage \/ Signal \/ Tick \/ Stopped
  PROVE  Unmoved /\ Typed'
  <1> USE DEF Typed, Unmoved, Working, Step, frontier, result, fetch, robots
  <1>1. CASE Loop
    BY <1>1 DEF Loop
  <1>2. CASE RobotsCached
    BY <1>2 DEF RobotsCached
  <1>3. CASE RobotsMissing
    BY <1>3 DEF RobotsMissing
  <1>4. CASE Allowed
    BY <1>4 DEF Allowed, SetCrawlDelay
  <1>5. CASE FetchRetries
    BY <1>5 DEF FetchRetries
  <1>6. CASE RobotsFetched(TRUE)
    BY <1>6 DEF RobotsFetched
  <1>7. CASE RobotsFetched(FALSE)
    BY <1>7 DEF RobotsFetched
  <1>8. CASE PageFetched
    BY <1>8 DEF PageFetched
  <1>9. CASE StoreContent
    BY <1>9 DEF StoreContent
  <1>10. CASE UpsertPage
    BY <1>10 DEF UpsertPage
  <1>11. CASE Signal
    BY <1>11 DEF Signal
  <1>12. CASE Tick
    BY <1>12 DEF Tick, Second
  <1>13. CASE Stopped
    BY <1>13 DEF Stopped, vars
  <1> QED
    BY <1>1, <1>2, <1>3, <1>4, <1>5, <1>6, <1>7, <1>8, <1>9, <1>10, <1>11, <1>12, <1>13

-----------------------------------------------------------------------------
(* Every URL is in one place.                                              *)

Places(u) ==
  Entries(queue, u) + Entries(skipped, u)
    + Once(url = u) + Once(u \in crawled) + Once(u \in failed)

\* What holds of every number of entries.
LEMMA EntriesType ==
  ASSUME NEW q \in [Entry -> Nat], NEW u \in Url
  PROVE  Entries(q, u) \in Nat
  <1>1. /\ [url |-> u, priority |-> SEED] \in Entry
        /\ [url |-> u, priority |-> NORMAL] \in Entry
    BY DEF Entry
  <1>2. \A e \in Entry : q[e] \in Nat
    OBVIOUS
  <1>3. \A i, j \in Nat : i + j \in Nat
    OBVIOUS
  <1> QED
    BY <1>1, <1>2, <1>3 DEF Entries

\* A queue that differs in one entry has other entries of its URL only.
LEMMA EntryChanged ==
  ASSUME NEW q \in [Entry -> Nat], NEW r \in [Entry -> Nat], NEW e \in Entry, NEW n \in Int,
         r[e] = q[e] + n, \A f \in Entry \ {e} : r[f] = q[f],
         NEW u \in Url
  PROVE  Entries(r, u) = Entries(q, u) + (IF e.url = u THEN n ELSE 0)
  <1> DEFINE s == [url |-> u, priority |-> SEED]
             m == [url |-> u, priority |-> NORMAL]
  <1>1. s \in Entry /\ m \in Entry /\ s # m
    BY DEF Entry, SEED, NORMAL
  <1>2. (e.url = u) <=> (e = s \/ e = m)
    BY DEF Entry
  <1>3. q[s] \in Nat /\ q[m] \in Nat /\ r[s] \in Nat /\ r[m] \in Nat
    BY <1>1
  <1> HIDE DEF s, m
  <1>4. r[s] + r[m] = (q[s] + q[m]) + (IF e = s \/ e = m THEN n ELSE 0)
    BY <1>1, <1>3
  <1> QED
    BY <1>2, <1>4 DEF Entries, s, m

\* The entries that get_next has passed go back.
LEMMA PutBackEntries ==
  ASSUME NEW q \in [Entry -> Nat], Typed, PutBack(q), NEW u \in Url
  PROVE  /\ queue' \in [Entry -> Nat] /\ skipped' \in [Entry -> Nat]
         /\ Entries(queue', u) = Entries(q, u) + Entries(skipped, u)
         /\ Entries(skipped', u) = 0
  <1> DEFINE s == [url |-> u, priority |-> SEED]
             m == [url |-> u, priority |-> NORMAL]
  <1>1. s \in Entry /\ m \in Entry
    BY DEF Entry
  <1>2. q[s] \in Nat /\ q[m] \in Nat /\ skipped[s] \in Nat /\ skipped[m] \in Nat
    BY <1>1 DEF Typed
  <1>3. /\ queue' \in [Entry -> Nat] /\ skipped' \in [Entry -> Nat]
        /\ queue'[s] = q[s] + skipped[s] /\ queue'[m] = q[m] + skipped[m]
        /\ skipped'[s] = 0 /\ skipped'[m] = 0
    BY <1>1 DEF PutBack, NoEntries, Typed
  <1> HIDE DEF s, m
  <1>4. /\ queue'[s] + queue'[m] = (q[s] + q[m]) + (skipped[s] + skipped[m])
        /\ skipped'[s] + skipped'[m] = 0
    BY <1>2, <1>3
  <1> QED
    BY <1>3, <1>4 DEF Entries, s, m

\* Once counts zero or one.
LEMMA OnceType == \A b \in BOOLEAN : Once(b) \in 0..1
  BY DEF Once

\* get_next passes an entry.
LEMMA PassEntryKeeps ==
  ASSUME Typed, PassEntry
  PROVE  Typed' /\ \A u \in Url : Places(u)' = Places(u)
  <1>1. PICK e \in Entry : GetNextSkip(e)
    BY DEF PassEntry
  <1>2. queue[e] \in Nat /\ queue[e] > 0 /\ skipped[e] \in Nat
    BY <1>1 DEF GetNextSkip, IsTop, Typed
  <1>3. queue' = [queue EXCEPT ![e] = @ - 1] /\ skipped' = [skipped EXCEPT ![e] = @ + 1]
    BY <1>1 DEF GetNextSkip
  <1>4. /\ UNCHANGED <<seen, crawled, failed, url, pc>>
        /\ queue \in [Entry -> Nat] /\ skipped \in [Entry -> Nat]
    BY <1>1 DEF PassEntry, GetNextSkip, result, Typed
  <1>5. /\ queue' \in [Entry -> Nat] /\ skipped' \in [Entry -> Nat]
        /\ queue'[e] = queue[e] + (-1) /\ skipped'[e] = skipped[e] + 1
        /\ \A f \in Entry \ {e} : queue'[f] = queue[f] /\ skipped'[f] = skipped[f]
    BY <1>2, <1>3, <1>4
  <1>6. \A u \in Url :
          /\ Entries(queue', u) = Entries(queue, u) + (IF e.url = u THEN -1 ELSE 0)
          /\ Entries(skipped', u) = Entries(skipped, u) + (IF e.url = u THEN 1 ELSE 0)
    BY <1>4, <1>5, EntryChanged
  <1>7. Typed'
    BY <1>4, <1>5 DEF Typed
  <1>8. ASSUME NEW u \in Url PROVE Places(u)' = Places(u)
    <2>1. Entries(queue, u) \in Nat /\ Entries(skipped, u) \in Nat
      BY <1>4, EntriesType
    <2>2. Entries(queue', u) + Entries(skipped', u) = Entries(queue, u) + Entries(skipped, u)
      BY <2>1, <1>6
    <2>3. Places(u)' = Entries(queue', u) + Entries(skipped', u)
                         + Once(url = u) + Once(u \in crawled) + Once(u \in failed)
      BY <1>4 DEF Places, Once
    <2> QED
      BY <2>2, <2>3 DEF Places
  <1> QED
    BY <1>7, <1>8

\* get_next returns an entry.
LEMMA TakeEntryKeeps ==
  ASSUME Typed, TakeEntry
  PROVE  Typed' /\ \A u \in Url : Places(u)' = Places(u)
  <1>1. PICK e \in Entry : GetNextTake(e) /\ url' = e.url
    BY DEF TakeEntry
  <1> DEFINE q == [queue EXCEPT ![e] = @ - 1]
  <1>2. queue[e] \in Nat /\ queue[e] > 0 /\ e.url \in Url
    BY <1>1 DEF GetNextTake, IsTop, Typed, Entry
  <1>3. /\ PutBack(q) /\ queue \in [Entry -> Nat] /\ skipped \in [Entry -> Nat]
    BY <1>1 DEF GetNextTake, Typed
  <1>4. /\ UNCHANGED <<seen, crawled, failed>>
        /\ pc = "next" /\ pc' = "robots" /\ url = NoUrl
    BY <1>1 DEF TakeEntry, GetNextTake, result, Typed, Working
  <1>5. /\ q \in [Entry -> Nat] /\ q[e] = queue[e] + (-1)
         /\ \A f \in Entry \ {e} : q[f] = queue[f]
    BY <1>2, <1>3
  <1> HIDE DEF q
  <1>6. \A u \in Url : Entries(q, u) = Entries(queue, u) + (IF e.url = u THEN -1 ELSE 0)
    BY <1>3, <1>5, EntryChanged
  <1>7. \A u \in Url :
          /\ queue' \in [Entry -> Nat] /\ skipped' \in [Entry -> Nat]
          /\ Entries(queue', u) = Entries(q, u) + Entries(skipped, u)
          /\ Entries(skipped', u) = 0
    BY <1>3, <1>5, PutBackEntries
  <1>8. Typed'
    BY <1>1, <1>2, <1>4, <1>7, NoUrlIsNone DEF Typed, Working, Step
  <1>9. ASSUME NEW u \in Url PROVE Places(u)' = Places(u)
    <2>1. Entries(queue, u) \in Nat /\ Entries(skipped, u) \in Nat
      BY <1>3, EntriesType
    <2>2. Once(url' = u) = IF e.url = u THEN 1 ELSE 0
      BY <1>1 DEF Once
    <2>3. Once(url = u) = 0
      BY <1>4, NoUrlIsNone DEF Once
    <2>4. Entries(queue', u) + Entries(skipped', u) + Once(url' = u)
            = Entries(queue, u) + Entries(skipped, u) + Once(url = u)
      BY <2>1, <2>2, <2>3, <1>6, <1>7
    <2>5. Places(u)' = Entries(queue', u) + Entries(skipped', u) + Once(url' = u)
                         + Once(u \in crawled) + Once(u \in failed)
      BY <1>4 DEF Places, Once
    <2> QED
      BY <2>4, <2>5 DEF Places
  <1> QED
    BY <1>8, <1>9

\* get_next has found none.
LEMMA NoEntryKeeps ==
  ASSUME Typed, NoEntry
  PROVE  Typed' /\ \A u \in Url : Places(u)' = Places(u)
  <1>1. /\ PutBack(queue) /\ queue \in [Entry -> Nat] /\ skipped \in [Entry -> Nat]
        /\ UNCHANGED <<seen, crawled, failed, url>>
        /\ pc = "next" /\ pc' \in {"stopped", "loop"}
    BY DEF NoEntry, GetNextNone, result, Typed
  <1>2. \A u \in Url :
          /\ Entries(queue', u) = Entries(queue, u) + Entries(skipped, u)
          /\ Entries(skipped', u) = 0
    BY <1>1, PutBackEntries
  <1>3. queue' \in [Entry -> Nat] /\ skipped' \in [Entry -> Nat]
    BY <1>1 DEF PutBack, NoEntries
  <1>4. Typed'
    BY <1>1, <1>3 DEF Typed, Working, Step
  <1>5. ASSUME NEW u \in Url PROVE Places(u)' = Places(u)
    <2>1. Entries(queue, u) \in Nat /\ Entries(skipped, u) \in Nat
      BY <1>1, EntriesType
    <2>2. Entries(queue', u) + Entries(skipped', u) = Entries(queue, u) + Entries(skipped, u)
      BY <2>1, <1>2
    <2>3. Places(u)' = Entries(queue', u) + Entries(skipped', u)
                         + Once(url = u) + Once(u \in crawled) + Once(u \in failed)
      BY <1>1 DEF Places, Once
    <2> QED
      BY <2>2, <2>3 DEF Places
  <1> QED
    BY <1>4, <1>5

Accounted == Typed /\ EveryUrlAccounted

\* Initially a URL is queued once when it is a seed, and nowhere otherwise.
LEMMA InitAccounted == Init => Accounted
  <1> SUFFICES ASSUME Init PROVE Accounted
    OBVIOUS
  <1>1. Typed
    BY InitTyped
  <1>2. ASSUME NEW u \in Url
        PROVE  Entries(queue, u) + Entries(skipped, u) + Once(url = u)
                 + Once(u \in crawled) + Once(u \in failed) = Once(u \in seen)
    <2> DEFINE s == [url |-> u, priority |-> SEED]
               m == [url |-> u, priority |-> NORMAL]
    <2>1. s \in Entry /\ m \in Entry /\ s.url = u /\ m.url = u
          /\ s.priority = SEED /\ m.priority # SEED
      BY DEF Entry, SEED, NORMAL
    <2> HIDE DEF s, m
    <2>2. /\ queue[s] = (IF u \in Seeds THEN 1 ELSE 0) /\ queue[m] = 0
          /\ skipped[s] = 0 /\ skipped[m] = 0
      BY <2>1 DEF Init, NoEntries
    <2>3. Entries(queue, u) = (IF u \in Seeds THEN 1 ELSE 0) /\ Entries(skipped, u) = 0
      BY <2>2 DEF Entries, s, m
    <2>4. /\ Once(url = u) = 0 /\ Once(u \in crawled) = 0 /\ Once(u \in failed) = 0
          /\ Once(u \in seen) = IF u \in Seeds THEN 1 ELSE 0
      BY NoUrlIsNone DEF Init, Once
    <2> QED
      BY <2>3, <2>4
  <1> QED
    BY <1>1, <1>2 DEF Accounted, EveryUrlAccounted

\* A URL in hand is nowhere else, and is a seen one.
LEMMA InHandOnce ==
  ASSUME Accounted, url \in Url
  PROVE  /\ Entries(queue, url) = 0 /\ Entries(skipped, url) = 0
         /\ url \notin crawled /\ url \notin failed /\ url \in seen
  <1>1. Entries(queue, url) \in Nat /\ Entries(skipped, url) \in Nat
    BY EntriesType DEF Accounted, Typed
  <1>2. Entries(queue, url) + Entries(skipped, url) + 1
          + Once(url \in crawled) + Once(url \in failed) = Once(url \in seen)
    BY DEF Accounted, EveryUrlAccounted, Once
  <1>3. /\ Once(url \in crawled) = IF url \in crawled THEN 1 ELSE 0
        /\ Once(url \in failed) = IF url \in failed THEN 1 ELSE 0
        /\ Once(url \in seen) = IF url \in seen THEN 1 ELSE 0
    BY DEF Once
  <1> QED
    BY <1>1, <1>2, <1>3

\* A URL that robots.txt forbids, or that cannot be downloaded, has failed.
LEMMA FailKeeps ==
  ASSUME Accounted, Blocked \/ PageFailed
  PROVE  Accounted'
  <1>1. /\ UNCHANGED <<queue, seen, skipped, crawled>>
        /\ failed' = failed \cup {url} /\ url' = NoUrl /\ pc' = "loop" /\ url \in Url
    BY DEF Blocked, PageFailed, frontier, Accounted, Typed, Working
  <1>2. Typed'
    BY <1>1 DEF Accounted, Typed, Working, Step
  <1>3. ASSUME NEW u \in Url
        PROVE  Places(u)' = Once(u \in seen)'
    <2>1. Places(u) = Once(u \in seen)
      BY DEF Accounted, EveryUrlAccounted, Places
    <2>2. Entries(queue, u) \in Nat /\ Entries(skipped, u) \in Nat
      BY EntriesType DEF Accounted, Typed
    <2>3. Once(url = u) + Once(u \in failed) = Once(url' = u) + Once(u \in failed')
      BY <1>1, InHandOnce, NoUrlIsNone DEF Once
    <2>4. Places(u)' = Entries(queue, u) + Entries(skipped, u)
                         + Once(url' = u) + Once(u \in crawled) + Once(u \in failed')
      BY <1>1 DEF Places, Once
    <2>5. /\ Once(url = u) \in Nat /\ Once(u \in failed) \in Nat /\ Once(u \in crawled) \in Nat
          /\ Once(url' = u) \in Nat /\ Once(u \in failed') \in Nat
      BY DEF Once
    <2>6. Places(u)' = Places(u)
      BY <2>2, <2>3, <2>4, <2>5 DEF Places
    <2> QED
      BY <2>1, <2>6, <1>1 DEF Once
  <1> QED
    BY <1>2, <1>3 DEF Accounted, EveryUrlAccounted, Places

\* The page is done with, and its links are added.
LEMMA AddLinksKeeps ==
  ASSUME Accounted, AddLinks
  PROVE  Accounted'
  <1> DEFINE new == LinksOf[url] \ seen
  <1>1. /\ url \in Url /\ LinksOf[url] \subseteq Url
        /\ seen' = seen \cup new /\ UNCHANGED <<skipped, failed>>
        /\ queue' = [e \in Entry |-> IF e.url \in new /\ e.priority = NORMAL
                                       THEN queue[e] + 1 ELSE queue[e]]
        /\ crawled' = crawled \cup {url} /\ url' = NoUrl /\ pc' = "loop"
    BY CrawlerSTAssumption DEF AddLinks, Add, Accounted, Typed, Working
  <1>2. queue' \in [Entry -> Nat]
    <2>1. \A e \in Entry : queue[e] \in Nat /\ queue[e] + 1 \in Nat
      BY DEF Accounted, Typed
    <2> QED
      BY <1>1, <2>1
  <1>3. Typed'
    BY <1>1, <1>2 DEF Accounted, Typed, Working, Step
  <1> HIDE DEF new
  <1>4. ASSUME NEW u \in Url
        PROVE  Places(u)' = Once(u \in seen)'
    <2>1. Places(u) = Once(u \in seen)
      BY DEF Accounted, EveryUrlAccounted, Places
    <2>2. Entries(queue, u) \in Nat /\ Entries(skipped, u) \in Nat
      BY EntriesType DEF Accounted, Typed
    <2>3. Entries(queue', u) = Entries(queue, u) + Once(u \in new)
      <3> DEFINE s == [url |-> u, priority |-> SEED]
                 m == [url |-> u, priority |-> NORMAL]
      <3>1. s \in Entry /\ m \in Entry /\ s.url = u /\ m.url = u
            /\ s.priority # NORMAL /\ m.priority = NORMAL
        BY DEF Entry, SEED, NORMAL
      <3> HIDE DEF s, m
      <3>2. queue[s] \in Nat /\ queue[m] \in Nat
        BY <3>1 DEF Accounted, Typed
      <3>3. queue'[s] = queue[s] /\ queue'[m] = IF u \in new THEN queue[m] + 1 ELSE queue[m]
        BY <1>1, <3>1
      <3> QED
        BY <3>2, <3>3 DEF Entries, Once, s, m
    <2>4. Once(url = u) + Once(u \in crawled) = Once(url' = u) + Once(u \in crawled')
      BY <1>1, InHandOnce, NoUrlIsNone DEF Once
    <2>5. Once(u \in seen') = Once(u \in seen) + Once(u \in new)
      BY <1>1 DEF Once, new
    <2>6. Places(u)' = Entries(queue', u) + Entries(skipped, u)
                         + Once(url' = u) + Once(u \in crawled') + Once(u \in failed)
      BY <1>1 DEF Places, Once
    <2>7. /\ Once(url = u) \in Nat /\ Once(u \in failed) \in Nat /\ Once(u \in crawled) \in Nat
          /\ Once(url' = u) \in Nat /\ Once(u \in crawled') \in Nat /\ Once(u \in new) \in Nat
      BY DEF Once
    <2>8. Places(u)' = Places(u) + Once(u \in new)
      BY <2>2, <2>3, <2>4, <2>6, <2>7 DEF Places
    <2> QED
      BY <2>1, <2>5, <2>8 DEF Once
  <1> QED
    BY <1>3, <1>4 DEF Accounted, EveryUrlAccounted, Places

\* Every step preserves the place of every URL.
LEMMA NextAccounted == Accounted /\ [Next]_vars => Accounted'
  <1> SUFFICES ASSUME Accounted, [Next]_vars PROVE Accounted'
    OBVIOUS
  <1> USE DEF Accounted
  <1>1. CASE PassEntry \/ TakeEntry \/ NoEntry
    <2>1. Typed' /\ \A u \in Url : Places(u)' = Places(u)
      BY <1>1, PassEntryKeeps, TakeEntryKeeps, NoEntryKeeps
    <2>2. seen' = seen
      BY <1>1 DEF PassEntry, TakeEntry, NoEntry, GetNextSkip, GetNextTake, GetNextNone
    <2> QED
      BY <2>1, <2>2 DEF EveryUrlAccounted, Places, Once
  <1>2. CASE Blocked \/ PageFailed
    BY <1>2, FailKeeps
  <1>3. CASE AddLinks
    BY <1>3, AddLinksKeeps
  <1>4. CASE Loop \/ RobotsCached \/ RobotsMissing \/ Allowed \/ FetchRetries
               \/ RobotsFetched(TRUE) \/ RobotsFetched(FALSE) \/ PageFetched
               \/ StoreContent \/ UpsertPage \/ Signal \/ Tick \/ Stopped
    <2>1. Unmoved /\ Typed'
      BY <1>4, QuietSteps
    <2> QED
      BY <2>1 DEF Unmoved, EveryUrlAccounted, Entries, Once
  <1>5. CASE UNCHANGED vars
    BY <1>5, QuietSteps DEF vars, frontier, result, EveryUrlAccounted, Entries, Once, Typed
  <1> QED
    BY <1>1, <1>2, <1>3, <1>4, <1>5 DEF Next, Main

\* A URL that was ever added to the frontier is queued once, passed over, worked on,
\* crawled or failed, in exactly one of these places: get_next, which empties its
\* queue to look for a URL that is due, and add, which looks at seen_urls_ only,
\* neither lose nor double one.
THEOREM AllAccounted == Spec => []EveryUrlAccounted
  <1>1. Spec => []Accounted
    BY InitAccounted, NextAccounted, PTL DEF Spec
  <1>2. Accounted => EveryUrlAccounted
    BY DEF Accounted
  <1> QED
    BY <1>1, <1>2, PTL

-----------------------------------------------------------------------------
(* get_next returns the best URL that was due.                             *)

\* What was due when get_next was called is still queued, and still due.
Due ==
  /\ ready \subseteq Entry
  /\ pc # "next" => ready = {}
  /\ \A e \in ready : queue[e] > 0 /\ CanCrawlDomain(DomainOf[e.url])

DueInv == Typed /\ Due

\* Initially get_next is not running.
LEMMA InitDue == Init => DueInv
  BY InitTyped DEF Init, DueInv, Due

\* Every step preserves the types.
LEMMA NextTyped == Typed /\ [Next]_vars => Typed'
  <1> SUFFICES ASSUME Typed, [Next]_vars PROVE Typed'
    OBVIOUS
  <1>1. CASE PassEntry \/ TakeEntry \/ NoEntry
    BY <1>1, PassEntryKeeps, TakeEntryKeeps, NoEntryKeeps
  <1>2. CASE Blocked \/ PageFailed
    BY <1>2 DEF Blocked, PageFailed, frontier, Typed, Working, Step
  <1>3. CASE AddLinks
    <2>1. \A e \in Entry : queue[e] \in Nat /\ queue[e] + 1 \in Nat
      BY DEF Typed
    <2>2. queue' \in [Entry -> Nat] /\ UNCHANGED <<skipped, failed>>
      BY <1>3, <2>1 DEF AddLinks, Add
    <2>3. /\ seen' = seen \cup LinksOf[url] /\ crawled' = crawled \cup {url}
          /\ url' = NoUrl /\ pc' = "loop" /\ pc = "links"
      BY <1>3 DEF AddLinks, Add
    <2>4. url \in Url /\ LinksOf[url] \subseteq Url
      BY <2>3, CrawlerSTAssumption DEF Typed, Working
    <2> QED
      BY <2>2, <2>3, <2>4 DEF Typed, Working, Step
  <1>4. CASE Loop \/ RobotsCached \/ RobotsMissing \/ Allowed \/ FetchRetries
               \/ RobotsFetched(TRUE) \/ RobotsFetched(FALSE) \/ PageFetched
               \/ StoreContent \/ UpsertPage \/ Signal \/ Tick \/ Stopped
    BY <1>4, QuietSteps
  <1>5. CASE UNCHANGED vars
    BY <1>5 DEF vars, frontier, result, Typed
  <1> QED
    BY <1>1, <1>2, <1>3, <1>4, <1>5 DEF Next, Main

\* Every step of get_next, and every tick meanwhile, leaves what was due queued and
\* due.
LEMMA NextDue == DueInv /\ [Next]_vars => DueInv'
  <1> SUFFICES ASSUME DueInv, [Next]_vars PROVE DueInv'
    OBVIOUS
  <1>1. Typed'
    BY NextTyped DEF DueInv
  <1> USE DEF DueInv, Due
  <1>2. CASE Loop
    BY <1>1, <1>2 DEF Loop, frontier, CanCrawlDomain
  <1>3. CASE PassEntry
    <2>1. PICK e \in Entry : GetNextSkip(e)
      BY <1>3 DEF PassEntry
    <2>2. e \notin ready /\ UNCHANGED <<ready, pc, wait>>
      BY <1>3, <2>1 DEF PassEntry, GetNextSkip, history
    <2>3. \A f \in Entry \ {e} : queue'[f] = queue[f]
      BY <2>1 DEF GetNextSkip, Typed
    <2> QED
      BY <1>1, <2>2, <2>3 DEF CanCrawlDomain
  <1>4. CASE TakeEntry \/ NoEntry
    BY <1>1, <1>4 DEF TakeEntry, NoEntry
  <1>5. CASE RobotsCached \/ RobotsMissing \/ FetchRetries \/ PageFetched \/ PageFailed
               \/ StoreContent \/ UpsertPage \/ AddLinks
    BY <1>1, <1>5 DEF RobotsCached, RobotsMissing, FetchRetries, PageFetched, PageFailed,
                 StoreContent, UpsertPage, AddLinks, history
  <1>6. CASE RobotsFetched(TRUE) \/ RobotsFetched(FALSE) \/ Blocked \/ Allowed
    BY <1>1, <1>6 DEF RobotsFetched, Blocked, Allowed
  <1>7. CASE Signal \/ Stopped \/ UNCHANGED vars
    BY <1>1, <1>7 DEF Signal, Stopped, vars, history, frontier, CanCrawlDomain
  <1>8. CASE Tick
    <2>1. UNCHANGED <<queue, ready, pc>>
      BY <1>8 DEF Tick, Second
    <2>2. \A d \in Domain : wait[d] = 0 => wait'[d] = 0
      BY <1>8 DEF Tick, Second
    <2>3. \A e \in ready : DomainOf[e.url] \in Domain
      BY FrontierSTAssumption DEF Entry
    <2> QED
      BY <1>1, <2>1, <2>2, <2>3 DEF CanCrawlDomain
  <1> QED
    BY <1>2, <1>3, <1>4, <1>5, <1>6, <1>7, <1>8 DEF Next, Main

\* The entry that is taken is the best one queued, and what was due is queued.
LEMMA TakesBest ==
  ASSUME DueInv, TakeEntry
  PROVE  \A e \in ready : \E f \in Entry : /\ f.url = url' /\ queue[f] > 0
                                           /\ f.priority <= e.priority
  <1>1. PICK f \in Entry : GetNextTake(f) /\ url' = f.url
    BY DEF TakeEntry
  <1>2. queue[f] > 0 /\ \A e \in Entry : queue[e] > 0 => f.priority <= e.priority
    BY <1>1 DEF GetNextTake, IsTop
  <1> QED
    BY <1>1, <1>2 DEF DueInv, Due

\* get_next returns a URL at least as good as every one that was due when it was
\* called, although it takes entries out of the queue and the clock goes on.
THEOREM BestIsTaken == Spec => BestDueFirst
  <1>1. Spec => []DueInv
    BY InitDue, NextDue, PTL DEF Spec
  <1>2. DueInv /\ [Next]_vars =>
          [TakeEntry => \A e \in ready :
             \E f \in Entry : /\ f.url = url' /\ queue[f] > 0
                              /\ f.priority <= e.priority]_vars
    BY TakesBest
  <1> QED
    BY <1>1, <1>2, PTL DEF Spec, BestDueFirst

-----------------------------------------------------------------------------
(* What is stored is one response.                                         *)

OneResponse ==
  /\ content \in 0..1
  /\ stored \in [Url -> 0..1]

ResponseInv == Typed /\ OneResponse

\* Initially nothing is downloaded or stored.
LEMMA InitResponse == Init => ResponseInv
  BY InitTyped DEF Init, ResponseInv, OneResponse

\* A retry clears what the attempt before has received.
LEMMA NextResponse == ResponseInv /\ [Next]_vars => ResponseInv'
  <1> SUFFICES ASSUME ResponseInv, [Next]_vars PROVE ResponseInv'
    OBVIOUS
  <1>1. Typed'
    BY NextTyped DEF ResponseInv
  <1> USE DEF ResponseInv, OneResponse, Cleared, fetch, result
  <1>2. CASE PassEntry \/ TakeEntry \/ NoEntry \/ Loop \/ RobotsCached \/ RobotsMissing
               \/ Blocked \/ Allowed \/ UpsertPage \/ Signal \/ Tick \/ Stopped \/ UNCHANGED vars
    BY <1>1, <1>2 DEF PassEntry, TakeEntry, NoEntry, Loop, RobotsCached, RobotsMissing,
                      Blocked, Allowed, UpsertPage, Signal, Tick, Stopped, vars
  <1>3. CASE FetchRetries \/ PageFetched \/ PageFailed \/ AddLinks
               \/ RobotsFetched(TRUE) \/ RobotsFetched(FALSE)
    BY <1>1, <1>3 DEF FetchRetries, PageFetched, PageFailed, AddLinks, RobotsFetched
  <1>4. CASE StoreContent
    BY <1>1, <1>4 DEF StoreContent
  <1> QED
    BY <1>2, <1>3, <1>4 DEF Next, Main

\* What is stored of a page has the data of one attempt only, however many have
\* been broken off with some of their data received.
THEOREM StoredOne == Spec => []StoredIsOneResponse
  <1>1. Spec => []ResponseInv
    BY InitResponse, NextResponse, PTL DEF Spec
  <1>2. ResponseInv => StoredIsOneResponse
    BY DEF ResponseInv, OneResponse, StoredIsOneResponse
  <1> QED
    BY <1>1, <1>2, PTL

-----------------------------------------------------------------------------
(* What the parser makes of a robots.txt.  It reads one line after the     *)
(* other; the lemmas say what it knows after k of them, in terms of the    *)
(* lines up to there.                                                      *)

Rule == [allow : BOOLEAN, path : RulePath]
Group == [listed : BOOLEAN, rules : Seq(Rule), crawlDelay : Int]
ParserState == [groups : [Agent -> Group], agents : SUBSET Agent, seenRule : BOOLEAN]

FirstState == [groups |-> R!NoGroups, agents |-> {}, seenRule |-> FALSE]

\* The kinds of lines, with what their values are.
LEMMA LineKinds ==
  ASSUME NEW l \in R!Line
  PROVE  \/ l.directive \in {"allow", "disallow"} /\ l.value \in RulePath
         \/ l.directive = "user-agent" /\ l.value \in Agent
         \/ l.directive = "crawl-delay" /\ l.value \in Int
         \/ l.directive \in {"bad-delay", "other"}
  <1>1. CASE l \in [directive : {"allow", "disallow"}, value : RulePath]
    BY <1>1
  <1>2. CASE l \in [directive : {"user-agent"}, value : Agent]
    BY <1>2
  <1>3. CASE l \in [directive : {"crawl-delay"}, value : Int]
    BY <1>3
  <1>4. CASE l \in {R!BadDelay, R!Other}
    <2>1. CASE l = R!BadDelay
      BY <2>1 DEF R!BadDelay
    <2>2. CASE l = R!Other
      BY <2>2 DEF R!Other
    <2> QED
      BY <1>4, <2>1, <2>2
  <1> QED
    BY <1>1, <1>2, <1>3, <1>4 DEF R!Line

\* A rule changes a group into a group.
LEMMA RuledType ==
  ASSUME NEW g \in Group, NEW l \in R!Line
  PROVE  R!Ruled(g, l) \in Group
  <1>1. CASE l.directive \in {"allow", "disallow"} /\ l.value \in RulePath
    <2> DEFINE new == [allow |-> l.directive = "allow", path |-> l.value]
    <2>1. new \in Rule
      BY <1>1 DEF Rule
    <2>2. R!Ruled(g, l) = [g EXCEPT !.rules = Append(@, new)]
      BY <1>1 DEF R!Ruled
    <2> HIDE DEF new
    <2>3. Append(g.rules, new) \in Seq(Rule)
      BY <2>1 DEF Group
    <2> QED
      BY <2>2, <2>3 DEF Group
  <1>2. CASE l.directive = "user-agent" \/ l.directive \in {"bad-delay", "other"}
    BY <1>2 DEF R!Ruled
  <1>3. CASE l.directive = "crawl-delay" /\ l.value \in Int
    BY <1>3 DEF R!Ruled, Group
  <1> QED
    BY <1>1, <1>2, <1>3, LineKinds

\* A turn of the loop of parse() on a user-agent line, on a rule that has an
\* agent, and on any other line.
LEMMA ParseLineCases ==
  ASSUME NEW s \in ParserState, NEW l \in R!Line
  PROVE  LET t == R!ParseLine(s, l) IN
         /\ t \in ParserState
         /\ l.directive = "user-agent" =>
              /\ l.value \in Agent
              /\ t.agents = (IF s.seenRule THEN {} ELSE s.agents) \cup {l.value}
              /\ ~t.seenRule
              /\ \A a \in Agent :
                   /\ t.groups[a].listed <=> (s.groups[a].listed \/ a = l.value)
                   /\ t.groups[a].rules = s.groups[a].rules
                   /\ t.groups[a].crawlDelay = s.groups[a].crawlDelay
         /\ R!IsRule(l) /\ s.agents # {} =>
              /\ t.agents = s.agents /\ t.seenRule
              /\ \A a \in Agent :
                   t.groups[a] = IF a \in s.agents THEN R!Ruled(s.groups[a], l) ELSE s.groups[a]
         /\ l.directive # "user-agent" /\ ~(R!IsRule(l) /\ s.agents # {}) => t = s
  <1> DEFINE t == R!ParseLine(s, l)
  <1>1. s.groups \in [Agent -> Group] /\ s.agents \in SUBSET Agent /\ s.seenRule \in BOOLEAN
    BY DEF ParserState
  <1>2. CASE l.directive = "user-agent"
    <2>1. l.value \in Agent
      BY <1>2, LineKinds
    <2>2. t = [groups |-> [s.groups EXCEPT ![l.value].listed = TRUE],
               agents |-> (IF s.seenRule THEN {} ELSE s.agents) \cup {l.value},
               seenRule |-> FALSE]
      BY <1>2, Zenon DEF R!ParseLine
    <2>3. /\ t.groups = [s.groups EXCEPT ![l.value].listed = TRUE]
          /\ t.agents = (IF s.seenRule THEN {} ELSE s.agents) \cup {l.value}
          /\ t.seenRule = FALSE
      BY <2>2
    <2>4. t.groups \in [Agent -> Group]
      BY <1>1, <2>1, <2>3, ZenonT(40) DEF Group
    <2>5. \A a \in Agent :
            /\ t.groups[a].listed <=> (s.groups[a].listed \/ a = l.value)
            /\ t.groups[a].rules = s.groups[a].rules
            /\ t.groups[a].crawlDelay = s.groups[a].crawlDelay
      BY <1>1, <2>1, <2>3 DEF Group
    <2>6. t \in ParserState
      <3>1. t.agents \in SUBSET Agent
        BY <1>1, <2>1, <2>3
      <3> QED
        BY <2>2, <2>4, <3>1 DEF ParserState
    <2>7. ~R!IsRule(l)
      BY <1>2 DEF R!IsRule
    <2> QED
      BY <1>2, <2>1, <2>3, <2>5, <2>6, <2>7
  <1>3. CASE R!IsRule(l) /\ s.agents # {}
    <2>1. l.directive # "user-agent"
      BY <1>3 DEF R!IsRule
    <2>2. t = [s EXCEPT !.groups = [a \in Agent |-> IF a \in s.agents
                                                      THEN R!Ruled(@[a], l) ELSE @[a]],
                        !.seenRule = TRUE]
      BY <1>3, <2>1, Zenon DEF R!ParseLine
    <2>3. /\ t.groups = [a \in Agent |-> IF a \in s.agents THEN R!Ruled(s.groups[a], l)
                                                         ELSE s.groups[a]]
          /\ t.agents = s.agents /\ t.seenRule = TRUE
          /\ t = [groups |-> t.groups, agents |-> t.agents, seenRule |-> t.seenRule]
      BY <2>2 DEF ParserState
    <2>4. t.groups \in [Agent -> Group]
      BY <1>1, <2>3, RuledType
    <2>5. t \in ParserState
      BY <1>1, <2>3, <2>4 DEF ParserState
    <2> HIDE DEF t
    <2> QED
      BY <1>3, <2>1, <2>3, <2>5 DEF t
  <1>4. CASE l.directive # "user-agent" /\ ~(R!IsRule(l) /\ s.agents # {})
    BY <1>4 DEF R!ParseLine
  <1> QED
    BY <1>2, <1>3, <1>4

\* The states of parse(): the first one, and one more for each line.
LEMMA ParsingSteps ==
  ASSUME NEW f \in Seq(R!Line)
  PROVE  /\ R!Parsing(f)[0] = FirstState
         /\ \A k \in 0..Len(f) : R!Parsing(f)[k] \in ParserState
         /\ \A k \in 1..Len(f) : R!Parsing(f)[k] = R!ParseLine(R!Parsing(f)[k - 1], f[k])
  <1> DEFINE N == Len(f)
             step == [x \in ParserState \X (1..N) |-> R!ParseLine(x[1], f[x[2]])]
             Equation(g) == g = [i \in 0..N |-> IF i = 0 THEN FirstState
                                                ELSE R!ParseLine(g[i - 1], f[i])]
  <1>1. N \in Nat /\ \A i \in 1..N : f[i] \in R!Line
    OBVIOUS
  <1>2. FirstState \in ParserState
    <2>1. <<>> \in Seq(Rule)
      OBVIOUS
    <2>2. R!NoGroups \in [Agent -> Group]
      BY <2>1 DEF R!NoGroups, R!NotSet, Group
    <2> QED
      BY <2>2 DEF FirstState, ParserState
  <1>3. step \in [ParserState \X (1..N) -> ParserState]
    BY <1>1, ParseLineCases
  <1>4. \A s \in ParserState, i \in 1..N : step[<<s, i>>] = R!ParseLine(s, f[i])
    OBVIOUS
  <1> HIDE DEF N, step
  <1>5. PICK g : Recurs(g, N, ParserState, FirstState, step)
    <2>1. IsStep(step, N, ParserState)
      BY <1>3 DEF IsStep
    <2> HIDE DEF Equation
    <2> QED
      BY <2>1, <1>1, <1>2, RecursionExists
  <1>6. Equation(g)
    <2>1. \A i \in 0..N : i # 0 => i \in 1..N /\ i - 1 \in 0..N
      BY <1>1
    <2>2. \A i \in 0..N : i # 0 => step[<<g[i - 1], i>>] = R!ParseLine(g[i - 1], f[i])
      BY <1>4, <1>5, <2>1 DEF Recurs
    <2>3. g = [i \in 0..N |-> g[i]]
      BY <1>5 DEF Recurs
    <2>4. \A i \in 0..N : g[i] = IF i = 0 THEN FirstState ELSE R!ParseLine(g[i - 1], f[i])
      BY <1>5, <2>1, <2>2 DEF Recurs
    <2> QED
      BY <2>3, <2>4
  <1>7. Equation(R!Parsing(f))
    BY <1>6, Zenon DEF R!Parsing, FirstState, N
  <1>8. \A k \in 1..N : k \in 0..N /\ k # 0
    BY <1>1
  <1> DEFINE P == R!Parsing(f)
  <1> HIDE DEF P
  <1>9. P[0] = FirstState /\ \A k \in 1..N : P[k] = R!ParseLine(P[k - 1], f[k])
    BY <1>1, <1>7, <1>8 DEF P
  <1>10. \A k \in 0..N : P[k] \in ParserState
    <2> DEFINE Z == {k \in 0..N : P[k] \in ParserState}
    <2>1. 0 \in Z
      BY <1>1, <1>2, <1>9
    <2>2. ASSUME NEW k \in 1..N, k - 1 \in Z PROVE k \in Z
      <3>1. P[k - 1] \in ParserState /\ f[k] \in R!Line /\ k \in 0..N
        BY <1>1, <2>2
      <3> QED
        BY <1>9, <3>1, ParseLineCases
    <2> HIDE DEF Z
    <2>3. 0..N \subseteq Z
      BY <1>1, <2>1, <2>2, UpToInduction
    <2> QED
      BY <2>3 DEF Z
  <1> QED
    BY <1>9, <1>10 DEF P, N

\* Whether a user-agent line came; whether a rule came after the last one; whether
\* an agent is one of those that the next rule is for; and the rules for it so far.
Begun(f, k) == \E i \in 1..k : f[i].directive = "user-agent"

RuleSeen(f, k) ==
  \E j \in 1..k : /\ R!IsRule(f[j]) /\ Begun(f, j)
                  /\ \A m \in j..k : f[m].directive # "user-agent"

Current(f, a, k) ==
  \E i \in 1..k :
    /\ R!NamesAt(f, a, i)
    /\ \A j \in i..k, m \in i..k :
         R!IsRule(f[j]) /\ j < m => f[m].directive # "user-agent"

RulesTo(f, a, k) == {j \in 1..k : R!IsRule(f[j]) /\ Current(f, a, j - 1)}

\* A user-agent line is for the agents before it unless a rule came in between.
LEMMA CurrentAtName ==
  ASSUME NEW f \in Seq(R!Line), NEW k \in 1..Len(f), f[k].directive = "user-agent", NEW a
  PROVE  /\ Current(f, a, k) <=> a = f[k].value \/ (Current(f, a, k - 1) /\ ~RuleSeen(f, k - 1))
         /\ ~RuleSeen(f, k) /\ Begun(f, k)
  <1>1. ~R!IsRule(f[k]) /\ \A i \in 1..Len(f) : R!IsRule(f[i]) => f[i].directive # "user-agent"
    BY DEF R!IsRule
  <1>2. ASSUME a = f[k].value PROVE Current(f, a, k)
    BY <1>2 DEF Current, R!NamesAt
  <1>3. ASSUME Current(f, a, k - 1), ~RuleSeen(f, k - 1) PROVE Current(f, a, k)
    <2>1. PICK i \in 1..(k - 1) :
            /\ R!NamesAt(f, a, i)
            /\ \A j \in i..(k - 1), m \in i..(k - 1) :
                 R!IsRule(f[j]) /\ j < m => f[m].directive # "user-agent"
      BY <1>3 DEF Current
    <2>2. ASSUME NEW j \in i..(k - 1), R!IsRule(f[j]) PROVE FALSE
      <3>1. j \in 1..(k - 1) /\ j \in 1..Len(f) /\ f[j].directive # "user-agent"
        BY <1>1, <2>2
      <3>2. Begun(f, j)
        BY <2>1, <3>1 DEF Begun, R!NamesAt
      <3>3. \A m \in j..(k - 1) : f[m].directive # "user-agent"
        BY <2>1, <2>2, <3>1
      <3> QED
        BY <1>3, <2>2, <3>1, <3>2, <3>3 DEF RuleSeen
    <2>3. \A j \in i..k, m \in i..k : R!IsRule(f[j]) /\ j < m => f[m].directive # "user-agent"
      BY <2>2
    <2> QED
      BY <2>1, <2>3 DEF Current
  <1>4. ASSUME Current(f, a, k), a # f[k].value
        PROVE  Current(f, a, k - 1) /\ ~RuleSeen(f, k - 1)
    <2>1. PICK i \in 1..k :
            /\ R!NamesAt(f, a, i)
            /\ \A j \in i..k, m \in i..k :
                 R!IsRule(f[j]) /\ j < m => f[m].directive # "user-agent"
      BY <1>4 DEF Current
    <2>2. i \in 1..(k - 1)
      BY <1>4, <2>1 DEF R!NamesAt
    <2>3. Current(f, a, k - 1)
      BY <2>1, <2>2 DEF Current
    <2>4. ASSUME NEW j \in 1..(k - 1), R!IsRule(f[j]),
                 \A m \in j..(k - 1) : f[m].directive # "user-agent"
          PROVE  FALSE
      <3>1. j < i => i \in j..(k - 1)
        BY <2>2
      <3>2. j \in i..k /\ k \in i..k /\ j < k
        BY <2>1, <2>2, <2>4, <3>1 DEF R!NamesAt
      <3> QED
        BY <2>1, <2>4, <3>2
    <2> QED
      BY <2>3, <2>4 DEF RuleSeen
  <1>5. ~RuleSeen(f, k) /\ Begun(f, k)
    BY DEF RuleSeen, Begun
  <1>6. Current(f, a, k) <=> a = f[k].value \/ (Current(f, a, k - 1) /\ ~RuleSeen(f, k - 1))
    BY <1>2, <1>3, <1>4, Zenon
  <1> QED
    BY <1>5, <1>6

\* A rule is seen if it is for some agent, and no other line changes who is current.
LEMMA CurrentElsewhere ==
  ASSUME NEW f \in Seq(R!Line), NEW k \in 1..Len(f), f[k].directive # "user-agent", NEW a
  PROVE  /\ Current(f, a, k) <=> Current(f, a, k - 1)
         /\ Begun(f, k) <=> Begun(f, k - 1)
         /\ RuleSeen(f, k) <=> RuleSeen(f, k - 1) \/ (R!IsRule(f[k]) /\ Begun(f, k - 1))
  <1>1. Begun(f, k) <=> Begun(f, k - 1)
    BY DEF Begun
  <1>2. ASSUME Current(f, a, k - 1) PROVE Current(f, a, k)
    <2>1. PICK i \in 1..(k - 1) :
            /\ R!NamesAt(f, a, i)
            /\ \A j \in i..(k - 1), m \in i..(k - 1) :
                 R!IsRule(f[j]) /\ j < m => f[m].directive # "user-agent"
      BY <1>2 DEF Current
    <2>2. \A j \in i..k, m \in i..k : R!IsRule(f[j]) /\ j < m => f[m].directive # "user-agent"
      BY <2>1
    <2> QED
      BY <2>1, <2>2 DEF Current
  <1>3. ASSUME Current(f, a, k) PROVE Current(f, a, k - 1)
    <2>1. PICK i \in 1..k :
            /\ R!NamesAt(f, a, i)
            /\ \A j \in i..k, m \in i..k :
                 R!IsRule(f[j]) /\ j < m => f[m].directive # "user-agent"
      BY <1>3 DEF Current
    <2>2. i \in 1..(k - 1)
      BY <2>1 DEF R!NamesAt
    <2> QED
      BY <2>1, <2>2 DEF Current
  <1>4. ASSUME RuleSeen(f, k - 1) PROVE RuleSeen(f, k)
    BY <1>4 DEF RuleSeen
  <1>5. ASSUME R!IsRule(f[k]), Begun(f, k) PROVE RuleSeen(f, k)
    BY <1>5 DEF RuleSeen
  <1>6. ASSUME RuleSeen(f, k) PROVE RuleSeen(f, k - 1) \/ (R!IsRule(f[k]) /\ Begun(f, k))
    <2>1. PICK j \in 1..k : /\ R!IsRule(f[j]) /\ Begun(f, j)
                            /\ \A m \in j..k : f[m].directive # "user-agent"
      BY <1>6 DEF RuleSeen
    <2>2. CASE j \in 1..(k - 1)
      <3>1. \A m \in j..(k - 1) : m \in j..k
        BY <2>2
      <3> QED
        BY <2>1, <2>2, <3>1 DEF RuleSeen
    <2>3. CASE j = k
      BY <2>1, <2>3
    <2> QED
      BY <2>2, <2>3
  <1> QED
    BY <1>1, <1>2, <1>3, <1>4, <1>5, <1>6

\* The rules for an agent grow by a rule that comes while it is current.
LEMMA RulesToStep ==
  ASSUME NEW f \in Seq(R!Line), NEW k \in 1..Len(f), NEW a
  PROVE  RulesTo(f, a, k) = IF R!IsRule(f[k]) /\ Current(f, a, k - 1)
                              THEN RulesTo(f, a, k - 1) \cup {k} ELSE RulesTo(f, a, k - 1)
  <1>1. 1..k = (1..(k - 1)) \cup {k}
    OBVIOUS
  <1> QED
    BY <1>1 DEF RulesTo

\* What a group says is what the rules say that the file has for its agent.
IsPathRule(l) == l.directive \in {"allow", "disallow"}

RuleOf(l) == [allow |-> l.directive = "allow", path |-> l.value]

\* The fields of a rule.
LEMMA RuleOfFields ==
  ASSUME NEW l
  PROVE  RuleOf(l).path = l.value /\ (RuleOf(l).allow <=> l.directive = "allow")
  <1>1. RuleOf(l).path = l.value
    BY DEF RuleOf
  <1>2. RuleOf(l).allow <=> l.directive = "allow"
    BY Zenon DEF RuleOf
  <1> QED
    BY <1>1, <1>2

SaysRules(g, f, on) ==
  \A r : (\E n \in 1..Len(g.rules) : g.rules[n] = r)
           <=> \E i \in on : IsPathRule(f[i]) /\ r = RuleOf(f[i])

SaysDelay(g, f, on) ==
  \/ g.crawlDelay = R!NotSet /\ \A i \in on : f[i].directive # "crawl-delay"
  \/ \E i \in on : /\ f[i].directive = "crawl-delay" /\ g.crawlDelay = f[i].value
                      /\ \A j \in on : f[j].directive = "crawl-delay" => j <= i

\* A rule for the group is added to what it says.
LEMMA RuledSays ==
  ASSUME NEW f \in Seq(R!Line), NEW k \in 1..Len(f), R!IsRule(f[k]),
         NEW g \in Group, NEW on \in SUBSET (1..(k - 1)),
         SaysRules(g, f, on), SaysDelay(g, f, on)
  PROVE  LET h == R!Ruled(g, f[k]) IN
         /\ h.listed = g.listed
         /\ SaysRules(h, f, on \cup {k}) /\ SaysDelay(h, f, on \cup {k})
  <1> DEFINE h == R!Ruled(g, f[k])
             l == f[k]
  <1>1. l \in R!Line /\ \A i \in on : i < k
    OBVIOUS
  <1>2. CASE IsPathRule(l)
    <2> DEFINE new == RuleOf(l)
    <2>1. h = [g EXCEPT !.rules = Append(g.rules, new)]
      BY <1>2 DEF R!Ruled, IsPathRule, RuleOf
    <2>2. /\ h.listed = g.listed /\ h.crawlDelay = g.crawlDelay
          /\ h.rules = Append(g.rules, new)
      BY <2>1 DEF Group
    <2> HIDE DEF h, new
    <2>3. /\ Len(h.rules) = Len(g.rules) + 1 /\ Len(g.rules) \in Nat
          /\ h.rules[Len(g.rules) + 1] = new
          /\ \A n \in 1..Len(g.rules) : h.rules[n] = g.rules[n]
      BY <2>2 DEF Group
    <2>4. ASSUME NEW r
          PROVE  (\E n \in 1..Len(h.rules) : h.rules[n] = r)
                   <=> r = new \/ \E n \in 1..Len(g.rules) : g.rules[n] = r
      <3>1. 1..Len(h.rules) = (1..Len(g.rules)) \cup {Len(g.rules) + 1}
        BY <2>3
      <3> QED
        BY <2>3, <3>1
    <2>5. SaysRules(h, f, on \cup {k})
      BY <1>2, <2>4 DEF SaysRules, new
    <2>6. l.directive # "crawl-delay"
      BY <1>2 DEF IsPathRule
    <2>7. SaysDelay(h, f, on \cup {k})
      BY <2>2, <2>6 DEF SaysDelay
    <2> QED
      BY <2>2, <2>5, <2>7 DEF h
  <1>3. CASE l.directive = "crawl-delay"
    <2>1. h = [g EXCEPT !.crawlDelay = l.value]
      BY <1>3 DEF R!Ruled
    <2>2. h.listed = g.listed /\ h.crawlDelay = l.value /\ h.rules = g.rules
      BY <2>1 DEF Group
    <2>3. ~IsPathRule(l)
      BY <1>3 DEF IsPathRule
    <2>4. SaysRules(h, f, on \cup {k})
      BY <2>2, <2>3, ZenonT(40) DEF SaysRules
    <2>5. SaysDelay(h, f, on \cup {k})
      BY <1>1, <1>3, <2>2 DEF SaysDelay
    <2> QED
      BY <2>2, <2>4, <2>5
  <1>4. CASE l.directive = "bad-delay"
    <2>1. h = g
      BY <1>4 DEF R!Ruled
    <2>2. ~IsPathRule(l) /\ l.directive # "crawl-delay"
      BY <1>4 DEF IsPathRule
    <2> HIDE DEF h
    <2>3. SaysRules(h, f, on \cup {k})
      BY <2>1, <2>2 DEF SaysRules
    <2>4. SaysDelay(h, f, on \cup {k})
      BY <2>1, <2>2 DEF SaysDelay
    <2> QED
      BY <2>1, <2>3, <2>4 DEF h
  <1> QED
    BY <1>2, <1>3, <1>4 DEF R!IsRule, IsPathRule

\* What parse() knows after k lines.
Understands(s, f, k) ==
  /\ \A a \in Agent :
       /\ s.groups[a].listed <=> \E i \in 1..k : R!NamesAt(f, a, i)
       /\ a \in s.agents <=> Current(f, a, k)
       /\ SaysRules(s.groups[a], f, RulesTo(f, a, k))
       /\ SaysDelay(s.groups[a], f, RulesTo(f, a, k))
  /\ s.seenRule <=> RuleSeen(f, k)
  /\ s.agents = {} <=> ~Begun(f, k)

\* Each turn of the loop understands one more line.
LEMMA UnderstandsLine ==
  ASSUME NEW f \in Seq(R!Line), NEW k \in 1..Len(f), NEW s \in ParserState,
         Understands(s, f, k - 1)
  PROVE  Understands(R!ParseLine(s, f[k]), f, k)
  <1> DEFINE t == R!ParseLine(s, f[k])
  <1>1. f[k] \in R!Line /\ 1..k = (1..(k - 1)) \cup {k}
    OBVIOUS
  <1>2. \A a : (\E i \in 1..k : R!NamesAt(f, a, i))
                 <=> R!NamesAt(f, a, k) \/ \E i \in 1..(k - 1) : R!NamesAt(f, a, i)
    BY <1>1
  <1>3. s.agents \subseteq Agent /\ \A a \in Agent : s.groups[a] \in Group
    BY DEF ParserState
  <1>4. CASE f[k].directive = "user-agent"
    <2>1. /\ f[k].value \in Agent
          /\ t.agents = (IF s.seenRule THEN {} ELSE s.agents) \cup {f[k].value}
          /\ ~t.seenRule
      BY <1>1, <1>4, ParseLineCases
    <2>2. \A a \in Agent : /\ t.groups[a].listed <=> (s.groups[a].listed \/ a = f[k].value)
                           /\ t.groups[a].rules = s.groups[a].rules
                           /\ t.groups[a].crawlDelay = s.groups[a].crawlDelay
      BY <1>1, <1>4, ParseLineCases
    <2> HIDE DEF t
    <2>3. ~R!IsRule(f[k])
      BY <1>4 DEF R!IsRule
    <2>4. ASSUME NEW a \in Agent
          PROVE  /\ t.groups[a].listed <=> \E i \in 1..k : R!NamesAt(f, a, i)
                 /\ a \in t.agents <=> Current(f, a, k)
                 /\ SaysRules(t.groups[a], f, RulesTo(f, a, k))
                 /\ SaysDelay(t.groups[a], f, RulesTo(f, a, k))
      <3>1. R!NamesAt(f, a, k) <=> a = f[k].value
        BY <1>4 DEF R!NamesAt
      <3>2. t.groups[a].listed <=> \E i \in 1..k : R!NamesAt(f, a, i)
        BY <1>2, <2>2, <3>1 DEF Understands
      <3>3. a \in t.agents <=> Current(f, a, k)
        <4>1. a \in t.agents <=> a = f[k].value \/ (a \in s.agents /\ ~s.seenRule)
          BY <2>1
        <4>2. a \in s.agents <=> Current(f, a, k - 1)
          BY DEF Understands
        <4>3. s.seenRule <=> RuleSeen(f, k - 1)
          BY DEF Understands
        <4>4. Current(f, a, k) <=> a = f[k].value \/ (Current(f, a, k - 1) /\ ~RuleSeen(f, k - 1))
          BY <1>4, CurrentAtName
        <4> QED
          BY <4>1, <4>2, <4>3, <4>4, Zenon
      <3>4. RulesTo(f, a, k) = RulesTo(f, a, k - 1)
        BY <2>3, RulesToStep
      <3>5. SaysRules(t.groups[a], f, RulesTo(f, a, k))
        <4> DEFINE old == s.groups[a]
                   new == t.groups[a]
        <4>1. SaysRules(old, f, RulesTo(f, a, k)) /\ new.rules = old.rules
          BY <2>2, <3>4 DEF Understands
        <4> HIDE DEF old, new
        <4>2. SaysRules(new, f, RulesTo(f, a, k))
          BY <4>1 DEF SaysRules
        <4> QED
          BY <4>2 DEF new
      <3>6. SaysDelay(t.groups[a], f, RulesTo(f, a, k))
        BY <2>2, <3>4 DEF Understands, SaysDelay
      <3> QED
        BY <3>2, <3>3, <3>5, <3>6
    <2>5. ~RuleSeen(f, k) /\ Begun(f, k)
      BY <1>4, CurrentAtName
    <2>6. Understands(t, f, k)
      BY <2>1, <2>4, <2>5 DEF Understands
    <2> QED
      BY <2>6 DEF t
  <1>5. CASE R!IsRule(f[k]) /\ s.agents # {}
    <2>1. /\ t.agents = s.agents /\ t.seenRule
          /\ \A a \in Agent :
               t.groups[a] = IF a \in s.agents THEN R!Ruled(s.groups[a], f[k]) ELSE s.groups[a]
      BY <1>1, <1>5, ParseLineCases
    <2> HIDE DEF t
    <2>2. f[k].directive # "user-agent" /\ Begun(f, k - 1)
      BY <1>5 DEF R!IsRule, Understands
    <2>3. ASSUME NEW a \in Agent
          PROVE  /\ t.groups[a].listed <=> \E i \in 1..k : R!NamesAt(f, a, i)
                 /\ a \in t.agents <=> Current(f, a, k)
                 /\ SaysRules(t.groups[a], f, RulesTo(f, a, k))
                 /\ SaysDelay(t.groups[a], f, RulesTo(f, a, k))
      <3>1. ~R!NamesAt(f, a, k)
        BY <2>2 DEF R!NamesAt
      <3>2. /\ a \in t.agents <=> Current(f, a, k)
            /\ a \in s.agents <=> Current(f, a, k - 1)
        BY <2>1, <2>2, CurrentElsewhere DEF Understands
      <3>3. /\ SaysRules(s.groups[a], f, RulesTo(f, a, k - 1))
            /\ SaysDelay(s.groups[a], f, RulesTo(f, a, k - 1))
            /\ s.groups[a].listed <=> \E i \in 1..k : R!NamesAt(f, a, i)
        BY <1>2, <3>1 DEF Understands
      <3>4. CASE a \in s.agents
        <4>1. RulesTo(f, a, k) = RulesTo(f, a, k - 1) \cup {k}
          BY <1>5, <3>2, <3>4, RulesToStep
        <4>2. RulesTo(f, a, k - 1) \in SUBSET (1..(k - 1))
          BY DEF RulesTo
        <4>3. LET h == R!Ruled(s.groups[a], f[k]) IN
              /\ h.listed = s.groups[a].listed
              /\ SaysRules(h, f, RulesTo(f, a, k - 1) \cup {k})
              /\ SaysDelay(h, f, RulesTo(f, a, k - 1) \cup {k})
          BY <1>3, <1>5, <3>3, <4>2, RuledSays
        <4> QED
          BY <2>1, <3>2, <3>3, <3>4, <4>1, <4>3
      <3>5. CASE a \notin s.agents
        <4>1. RulesTo(f, a, k) = RulesTo(f, a, k - 1)
          BY <3>2, <3>5, RulesToStep
        <4> QED
          BY <2>1, <3>2, <3>3, <3>5, <4>1
      <3> QED
        BY <3>4, <3>5
    <2>4. RuleSeen(f, k) /\ (Begun(f, k) <=> Begun(f, k - 1))
      BY <1>5, <2>2, CurrentElsewhere
    <2>5. Understands(t, f, k)
      BY <1>5, <2>1, <2>2, <2>3, <2>4 DEF Understands
    <2> QED
      BY <2>5 DEF t
  <1>6. CASE f[k].directive # "user-agent" /\ ~(R!IsRule(f[k]) /\ s.agents # {})
    <2>1. t = s
      BY <1>1, <1>6, ParseLineCases
    <2>2. ~(R!IsRule(f[k]) /\ Begun(f, k - 1))
      BY <1>6 DEF Understands
    <2>3. ASSUME NEW a \in Agent
          PROVE  /\ Current(f, a, k) <=> Current(f, a, k - 1)
                 /\ RulesTo(f, a, k) = RulesTo(f, a, k - 1)
                 /\ (\E i \in 1..k : R!NamesAt(f, a, i))
                      <=> \E i \in 1..(k - 1) : R!NamesAt(f, a, i)
      <3>1. Current(f, a, k) <=> Current(f, a, k - 1)
        BY <1>6, CurrentElsewhere
      <3>2. ~(R!IsRule(f[k]) /\ Current(f, a, k - 1))
        BY <1>6 DEF Understands
      <3>3. ~R!NamesAt(f, a, k)
        BY <1>6 DEF R!NamesAt
      <3> QED
        BY <1>2, <3>1, <3>2, <3>3, RulesToStep
    <2>4. (RuleSeen(f, k) <=> RuleSeen(f, k - 1)) /\ (Begun(f, k) <=> Begun(f, k - 1))
      BY <1>6, <2>2, CurrentElsewhere, Zenon
    <2> HIDE DEF t
    <2>5. Understands(s, f, k)
      BY <2>3, <2>4 DEF Understands
    <2> QED
      BY <2>1, <2>5 DEF t
  <1> QED
    BY <1>4, <1>5, <1>6 DEF R!IsRule

\* At its end, parse() understands the whole file.
LEMMA ParseUnderstands ==
  ASSUME NEW f \in Seq(R!Line)
  PROVE  /\ R!Parsing(f)[Len(f)] \in ParserState
         /\ Understands(R!Parsing(f)[Len(f)], f, Len(f))
  <1> DEFINE N == Len(f)
             P == R!Parsing(f)
             Z == {k \in 0..N : Understands(P[k], f, k)}
  <1>1. N \in Nat /\ N \in 0..N
    OBVIOUS
  <1>2. /\ P[0] = FirstState
        /\ \A k \in 0..N : P[k] \in ParserState
        /\ \A k \in 1..N : P[k] = R!ParseLine(P[k - 1], f[k])
    BY ParsingSteps
  <1>3. 0 \in Z
    <2>1. \A a \in Agent : /\ ~FirstState.groups[a].listed
                           /\ FirstState.groups[a].rules = <<>>
                           /\ FirstState.groups[a].crawlDelay = R!NotSet
      BY DEF FirstState, R!NoGroups
    <2>2. FirstState.agents = {} /\ ~FirstState.seenRule
      BY DEF FirstState
    <2>3. ~Begun(f, 0) /\ ~RuleSeen(f, 0)
      BY DEF Begun, RuleSeen
    <2>4. ASSUME NEW a \in Agent PROVE RulesTo(f, a, 0) = {} /\ ~Current(f, a, 0)
      BY DEF RulesTo, Current
    <2>5. \A a \in Agent : /\ SaysRules(FirstState.groups[a], f, {})
                           /\ SaysDelay(FirstState.groups[a], f, {})
      BY <2>1 DEF SaysRules, SaysDelay
    <2>6. ASSUME NEW a \in Agent
          PROVE  /\ FirstState.groups[a].listed <=> \E i \in 1..0 : R!NamesAt(f, a, i)
                 /\ a \in FirstState.agents <=> Current(f, a, 0)
                 /\ SaysRules(FirstState.groups[a], f, RulesTo(f, a, 0))
                 /\ SaysDelay(FirstState.groups[a], f, RulesTo(f, a, 0))
      <3>1. ~\E i \in 1..0 : R!NamesAt(f, a, i)
        OBVIOUS
      <3> QED
        BY <2>1, <2>2, <2>4, <2>5, <3>1
    <2>7. Understands(FirstState, f, 0)
      BY <2>2, <2>3, <2>6, Zenon DEF Understands
    <2> QED
      BY <1>1, <1>2, <2>7
  <1> HIDE DEF N, P
  <1>4. ASSUME NEW k \in 1..N, k - 1 \in Z PROVE k \in Z
    <2>1. k - 1 \in 0..N /\ Understands(P[k - 1], f, k - 1) /\ k \in 0..N
      BY <1>1, <1>4
    <2>2. P[k - 1] \in ParserState /\ k \in 1..Len(f)
      BY <1>2, <2>1 DEF N
    <2>3. Understands(R!ParseLine(P[k - 1], f[k]), f, k)
      BY <2>1, <2>2, UnderstandsLine
    <2> QED
      BY <1>2, <2>1, <2>3
  <1> HIDE DEF Z
  <1>5. 0..N \subseteq Z
    BY <1>1, <1>3, <1>4, UpToInduction
  <1> QED
    BY <1>1, <1>2, <1>5 DEF Z, N, P

\* What is understood at the end is what the file says.
LEMMA EndOfFile ==
  ASSUME NEW f \in Seq(R!Line), NEW a
  PROVE  /\ (\E i \in 1..Len(f) : R!NamesAt(f, a, i)) <=> R!Names(f, a)
         /\ RulesTo(f, a, Len(f)) = R!RulesFor(f, a)
  <1>1. DOMAIN f = 1..Len(f)
    OBVIOUS
  <1>2. (\E i \in 1..Len(f) : R!NamesAt(f, a, i)) <=> R!Names(f, a)
    BY <1>1, Zenon DEF R!Names
  <1>3. RulesTo(f, a, Len(f)) = R!RulesFor(f, a)
    BY <1>1, Zenon DEF R!RulesFor, RulesTo, Current
  <1> QED
    BY <1>2, <1>3

-----------------------------------------------------------------------------
(* What is_allowed makes of a group's rules.                               *)

Best == [length : Int, allow : BOOLEAN]

\* A rule that counts: it has a path, and the URL starts with it.
Matches(r, u) == Length[r.path] > 0 /\ <<r.path, u>> \in Starts

\* The best match among the first k rules: the longest, an allow if there is one.
BestOf(b, u, rs, k) ==
  \/ /\ b.length = -1 /\ b.allow
     /\ \A n \in 1..k : ~Matches(rs[n], u)
  \/ /\ \E n \in 1..k : /\ Matches(rs[n], u) /\ Length[rs[n].path] = b.length
                        /\ b.allow = rs[n].allow
     /\ \A n \in 1..k : Matches(rs[n], u) =>
          \/ Length[rs[n].path] < b.length
          \/ Length[rs[n].path] = b.length /\ (rs[n].allow => b.allow)

\* Whatever the best match was, one more rule leaves a best match.
LEMMA BestMatchType ==
  ASSUME NEW u, NEW r \in Rule, NEW b \in Best
  PROVE  R!BestMatch(u, b, r) \in Best
  <1>1. Length[r.path] \in Nat /\ r.allow \in BOOLEAN
    BY CrawlerSTAssumption DEF Rule
  <1> DEFINE c == R!BestMatch(u, b, r)
  <1>2. \/ c = b
        \/ c = [length |-> Length[r.path], allow |-> r.allow]
        \/ c = [b EXCEPT !.allow = TRUE]
    BY Zenon DEF R!BestMatch
  <1> HIDE DEF c
  <1>3. b.length \in Int /\ Length[r.path] \in Int /\ TRUE \in BOOLEAN
    BY <1>1 DEF Best
  <1>4. ASSUME c = b PROVE c \in Best
    BY <1>4
  <1>5. ASSUME c = [length |-> Length[r.path], allow |-> r.allow] PROVE c \in Best
    BY <1>1, <1>3, <1>5, Zenon DEF Best
  <1>6. ASSUME c = [b EXCEPT !.allow = TRUE] PROVE c \in Best
    <2>1. c = [length |-> b.length, allow |-> TRUE]
      BY <1>6 DEF Best
    <2> QED
      BY <1>3, <2>1, Zenon DEF Best
  <1> QED
    BY <1>2, <1>4, <1>5, <1>6 DEF c

\* One more rule.
LEMMA BestMatchStep ==
  ASSUME NEW u, NEW rs \in Seq(Rule), NEW k \in 1..Len(rs), NEW b \in Best,
         BestOf(b, u, rs, k - 1)
  PROVE  /\ R!BestMatch(u, b, rs[k]) \in Best
         /\ BestOf(R!BestMatch(u, b, rs[k]), u, rs, k)
  <1> DEFINE r == rs[k]
             n == Length[r.path]
             c == R!BestMatch(u, b, r)
  <1>1. /\ \A i \in 1..Len(rs) : rs[i] \in Rule /\ Length[rs[i].path] \in Nat
        /\ 1..k = (1..(k - 1)) \cup {k} /\ 1..(k - 1) \subseteq 1..Len(rs)
    <2>1. Length \in [RulePath -> Nat]
      BY CrawlerSTAssumption
    <2>2. ASSUME NEW i \in 1..Len(rs) PROVE rs[i] \in Rule /\ Length[rs[i].path] \in Nat
      <3>1. rs[i] \in Rule
        OBVIOUS
      <3> QED
        BY <2>1, <3>1 DEF Rule
    <2> QED
      BY <2>2
  <1>2. n \in Nat /\ r.allow \in BOOLEAN /\ b.length \in Int /\ b.allow \in BOOLEAN
    BY <1>1 DEF Best, Rule
  <1>3. CASE ~Matches(r, u)
    <2>1. c = b
      BY <1>2, <1>3 DEF R!BestMatch, Matches
    <2> HIDE DEF c, r
    <2>2. BestOf(b, u, rs, k)
      BY <1>1, <1>3 DEF BestOf, r
    <2> QED
      BY <2>1, <2>2 DEF c, r
  <1>4. CASE Matches(r, u) /\ n > b.length
    <2>1. c = [length |-> n, allow |-> r.allow]
      BY <1>2, <1>4 DEF R!BestMatch, Matches
    <2>2. c \in Best /\ c.length = n /\ c.allow = r.allow
      BY <1>2, <2>1 DEF Best
    <2> HIDE DEF c
    <2>3. ASSUME NEW i \in 1..(k - 1), Matches(rs[i], u)
          PROVE  Length[rs[i].path] < c.length
      <3>1. Length[rs[i].path] \in Nat
        BY <1>1
      <3>2. Length[rs[i].path] < b.length \/ Length[rs[i].path] = b.length
        BY <2>3, Zenon DEF BestOf
      <3> QED
        BY <1>2, <1>4, <2>2, <3>1, <3>2
    <2>4. BestOf(c, u, rs, k)
      BY <1>1, <1>4, <2>2, <2>3 DEF BestOf
    <2> QED
      BY <2>2, <2>4 DEF c
  <1>5. CASE Matches(r, u) /\ n = b.length
    <2>1. c.length = n /\ (c.allow <=> b.allow \/ r.allow) /\ c \in Best
      <3>1. c = IF r.allow THEN [b EXCEPT !.allow = TRUE] ELSE b
        BY <1>2, <1>5 DEF R!BestMatch, Matches
      <3> HIDE DEF c, r
      <3> QED
        BY <1>2, <1>5, <3>1 DEF Best
    <2> HIDE DEF c
    <2>2. b.length # -1
      BY <1>2, <1>5
    <2>3. \E i \in 1..k : /\ Matches(rs[i], u) /\ Length[rs[i].path] = c.length
                          /\ c.allow = rs[i].allow
      <3>1. CASE r.allow
        <4>1. c.allow = r.allow
          BY <1>2, <2>1, <3>1 DEF Best
        <4> QED
          BY <1>5, <2>1, <4>1
      <3>2. CASE ~r.allow
        BY <1>1, <1>2, <1>5, <2>1, <2>2, <3>2 DEF BestOf, Best
      <3> QED
        BY <3>1, <3>2
    <2>4. \A i \in 1..k : Matches(rs[i], u) =>
            \/ Length[rs[i].path] < c.length
            \/ Length[rs[i].path] = c.length /\ (rs[i].allow => c.allow)
      BY <1>1, <1>2, <1>5, <2>1, <2>2 DEF BestOf
    <2>5. BestOf(c, u, rs, k)
      BY <2>3, <2>4 DEF BestOf
    <2> QED
      BY <2>1, <2>5 DEF c
  <1>6. CASE Matches(r, u) /\ n < b.length
    <2>1. c = b
      BY <1>2, <1>6 DEF R!BestMatch, Matches
    <2> HIDE DEF c
    <2>2. BestOf(b, u, rs, k)
      BY <1>1, <1>2, <1>6 DEF BestOf
    <2> QED
      BY <2>1, <2>2 DEF c
  <1> QED
    BY <1>2, <1>3, <1>4, <1>5, <1>6

FirstBest == [length |-> -1, allow |-> TRUE]

\* The loop finds the best match of all the rules.
LEMMA MatchingBest ==
  ASSUME NEW u, NEW rs \in Seq(Rule)
  PROVE  LET b == R!Matching(u, rs)[Len(rs)] IN b \in Best /\ BestOf(b, u, rs, Len(rs))
  <1> DEFINE N == Len(rs)
             step == [x \in Best \X (1..N) |-> R!BestMatch(u, x[1], rs[x[2]])]
             Equation(g) == g = [i \in 0..N |-> IF i = 0 THEN FirstBest
                                                ELSE R!BestMatch(u, g[i - 1], rs[i])]
             M == R!Matching(u, rs)
             Z == {k \in 0..N : M[k] \in Best /\ BestOf(M[k], u, rs, k)}
  <1>1. N \in Nat /\ N \in 0..N /\ FirstBest \in Best
    BY DEF FirstBest, Best
  <1>2. step \in [Best \X (1..N) -> Best]
    BY BestMatchType
  <1>3. \A b \in Best, i \in 1..N : step[<<b, i>>] = R!BestMatch(u, b, rs[i])
    OBVIOUS
  <1> HIDE DEF N, step
  <1>4. PICK g : Recurs(g, N, Best, FirstBest, step)
    <2>1. IsStep(step, N, Best)
      BY <1>2 DEF IsStep
    <2> HIDE DEF Equation
    <2> QED
      BY <2>1, <1>1, RecursionExists
  <1>5. Equation(g)
    <2>1. \A i \in 0..N : i # 0 => i \in 1..N /\ i - 1 \in 0..N
      BY <1>1
    <2>2. \A i \in 0..N : i # 0 => step[<<g[i - 1], i>>] = R!BestMatch(u, g[i - 1], rs[i])
      BY <1>3, <1>4, <2>1 DEF Recurs
    <2>3. g = [i \in 0..N |-> g[i]]
      BY <1>4 DEF Recurs
    <2>4. \A i \in 0..N :
            g[i] = IF i = 0 THEN FirstBest ELSE R!BestMatch(u, g[i - 1], rs[i])
      BY <1>4, <2>1, <2>2 DEF Recurs
    <2> QED
      BY <2>3, <2>4
  <1>6. Equation(M)
    BY <1>5, Zenon DEF R!Matching, FirstBest, N
  <1>7. \A k \in 1..N : k \in 0..N /\ k # 0 /\ k - 1 \in 0..N
    BY <1>1
  <1> HIDE DEF M
  <1>8. M[0] = FirstBest /\ \A k \in 1..N : M[k] = R!BestMatch(u, M[k - 1], rs[k])
    BY <1>1, <1>6, <1>7
  <1>9. 0 \in Z
    BY <1>1, <1>8 DEF BestOf, FirstBest
  <1>10. ASSUME NEW k \in 1..N, k - 1 \in Z PROVE k \in Z
    <2>1. M[k - 1] \in Best /\ BestOf(M[k - 1], u, rs, k - 1)
      BY <1>10
    <2>2. k \in 1..Len(rs) /\ k \in 0..N
      BY <1>7 DEF N
    <2> QED
      BY <1>8, <2>1, <2>2, BestMatchStep
  <1> HIDE DEF Z
  <1>11. 0..N \subseteq Z
    BY <1>1, <1>9, <1>10, UpToInduction
  <1> QED
    BY <1>1, <1>11 DEF Z, N, M

\* The rule that a group of them decides a URL by.
Counting(f, u, on) ==
  {i \in on : /\ IsPathRule(f[i])
              /\ Length[f[i].value] > 0 /\ <<f[i].value, u>> \in Starts}

Against(f, u, on) ==
  \E i \in Counting(f, u, on) :
    /\ f[i].directive = "disallow"
    /\ \A j \in Counting(f, u, on) :
         \/ Length[f[j].value] < Length[f[i].value]
         \/ Length[f[j].value] = Length[f[i].value] /\ f[j].directive = "disallow"

\* The best match is an allow unless a disallow is the longest and no allow is as long.
LEMMA GroupDecides ==
  ASSUME NEW f \in Seq(R!Line), NEW u, NEW g \in Group, NEW on \in SUBSET (1..Len(f)),
         SaysRules(g, f, on)
  PROVE  R!Matching(u, g.rules)[Len(g.rules)].allow <=> ~Against(f, u, on)
  <1> DEFINE b == R!Matching(u, g.rules)[Len(g.rules)]
             rs == g.rules
             Lengths(i) == Length[f[i].value]
  <1>1. rs \in Seq(Rule)
    BY DEF Group
  <1>2. b \in Best /\ BestOf(b, u, rs, Len(rs))
    BY <1>1, MatchingBest
  <1> HIDE DEF b, rs
  <1>3. ASSUME NEW i \in Counting(f, u, on)
        PROVE  \E n \in 1..Len(rs) : /\ rs[n] = RuleOf(f[i]) /\ Matches(rs[n], u)
                                     /\ Length[rs[n].path] = Lengths(i)
                                     /\ rs[n].allow <=> f[i].directive = "allow"
                                     /\ Lengths(i) \in Nat
    <2>1. PICK n \in 1..Len(rs) : rs[n] = RuleOf(f[i])
      BY DEF SaysRules, Counting, rs
    <2>2. /\ rs[n].path = f[i].value
          /\ rs[n].allow <=> f[i].directive = "allow"
      BY <2>1, RuleOfFields
    <2>3. Matches(rs[n], u)
      BY <2>2 DEF Matches, Counting
    <2>4. rs[n] \in Rule
      BY <1>1
    <2>5. Lengths(i) \in Nat
      BY <2>2, <2>4, CrawlerSTAssumption DEF Rule
    <2> QED
      BY <2>1, <2>2, <2>3, <2>5
  <1>4. ASSUME NEW n \in 1..Len(rs), Matches(rs[n], u)
        PROVE  \E i \in Counting(f, u, on) : /\ Lengths(i) = Length[rs[n].path]
                                             /\ rs[n].allow <=> f[i].directive = "allow"
    <2>1. PICK i \in on : IsPathRule(f[i]) /\ rs[n] = RuleOf(f[i])
      BY DEF SaysRules, rs
    <2>2. /\ rs[n].path = f[i].value
          /\ rs[n].allow <=> f[i].directive = "allow"
      BY <2>1, RuleOfFields
    <2>3. i \in Counting(f, u, on)
      BY <1>4, <2>1, <2>2 DEF Counting, Matches
    <2> QED
      BY <2>2, <2>3
  <1>5. \A i \in Counting(f, u, on) : f[i].directive \in {"allow", "disallow"}
    BY DEF Counting, IsPathRule
  <1> HIDE DEF Lengths
  <1>6. CASE b.allow /\ \A n \in 1..Len(rs) : ~Matches(rs[n], u)
    <2>1. Counting(f, u, on) = {}
      BY <1>3, <1>6
    <2> QED
      BY <1>6, <2>1 DEF Against, b, rs
  <1>7. CASE \E n \in 1..Len(rs) : /\ Matches(rs[n], u) /\ Length[rs[n].path] = b.length
                                   /\ b.allow = rs[n].allow
    <2>1. PICK j \in Counting(f, u, on) :
            Lengths(j) = b.length /\ (b.allow <=> f[j].directive = "allow")
      BY <1>4, <1>7
    <2>2. b.length # -1
      BY <1>3, <2>1
    <2>3. ASSUME NEW i \in Counting(f, u, on)
          PROVE  \/ Lengths(i) < b.length
                 \/ Lengths(i) = b.length /\ (f[i].directive = "allow" => b.allow)
      <3>1. PICK n \in 1..Len(rs) : /\ Matches(rs[n], u) /\ Length[rs[n].path] = Lengths(i)
                                    /\ rs[n].allow <=> f[i].directive = "allow"
        BY <1>3
      <3> QED
        BY <1>2, <2>2, <3>1 DEF BestOf
    <2>4. b.allow \in BOOLEAN /\ b.length \in Int
      BY <1>2 DEF Best
    <2>5. CASE b.allow
      <3>1. ~Against(f, u, on)
        BY <1>3, <2>1, <2>3, <2>4, <2>5 DEF Against, Lengths
      <3> QED
        BY <2>5, <3>1 DEF b, rs
    <2>6. CASE ~b.allow
      <3>1. f[j].directive = "disallow"
        BY <1>5, <2>1, <2>6
      <3>2. Against(f, u, on)
        BY <1>5, <2>1, <2>3, <2>6, <3>1 DEF Against, Lengths
      <3> QED
        BY <2>6, <3>2 DEF b, rs
    <2> QED
      BY <2>5, <2>6
  <1> QED
    BY <1>2, <1>6, <1>7 DEF BestOf

\* The group that is_allowed takes is the one whose rules the bot has to follow.
LEMMA TakenGroup ==
  ASSUME NEW f \in Seq(R!Line)
  PROVE  \/ R!MatchingRules(R!Parse(f), Bot) = {} /\ R!RulesOf(f, Bot) = {}
         \/ \E g \in Group : /\ R!MatchingRules(R!Parse(f), Bot) = {g}
                             /\ SaysRules(g, f, R!RulesOf(f, Bot))
                             /\ SaysDelay(g, f, R!RulesOf(f, Bot))
  <1> DEFINE s == R!Parsing(f)[Len(f)]
             gs == R!Parse(f)
  <1>1. Bot \in Agent /\ "*" \in Agent
    BY CrawlerSTAssumption
  <1>2. s \in ParserState /\ Understands(s, f, Len(f)) /\ gs = s.groups
    BY ParseUnderstands DEF R!Parse
  <1> HIDE DEF s, gs
  <1>3. ASSUME NEW a \in Agent
        PROVE  /\ gs[a] \in Group /\ (gs[a].listed <=> R!Names(f, a))
               /\ SaysRules(gs[a], f, R!RulesFor(f, a))
               /\ SaysDelay(gs[a], f, R!RulesFor(f, a))
    <2>1. gs[a] \in Group
      BY <1>2 DEF ParserState
    <2> QED
      BY <1>2, <2>1, EndOfFile DEF Understands
  <1>4. CASE R!Names(f, Bot)
    <2>1. R!MatchingRules(gs, Bot) = {gs[Bot]} /\ R!RulesOf(f, Bot) = R!RulesFor(f, Bot)
      BY <1>1, <1>3, <1>4 DEF R!MatchingRules, R!RulesOf
    <2> QED
      BY <1>1, <1>3, <2>1 DEF gs
  <1>5. CASE ~R!Names(f, Bot) /\ R!Names(f, "*")
    <2>1. R!MatchingRules(gs, Bot) = {gs["*"]} /\ R!RulesOf(f, Bot) = R!RulesFor(f, "*")
      BY <1>1, <1>3, <1>5 DEF R!MatchingRules, R!RulesOf
    <2> QED
      BY <1>1, <1>3, <2>1 DEF gs
  <1>6. CASE ~R!Names(f, Bot) /\ ~R!Names(f, "*")
    <2>1. R!MatchingRules(gs, Bot) = {} /\ R!RulesOf(f, Bot) = R!RulesFor(f, "*")
      BY <1>1, <1>3, <1>6 DEF R!MatchingRules, R!RulesOf
    <2>2. \A k \in DOMAIN f : \A i \in 1..(k - 1) : i \in DOMAIN f
      OBVIOUS
    <2>3. R!RulesFor(f, "*") = {}
      BY <1>6, <2>2 DEF R!RulesFor, R!Names
    <2> QED
      BY <2>1, <2>3 DEF gs
  <1> QED
    BY <1>4, <1>5, <1>6

\* What the parser makes of a robots.txt allows exactly what the file does not forbid,
\* whatever the file.
LEMMA ParseAllows ==
  ASSUME NEW f \in Seq(R!Line), NEW u
  PROVE  R!IsAllowed(R!Parse(f), Bot, u) <=> ~R!Forbids(f, Bot, u)
  <1> DEFINE on == R!RulesOf(f, Bot)
  <1>1. on \in SUBSET (1..Len(f))
    BY DEF R!RulesOf, R!RulesFor
  <1>2. R!Forbids(f, Bot, u) <=> Against(f, u, on)
    BY DEF R!Forbids, Against, Counting, IsPathRule
  <1> HIDE DEF on
  <1>3. CASE R!MatchingRules(R!Parse(f), Bot) = {} /\ on = {}
    BY <1>2, <1>3 DEF R!IsAllowed, Against, Counting
  <1>4. CASE \E g \in Group : R!MatchingRules(R!Parse(f), Bot) = {g} /\ SaysRules(g, f, on)
    BY <1>1, <1>2, <1>4, GroupDecides DEF R!IsAllowed
  <1> QED
    BY <1>3, <1>4, TakenGroup DEF on

\* The delay that the parser finds is the last one that the file has for the bot.
LEMMA ParseDelay ==
  ASSUME NEW f \in Seq(R!Line)
  PROVE  R!GetCrawlDelay(R!Parse(f), Bot) = R!DelayOf(f, Bot)
  <1> DEFINE on == R!RulesOf(f, Bot)
             D == {i \in on : f[i].directive = "crawl-delay"}
  <1>1. on \in SUBSET (1..Len(f))
    BY DEF R!RulesOf, R!RulesFor
  <1>2. R!DelayOf(f, Bot) = IF D = {} THEN R!NotSet
                            ELSE f[CHOOSE i \in D : \A j \in D : j <= i].value
    BY DEF R!DelayOf
  <1> HIDE DEF on
  <1>3. CASE R!MatchingRules(R!Parse(f), Bot) = {} /\ on = {}
    BY <1>2, <1>3 DEF R!GetCrawlDelay
  <1>4. CASE \E g \in Group : R!MatchingRules(R!Parse(f), Bot) = {g} /\ SaysDelay(g, f, on)
    <2>1. PICK g \in Group : R!MatchingRules(R!Parse(f), Bot) = {g} /\ SaysDelay(g, f, on)
      BY <1>4
    <2>2. R!GetCrawlDelay(R!Parse(f), Bot) = g.crawlDelay
      BY <2>1 DEF R!GetCrawlDelay
    <2>3. CASE g.crawlDelay = R!NotSet /\ D = {}
      BY <1>2, <2>2, <2>3
    <2>4. CASE \E i \in D : g.crawlDelay = f[i].value /\ \A j \in D : j <= i
      <3>1. PICK i \in D : g.crawlDelay = f[i].value /\ \A j \in D : j <= i
        BY <2>4
      <3> DEFINE last == CHOOSE m \in D : \A j \in D : j <= m
      <3>2. last \in D /\ \A j \in D : j <= last
        BY <3>1
      <3>3. last = i
        <4> HIDE DEF last
        <4>1. last \in Int /\ i \in Int /\ i <= last /\ last <= i
          BY <1>1, <3>1, <3>2
        <4> QED
          BY <4>1
      <3> QED
        BY <1>2, <2>2, <3>1, <3>3
    <2> QED
      BY <2>1, <2>3, <2>4 DEF SaysDelay
  <1> QED
    BY <1>3, <1>4, TakenGroup DEF on

\* What the parser makes of each robots.txt, of any number of lines, allows what the file
\* does not forbid: grouped user-agent lines, groups named twice and the longest match
\* are read as the file says.
THEOREM ParserAgrees == RobotsAgree
  <1>1. \A h \in Domain : RobotsFiles[h] \subseteq Seq(R!Line)
    BY CrawlerSTAssumption
  <1> QED
    BY <1>1, ParseAllows DEF RobotsAgree

-----------------------------------------------------------------------------
(* The cache of the robots.txt files.                                      *)

\* What is known of a host: nothing, and then nothing was asked of it; or that it
\* has no robots.txt; or one of its files.
Unknown(h) ==
  /\ cache[h] = {} /\ file[h] = {}
  /\ \A u \in downloaded \cup blocked : HostOf[u] # h

Unruled(h) ==
  /\ cache[h] = {R!NoGroups} /\ file[h] = {}
  /\ \A u \in blocked : HostOf[u] # h

Ruled(h) ==
  \E f \in RobotsFiles[h] :
    /\ cache[h] = {R!Parse(f)} /\ file[h] = {f}
    /\ \A u \in downloaded : HostOf[u] = h => ~R!Forbids(f, Bot, u)
    /\ \A u \in blocked : HostOf[u] = h => R!Forbids(f, Bot, u)

Obeys ==
  /\ cache = [h \in Domain |-> cache[h]] /\ file = [h \in Domain |-> file[h]]
  /\ downloaded \subseteq Url /\ blocked \subseteq Url
  /\ \A h \in Domain : Unknown(h) \/ Unruled(h) \/ Ruled(h)
  /\ pc = "getRobots" => cache[Host] = {}
  /\ pc = "check" => cache[Host] = {rules}

RobotsInv == Typed /\ Obeys

\* Every URL has a host.
LEMMA HostType == \A u \in Url : HostOf[u] \in Domain
  BY CrawlerSTAssumption

\* A host without rules forbids nothing.
LEMMA NoGroupsAllow == \A u \in Url : R!IsAllowed(R!NoGroups, Bot, u)
  <1>1. ~R!NoGroups[Bot].listed /\ ~R!NoGroups["*"].listed
    BY CrawlerSTAssumption DEF R!NoGroups
  <1>2. R!MatchingRules(R!NoGroups, Bot) = {}
    BY <1>1 DEF R!MatchingRules
  <1> QED
    BY <1>2 DEF R!IsAllowed

\* Initially nothing is known of any host.
LEMMA InitRobots == Init => RobotsInv
  <1> SUFFICES ASSUME Init PROVE RobotsInv
    OBVIOUS
  <1>1. Obeys
    BY DEF Init, Obeys, Unknown
  <1> QED
    BY <1>1, InitTyped DEF RobotsInv

\* The rules are those of the URL's host when it is decided.
LEMMA DecidedByFile ==
  ASSUME RobotsInv, pc = "check"
  PROVE  /\ url \in Url /\ Host \in Domain
         /\ R!IsAllowed(rules, Bot, url) =>
              /\ ~Unknown(Host)
              /\ \A f \in file[Host] : ~R!Forbids(f, Bot, url)
         /\ ~R!IsAllowed(rules, Bot, url) =>
              /\ ~Unknown(Host) /\ ~Unruled(Host)
              /\ \A f \in file[Host] : R!Forbids(f, Bot, url)
  <1>1. url \in Url /\ Host \in Domain
    BY HostType DEF RobotsInv, Typed, Working, Host
  <1>2. cache[Host] = {rules}
    BY DEF RobotsInv, Obeys
  <1>3. ~Unknown(Host)
    BY <1>2 DEF Unknown
  <1>4. CASE Unruled(Host)
    <2>1. rules = R!NoGroups /\ file[Host] = {}
      BY <1>2, <1>4 DEF Unruled
    <2> QED
      BY <1>1, <1>3, <2>1, NoGroupsAllow
  <1>5. CASE Ruled(Host) /\ ~Unruled(Host)
    <2>1. PICK f \in RobotsFiles[Host] : cache[Host] = {R!Parse(f)} /\ file[Host] = {f}
      BY <1>5 DEF Ruled
    <2>2. rules = R!Parse(f)
      BY <1>2, <2>1
    <2>3. R!IsAllowed(rules, Bot, url) <=> ~R!Forbids(f, Bot, url)
      BY <1>1, <2>1, <2>2, ParserAgrees DEF RobotsAgree
    <2> QED
      BY <1>1, <1>3, <1>5, <2>1, <2>3
  <1> QED
    BY <1>1, <1>3, <1>4, <1>5 DEF RobotsInv, Obeys

\* What a step that decides nothing and downloads no robots.txt leaves as it is.
LEMMA KnowledgeKept ==
  ASSUME Obeys, UNCHANGED <<cache, file, downloaded, blocked>>
  PROVE  /\ cache' = [h \in Domain |-> cache'[h]] /\ file' = [h \in Domain |-> file'[h]]
         /\ downloaded' \subseteq Url /\ blocked' \subseteq Url
         /\ \A h \in Domain : (Unknown(h) \/ Unruled(h) \/ Ruled(h))'
  BY DEF Obeys, Unknown, Unruled, Ruled

\* A robots.txt that is downloaded is parsed for its own host, and stays in the cache.
LEMMA NextRobots == RobotsInv /\ [Next]_vars => RobotsInv'
  <1> SUFFICES ASSUME RobotsInv, [Next]_vars PROVE RobotsInv'
    OBVIOUS
  <1>1. Typed'
    BY NextTyped DEF RobotsInv
  <1>2. CASE PassEntry \/ TakeEntry \/ NoEntry \/ Loop \/ PageFetched \/ PageFailed
               \/ StoreContent \/ UpsertPage \/ AddLinks
    <2>1. UNCHANGED <<cache, file, downloaded, blocked>> /\ pc' \notin {"getRobots", "check"}
      BY <1>2 DEF PassEntry, TakeEntry, NoEntry, Loop, PageFetched, PageFailed,
                  StoreContent, UpsertPage, AddLinks, robots, history
    <2> QED
      BY <1>1, <2>1, KnowledgeKept DEF RobotsInv, Obeys
  <1>3. CASE FetchRetries \/ Signal \/ Tick \/ Stopped \/ UNCHANGED vars
    <2>1. UNCHANGED <<cache, file, downloaded, blocked, pc, url, rules>>
      BY <1>3 DEF FetchRetries, Signal, Tick, Stopped, vars, robots, history
    <2> QED
      BY <1>1, <2>1, KnowledgeKept DEF RobotsInv, Obeys, Host
  <1>4. CASE RobotsMissing
    <2>1. /\ UNCHANGED <<cache, file, downloaded, blocked, url>>
          /\ pc' = "getRobots" /\ cache[Host] = {}
      BY <1>4 DEF RobotsMissing, robots, history
    <2> QED
      BY <1>1, <2>1, KnowledgeKept DEF RobotsInv, Obeys, Host
  <1>5. CASE RobotsCached
    <2>1. /\ UNCHANGED <<cache, file, downloaded, blocked, url>>
          /\ pc' = "check" /\ cache[Host] # {} /\ rules' = CHOOSE g \in cache[Host] : TRUE
          /\ url \in Url
      BY <1>5 DEF RobotsCached, robots, history, RobotsInv, Typed, Working
    <2>2. \E g : cache[Host] = {g}
      BY <2>1, HostType DEF RobotsInv, Obeys, Unknown, Unruled, Ruled, Host
    <2>3. cache[Host] = {rules'}
      BY <2>1, <2>2
    <2> QED
      BY <1>1, <2>1, <2>3, KnowledgeKept DEF RobotsInv, Obeys, Host
  <1>6. CASE RobotsFetched(TRUE) \/ RobotsFetched(FALSE)
    <2>1. /\ UNCHANGED <<downloaded, blocked, url>> /\ pc' = "check" /\ pc = "getRobots"
          /\ cache' = [cache EXCEPT ![Host] = {rules'}]
          /\ \/ rules' = R!NoGroups /\ file' = file
             \/ \E f \in RobotsFiles[Host] : rules' = R!Parse(f)
                                             /\ file' = [file EXCEPT ![Host] = {f}]
      BY <1>6 DEF RobotsFetched
    <2>2. /\ url \in Url /\ Host \in Domain /\ Host' = Host /\ Unknown(Host)
          /\ cache = [h \in Domain |-> cache[h]] /\ file = [h \in Domain |-> file[h]]
      BY <2>1, HostType DEF RobotsInv, Typed, Working, Obeys, Unruled, Ruled, Host
    <2>3. (Unruled(Host) \/ Ruled(Host))'
      BY <2>1, <2>2 DEF Unknown, Unruled, Ruled
    <2>4. \A h \in Domain \ {Host} : cache'[h] = cache[h] /\ file'[h] = file[h]
      BY <2>1, <2>2
    <2>5. \A h \in Domain \ {Host} : (Unknown(h) \/ Unruled(h) \/ Ruled(h))'
      BY <2>1, <2>4 DEF RobotsInv, Obeys, Unknown, Unruled, Ruled
    <2>6. /\ cache' = [h \in Domain |-> cache'[h]] /\ file' = [h \in Domain |-> file'[h]]
          /\ cache'[Host] = {rules'}
      BY <2>1, <2>2
    <2> QED
      BY <1>1, <2>1, <2>2, <2>3, <2>5, <2>6 DEF RobotsInv, Obeys
  <1>7. CASE Allowed
    <2>1. /\ UNCHANGED <<cache, file, blocked, url>> /\ pc = "check" /\ pc' = "getPage"
          /\ downloaded' = downloaded \cup {url} /\ R!IsAllowed(rules, Bot, url)
      BY <1>7 DEF Allowed, robots
    <2>2. ~Unknown(Host) /\ url \in Url /\ \A f \in file[Host] : ~R!Forbids(f, Bot, url)
      BY <2>1, DecidedByFile
    <2>3. ASSUME NEW h \in Domain PROVE (Unknown(h) \/ Unruled(h) \/ Ruled(h))'
      <3>1. CASE h = Host
        BY <2>1, <2>2, <3>1 DEF RobotsInv, Obeys, Unruled, Ruled
      <3>2. CASE h # Host
        BY <2>1, <3>2 DEF RobotsInv, Obeys, Unknown, Unruled, Ruled, Host
      <3> QED
        BY <3>1, <3>2
    <2> QED
      BY <1>1, <2>1, <2>2, <2>3 DEF RobotsInv, Obeys
  <1>8. CASE Blocked
    <2>1. /\ UNCHANGED <<cache, file, downloaded>> /\ pc = "check" /\ pc' = "loop"
          /\ blocked' = blocked \cup {url} /\ ~R!IsAllowed(rules, Bot, url)
      BY <1>8 DEF Blocked, robots
    <2>2. /\ ~Unknown(Host) /\ ~Unruled(Host) /\ url \in Url
          /\ \A f \in file[Host] : R!Forbids(f, Bot, url)
      BY <2>1, DecidedByFile
    <2>3. ASSUME NEW h \in Domain PROVE (Unknown(h) \/ Unruled(h) \/ Ruled(h))'
      <3>1. CASE h = Host
        BY <2>1, <2>2, <3>1 DEF RobotsInv, Obeys, Ruled
      <3>2. CASE h # Host
        BY <2>1, <3>2 DEF RobotsInv, Obeys, Unknown, Unruled, Ruled, Host
      <3> QED
        BY <3>1, <3>2
    <2> QED
      BY <1>1, <2>1, <2>2, <2>3 DEF RobotsInv, Obeys
  <1> QED
    BY <1>2, <1>3, <1>4, <1>5, <1>6, <1>7, <1>8 DEF Next, Main

\* The crawler asks for exactly the URLs that the robots.txt of their host, if it could
\* be downloaded, does not forbid: neither the parser, nor the cache, nor rules_, which
\* holds the rules of the last host only, ever decides by anything else.
THEOREM RobotsObeyed == Spec => []RobotsRespected
  <1>1. RobotsInv /\ [Next]_vars => RobotsInv'
    BY NextRobots
  <1>2. RobotsInv => RobotsRespected
    <2> SUFFICES ASSUME RobotsInv PROVE RobotsRespected
      OBVIOUS
    <2>1. ASSUME NEW u \in downloaded, NEW f \in file[HostOf[u]] PROVE ~R!Forbids(f, Bot, u)
      BY <2>1, HostType DEF RobotsInv, Obeys, Unknown, Unruled, Ruled
    <2>2. ASSUME NEW u \in blocked PROVE \E f \in file[HostOf[u]] : R!Forbids(f, Bot, u)
      BY <2>2, HostType DEF RobotsInv, Obeys, Unknown, Unruled, Ruled
    <2> QED
      BY <2>1, <2>2 DEF RobotsRespected
  <1> QED
    BY InitRobots, <1>1, <1>2, PTL DEF Spec

-----------------------------------------------------------------------------
(* The crawl delay.                                                        *)

\* The delay of a domain is set from the robots.txt of its host, and not before that is
\* known; and what is left of the wait makes up for what has not gone by of it.
Paces ==
  /\ wait \in [Domain -> Nat] /\ crawlDelay \in [Domain -> Int]
  /\ age \in [Domain -> 0..MaxAge] /\ paced \subseteq Domain
  /\ \A d \in Domain :
       /\ crawlDelay[d] # -1 => cache[d] # {} /\ crawlDelay[d] = Wanted(d)
       /\ d \in paced => /\ crawlDelay[d] # -1
                         /\ age[d] + wait[d] >= Wanted(d) \/ age[d] = MaxAge

PaceInv == RobotsInv /\ Paces

\* The delay in a robots.txt is a number.
LEMMA DelayType ==
  ASSUME NEW f \in Seq(R!Line)
  PROVE  R!DelayOf(f, Bot) \in Int
  <1>1. CASE R!MatchingRules(R!Parse(f), Bot) = {}
    BY <1>1, ParseDelay DEF R!GetCrawlDelay, R!NotSet
  <1>2. CASE \E g \in Group : R!MatchingRules(R!Parse(f), Bot) = {g}
    <2>1. PICK g \in Group : R!MatchingRules(R!Parse(f), Bot) = {g}
      BY <1>2
    <2>2. R!GetCrawlDelay(R!Parse(f), Bot) = g.crawlDelay
      BY <2>1 DEF R!GetCrawlDelay
    <2> QED
      BY <2>2, ParseDelay DEF Group
  <1> QED
    BY <1>1, <1>2, TakenGroup

\* The delay that is wanted is a time that is told apart.
LEMMA WantedType ==
  ASSUME RobotsInv, NEW d \in Domain
  PROVE  Wanted(d) \in Nat /\ Wanted(d) <= MaxAge
  <1>1. DefaultDelay \in Nat /\ MaxAge \in Nat /\ DefaultDelay <= MaxAge
    BY FrontierSTAssumption, CrawlerSTAssumption
  <1>2. CASE file[d] = {}
    BY <1>1, <1>2 DEF Wanted
  <1>3. CASE Ruled(d)
    <2>1. PICK f \in RobotsFiles[d] : file[d] = {f}
      BY <1>3 DEF Ruled
    <2>2. f \in Seq(R!Line) /\ R!DelayOf(f, Bot) <= MaxAge
      BY CrawlerSTAssumption
    <2>3. R!DelayOf(f, Bot) \in Int
      BY <2>2, DelayType
    <2>4. Wanted(d) = IF R!DelayOf(f, Bot) > 0 THEN R!DelayOf(f, Bot) ELSE DefaultDelay
      BY <2>1 DEF Wanted
    <2> QED
      BY <1>1, <2>2, <2>3, <2>4
  <1> QED
    BY <1>2, <1>3 DEF RobotsInv, Obeys, Unknown, Unruled

\* crawl_url sets the delay that the robots.txt of the host asks for.
LEMMA SetsWanted ==
  ASSUME RobotsInv, Allowed
  PROVE  /\ Host \in Domain /\ cache[Host] # {}
         /\ crawlDelay' = [crawlDelay EXCEPT ![Host] = Wanted(Host)]
  <1> DEFINE delay == R!GetCrawlDelay(rules, Bot)
  <1>1. /\ Host \in Domain /\ cache[Host] = {rules} /\ ~Unknown(Host)
        /\ crawlDelay' = [crawlDelay EXCEPT ![Host] =
                            IF delay <= 0 THEN DefaultDelay ELSE delay]
    BY DecidedByFile DEF Allowed, SetCrawlDelay, RobotsInv, Obeys, Unknown
  <1>2. CASE Unruled(Host)
    <2>1. rules = R!NoGroups /\ file[Host] = {}
      BY <1>1, <1>2 DEF Unruled
    <2>2. R!MatchingRules(R!NoGroups, Bot) = {}
      BY CrawlerSTAssumption DEF R!NoGroups, R!MatchingRules
    <2>3. delay = -1
      BY <2>1, <2>2 DEF R!GetCrawlDelay, R!NotSet
    <2> QED
      BY <1>1, <2>1, <2>3 DEF Wanted
  <1>3. CASE Ruled(Host)
    <2>1. PICK f \in RobotsFiles[Host] : cache[Host] = {R!Parse(f)} /\ file[Host] = {f}
      BY <1>3 DEF Ruled
    <2>2. f \in Seq(R!Line)
      BY <1>1, CrawlerSTAssumption
    <2>3. delay = R!DelayOf(f, Bot) /\ delay \in Int
      BY <1>1, <2>1, <2>2, ParseDelay, DelayType
    <2>4. Wanted(Host) = IF delay > 0 THEN delay ELSE DefaultDelay
      BY <2>1, <2>3 DEF Wanted
    <2> HIDE DEF delay
    <2>5. Wanted(Host) = IF delay <= 0 THEN DefaultDelay ELSE delay
      BY <2>3, <2>4
    <2> QED
      BY <1>1, <2>5 DEF delay
  <1> QED
    BY <1>1, <1>2, <1>3 DEF RobotsInv, Obeys

\* Initially no delay is set.
LEMMA InitPaces == Init => PaceInv
  <1> SUFFICES ASSUME Init PROVE PaceInv
    OBVIOUS
  <1>1. MaxAge \in Nat
    BY CrawlerSTAssumption
  <1>2. Paces
    BY <1>1 DEF Init, Paces
  <1> QED
    BY <1>2, InitRobots DEF PaceInv

\* The clock takes from the wait what it adds to the time gone by; the wait starts anew
\* when a URL is taken; and a delay that is set does not change.
LEMMA NextPaces == PaceInv /\ [Next]_vars => PaceInv'
  <1> SUFFICES ASSUME PaceInv, [Next]_vars PROVE PaceInv'
    OBVIOUS
  <1>1. RobotsInv /\ RobotsInv' /\ Paces
    BY NextRobots DEF PaceInv
  <1>2. MaxAge \in Nat /\ \A d \in Domain : Wanted(d) \in Nat /\ Wanted(d) <= MaxAge
    BY <1>1, WantedType, CrawlerSTAssumption
  <1>3. ASSUME UNCHANGED <<wait, crawlDelay, age, paced, cache, file>> PROVE Paces'
    BY <1>1, <1>3 DEF Paces, Wanted
  <1>4. CASE PassEntry \/ NoEntry \/ Loop \/ PageFetched \/ PageFailed \/ StoreContent
               \/ UpsertPage \/ AddLinks \/ RobotsCached \/ RobotsMissing \/ FetchRetries
               \/ Signal \/ Stopped \/ Blocked \/ UNCHANGED vars
    <2>1. UNCHANGED <<wait, crawlDelay, age, paced, cache, file>>
      BY <1>4 DEF PassEntry, GetNextSkip, NoEntry, GetNextNone, Loop, PageFetched, PageFailed,
                  StoreContent, UpsertPage, AddLinks, Add, RobotsCached, RobotsMissing,
                  FetchRetries, Signal, Stopped, Blocked, vars, frontier, robots, history
    <2> QED
      BY <1>1, <1>3, <2>1 DEF PaceInv
  <1>5. CASE TakeEntry
    <2>1. PICK e \in Entry : /\ GetNextTake(e)
                             /\ age' = [age EXCEPT ![DomainOf[e.url]] = 0]
                             /\ paced' = IF crawlDelay[DomainOf[e.url]] >= 0
                                           THEN paced \cup {DomainOf[e.url]} ELSE paced
      BY <1>5 DEF TakeEntry
    <2> DEFINE d == DomainOf[e.url]
    <2>2. d \in Domain
      BY FrontierSTAssumption DEF Entry
    <2>3. /\ wait' = [wait EXCEPT ![d] = IF crawlDelay[d] >= 0 THEN crawlDelay[d]
                                                               ELSE DefaultDelay]
          /\ UNCHANGED <<crawlDelay, cache, file>>
      BY <1>5, <2>1 DEF TakeEntry, GetNextTake, UpdateDomainTime, robots
    <2> HIDE DEF d
    <2>4. /\ age' = [age EXCEPT ![d] = 0]
          /\ paced' = IF crawlDelay[d] >= 0 THEN paced \cup {d} ELSE paced
      BY <2>1 DEF d
    <2>5. \A c \in Domain : Wanted(c)' = Wanted(c)
      BY <2>3 DEF Wanted
    <2>6. /\ wait' \in [Domain -> Nat] /\ age' \in [Domain -> 0..MaxAge]
          /\ paced' \subseteq Domain
      BY <1>1, <1>2, <2>2, <2>3, <2>4, FrontierSTAssumption DEF Paces
    <2>7. ASSUME NEW c \in Domain, c \in paced'
          PROVE  /\ crawlDelay[c] # -1
                 /\ age'[c] + wait'[c] >= Wanted(c) \/ age'[c] = MaxAge
      <3>1. CASE c = d
        <4>1. crawlDelay[d] # -1
          BY <1>1, <2>4, <2>7, <3>1 DEF Paces
        <4>2. crawlDelay[d] = Wanted(d) /\ crawlDelay[d] >= 0
          BY <1>1, <1>2, <2>2, <4>1 DEF Paces
        <4>3. age'[d] = 0 /\ wait'[d] = Wanted(d)
          BY <1>1, <2>2, <2>3, <2>4, <4>2 DEF Paces
        <4> QED
          BY <1>2, <2>2, <3>1, <4>1, <4>3
      <3>2. CASE c # d
        <4>1. c \in paced /\ age'[c] = age[c] /\ wait'[c] = wait[c]
          BY <1>1, <2>3, <2>4, <2>7, <3>2 DEF Paces
        <4> QED
          BY <1>1, <4>1 DEF Paces
      <3> QED
        BY <3>1, <3>2
    <2>8. Paces'
      BY <1>1, <2>3, <2>5, <2>6, <2>7 DEF Paces
    <2> QED
      BY <1>1, <2>8 DEF PaceInv
  <1>6. CASE RobotsFetched(TRUE) \/ RobotsFetched(FALSE)
    <2>1. /\ UNCHANGED <<wait, crawlDelay, age, paced>> /\ pc = "getRobots"
          /\ cache' = [cache EXCEPT ![Host] = {rules'}]
          /\ \/ file' = file
             \/ \E f \in RobotsFiles[Host] : file' = [file EXCEPT ![Host] = {f}]
      BY <1>6 DEF RobotsFetched, frontier
    <2>2. /\ Host \in Domain /\ cache[Host] = {}
          /\ cache = [h \in Domain |-> cache[h]] /\ file = [h \in Domain |-> file[h]]
      BY <1>1, <2>1, HostType DEF RobotsInv, Typed, Working, Obeys, Host
    <2>3. \A d \in Domain : d # Host => cache'[d] = cache[d] /\ file'[d] = file[d]
      BY <2>1, <2>2
    <2>4. ASSUME NEW d \in Domain, d # Host PROVE Wanted(d)' = Wanted(d)
      <3>1. file'[d] = file[d]
        BY <2>3, <2>4
      <3> QED
        BY <3>1 DEF Wanted
    <2>5. crawlDelay[Host] = -1 /\ Host \notin paced
      BY <1>1, <2>2 DEF Paces
    <2>6. Paces'
      BY <1>1, <2>1, <2>3, <2>4, <2>5 DEF Paces
    <2> QED
      BY <1>1, <2>6 DEF PaceInv
  <1>7. CASE Allowed
    <2>1. /\ Host \in Domain /\ cache[Host] # {}
          /\ crawlDelay' = [crawlDelay EXCEPT ![Host] = Wanted(Host)]
      BY <1>1, <1>7, SetsWanted
    <2>2. UNCHANGED <<wait, age, paced, cache, file>>
      BY <1>7 DEF Allowed, SetCrawlDelay, robots
    <2>3. \A d \in Domain : Wanted(d)' = Wanted(d)
      BY <2>2 DEF Wanted
    <2>4. crawlDelay' \in [Domain -> Int]
      BY <1>1, <1>2, <2>1 DEF Paces
    <2>5. Paces'
      BY <1>1, <1>2, <2>1, <2>2, <2>3, <2>4 DEF Paces
    <2> QED
      BY <1>1, <2>5 DEF PaceInv
  <1>8. CASE Tick
    <2>1. /\ UNCHANGED <<crawlDelay, paced, cache, file>>
          /\ wait' = [d \in Domain |-> IF wait[d] > 0 THEN wait[d] - 1 ELSE 0]
          /\ age' = [d \in Domain |-> IF age[d] < MaxAge THEN age[d] + 1 ELSE MaxAge]
      BY <1>8 DEF Tick, Second, robots
    <2>2. \A d \in Domain : Wanted(d)' = Wanted(d)
      BY <2>1 DEF Wanted
    <2>3. wait' \in [Domain -> Nat] /\ age' \in [Domain -> 0..MaxAge]
      BY <1>1, <1>2, <2>1 DEF Paces
    <2>4. ASSUME NEW d \in Domain, age[d] + wait[d] >= Wanted(d) \/ age[d] = MaxAge
          PROVE  age'[d] + wait'[d] >= Wanted(d) \/ age'[d] = MaxAge
      <3>1. wait[d] \in Nat /\ age[d] \in 0..MaxAge /\ Wanted(d) \in Nat
        BY <1>1, <1>2 DEF Paces
      <3>2. /\ wait'[d] = IF wait[d] > 0 THEN wait[d] - 1 ELSE 0
            /\ age'[d] = IF age[d] < MaxAge THEN age[d] + 1 ELSE MaxAge
        BY <2>1
      <3> QED
        BY <1>2, <2>4, <3>1, <3>2
    <2>5. Paces'
      BY <1>1, <2>1, <2>2, <2>3, <2>4 DEF Paces
    <2> QED
      BY <1>1, <2>5 DEF PaceInv
  <1> QED
    BY <1>4, <1>5, <1>6, <1>7, <1>8 DEF Next, Main

\* Once its delay was set, two URLs of a domain are taken at least as far apart as the
\* robots.txt of its host asks for, whatever the delays, the hosts and the files.
THEOREM DelayKept == Spec => CrawlDelayKept
  <1>1. Spec => []PaceInv
    BY InitPaces, NextPaces, PTL DEF Spec
  <1>2. PaceInv /\ [Next]_vars =>
          [TakeEntry => LET d == DomainOf[url'] IN d \in paced => age[d] >= Wanted(d)]_vars
    <2> SUFFICES ASSUME PaceInv, TakeEntry, DomainOf[url'] \in paced
                 PROVE  age[DomainOf[url']] >= Wanted(DomainOf[url'])
      OBVIOUS
    <2>1. PICK e \in Entry : GetNextTake(e) /\ url' = e.url
      BY DEF TakeEntry
    <2> DEFINE d == DomainOf[url']
    <2>2. d \in Domain /\ wait[d] = 0
      BY <2>1, FrontierSTAssumption DEF Entry, GetNextTake, CanCrawlDomain
    <2>3. Wanted(d) \in Nat /\ Wanted(d) <= MaxAge
      BY <2>2, WantedType DEF PaceInv
    <2> HIDE DEF d
    <2>4. age[d] >= Wanted(d)
      <3>1. age[d] + wait[d] >= Wanted(d) \/ age[d] = MaxAge
        BY <2>2 DEF PaceInv, Paces, d
      <3>2. age[d] \in 0..MaxAge
        BY <2>2 DEF PaceInv, Paces
      <3> QED
        BY <2>2, <2>3, <3>1, <3>2
    <2> QED
      BY <2>4 DEF d
  <1> QED
    BY <1>1, <1>2, PTL DEF Spec, CrawlDelayKept

-----------------------------------------------------------------------------
(* Types.                                                                  *)

RestTyped ==
  /\ attempt \in 0..MaxRetries /\ stop \in BOOLEAN /\ recorded \subseteq Url

\* Every step keeps the other variables in their types: an attempt is counted only while
\* there is a retry left.
LEMMA RestKept == Typed /\ RestTyped /\ [Next]_vars => RestTyped'
  <1> SUFFICES ASSUME Typed, RestTyped, [Next]_vars PROVE RestTyped'
    OBVIOUS
  <1>1. MaxRetries \in Nat
    BY CrawlerSTAssumption
  <1> USE DEF RestTyped, fetch, result
  <1>2. CASE PassEntry \/ TakeEntry \/ NoEntry \/ Loop \/ RobotsCached \/ RobotsMissing
               \/ Blocked \/ Allowed \/ StoreContent \/ Tick \/ Stopped \/ AddLinks
               \/ UNCHANGED vars
    BY <1>2 DEF PassEntry, TakeEntry, NoEntry, Loop, RobotsCached, RobotsMissing, Blocked,
                Allowed, StoreContent, Tick, Stopped, AddLinks, vars
  <1>3. CASE FetchRetries \/ RobotsFetched(TRUE) \/ RobotsFetched(FALSE) \/ PageFetched
               \/ PageFailed
    BY <1>1, <1>3 DEF FetchRetries, RobotsFetched, PageFetched, PageFailed
  <1>4. CASE UpsertPage
    BY <1>4 DEF UpsertPage, Typed, Working
  <1>5. CASE Signal
    BY <1>5 DEF Signal
  <1> QED
    BY <1>2, <1>3, <1>4, <1>5 DEF Next, Main

\* Every variable has its type: in particular an entry is queued at most once, and the
\* fetcher stays within its retries.
THEOREM TypeCorrect == Spec => []TypeOK
  <1>1. Spec => []Accounted
    BY InitAccounted, NextAccounted, PTL DEF Spec
  <1>2. Spec => []ResponseInv
    BY InitResponse, NextResponse, PTL DEF Spec
  <1>3. Spec => []PaceInv
    BY InitPaces, NextPaces, PTL DEF Spec
  <1>4. Spec => []RestTyped
    <2>1. Init => RestTyped
      <3>1. MaxRetries \in Nat
        BY CrawlerSTAssumption
      <3>2. 0 \in 0..MaxRetries
        BY <3>1
      <3>3. Init => attempt = 0 /\ stop = FALSE /\ recorded = {}
        BY Zenon DEF Init
      <3> QED
        BY <3>2, <3>3 DEF RestTyped
    <2>2. ResponseInv => Typed
      BY DEF ResponseInv
    <2> QED
      BY <1>2, <2>1, <2>2, RestKept, PTL DEF Spec
  <1>5. Accounted /\ ResponseInv /\ PaceInv /\ RestTyped => TypeOK
    <2> SUFFICES ASSUME Accounted, ResponseInv, PaceInv, RestTyped PROVE TypeOK
      OBVIOUS
    <2>1. Typed /\ RobotsInv /\ Paces /\ OneResponse /\ MaxRetries \in Nat
      BY CrawlerSTAssumption DEF ResponseInv, PaceInv
    <2>2. ASSUME NEW e \in Entry PROVE queue[e] \in 0..1 /\ skipped[e] \in 0..1
      <3>1. e.url \in Url /\ e = [url |-> e.url, priority |-> e.priority]
            /\ (e.priority = SEED \/ e.priority = NORMAL)
        BY DEF Entry
      <3> DEFINE s == [url |-> e.url, priority |-> SEED]
                 m == [url |-> e.url, priority |-> NORMAL]
      <3>2. s \in Entry /\ m \in Entry /\ (e = s \/ e = m)
        BY <3>1 DEF Entry
      <3> HIDE DEF s, m
      <3>3. /\ queue[s] \in Nat /\ queue[m] \in Nat
            /\ skipped[s] \in Nat /\ skipped[m] \in Nat
        BY <2>1, <3>2 DEF Typed
      <3>4. Entries(queue, e.url) + Entries(skipped, e.url) <= 1
        <4>1. /\ Entries(queue, e.url) \in Nat /\ Entries(skipped, e.url) \in Nat
          BY <2>1, <3>1, EntriesType DEF Typed
        <4>2. Entries(queue, e.url) + Entries(skipped, e.url) + Once(url = e.url)
                + Once(e.url \in crawled) + Once(e.url \in failed) = Once(e.url \in seen)
          BY <3>1 DEF Accounted, EveryUrlAccounted
        <4>3. /\ Once(url = e.url) \in 0..1 /\ Once(e.url \in crawled) \in 0..1
              /\ Once(e.url \in failed) \in 0..1 /\ Once(e.url \in seen) \in 0..1
          BY DEF Once
        <4> QED
          BY <4>1, <4>2, <4>3
      <3>5. (queue[s] + queue[m]) + (skipped[s] + skipped[m]) <= 1
        BY <3>4 DEF Entries, s, m
      <3>6. /\ queue[s] \in 0..1 /\ queue[m] \in 0..1
            /\ skipped[s] \in 0..1 /\ skipped[m] \in 0..1
        <4>1. \A i, j, k, n \in Nat : (i + j) + (k + n) <= 1 =>
                i \in 0..1 /\ j \in 0..1 /\ k \in 0..1 /\ n \in 0..1
          OBVIOUS
        <4> QED
          BY <3>3, <3>5, <4>1
      <3> QED
        BY <3>2, <3>6
    <2>3. queue \in [Entry -> 0..1] /\ skipped \in [Entry -> 0..1]
      BY <2>1, <2>2 DEF Typed
    <2>4. crawlDelay \in [Domain -> Nat \cup {-1}]
      BY <2>1, WantedType DEF Paces
    <2>5. 0..1 \subseteq 0..(MaxRetries + 1)
      BY <2>1
    <2>6. content \in 0..(MaxRetries + 1) /\ stored \in [Url -> 0..(MaxRetries + 1)]
      BY <2>1, <2>5 DEF OneResponse
    <2> QED
      BY <2>1, <2>3, <2>4, <2>6 DEF Typed, Paces, RestTyped, TypeOK
  <1> QED
    BY <1>1, <1>2, <1>3, <1>4, <1>5, PTL
=============================================================================
