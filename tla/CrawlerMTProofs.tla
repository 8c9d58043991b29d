-------------------------- MODULE CrawlerMTProofs ---------------------------
(***************************************************************************)
(* What TLAPS proves of CrawlerMT, for any number of workers, URLs and     *)
(* domains, and for any number of failing calls and restarts.              *)
(***************************************************************************)
EXTENDS CrawlerMT, FiniteSetTheorems, TLAPS

\* A worker in a step that uses its URL, its page or its link has one.
HasUrl == \A w \in Worker :
            /\ pc[w] \in Busy \cup {"lost"} => url[w] \in Url
            /\ pc[w] \in {"store", "record"} => page[w] \in Content
            /\ pc[w] = "push" => link[w] \in Url

Typed == TypeOK /\ HasUrl

\* The domain of a URL is one.
LEMMA DomainOfType == \A u \in Url : DomainOf[u] \in Domain
  BY CrawlerAssumption

\* Initially, and again after a restart, every variable has its type.
LEMMA InitTyped == Init => Typed
  <1> SUFFICES ASSUME Init PROVE Typed
    OBVIOUS
  <1>1. TypeOK
    BY DEF Init, Started, TypeOK, Row, NoRow, Step, MainStep
  <1>2. HasUrl
    BY DEF Init, Started, HasUrl, Busy
  <1> QED
    BY <1>1, <1>2 DEF Typed

\* A step of a worker preserves the types.
LEMMA WorkerTyped ==
  ASSUME Typed, NEW w \in Worker, WorkerNext(w)
  PROVE  Typed'
  <1> USE DEF Typed, TypeOK, HasUrl, Busy, Goto, Failed, Filtered, Fault,
              durable, frontier, stats, main, shared, bounds
  <1>1. CASE Loop(w)
    BY <1>1 DEF Loop, Step
  <1>2. CASE PopTake(w)
    BY <1>2 DEF PopTake, Step
  <1>3. CASE PopNull(w)
    BY <1>3 DEF PopNull, Step
  <1>4. CASE Filter(w)
    BY <1>4 DEF Filter, Step
  <1>5. CASE CheckDomainLimit(w)
    BY <1>5 DEF CheckDomainLimit, Step
  <1>6. CASE CheckRobots(w)
    <2>1. robots' \in SUBSET Domain /\ forbidden' \in SUBSET Url /\ faults' \in Nat
      BY <1>6, DomainOfType, CrawlerAssumption DEF CheckRobots
    <2>2. /\ pc' \in [Worker -> Step] /\ filtered' \in SUBSET Url
          /\ pc' = [pc EXCEPT ![w] = pc'[w]] /\ pc'[w] \in {"loop", "fetch"}
      BY <1>6 DEF CheckRobots, Step
    <2>3. UNCHANGED <<url, page, links, link, crawled, failed, pages, store, saved, seen,
                      queue, frontierShutdown, mainPc, loaded, pending, stopRequested,
                      count, runs>>
      BY <1>6 DEF CheckRobots, main
    <2>4. TypeOK'
      BY <2>1, <2>2, <2>3
    <2>5. HasUrl'
      BY <1>6, <2>2, <2>3 DEF CheckRobots
    <2> QED
      BY <2>4, <2>5
  <1>7. CASE Fetch(w)
    BY <1>7 DEF Fetch, Step
  <1>8. CASE RecordFailure(w)
    BY <1>8 DEF RecordFailure, Step, Row
  <1>9. CASE StoreContent(w)
    BY <1>9 DEF StoreContent, Step
  <1>10. CASE RecordPage(w)
    <2>1. pages' \in [Url -> Row]
      BY <1>10 DEF RecordPage, Row
    <2>2. failed' \in SUBSET Url /\ faults' \in Nat /\ pc' \in [Worker -> Step]
      BY <1>10 DEF RecordPage, Step
    <2> QED
      BY <1>10, <2>1, <2>2 DEF RecordPage
  <1>11. CASE RecordCrawl(w)
    BY <1>11, DomainOfType, CrawlerAssumption DEF RecordCrawl, Step
  <1>12. CASE AddDuplicate(w)
    BY <1>12 DEF AddDuplicate
  <1>13. CASE AddSeen(w)
    BY <1>13 DEF AddSeen, Step
  <1>14. CASE AddPush(w)
    BY <1>14 DEF AddPush, Step
  <1>15. CASE PageDone(w)
    BY <1>15 DEF PageDone, Step
  <1> QED
    BY <1>1, <1>2, <1>3, <1>4, <1>5, <1>6, <1>7, <1>8, <1>9, <1>10, <1>11, <1>12,
       <1>13, <1>14, <1>15 DEF WorkerNext

\* A step of main(), a signal and a restart preserve the types.
LEMMA MainTyped ==
  ASSUME Typed, MainNext \/ Signal \/ Restart \/ Ended
  PROVE  Typed'
  <1> USE DEF Typed, TypeOK, HasUrl, Busy, MainGoto, Fault,
              durable, frontier, stats, worker, shared, bounds
  <1>1. CASE LoadFrontier
    BY <1>1 DEF LoadFrontier, MainStep
  <1>2. CASE ClearFrontier
    BY <1>2 DEF ClearFrontier, MainStep
  <1>3. CASE AddSeeds
    BY <1>3, CrawlerAssumption DEF AddSeeds, MainStep, Step
  <1>4. CASE MonitorMaxPages
    BY <1>4 DEF MonitorMaxPages, MainStep
  <1>5. CASE MonitorEmpty
    BY <1>5 DEF MonitorEmpty, MainStep
  <1>6. CASE MonitorCrawled
    BY <1>6 DEF MonitorCrawled, MainStep
  <1>7. CASE MonitorStops
    BY <1>7 DEF MonitorStops, MainStep
  <1>8. CASE ExportPending
    BY <1>8 DEF ExportPending, MainStep
  <1>9. CASE SaveFrontier
    BY <1>9 DEF SaveFrontier, MainStep
  <1>10. CASE ShutdownFrontier
    BY <1>10 DEF ShutdownFrontier, MainStep
  <1>11. CASE JoinWorkers
    BY <1>11 DEF JoinWorkers, MainStep
  <1>12. CASE Signal
    BY <1>12 DEF Signal, main
  <1>13. CASE Restart
    <2>1. TypeOK'
      <3>1. /\ pages' \in [Url -> Row] /\ store' \in SUBSET Content
            /\ saved' \in SUBSET Url /\ faults' \in Nat /\ runs' \in Nat
        BY <1>13, CrawlerAssumption DEF Restart
      <3>2. /\ seen' \in SUBSET Url /\ queue' \in SUBSET Url
            /\ frontierShutdown' \in BOOLEAN /\ stopRequested' \in BOOLEAN
            /\ count' \in [Domain -> Nat]
            /\ robots' \in SUBSET Domain /\ forbidden' \in SUBSET Url
            /\ crawled' \in SUBSET Url /\ failed' \in SUBSET Url
            /\ filtered' \in SUBSET Url
        BY <1>13 DEF Restart
      <3>3. /\ pc' \in [Worker -> Step]
            /\ url' \in [Worker -> Url \cup {NoUrl}]
            /\ page' \in [Worker -> Content \cup {NoContent}]
            /\ links' \in [Worker -> SUBSET Url]
            /\ link' \in [Worker -> Url \cup {NoUrl}]
            /\ mainPc' \in MainStep
            /\ loaded' \in SUBSET Url /\ pending' \in SUBSET Url
        BY <1>13 DEF Restart, MainStep, Step
      <3> QED
        BY <3>1, <3>2, <3>3
    <2>2. HasUrl'
      BY <1>13 DEF Restart
    <2> QED
      BY <2>1, <2>2
  <1>14. CASE Ended
    BY <1>14 DEF Ended, vars, main
  <1> QED
    BY <1>1, <1>2, <1>3, <1>4, <1>5, <1>6, <1>7, <1>8, <1>9, <1>10, <1>11, <1>12,
       <1>13, <1>14 DEF MainNext

\* Every step preserves the types.
LEMMA NextTyped == Typed /\ [Next]_vars => Typed'
  <1>1. ASSUME Typed, UNCHANGED vars PROVE Typed'
    BY <1>1 DEF vars, durable, frontier, stats, worker, main, shared, bounds,
                Typed, TypeOK, HasUrl
  <1> QED
    BY <1>1, WorkerTyped, MainTyped DEF Next

\* Every variable of the crawler has its type in every reachable state.
THEOREM TypeCorrect == Spec => []TypeOK
  <1>1. Typed => TypeOK
    BY DEF Typed
  <1> QED
    BY InitTyped, NextTyped, <1>1, PTL DEF Spec

-----------------------------------------------------------------------------
(* Robots.txt.                                                             *)

\* The rules a page was checked against stay in the cache until the run ends.
LEMMA RobotsPreserved == Typed /\ RobotsRespected /\ [Next]_vars => RobotsRespected'
  <1> SUFFICES ASSUME Typed, RobotsRespected, [Next]_vars PROVE RobotsRespected'
    OBVIOUS
  <1> USE DEF Typed, TypeOK, HasUrl, Busy, RobotsRespected, Goto, Failed, Filtered,
              shared, worker
  <1>1. ASSUME NEW w \in Worker, CheckRobots(w) PROVE RobotsRespected'
    <2> DEFINE d == DomainOf[url[w]]
    <2>1. /\ robots' = robots \cup {d}
          /\ \A u \in Url : DomainOf[u] \in robots /\ u \notin forbidden
                              => u \notin forbidden'
      BY <1>1 DEF CheckRobots, DomainUrls
    <2>2. /\ UNCHANGED url
          /\ pc'[w] = "fetch" => url[w] \notin forbidden'
          /\ \A v \in Worker \ {w} : pc'[v] = pc[v]
          /\ pc'[w] \in {"loop", "fetch"}
      BY <1>1 DEF CheckRobots
    <2> QED
      BY <2>1, <2>2
  <1>2. ASSUME NEW w \in Worker, WorkerNext(w), ~CheckRobots(w)
        PROVE  /\ UNCHANGED <<robots, forbidden>>
               /\ \A v \in Worker :
                    pc'[v] \in {"fetch", "lost", "store", "record", "count"} =>
                      /\ pc[v] \in {"fetch", "lost", "store", "record", "count"}
                      /\ url'[v] = url[v]
    <2>1. CASE Loop(w) \/ PopTake(w) \/ PopNull(w) \/ Filter(w) \/ CheckDomainLimit(w)
      BY <2>1 DEF Loop, PopTake, PopNull, Filter, CheckDomainLimit
    <2>2. CASE Fetch(w) \/ RecordFailure(w) \/ StoreContent(w) \/ RecordPage(w)
      BY <2>2 DEF Fetch, RecordFailure, StoreContent, RecordPage
    <2>3. CASE RecordCrawl(w) \/ AddDuplicate(w) \/ AddSeen(w) \/ AddPush(w) \/ PageDone(w)
      BY <2>3 DEF RecordCrawl, AddDuplicate, AddSeen, AddPush, PageDone
    <2> QED
      BY <1>2, <2>1, <2>2, <2>3 DEF WorkerNext
  <1>3. ASSUME NEW w \in Worker, WorkerNext(w) PROVE RobotsRespected'
    BY <1>1, <1>2, <1>3
  <1>4. CASE AddSeeds \/ Restart
    BY <1>4 DEF AddSeeds, Restart
  <1>5. CASE (MainNext /\ ~AddSeeds) \/ Signal \/ Ended \/ UNCHANGED vars
    <2>1. UNCHANGED <<robots, forbidden, pc, url>>
      BY <1>5 DEF MainNext, LoadFrontier, ClearFrontier, MonitorMaxPages, MonitorEmpty,
                  MonitorCrawled, MonitorStops, ExportPending, SaveFrontier,
                  ShutdownFrontier, JoinWorkers, Signal, Ended, vars
    <2> QED
      BY <2>1
  <1> QED
    BY <1>3, <1>4, <1>5 DEF Next

\* No worker downloads a page that the cached rules of its domain forbid.
THEOREM RobotsObeyed == Spec => []RobotsRespected
  <1>1. Init => RobotsRespected
    BY DEF Init, Started, RobotsRespected
  <1> QED
    BY InitTyped, NextTyped, <1>1, RobotsPreserved, PTL DEF Spec

-----------------------------------------------------------------------------
(* The content of a page.                                                  *)

\* A page that is about to be recorded is in the content store.
PageStored == \A w \in Worker : pc[w] = "record" => page[w] \in store

\* No step records a page that is not stored, nor removes one from the store.
LEMMA StoredPreserved ==
  Typed /\ StoredBeforeRecorded /\ PageStored /\ [Next]_vars
    => StoredBeforeRecorded' /\ PageStored'
  <1> SUFFICES ASSUME Typed, StoredBeforeRecorded, PageStored, [Next]_vars
               PROVE  StoredBeforeRecorded' /\ PageStored'
    OBVIOUS
  <1> USE DEF Typed, TypeOK, HasUrl, Busy, StoredBeforeRecorded, PageStored, Goto,
              Failed, Filtered, durable, worker
  <1>1. ASSUME NEW w \in Worker, RecordFailure(w) \/ RecordPage(w)
        PROVE  StoredBeforeRecorded' /\ PageStored'
    <2>1. UNCHANGED <<store, page>> /\ \A v \in Worker : pc'[v] = "record" => pc[v] = "record"
      BY <1>1 DEF RecordFailure, RecordPage
    <2>2. \A u \in Url : \/ pages'[u] = pages[u]
                         \/ pages'[u].status = "0"
                         \/ pages'[u].content = page[w] /\ page[w] \in store
      BY <1>1 DEF RecordFailure, RecordPage
    <2> QED
      BY <2>1, <2>2
  <1>2. ASSUME NEW w \in Worker, StoreContent(w)
        PROVE  StoredBeforeRecorded' /\ PageStored'
    <2>1. /\ UNCHANGED <<pages, page>>
          /\ store \subseteq store'
          /\ \A v \in Worker : pc'[v] = "record" => pc[v] = "record" \/ page[v] \in store'
      BY <1>2 DEF StoreContent
    <2> QED
      BY <2>1
  <1>3. ASSUME NEW w \in Worker, WorkerNext(w),
               ~RecordFailure(w), ~RecordPage(w), ~StoreContent(w)
        PROVE  /\ UNCHANGED <<pages, store>>
               /\ \A v \in Worker : pc'[v] = "record" => pc[v] = "record" /\ page'[v] = page[v]
    <2>1. CASE Loop(w) \/ PopTake(w) \/ PopNull(w) \/ Filter(w) \/ CheckDomainLimit(w)
      BY <2>1 DEF Loop, PopTake, PopNull, Filter, CheckDomainLimit
    <2>2. CASE CheckRobots(w) \/ Fetch(w) \/ RecordCrawl(w)
      BY <2>2 DEF CheckRobots, Fetch, RecordCrawl
    <2>3. CASE AddDuplicate(w) \/ AddSeen(w) \/ AddPush(w) \/ PageDone(w)
      BY <2>3 DEF AddDuplicate, AddSeen, AddPush, PageDone
    <2> QED
      BY <1>3, <2>1, <2>2, <2>3 DEF WorkerNext
  <1>4. ASSUME NEW w \in Worker, WorkerNext(w)
        PROVE  StoredBeforeRecorded' /\ PageStored'
    BY <1>1, <1>2, <1>3, <1>4
  <1>5. CASE AddSeeds \/ Restart
    BY <1>5 DEF AddSeeds, Restart
  <1>6. CASE (MainNext /\ ~AddSeeds) \/ Signal \/ Ended \/ UNCHANGED vars
    <2>1. UNCHANGED <<pages, store, pc, page>>
      BY <1>6 DEF MainNext, LoadFrontier, ClearFrontier, MonitorMaxPages, MonitorEmpty,
                  MonitorCrawled, MonitorStops, ExportPending, SaveFrontier,
                  ShutdownFrontier, JoinWorkers, Signal, Ended, vars
    <2> QED
      BY <2>1
  <1> QED
    BY <1>4, <1>5, <1>6 DEF Next

\* A page recorded with status 200 has its content in the content store, in
\* every state, and so also whenever the process crashes.
THEOREM RecordedIsStored == Spec => []StoredBeforeRecorded
  <1>1. Init => StoredBeforeRecorded /\ PageStored
    BY DEF Init, Started, StoredBeforeRecorded, PageStored, NoRow
  <1> QED
    BY InitTyped, NextTyped, <1>1, StoredPreserved, PTL DEF Spec

-----------------------------------------------------------------------------
(* The limit of pages of a domain.                                         *)

\* The workers that have found room for a page of d and not yet counted it.
PastLimit(d) == {w \in Worker : /\ pc[w] \in {"robots", "fetch", "store", "record", "count"}
                                /\ DomainOf[url[w]] = d}

\* They are counted with the pages: DomainOverrunBounded says nothing of them,
\* and is not inductive.
RoomForPast == \A d \in Domain :
  count[d] + Cardinality(PastLimit(d)) <= MaxPerDomain + Cardinality(Worker) - 1

\* The workers past the check of a domain are finitely many.
LEMMA PastLimitFinite ==
  \A d : /\ IsFiniteSet(PastLimit(d)) /\ Cardinality(PastLimit(d)) \in Nat
         /\ Cardinality(PastLimit(d)) <= Cardinality(Worker)
         /\ Cardinality(Worker) \in Nat
  BY CrawlerAssumption, FS_Subset, FS_CardinalityType DEF PastLimit

\* A step that lets nobody past the check, and counts nothing.
LEMMA NobodyPast ==
  ASSUME Typed, RoomForPast, NEW d \in Domain,
         count'[d] = count[d], PastLimit(d)' \subseteq PastLimit(d)
  PROVE  count'[d] + Cardinality(PastLimit(d)') <= MaxPerDomain + Cardinality(Worker) - 1
  <1>1. /\ Cardinality(PastLimit(d)') \in Nat
        /\ Cardinality(PastLimit(d)') <= Cardinality(PastLimit(d))
    BY PastLimitFinite, FS_Subset, FS_CardinalityType
  <1> QED
    BY <1>1, PastLimitFinite, CrawlerAssumption DEF RoomForPast, Typed, TypeOK

\* A worker that finds room for a page leaves at most the others past the check.
LEMMA CheckKeepsRoom ==
  ASSUME Typed, RoomForPast, NEW w \in Worker, CheckDomainLimit(w)
  PROVE  RoomForPast'
  <1> SUFFICES ASSUME NEW d \in Domain
               PROVE  count'[d] + Cardinality(PastLimit(d)')
                        <= MaxPerDomain + Cardinality(Worker) - 1
    BY DEF RoomForPast
  <1>1. count' = count /\ url' = url
    BY DEF CheckDomainLimit, shared
  <1>2. CASE d = DomainOf[url[w]] /\ count[d] < MaxPerDomain
    <2>1. PastLimit(d)' \subseteq Worker
      BY DEF PastLimit
    <2>2. /\ Cardinality(PastLimit(d)') \in Nat
          /\ Cardinality(PastLimit(d)') <= Cardinality(Worker)
      BY <2>1, CrawlerAssumption, FS_Subset, FS_CardinalityType
    <2> QED
      BY <1>1, <1>2, <2>2, PastLimitFinite, CrawlerAssumption DEF Typed, TypeOK
  <1>3. CASE ~(d = DomainOf[url[w]] /\ count[d] < MaxPerDomain)
    <2>1. PastLimit(d)' \subseteq PastLimit(d)
      BY <1>1, <1>3 DEF PastLimit, CheckDomainLimit, Filtered, Goto, Typed, TypeOK
    <2> QED
      BY <1>1, <2>1, NobodyPast
  <1> QED
    BY <1>2, <1>3

\* A worker that counts its page is no longer past the check.
LEMMA CountKeepsRoom ==
  ASSUME Typed, RoomForPast, NEW w \in Worker, RecordCrawl(w)
  PROVE  RoomForPast'
  <1> SUFFICES ASSUME NEW d \in Domain
               PROVE  count'[d] + Cardinality(PastLimit(d)')
                        <= MaxPerDomain + Cardinality(Worker) - 1
    BY DEF RoomForPast
  <1>1. PastLimit(d)' = PastLimit(d) \ {w}
    BY DEF PastLimit, RecordCrawl, Goto, Typed, TypeOK
  <1>2. CASE d = DomainOf[url[w]]
    <2>1. count'[d] = count[d] + 1
      BY <1>2 DEF RecordCrawl, Typed, TypeOK
    <2>2. w \in PastLimit(d)
      BY <1>2 DEF PastLimit, RecordCrawl
    <2>3. Cardinality(PastLimit(d)') = Cardinality(PastLimit(d)) - 1
      BY <1>1, <2>2, PastLimitFinite, FS_RemoveElement
    <2> QED
      BY <2>1, <2>3, PastLimitFinite, CrawlerAssumption DEF RoomForPast, Typed, TypeOK
  <1>3. CASE d # DomainOf[url[w]]
    <2>1. count'[d] = count[d]
      BY <1>3 DEF RecordCrawl, Typed, TypeOK
    <2> QED
      BY <1>1, <2>1, NobodyPast
  <1> QED
    BY <1>2, <1>3

\* Nothing counted and nobody past the check leaves room, now and in the next
\* state.
LEMMA RoomAtStart ==
  /\ (\A d \in Domain : count[d] = 0 /\ PastLimit(d) = {}) => RoomForPast
  /\ (\A d \in Domain : count'[d] = 0 /\ PastLimit(d)' = {}) => RoomForPast'
  <1>1. 0 + Cardinality({}) <= MaxPerDomain + Cardinality(Worker) - 1
    <2>1. Cardinality(Worker) \in Nat /\ Cardinality({}) = 0
      BY CrawlerAssumption, FS_CardinalityType, FS_EmptySet
    <2> QED
      BY <2>1, CrawlerAssumption
  <1> QED
    BY <1>1, Zenon DEF RoomForPast

\* Every step leaves room for the workers past the check.
LEMMA RoomPreserved == Typed /\ RoomForPast /\ [Next]_vars => RoomForPast'
  <1> SUFFICES ASSUME Typed, RoomForPast, [Next]_vars PROVE RoomForPast'
    OBVIOUS
  <1> USE DEF Typed, TypeOK, Goto, Failed, Filtered, shared, worker
  <1>1. ASSUME NEW w \in Worker, WorkerNext(w), ~CheckDomainLimit(w), ~RecordCrawl(w)
        PROVE  count' = count /\ \A d \in Domain : PastLimit(d)' \subseteq PastLimit(d)
    <2>1. CASE Loop(w) \/ PopTake(w) \/ PopNull(w) \/ Filter(w) \/ CheckRobots(w)
      BY <2>1 DEF Loop, PopTake, PopNull, Filter, CheckRobots, PastLimit
    <2>2. CASE Fetch(w) \/ RecordFailure(w) \/ StoreContent(w) \/ RecordPage(w)
      BY <2>2 DEF Fetch, RecordFailure, StoreContent, RecordPage, PastLimit
    <2>3. CASE AddDuplicate(w) \/ AddSeen(w) \/ AddPush(w) \/ PageDone(w)
      BY <2>3 DEF AddDuplicate, AddSeen, AddPush, PageDone, PastLimit
    <2> QED
      BY <1>1, <2>1, <2>2, <2>3 DEF WorkerNext
  <1>2. ASSUME NEW w \in Worker, WorkerNext(w) PROVE RoomForPast'
    <2>1. CASE CheckDomainLimit(w) \/ RecordCrawl(w)
      BY <2>1, CheckKeepsRoom, CountKeepsRoom
    <2>2. CASE ~CheckDomainLimit(w) /\ ~RecordCrawl(w)
      BY <1>1, <1>2, <2>2, NobodyPast DEF RoomForPast
    <2> QED
      BY <2>1, <2>2
  <1>3. CASE Restart
    <2>1. \A d \in Domain : count'[d] = 0 /\ PastLimit(d)' = {}
      BY <1>3 DEF Restart, PastLimit
    <2> QED
      BY <2>1, RoomAtStart
  <1>4. CASE MainNext \/ Signal \/ Ended \/ UNCHANGED vars
    <2>1. count' = count /\ \A d \in Domain : PastLimit(d)' \subseteq PastLimit(d)
      BY <1>4 DEF MainNext, LoadFrontier, ClearFrontier, AddSeeds, MonitorMaxPages,
                  MonitorEmpty, MonitorCrawled, MonitorStops, ExportPending, SaveFrontier,
                  ShutdownFrontier, JoinWorkers, Signal, Ended, vars, PastLimit
    <2> QED
      BY <2>1, NobodyPast DEF RoomForPast
  <1> QED
    BY <1>2, <1>3, <1>4 DEF Next

\* The pages counted for a domain exceed the limit by less than the number of
\* workers.
THEOREM OverrunBounded == Spec => []DomainOverrunBounded
  <1>1. Init => RoomForPast
    <2>1. Init => \A d \in Domain : count[d] = 0 /\ PastLimit(d) = {}
      BY DEF Init, Started, PastLimit
    <2> QED
      BY <2>1, RoomAtStart
  <1>2. Typed /\ RoomForPast => DomainOverrunBounded
    BY PastLimitFinite, CrawlerAssumption
       DEF RoomForPast, DomainOverrunBounded, Typed, TypeOK
  <1> QED
    BY InitTyped, NextTyped, <1>1, <1>2, RoomPreserved, PTL DEF Spec

-----------------------------------------------------------------------------
(* No URL is forgotten.                                                    *)

\* Before the workers start nothing has been taken from the queue, and before
\* the saved frontier is loaded nothing has been added to it.
Preparing ==
  /\ mainPc \in {"load", "clear", "seeds"} =>
       /\ \A w \in Worker : pc[w] = "off"
       /\ crawled = {} /\ failed = {} /\ filtered = {}
  /\ mainPc = "load" => seen = {} /\ queue = {}

Accounted == EveryUrlAccounted /\ Preparing

\* Only AddSeeds starts the workers, and only Restart goes back to "load".
LEMMA PreparingPreserved == Typed /\ Preparing /\ [Next]_vars => Preparing'
  <1> SUFFICES ASSUME Typed, Preparing, [Next]_vars PROVE Preparing'
    OBVIOUS
  <1> USE DEF Preparing, worker, stats, main, frontier
  <1>1. ASSUME NEW w \in Worker, WorkerNext(w) PROVE Preparing'
    <2>1. pc[w] # "off" /\ UNCHANGED mainPc
      BY <1>1 DEF WorkerNext, Loop, PopTake, PopNull, Filter, CheckDomainLimit, CheckRobots,
                  Fetch, RecordFailure, StoreContent, RecordPage, RecordCrawl, AddDuplicate,
                  AddSeen, AddPush, PageDone
    <2> QED
      BY <2>1
  <1>2. CASE LoadFrontier \/ ClearFrontier
    BY <1>2 DEF LoadFrontier, ClearFrontier, MainGoto
  <1>3. CASE AddSeeds \/ Restart
    BY <1>3 DEF AddSeeds, Restart, MainGoto
  <1>4. CASE MonitorMaxPages \/ MonitorEmpty \/ MonitorCrawled \/ MonitorStops
    BY <1>4 DEF MonitorMaxPages, MonitorEmpty, MonitorCrawled, MonitorStops, MainGoto
  <1>5. CASE ExportPending \/ SaveFrontier \/ ShutdownFrontier \/ JoinWorkers
    BY <1>5 DEF ExportPending, SaveFrontier, ShutdownFrontier, JoinWorkers, MainGoto
  <1>6. CASE Signal \/ Ended \/ UNCHANGED vars
    BY <1>6 DEF Signal, Ended, vars
  <1> QED
    BY <1>1, <1>2, <1>3, <1>4, <1>5, <1>6 DEF Next, MainNext

\* The steps that leave every URL where it is.
Unmoved ==
  /\ UNCHANGED <<seen, queue, crawled, failed, filtered>>
  /\ \A v \in Worker : /\ pc'[v] \in Busy <=> pc[v] \in Busy
                       /\ pc[v] \in Busy => url'[v] = url[v]
                       /\ pc'[v] = "push" <=> pc[v] = "push"
                       /\ pc[v] = "push" => link'[v] = link[v]

\* A step that leaves every URL where it is preserves the accounting.
LEMMA UnmovedAccounted ==
  ASSUME EveryUrlAccounted, Unmoved
  PROVE  EveryUrlAccounted'
  <1>1. InHand' = InHand
    BY DEF Unmoved, InHand
  <1>2. Arriving' = Arriving
    BY DEF Unmoved, Arriving
  <1> QED
    BY <1>1, <1>2 DEF Unmoved, EveryUrlAccounted, Disjoint

\* The steps in which a worker counts its URL, in one of the statistics.
Counted(w) ==
  /\ pc[w] \in Busy \ {"push"} /\ pc'[w] \notin Busy
  /\ UNCHANGED <<seen, queue, url, link>>
  /\ \A v \in Worker \ {w} : pc'[v] = pc[v]
  /\ \/ crawled' = crawled \cup {url[w]} /\ UNCHANGED <<failed, filtered>>
     \/ failed' = failed \cup {url[w]} /\ UNCHANGED <<crawled, filtered>>
     \/ filtered' = filtered \cup {url[w]} /\ UNCHANGED <<crawled, failed>>

\* A counted URL is no longer in hand, and in one statistic instead.
LEMMA CountedAccounted ==
  ASSUME EveryUrlAccounted, NEW w \in Worker, Counted(w)
  PROVE  EveryUrlAccounted'
  <1>1. InHand = InHand' \cup {url[w]} /\ url[w] \notin InHand'
    <2>1. \A v \in Worker : pc[v] \in Busy <=> (v = w \/ pc'[v] \in Busy)
      BY DEF Counted
    <2>2. \A v \in Worker : pc'[v] \in Busy => v # w /\ url[v] # url[w]
      BY DEF Counted, EveryUrlAccounted
    <2> QED
      BY <2>1, <2>2 DEF InHand, Counted
  <1>2. Arriving' = Arriving
    BY DEF Counted, Arriving, Busy
  <1>3. \A v \in Worker : /\ pc'[v] \in Busy => pc[v] \in Busy
                          /\ pc'[v] = "push" => pc[v] = "push"
    BY DEF Counted, Busy
  <1>4. url[w] \notin queue \cup Arriving \cup crawled \cup failed \cup filtered
    BY <1>1 DEF EveryUrlAccounted, Disjoint
  <1> DEFINE counted == crawled \cup failed \cup filtered
  <1>5. counted' = counted \cup {url[w]}
    BY DEF Counted
  <1>6. Disjoint(crawled, failed)' /\ Disjoint(crawled \cup failed, filtered)'
    BY <1>4 DEF Counted, EveryUrlAccounted, Disjoint
  <1>7. \A u, v \in Worker : u # v =>
          /\ pc'[u] \in Busy /\ pc'[v] \in Busy => url'[u] # url'[v]
          /\ pc'[u] = "push" /\ pc'[v] = "push" => link'[u] # link'[v]
    BY <1>3 DEF Counted, EveryUrlAccounted
  <1>8. /\ seen' = seen /\ queue' = queue
        /\ seen = queue \cup Arriving \cup InHand \cup counted
        /\ Disjoint(queue, Arriving) /\ Disjoint(queue \cup Arriving, InHand)
        /\ Disjoint(queue \cup Arriving \cup InHand, counted)
    BY DEF Counted, EveryUrlAccounted
  <1> HIDE DEF counted
  <1>9. /\ seen' = queue' \cup Arriving' \cup InHand' \cup counted'
        /\ Disjoint(queue', Arriving') /\ Disjoint(queue' \cup Arriving', InHand')
        /\ Disjoint(queue' \cup Arriving' \cup InHand', counted')
    BY <1>1, <1>2, <1>4, <1>5, <1>8 DEF Disjoint
  <1> QED
    BY <1>6, <1>7, <1>9 DEF EveryUrlAccounted, counted

\* A worker takes a URL from the queue.
LEMMA PopTakeAccounted ==
  ASSUME Typed, EveryUrlAccounted, NEW w \in Worker, PopTake(w)
  PROVE  EveryUrlAccounted'
  <1>1. PICK u \in queue : queue' = queue \ {u} /\ url' = [url EXCEPT ![w] = u]
    BY DEF PopTake
  <1>2. UNCHANGED <<seen, crawled, failed, filtered, link>>
    BY DEF PopTake, stats
  <1>3. /\ pc[w] = "pop" /\ pc'[w] = "filter"
        /\ \A v \in Worker \ {w} : pc'[v] = pc[v] /\ url'[v] = url[v]
        /\ url'[w] = u
    BY <1>1 DEF PopTake, Goto, Typed, TypeOK
  <1>4. InHand' = InHand \cup {u}
    <2>1. \A v \in Worker : pc'[v] \in Busy <=> (v = w \/ pc[v] \in Busy)
      BY <1>3 DEF Busy
    <2>2. pc[w] \notin Busy
      BY <1>3 DEF Busy
    <2> QED
      BY <1>3, <2>1, <2>2 DEF InHand
  <1>5. Arriving' = Arriving
    BY <1>2, <1>3 DEF Arriving
  <1>6. u \notin Arriving \cup InHand \cup crawled \cup failed \cup filtered
    BY <1>1 DEF EveryUrlAccounted, Disjoint
  <1>7. \A v \in Worker : pc[v] \in Busy => url[v] # u
    BY <1>6 DEF InHand
  <1>8. \A v, x \in Worker : v # x =>
          /\ pc'[v] \in Busy /\ pc'[x] \in Busy => url'[v] # url'[x]
          /\ pc'[v] = "push" /\ pc'[x] = "push" => link'[v] # link'[x]
    BY <1>2, <1>3, <1>7 DEF EveryUrlAccounted, Busy
  <1> QED
    BY <1>1, <1>2, <1>4, <1>5, <1>6, <1>8 DEF EveryUrlAccounted, Disjoint

\* add() marks a new URL as seen ...
LEMMA AddSeenAccounted ==
  ASSUME Typed, EveryUrlAccounted, NEW w \in Worker, AddSeen(w)
  PROVE  EveryUrlAccounted'
  <1>1. PICK u \in Url \ seen : seen' = seen \cup {u} /\ link' = [link EXCEPT ![w] = u]
    BY DEF AddSeen, Typed, TypeOK
  <1>2. UNCHANGED <<queue, crawled, failed, filtered, url>>
    BY DEF AddSeen, stats
  <1>3. /\ pc[w] = "links" /\ pc'[w] = "push"
        /\ \A v \in Worker \ {w} : pc'[v] = pc[v] /\ link'[v] = link[v]
        /\ link'[w] = u
    BY <1>1 DEF AddSeen, Goto, Typed, TypeOK
  <1>4. InHand' = InHand
    BY <1>2, <1>3 DEF InHand, Busy
  <1>5. Arriving' = Arriving \cup {u}
    <2>1. \A v \in Worker : pc'[v] = "push" <=> (v = w \/ pc[v] = "push")
      BY <1>3
    <2> QED
      BY <1>3, <2>1 DEF Arriving
  <1>6. u \notin queue \cup Arriving \cup InHand \cup crawled \cup failed \cup filtered
    BY <1>1 DEF EveryUrlAccounted
  <1>7. \A v \in Worker : pc[v] = "push" => link[v] # u
    BY <1>6 DEF Arriving
  <1>8. \A v, x \in Worker : v # x =>
          /\ pc'[v] \in Busy /\ pc'[x] \in Busy => url'[v] # url'[x]
          /\ pc'[v] = "push" /\ pc'[x] = "push" => link'[v] # link'[x]
    BY <1>2, <1>3, <1>7 DEF EveryUrlAccounted, Busy
  <1> QED
    BY <1>1, <1>2, <1>4, <1>5, <1>6, <1>8 DEF EveryUrlAccounted, Disjoint

\* ... and queues it.
LEMMA AddPushAccounted ==
  ASSUME Typed, EveryUrlAccounted, NEW w \in Worker, AddPush(w)
  PROVE  EveryUrlAccounted'
  <1>1. /\ queue' = queue \cup {link[w]}
        /\ UNCHANGED <<seen, crawled, failed, filtered, url>>
        /\ pc[w] = "push" /\ pc'[w] = "links"
        /\ \A v \in Worker \ {w} : pc'[v] = pc[v] /\ link'[v] = link[v]
    BY DEF AddPush, Goto, stats, Typed, TypeOK
  <1>2. InHand' = InHand
    BY <1>1 DEF InHand, Busy
  <1>3. Arriving = Arriving' \cup {link[w]} /\ link[w] \notin Arriving'
    <2>1. \A v \in Worker : pc[v] = "push" <=> (v = w \/ pc'[v] = "push")
      BY <1>1
    <2>2. \A v \in Worker : pc'[v] = "push" => link'[v] = link[v] /\ link[v] # link[w]
      BY <1>1 DEF EveryUrlAccounted
    <2>3. pc'[w] # "push"
      BY <1>1
    <2> QED
      BY <1>1, <2>1, <2>2, <2>3 DEF Arriving
  <1>4. \A v, x \in Worker : v # x =>
          /\ pc'[v] \in Busy /\ pc'[x] \in Busy => url'[v] # url'[x]
          /\ pc'[v] = "push" /\ pc'[x] = "push" => link'[v] # link'[x]
    BY <1>1 DEF EveryUrlAccounted, Busy
  <1> QED
    BY <1>1, <1>2, <1>3, <1>4 DEF EveryUrlAccounted, Disjoint

\* While no worker is busy and nothing is counted, what is seen is queued.
LEMMA IdleAccounted ==
  (\A w \in Worker : pc[w] \notin Busy) /\ crawled = {} /\ failed = {} /\ filtered = {}
    => (EveryUrlAccounted <=> seen = queue)
  BY DEF EveryUrlAccounted, InHand, Arriving, Busy, Disjoint

\* The same of the next state.
LEMMA IdleAccountedNext ==
  (\A w \in Worker : pc'[w] \notin Busy) /\ crawled' = {} /\ failed' = {} /\ filtered' = {}
    => (EveryUrlAccounted' <=> seen' = queue')
  BY DEF EveryUrlAccounted, InHand, Arriving, Busy, Disjoint

\* What main() does to the frontier before the workers start, and a restart.
LEMMA PreparingAccounted ==
  ASSUME Accounted, LoadFrontier \/ AddSeeds \/ Restart
  PROVE  EveryUrlAccounted'
  <1>1. CASE Restart
    <2>1. /\ \A w \in Worker : pc'[w] \notin Busy
          /\ crawled' = {} /\ failed' = {} /\ filtered' = {} /\ seen' = queue'
      BY <1>1 DEF Restart, Busy
    <2> QED
      BY <2>1, IdleAccountedNext
  <1>2. CASE LoadFrontier \/ AddSeeds
    <2>1. /\ \A w \in Worker : pc[w] \notin Busy
          /\ crawled = {} /\ failed = {} /\ filtered = {}
      BY <1>2 DEF LoadFrontier, AddSeeds, Accounted, Preparing, Busy
    <2>2. seen = queue
      BY <2>1, IdleAccounted DEF Accounted
    <2>3. /\ \A w \in Worker : pc'[w] \notin Busy
          /\ crawled' = {} /\ failed' = {} /\ filtered' = {} /\ seen' = queue'
      BY <1>2, <2>1, <2>2 DEF LoadFrontier, AddSeeds, Busy, worker, stats
    <2> QED
      BY <2>3, IdleAccountedNext
  <1> QED
    BY <1>1, <1>2

\* Every step of a worker keeps account of its URL.
LEMMA WorkerAccounted ==
  ASSUME Typed, EveryUrlAccounted, NEW w \in Worker, WorkerNext(w)
  PROVE  EveryUrlAccounted'
  <1> USE DEF Typed, TypeOK, Goto, Busy, Unmoved, Counted, Filtered, Failed, stats, frontier
  <1>1. CASE Loop(w) \/ PopNull(w)
    BY <1>1, UnmovedAccounted DEF Loop, PopNull
  <1>2. CASE PopTake(w)
    BY <1>2, PopTakeAccounted
  <1>3. CASE Filter(w) \/ CheckDomainLimit(w) \/ CheckRobots(w)
    <2>1. Unmoved \/ Counted(w)
      BY <1>3 DEF Filter, CheckDomainLimit, CheckRobots
    <2> QED
      BY <2>1, UnmovedAccounted, CountedAccounted
  <1>4. CASE Fetch(w) \/ StoreContent(w) \/ RecordPage(w)
    <2>1. Unmoved \/ Counted(w)
      BY <1>4 DEF Fetch, StoreContent, RecordPage
    <2> QED
      BY <2>1, UnmovedAccounted, CountedAccounted
  <1>5. CASE RecordFailure(w) \/ RecordCrawl(w) \/ AddDuplicate(w)
    BY <1>5, UnmovedAccounted DEF RecordFailure, RecordCrawl, AddDuplicate
  <1>6. CASE AddSeen(w) \/ AddPush(w)
    BY <1>6, AddSeenAccounted, AddPushAccounted
  <1>7. CASE PageDone(w)
    BY <1>7, CountedAccounted DEF PageDone
  <1> QED
    BY <1>1, <1>2, <1>3, <1>4, <1>5, <1>6, <1>7 DEF WorkerNext

\* Every step keeps account of every URL.
LEMMA AccountedPreserved == Typed /\ Accounted /\ [Next]_vars => Accounted'
  <1> SUFFICES ASSUME Typed, Accounted, [Next]_vars PROVE EveryUrlAccounted'
    BY PreparingPreserved DEF Accounted
  <1>1. ASSUME NEW w \in Worker, WorkerNext(w) PROVE EveryUrlAccounted'
    BY <1>1, WorkerAccounted DEF Accounted
  <1>2. CASE LoadFrontier \/ AddSeeds \/ Restart
    BY <1>2, PreparingAccounted
  <1>3. CASE (MainNext /\ ~LoadFrontier /\ ~AddSeeds) \/ Signal \/ Ended \/ UNCHANGED vars
    <2>1. UNCHANGED <<seen, queue, stats, worker>>
      BY <1>3 DEF MainNext, ClearFrontier, MonitorMaxPages, MonitorEmpty, MonitorCrawled,
                  MonitorStops, ExportPending, SaveFrontier, ShutdownFrontier, JoinWorkers,
                  Signal, Ended, vars, frontier
    <2> QED
      BY <2>1, UnmovedAccounted DEF Unmoved, Accounted, stats, worker
  <1> QED
    BY <1>1, <1>2, <1>3 DEF Next

\* Initially there is no URL.
LEMMA InitAccounted == Init => Accounted
  <1> SUFFICES ASSUME Init PROVE Accounted
    OBVIOUS
  <1>1. Preparing
    BY DEF Init, Started, Preparing
  <1>2. EveryUrlAccounted
    BY IdleAccounted DEF Init, Started, Busy
  <1> QED
    BY <1>1, <1>2 DEF Accounted

\* In every run each URL the crawl has seen is in exactly one place, whatever
\* calls fail: no error path of the worker forgets it or counts it twice.
THEOREM AllAccounted == Spec => []EveryUrlAccounted
  <1>1. Accounted => EveryUrlAccounted
    BY DEF Accounted
  <1> QED
    BY InitTyped, NextTyped, InitAccounted, <1>1, AccountedPreserved, PTL DEF Spec

-----------------------------------------------------------------------------
(* The saved frontier.                                                     *)

\* A crawl has seen what it has loaded and what it is about to save; unless a call
\* has failed, what it has loaded is all that the table holds until it saves.
SavedSeen ==
  /\ loaded \subseteq seen
  /\ pending \subseteq seen
  /\ faults = 0 /\ mainPc \in {"clear", "seeds", "running", "empty", "export", "save"}
       => saved \subseteq loaded

\* Every step keeps the loaded and the exported URLs seen, and drops none from
\* the table that are not.
LEMMA SavedStep ==
  Typed /\ Accounted /\ SavedSeen /\ [Next]_vars => SavedSeen' /\ DroppedAreSeen
  <1> SUFFICES ASSUME Typed, Accounted, SavedSeen, [Next]_vars
               PROVE  SavedSeen' /\ DroppedAreSeen
    OBVIOUS
  <1> USE DEF SavedSeen, DroppedAreSeen, MainGoto, Fault, durable, frontier, main, bounds
  <1>0. faults \in Nat
    BY DEF Typed, TypeOK
  <1>1. queue \subseteq seen
    BY DEF Accounted, EveryUrlAccounted
  <1>2. ASSUME NEW w \in Worker, WorkerNext(w)
        PROVE  UNCHANGED <<saved, main>> /\ seen \subseteq seen' /\ (faults' = 0 => faults = 0)
    BY <1>0, <1>2 DEF WorkerNext, Loop, PopTake, PopNull, Filter, CheckDomainLimit, CheckRobots,
                Fetch, RecordFailure, StoreContent, RecordPage, RecordCrawl, AddDuplicate,
                AddSeen, AddPush, PageDone
  <1>3. CASE LoadFrontier
    <2>1. seen = {} /\ pending = {}
      BY <1>3 DEF LoadFrontier, Accounted, Preparing
    <2> QED
      BY <1>0, <1>3, <2>1 DEF LoadFrontier
  <1>4. CASE ClearFrontier
    BY <1>0, <1>4 DEF ClearFrontier
  <1>5. CASE AddSeeds
    BY <1>5 DEF AddSeeds
  <1>6. CASE MonitorMaxPages \/ MonitorEmpty \/ MonitorCrawled \/ MonitorStops
    BY <1>6 DEF MonitorMaxPages, MonitorEmpty, MonitorCrawled, MonitorStops
  <1>7. CASE ExportPending
    BY <1>1, <1>7 DEF ExportPending
  <1>8. CASE SaveFrontier
    BY <1>0, <1>8 DEF SaveFrontier
  <1>9. CASE ShutdownFrontier \/ JoinWorkers
    BY <1>9 DEF ShutdownFrontier, JoinWorkers
  <1>10. CASE Restart
    BY <1>10 DEF Restart
  <1>11. CASE Signal \/ Ended \/ UNCHANGED vars
    BY <1>11 DEF Signal, Ended, vars
  <1> QED
    BY <1>2, <1>3, <1>4, <1>5, <1>6, <1>7, <1>8, <1>9, <1>10, <1>11 DEF Next, MainNext

\* A saved URL leaves the table only for the frontier of a running crawl, or in a
\* crawl whose load has failed before it read it.
THEOREM SavedIsReloaded == Spec => SavedUrlReloaded
  <1>1. Init => Accounted /\ SavedSeen
    BY InitAccounted DEF Init, Started, SavedSeen
  <1>2. Typed /\ Accounted /\ SavedSeen /\ [Next]_vars
          => (Typed /\ Accounted /\ SavedSeen)'
    BY NextTyped, AccountedPreserved, SavedStep
  <1>3. Typed /\ Accounted /\ SavedSeen /\ [Next]_vars => [DroppedAreSeen]_vars
    BY SavedStep
  <1> QED
    BY InitTyped, <1>1, <1>2, <1>3, PTL DEF Spec, SavedUrlReloaded
=============================================================================
