------------------------------- MODULE Indexer -------------------------------
(***************************************************************************)
(* The indexer process (main_indexer.cpp), composed with the IndexBuilder  *)
(* it calls and with the pages table that the crawler, another process,    *)
(* writes to meanwhile.  main() fetches a batch of unindexed pages, indexes*)
(* and marks them one by one, and flushes at the end of the batch.         *)
(*                                                                         *)
(* A page is the document of the index with its id, and its content is     *)
(* known by the text that index_document makes of it.                      *)
(***************************************************************************)
EXTENDS Naturals, FiniteSets

CONSTANTS
  Doc, Term, Field, Text, NoText, NoDoc, BatchSize, MaxCalls, MaxFaults, MaxCrashes,
  TestPage,      \* the pages whose URL says that they are a test
  Unreadable,    \* the pages whose content can never be read
  BatchLimit,    \* --batch-size of the indexer
  PageLimits,    \* the values of --max-pages, 0 for no limit
  MaxCrawls      \* bound: how often the crawler writes a row

ASSUME IndexerAssumption ==
  /\ IsFiniteSet(Doc) /\ IsFiniteSet(Term) /\ IsFiniteSet(Field)
  /\ Text \subseteq [Term \X Field -> Nat]
  /\ NoText \notin Text /\ NoDoc \notin Doc
  /\ BatchSize \in Nat \ {0}
  /\ MaxCalls \in Nat /\ MaxFaults \in Nat /\ MaxCrashes \in Nat
  /\ TestPage \subseteq Doc /\ Unreadable \subseteq Doc
  /\ BatchLimit \in Nat \ {0} /\ PageLimits \subseteq Nat /\ MaxCrawls \in Nat

VARIABLES
  \* of the index builder
  postings, df, docs, docTerms, metaDocCount, metaTermCount, pendingPostings,
  pendingMeta, pendingText, pendingCount, docCount, termCount, pc, doc, text, mixed,
  lost, unsaved, calls, faults, crashes,
  \* the pages table: status_code, the content and indexed, by id
  rows,
  \* of main()
  step,        \* where it is
  batch,       \* the pages of the batch still to do, with the content they had
  page,        \* the page it is working on
  maxPages,    \* its limit of pages
  processed,   \* total_processed
  stop,        \* g_shutdown_requested
  \* history and bounds
  passedOver,  \* the pages marked without being indexed
  crawls

Builder == INSTANCE IndexBuilder

\* Only the bound of failing calls is shared with the index builder.
builderButFaults ==
  <<postings, df, docs, docTerms, metaDocCount, metaTermCount, pendingPostings,
    pendingMeta, pendingText, pendingCount, docCount, termCount, pc, doc, text, mixed,
    lost, unsaved, calls, crashes>>
builder == <<builderButFaults, faults>>
main == <<step, batch, page, maxPages, processed>>
vars == <<builder, rows, main, stop, passedOver, crawls>>

MainStep == {"fetch", "page", "mark", "flush", "final", "destroy", "stopped"}

Row == [status : {"none", "0", "200"}, content : Text \cup {NoText}, indexed : BOOLEAN]
NoRow == [status |-> "none", content |-> NoText, indexed |-> FALSE]

\* Mutant: the SELECT does not look at status_code.
WaitingAnyStatus == {d \in Doc : rows[d].status # "none" /\ ~rows[d].indexed}

\* What the SELECT of get_unindexed_pages finds.
Waiting == {d \in Doc : rows[d].status = "200" /\ ~rows[d].indexed}

Done == maxPages > 0 /\ processed >= maxPages

Smaller(m, n) == IF m < n THEN m ELSE n

\* The pages one round asks for.
Limit == IF maxPages > 0 THEN Smaller(BatchLimit, maxPages - processed) ELSE BatchLimit

\* No call of the index builder is running: its calls are synchronous.
Returned == pc = "idle"

Fault == faults < MaxFaults /\ faults' = faults + 1

-----------------------------------------------------------------------------
Init ==
  /\ Builder!Init
  /\ rows = [d \in Doc |-> NoRow]
  /\ step = "fetch" /\ batch = {} /\ page = NoDoc
  /\ maxPages \in PageLimits /\ processed = 0
  /\ stop = FALSE
  /\ passedOver = {} /\ crawls = 0

\* The crawler's mark_crawled: an upsert that leaves indexed alone when the row
\* is there.  Status 200 is written with a content that is already stored.
Crawl(d) ==
  /\ crawls < MaxCrawls
  /\ crawls' = crawls + 1
  /\ \E x \in Text \cup {NoText} :
       rows' = [rows EXCEPT ![d] = [status |-> IF x = NoText THEN "0" ELSE "200",
                                    content |-> x, indexed |-> @.indexed]]
  /\ UNCHANGED <<builder, main, stop, passedOver>>

\* SIGINT or SIGTERM.
Signal ==
  /\ step # "stopped" /\ ~stop
  /\ stop' = TRUE
  /\ UNCHANGED <<builder, rows, main, passedOver, crawls>>

\* The head of the loop; without pages, or when the query fails, main() sleeps
\* and starts over.  The pages are the oldest ones; any are taken here.
FetchBatch ==
  /\ step = "fetch" /\ Returned
  /\ ~stop /\ ~Done
  /\ \/ /\ Waiting # {}
        /\ \E S \in SUBSET Waiting :
             /\ Cardinality(S) = Smaller(Limit, Cardinality(Waiting))
             /\ batch' = {<<d, rows[d].content>> : d \in S}
        /\ step' = "page"
        /\ UNCHANGED faults
     \/ Fault /\ UNCHANGED <<step, batch>>
  /\ UNCHANGED <<builderButFaults, rows, page, maxPages, processed, stop, passedOver, crawls>>

LeaveLoop ==
  /\ step = "fetch" /\ Returned
  /\ stop \/ Done
  /\ step' = "final"
  /\ UNCHANGED <<builder, rows, batch, page, maxPages, processed, stop, passedOver, crawls>>

\* A test page, or one whose content cannot be read, is marked all the same.
PassOver ==
  /\ step = "page" /\ Returned /\ ~stop
  /\ \E p \in batch :
       /\ \/ p[1] \in TestPage \cup Unreadable /\ UNCHANGED faults
          \/ p[1] \notin TestPage /\ Fault
       /\ batch' = batch \ {p}
       /\ page' = p[1]
       /\ passedOver' = passedOver \cup {p[1]}
  /\ step' = "mark"
  /\ UNCHANGED <<builderButFaults, rows, maxPages, processed, stop, crawls>>

\* index_document of the content that the row had when the batch was fetched.
IndexDocument ==
  /\ step = "page" /\ ~stop
  /\ \E p \in batch :
       /\ p[1] \notin TestPage \cup Unreadable
       /\ Builder!IndexParsed(p[1], p[2])
       /\ batch' = batch \ {p}
       /\ page' = p[1]
  /\ step' = "mark"
  /\ UNCHANGED <<rows, maxPages, processed, stop, passedOver, crawls>>

\* What index_document still does before it returns.
BuilderStep ==
  /\ \/ Builder!RemoveReplaced \/ Builder!AddPending
     \/ pc = "flush" /\ Builder!FlushCommit
     \/ Builder!PutDocCount \/ Builder!PutTermCount
  /\ UNCHANGED <<rows, main, stop, passedOver, crawls>>

\* mark_page_indexed, one transaction.
MarkPageIndexed(d) ==
  \/ rows' = [rows EXCEPT ![d].indexed = TRUE] /\ UNCHANGED faults
  \/ Fault /\ UNCHANGED rows

\* Mutant: a page that has not been indexed is not marked.
MarkIndexedOnly ==
  /\ step = "mark" /\ Returned
  /\ rows' = IF page \in passedOver THEN rows ELSE [rows EXCEPT ![page].indexed = TRUE]
  /\ page' = NoDoc
  /\ processed' = IF maxPages > 0 THEN processed + 1 ELSE processed
  /\ step' = "page"
  /\ UNCHANGED <<builder, batch, maxPages, stop, passedOver, crawls>>

\* The page is marked whatever index_document has returned, and the next one is
\* taken whether or not that succeeds.
MarkPage ==
  /\ step = "mark" /\ Returned
  /\ MarkPageIndexed(page)
  /\ page' = NoDoc
  /\ processed' = IF maxPages > 0 THEN processed + 1 ELSE processed
  /\ step' = "page"
  /\ UNCHANGED <<builderButFaults, batch, maxPages, stop, passedOver, crawls>>

EndBatch ==
  /\ step = "page"
  /\ batch = {} \/ stop
  /\ batch' = {}
  /\ step' = "flush"
  /\ UNCHANGED <<builder, rows, page, maxPages, processed, stop, passedOver, crawls>>

\* flush(), which returns at once when nothing is pending; nobody looks at its
\* result.
FlushPending ==
  /\ Returned
  /\ \/ pendingCount = 0 /\ UNCHANGED builder
     \/ Builder!FlushCommit

\* Mutant: the batch ends without a flush.
FlushBatchSkipped ==
  /\ step = "flush" /\ Returned
  /\ step' = "fetch"
  /\ UNCHANGED <<builder, rows, batch, page, maxPages, processed, stop, passedOver, crawls>>

\* flush() at the end of a batch, after the loop, and in the destructor of the
\* index builder.
FlushBatch ==
  /\ step = "flush" /\ FlushPending
  /\ step' = "fetch"
  /\ UNCHANGED <<rows, batch, page, maxPages, processed, stop, passedOver, crawls>>

FinalFlush ==
  /\ step = "final" /\ FlushPending
  /\ step' = "destroy"
  /\ UNCHANGED <<rows, batch, page, maxPages, processed, stop, passedOver, crawls>>

Destroy ==
  /\ step = "destroy" /\ FlushPending
  /\ step' = "stopped"
  /\ UNCHANGED <<rows, batch, page, maxPages, processed, stop, passedOver, crawls>>

\* A new process: main() starts over.
Restarted ==
  /\ step' = "fetch" /\ batch' = {} /\ page' = NoDoc
  /\ maxPages' \in PageLimits /\ processed' = 0
  /\ stop' = FALSE
  /\ UNCHANGED <<rows, passedOver, crawls>>

Start == step = "stopped" /\ Builder!Reopen /\ Restarted

Crash == Builder!Crash /\ Restarted

Main ==
  \/ FetchBatch \/ LeaveLoop \/ PassOver \/ IndexDocument \/ MarkPage \/ EndBatch
  \/ FlushBatch \/ FinalFlush \/ Destroy
  \/ BuilderStep

Next ==
  \/ Main
  \/ \E d \in Doc : Crawl(d)
  \/ Signal \/ Start \/ Crash

\* The indexer is one running thread.  Nobody has to crawl, stop or start.
Spec == Init /\ [][Next]_vars /\ WF_vars(Main)

-----------------------------------------------------------------------------
(* Properties.                                                             *)

\* Every variable of the indexer has its type.
TypeOK ==
  /\ Builder!TypeOK
  /\ rows \in [Doc -> Row]
  /\ step \in MainStep
  /\ batch \in SUBSET (Doc \X Text)
  /\ page \in Doc \cup {NoDoc}
  /\ maxPages \in PageLimits /\ processed \in 0..maxPages
  /\ stop \in BOOLEAN
  /\ passedOver \in SUBSET Doc
  /\ crawls \in 0..MaxCrawls

\* A page that is marked as indexed and was readable is in the index, waits in
\* memory to be written, or is just being replaced.  Pages are marked before
\* their batch is flushed, and the results of flush and remove_document are not
\* looked at; only the death of the process may lose a marked page.
MarkedIsKept ==
  crashes = 0 =>
    \A d \in Doc : rows[d].indexed =>
      docs[d] # NoText \/ d \in Builder!PendingDocs \/ d = doc \/ d \in passedOver

\* No single failing call or crash makes the indexer merge two versions of a
\* page: the page that is indexed again after it has left memory is removed
\* first, and one that is still in memory is not indexed again.  (What one failing
\* read may do is lose postings: a flush replaces a list that it cannot read.)
OneFaultKeepsIndexExact == faults + crashes <= 1 => mixed = {}

\* Between two batches nothing waits in memory, unless a write has failed.
NothingWaitsIdle ==
  step = "fetch" /\ Returned /\ Builder!PendingDocs # {} => faults > 0

\* An unindexed page is marked in the end, unless main() leaves its loop or the
\* page is lost by a later crawl: no page is retried for ever ("IMPORTANT: Mark
\* as indexed so we don't retry forever!"), and none waits behind one that is.
PageGetsMarked ==
  \A d \in Doc :
    d \in Waiting ~> d \notin Waiting \/ stop \/ step \in {"final", "destroy", "stopped"}

\* "Mark as indexed in database": a marked page that could be read is in the
\* index, or will be with the next flush.
MarkedIsIndexed ==
  \A d \in Doc : rows[d].indexed =>
    docs[d] # NoText \/ d \in Builder!PendingDocs \/ d = doc \/ d \in passedOver
=============================================================================
