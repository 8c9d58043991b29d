---------------------------- MODULE IndexBuilder ----------------------------
(***************************************************************************)
(* IndexBuilder (indexer/index_builder.cpp) over its RocksDB database: the *)
(* inverted index, its statistics, the documents that wait in memory for   *)
(* the next flush, and the death of the process between two writes of the  *)
(* database.  A write batch is atomic; save_statistics, which follows it,  *)
(* is two more writes.  A key that cannot be read is taken for one that is *)
(* not there (RocksDBClient::get, exists).  The client calls index_parsed, *)
(* flush and remove_document in any order, from one thread.                *)
(*                                                                         *)
(* A text is what a page says: how often each term is in each field.       *)
(***************************************************************************)
EXTENDS Naturals, FiniteSets

CONSTANTS
  Doc, Term, Field,
  Text,         \* the texts a document may have
  NoText,
  NoDoc,
  BatchSize,    \* batch_size_
  MaxCalls,     \* bound: calls of index_parsed
  MaxFaults,    \* bound: reads and writes that fail
  MaxCrashes    \* bound: deaths of the process

ASSUME IndexAssumption ==
  /\ IsFiniteSet(Doc) /\ IsFiniteSet(Term) /\ IsFiniteSet(Field)
  /\ Text \subseteq [Term \X Field -> Nat]
  /\ NoText \notin Text /\ NoDoc \notin Doc
  /\ BatchSize \in Nat \ {0}
  /\ MaxCalls \in Nat /\ MaxFaults \in Nat /\ MaxCrashes \in Nat

VARIABLES
  \* RocksDB
  postings,         \* "term:": the frequency of a term in a field of a document
  df,               \* "df:", 0 where there is no key
  docs,             \* "doc:": the text its metadata were made of
  docTerms,         \* "docterms:": the text whose terms are listed
  metaDocCount,     \* "meta:doc_count"
  metaTermCount,    \* "meta:term_count"
  \* memory
  pendingPostings,  \* pending_postings_
  pendingMeta,      \* pending_docs_metadata_: how many entries a document has
  pendingText,      \*   and the text of the last one; pending_doc_terms_ too
  pendingCount,     \* pending_docs_
  docCount,         \* doc_count_
  termCount,        \* term_count_
  pc, doc, text,    \* the call of index_parsed that is running
  \* history and bounds
  mixed,            \* the documents of which two texts may have been merged
  lost,             \* those that were in a list that could not be read and was replaced
  unsaved,          \* a write or a read of doc_count_ has failed
  calls, faults, crashes

index == <<postings, df, docs, docTerms>>
meta == <<metaDocCount, metaTermCount>>
pending == <<pendingPostings, pendingMeta, pendingText, pendingCount>>
counters == <<docCount, termCount>>
call == <<pc, doc, text>>
history == <<mixed, lost, unsaved>>
bounds == <<calls, faults, crashes>>
vars == <<index, meta, pending, counters, call, history, bounds>>

Entry == Term \X Doc \X Field

\* So many reads and writes fail, within the bound.
Faults(n) == faults + n <= MaxFaults /\ faults' = faults + n

Fault == Faults(1)

\* The documents in the posting list of a term; where there are none, the
\* database has no key for the term.
DocsWith(p, t) == {d \in Doc : \E f \in Field : p[<<t, d, f>>] > 0}

Terms(p) == {t \in Term : DocsWith(p, t) # {}}

\* The list of the terms of a text: tokenize_field lists one once for each field.
Listings(x) == {e \in Term \X Field : x[e] > 0}

TermsOf(x) == {e[1] : e \in Listings(x)}

\* Mutant: the list in the database is replaced by the pending one.
MergeOverwriting(p, q) == [e \in Entry |-> IF e[1] \in Terms(q) THEN q[e] ELSE p[e]]

\* PostingList::add_posting, for every posting of p and then of q.
Merge(p, q) == [e \in Entry |-> p[e] + q[e]]

\* PostingList::remove_document, in the lists of the terms in T.
Without(p, d, T) == [e \in Entry |-> IF e[2] = d /\ e[1] \in T THEN 0 ELSE p[e]]

\* The lists of the terms in T are taken for absent.
WithoutLists(p, T) == [e \in Entry |-> IF e[1] \in T THEN 0 ELSE p[e]]

PostingsOf(d, x) == [e \in Entry |-> IF e[2] = d THEN x[<<e[1], e[3]>>] ELSE 0]

\* Mutant: the frequency is the length of the posting list.
FrequenciesOfLists(p, T) ==
  [t \in Term |-> IF t \in T
     THEN Cardinality({e \in Entry : e[1] = t /\ p[e] > 0}) ELSE df[t]]

\* The document frequencies that a batch writes, for the terms it touches.
Frequencies(p, T) == [t \in Term |-> IF t \in T THEN Cardinality(DocsWith(p, t))
                                                ELSE df[t]]

NoPostings == [e \in Entry |-> 0]

PendingDocs == {d \in Doc : pendingMeta[d] > 0}

-----------------------------------------------------------------------------
\* initialize() on an empty database.
Init ==
  /\ postings = NoPostings
  /\ df = [t \in Term |-> 0]
  /\ docs = [d \in Doc |-> NoText] /\ docTerms = [d \in Doc |-> NoText]
  /\ metaDocCount = 0 /\ metaTermCount = 0
  /\ pendingPostings = NoPostings
  /\ pendingMeta = [d \in Doc |-> 0]
  /\ pendingText = [d \in Doc |-> NoText]
  /\ pendingCount = 0
  /\ docCount = 0 /\ termCount = 0
  /\ pc = "idle" /\ doc = NoDoc /\ text = NoText
  /\ mixed = {} /\ lost = {} /\ unsaved = FALSE
  /\ calls = 0 /\ faults = 0 /\ crashes = 0

\* Mutant: a document that is indexed already is not removed first.
IndexParsedUnremoved(d, x) ==
  /\ pc = "idle"
  /\ calls < MaxCalls
  /\ calls' = calls + 1
  /\ doc' = d /\ text' = x
  /\ pc' = "add"
  /\ UNCHANGED <<index, meta, pending, counters, history, faults, crashes>>

\* index_parsed(d, x): a document that is_indexed finds is removed first; when the
\* key cannot be read it does not find it.
IndexParsed(d, x) ==
  /\ pc = "idle"
  /\ calls < MaxCalls
  /\ calls' = calls + 1
  /\ doc' = d /\ text' = x
  /\ \/ pc' = (IF docs[d] # NoText THEN "remove" ELSE "add") /\ UNCHANGED faults
     \/ docs[d] # NoText /\ Fault /\ pc' = "add"
  /\ UNCHANGED <<index, meta, pending, counters, history, crashes>>

\* Mutant: the counter is decremented without a look at its value.
MinusUnchecked(n, k) == n - k

\* if (n > 0) n--, k times.
Minus(n, k) == IF n > k THEN n - k ELSE 0

\* How often remove_document decrements term_count_: once for each of the listings
\* whose posting list it has read and finds empty without the document.
TermsDropped(listings, p) ==
  Cardinality({e \in listings : e[1] \in Terms(postings) \ Terms(p)})

\* What index_parsed or the client does when the call has returned.
Return == pc' = IF doc # NoDoc THEN "add" ELSE "idle"

\* remove_document returns at once when it cannot read the terms of the document,
\* and leaves out those whose list it cannot read.  With its batch, term_count_ is
\* decremented before the commit and stays so when that fails; doc_count_ only
\* after it.
RemoveCommit(d) ==
  /\ docTerms[d] # NoText
  /\ \/ Fault /\ Return /\ UNCHANGED <<index, counters, mixed>>
     \/ \E unread \in SUBSET Listings(docTerms[d]) :
          LET read == Listings(docTerms[d]) \ unread
              T == {e[1] : e \in read}
              p == Without(postings, d, T) IN
          /\ termCount' = Minus(termCount, TermsDropped(read, p))
          /\ \/ /\ Faults(Cardinality(unread))
                /\ postings' = p
                /\ df' = Frequencies(p, T)
                /\ docs' = [docs EXCEPT ![d] = NoText]
                /\ docTerms' = [docTerms EXCEPT ![d] = NoText]
                /\ mixed' = IF T = TermsOf(docTerms[d]) THEN mixed ELSE mixed \cup {d}
                /\ IF docCount > 0
                     THEN docCount' = docCount - 1 /\ pc' = "putDocCount"
                     ELSE Return /\ UNCHANGED docCount
             \/ Faults(Cardinality(unread) + 1) /\ Return /\ UNCHANGED <<index, docCount, mixed>>
  /\ UNCHANGED <<meta, pending, doc, text, lost, unsaved, calls, crashes>>

\* The call in index_parsed, which does not look at its result.
RemoveReplaced == pc = "remove" /\ RemoveCommit(doc)

\* A call by the client; the document may be pending as well.
RemoveDocument(d) == pc = "idle" /\ RemoveCommit(d)

\* The rest of index_parsed.
AddPending ==
  /\ pc = "add"
  /\ pendingPostings' = Merge(pendingPostings, PostingsOf(doc, text))
  /\ pendingMeta' = [pendingMeta EXCEPT ![doc] = @ + 1]
  /\ pendingText' = [pendingText EXCEPT ![doc] = text]
  /\ mixed' = IF pendingMeta[doc] > 0 \/ docs[doc] # NoText
                THEN mixed \cup {doc} ELSE mixed
  /\ pendingCount' = pendingCount + 1
  /\ pc' = IF pendingCount' >= BatchSize THEN "flush" ELSE "idle"
  /\ doc' = NoDoc /\ text' = NoText
  /\ UNCHANGED <<index, meta, counters, lost, unsaved, bounds>>

\* Mutant: the pending documents are cleared although the commit has failed.
FlushCommitForgets ==
  /\ pendingCount > 0
  /\ Fault /\ pc' = "idle"
  /\ pendingPostings' = NoPostings
  /\ pendingMeta' = [d \in Doc |-> 0]
  /\ pendingText' = [d \in Doc |-> NoText]
  /\ pendingCount' = 0
  /\ UNCHANGED <<index, meta, counters, doc, text, history, calls, crashes>>

\* flush with its batch, in which a list that cannot be read is replaced by the
\* pending postings.  The counters are incremented before the commit and stay so
\* when that fails, while the pending documents are kept, to be counted again by
\* the next flush.
FlushCommit ==
  /\ pendingCount > 0
  /\ docCount' = docCount + pendingCount
  /\ \E unread \in SUBSET (Terms(pendingPostings) \cap Terms(postings)) :
       LET p == WithoutLists(postings, unread) IN
       /\ termCount' = termCount + Cardinality(Terms(pendingPostings) \ Terms(p))
       /\ \/ /\ Faults(Cardinality(unread))
             /\ postings' = Merge(p, pendingPostings)
             /\ df' = Frequencies(postings', Terms(pendingPostings))
             /\ docs' = [d \in Doc |-> IF d \in PendingDocs THEN pendingText[d] ELSE docs[d]]
             /\ docTerms' = [d \in Doc |-> IF d \in PendingDocs THEN pendingText[d]
                                                                ELSE docTerms[d]]
             /\ pendingPostings' = NoPostings
             /\ pendingMeta' = [d \in Doc |-> 0]
             /\ pendingText' = [d \in Doc |-> NoText]
             /\ pendingCount' = 0
             /\ pc' = "putDocCount"
             /\ lost' = lost \cup UNION {DocsWith(postings, t) : t \in unread}
          \/ Faults(Cardinality(unread) + 1) /\ pc' = "idle" /\ UNCHANGED <<index, pending, lost>>
  /\ UNCHANGED <<meta, doc, text, mixed, unsaved, calls, crashes>>

\* At the end of a full batch, and when the client calls it.
Flush == pc \in {"flush", "idle"} /\ FlushCommit

\* save_statistics: two writes, whose results are not looked at.
PutDocCount ==
  /\ pc = "putDocCount"
  /\ \/ metaDocCount' = docCount /\ UNCHANGED <<faults, unsaved>>
     \/ Fault /\ unsaved' = TRUE /\ UNCHANGED metaDocCount
  /\ pc' = "putTermCount"
  /\ UNCHANGED <<index, metaTermCount, pending, counters, doc, text, mixed, lost, calls,
                 crashes>>

PutTermCount ==
  /\ pc = "putTermCount"
  /\ \/ metaTermCount' = termCount /\ UNCHANGED faults
     \/ Fault /\ UNCHANGED metaTermCount
  /\ Return
  /\ UNCHANGED <<index, metaDocCount, pending, counters, doc, text, history, calls,
                 crashes>>

\* Mutant: the statistics are not loaded.
ReloadUncounted ==
  /\ pendingPostings' = NoPostings
  /\ pendingMeta' = [d \in Doc |-> 0]
  /\ pendingText' = [d \in Doc |-> NoText]
  /\ pendingCount' = 0
  /\ docCount' = 0 /\ termCount' = 0
  /\ pc' = "idle" /\ doc' = NoDoc /\ text' = NoText
  /\ UNCHANGED <<index, meta, history, calls, faults>>

\* What a process starts with, load_statistics included: a count that cannot be read
\* is 0.
Reload ==
  /\ pendingPostings' = NoPostings
  /\ pendingMeta' = [d \in Doc |-> 0]
  /\ pendingText' = [d \in Doc |-> NoText]
  /\ pendingCount' = 0
  /\ \E unread \in SUBSET {"doc_count", "term_count"} :
       /\ Faults(Cardinality(unread))
       /\ docCount' = IF "doc_count" \in unread THEN 0 ELSE metaDocCount
       /\ termCount' = IF "term_count" \in unread THEN 0 ELSE metaTermCount
       /\ unsaved' = (unsaved \/ "doc_count" \in unread)
  /\ pc' = "idle" /\ doc' = NoDoc /\ text' = NoText
  /\ UNCHANGED <<index, meta, mixed, lost, calls>>

\* Mutant: the destructor does not flush.
ReopenUnflushed ==
  /\ pc = "idle"
  /\ Reload
  /\ UNCHANGED crashes

\* The process ends in order, after a last flush, and starts again.
Reopen ==
  /\ pc = "idle"
  /\ pendingCount = 0
  /\ Reload
  /\ UNCHANGED crashes

\* It dies, or its last flush fails.
Crash ==
  /\ crashes < MaxCrashes
  /\ crashes' = crashes + 1
  /\ Reload

Next ==
  \/ \E d \in Doc, x \in Text : IndexParsed(d, x)
  \/ \E d \in Doc : RemoveDocument(d)
  \/ RemoveReplaced \/ AddPending \/ Flush
  \/ PutDocCount \/ PutTermCount
  \/ Reopen \/ Crash

Spec == Init /\ [][Next]_vars

-----------------------------------------------------------------------------
(* Properties.                                                             *)

Step == {"idle", "remove", "add", "flush", "putDocCount", "putTermCount"}

\* Every variable has its type; no counter and no frequency is ever negative.
TypeOK ==
  /\ postings \in [Entry -> Nat]
  /\ df \in [Term -> Nat]
  /\ docs \in [Doc -> Text \cup {NoText}]
  /\ docTerms \in [Doc -> Text \cup {NoText}]
  /\ metaDocCount \in Nat /\ metaTermCount \in Nat
  /\ pendingPostings \in [Entry -> Nat]
  /\ pendingMeta \in [Doc -> Nat]
  /\ pendingText \in [Doc -> Text \cup {NoText}]
  /\ pendingCount \in Nat
  /\ docCount \in Nat /\ termCount \in Nat
  /\ pc \in Step
  /\ doc \in Doc \cup {NoDoc} /\ text \in Text \cup {NoText}
  /\ mixed \in SUBSET Doc /\ lost \in SUBSET Doc /\ unsaved \in BOOLEAN
  /\ calls \in Nat /\ faults \in Nat /\ crashes \in Nat

\* The df: key of a term is the number of documents in its posting list, at
\* every moment at which a reader or a restarted process can see the database,
\* whatever writes have failed.
DfMatchesPostings == \A t \in Term : df[t] = Cardinality(DocsWith(postings, t))

\* The index holds exactly the postings of the text a document was last flushed
\* with, and nothing of a removed one: failed flushes, crashes, and replaced
\* documents leave nothing behind.  The exceptions are the documents that were
\* indexed again while still pending, or not found or not removed whole before,
\* because a call failed; and those of a list that could not be read and was
\* replaced by a flush, which then loses their postings.
IndexedExactly ==
  \A d \in Doc \ (mixed \cup lost) :
    /\ docTerms[d] = docs[d]
    /\ \A t \in Term, f \in Field :
         postings[<<t, d, f>>] = IF docs[d] = NoText THEN 0 ELSE docs[d][<<t, f>>]

Indexed == {d \in Doc : docs[d] # NoText}

\* Unless a process has died, or a write or a read of the count has failed, doc_count_
\* is never below the number of documents in the index: failed flushes and
\* repeated documents can only make it too high.
NeverUndercounted ==
  crashes = 0 /\ ~unsaved => docCount >= Cardinality(Indexed)

\* What a step does with the pending documents: keep them, write them all, or
\* die with them.
PendingKeptOrFlushed ==
  \A d \in PendingDocs :
    \/ d \in PendingDocs' /\ pendingMeta'[d] >= pendingMeta[d]
    \/ docs'[d] = pendingText[d]
    \/ crashes' > crashes

\* Pending documents leave the memory only for the database, in one piece, or
\* with the process: a failed flush keeps them for the next.
PendingKept == [][PendingKeptOrFlushed]_vars
=============================================================================
