------------------------- MODULE IndexBuilderProofs -------------------------
(***************************************************************************)
(* What TLAPS proves of IndexBuilder, for any documents, terms, fields and *)
(* texts, any batch size, and any number of failing writes and crashes.    *)
(***************************************************************************)
EXTENDS IndexBuilder, FiniteSetTheorems, TLAPS

\* The types of the index and of what is pending, and what the running call of
\* index_parsed works on.
Typed ==
  /\ postings \in [Entry -> Nat]
  /\ docs \in [Doc -> Text \cup {NoText}]
  /\ docTerms \in [Doc -> Text \cup {NoText}]
  /\ pendingPostings \in [Entry -> Nat]
  /\ pendingMeta \in [Doc -> Nat]
  /\ pendingText \in [Doc -> Text \cup {NoText}]
  /\ crashes \in Nat
  /\ \/ doc = NoDoc /\ pc \notin {"remove", "add"}
     \/ doc \in Doc /\ text \in Text

\* The shape of an entry and of a text.
LEMMA EntryShape ==
  /\ \A t \in Term, d \in Doc, f \in Field : <<t, d, f>> \in Entry
  /\ \A e \in Entry : e[1] \in Term /\ e[2] \in Doc /\ e[3] \in Field
  /\ \A x \in Text, t \in Term, f \in Field : x[<<t, f>>] \in Nat
  BY IndexAssumption DEF Entry

\* The helpers return functions from Entry to Nat.
LEMMA PostingTypes ==
  /\ \A p, q \in [Entry -> Nat] : Merge(p, q) \in [Entry -> Nat]
  /\ \A p \in [Entry -> Nat] : \A d, T : Without(p, d, T) \in [Entry -> Nat]
  /\ \A p \in [Entry -> Nat] : \A T : WithoutLists(p, T) \in [Entry -> Nat]
  /\ \A d \in Doc, x \in Text : PostingsOf(d, x) \in [Entry -> Nat]
  <1>1. \A p, q \in [Entry -> Nat] : Merge(p, q) \in [Entry -> Nat]
    BY DEF Merge
  <1>2. \A p \in [Entry -> Nat] : \A d, T : Without(p, d, T) \in [Entry -> Nat]
    BY DEF Without
  <1>3. \A d \in Doc, x \in Text : PostingsOf(d, x) \in [Entry -> Nat]
    BY EntryShape DEF PostingsOf
  <1>4. \A p \in [Entry -> Nat] : \A T : WithoutLists(p, T) \in [Entry -> Nat]
    BY DEF WithoutLists
  <1> QED
    BY <1>1, <1>2, <1>3, <1>4

\* At first the index is empty.
LEMMA InitTyped == Init => Typed
  BY DEF Init, Typed, NoPostings

\* A step of the index builder preserves the types.
LEMMA NextTyped == Typed /\ [Next]_vars => Typed'
  <1> SUFFICES ASSUME Typed, [Next]_vars PROVE Typed'
    OBVIOUS
  <1> USE DEF Typed, index, pending, call, bounds
  <1>0. NoDoc \notin Doc
    BY IndexAssumption
  <1>1. ASSUME NEW d \in Doc, NEW x \in Text, IndexParsed(d, x) PROVE Typed'
    BY <1>1 DEF IndexParsed
  <1>2. ASSUME NEW d \in Doc, RemoveCommit(d) PROVE Typed'
    <2>1. postings' \in [Entry -> Nat]
      <3>1. postings' = postings \/ \E T : postings' = Without(postings, d, T)
        BY <1>2 DEF RemoveCommit
      <3> QED
        BY <3>1, PostingTypes
    <2>2. docs' \in [Doc -> Text \cup {NoText}] /\ docTerms' \in [Doc -> Text \cup {NoText}]
      BY <1>2 DEF RemoveCommit
    <2>3. UNCHANGED <<pending, doc, text, crashes>> /\ (pc' \in {"remove", "add"} => doc # NoDoc)
      BY <1>2 DEF RemoveCommit, Return
    <2> QED
      BY <2>1, <2>2, <2>3
  <1>3. CASE AddPending
    <2>1. doc \in Doc /\ text \in Text
      BY <1>3 DEF AddPending
    <2>2. pendingPostings' \in [Entry -> Nat]
      BY <1>3, <2>1, PostingTypes DEF AddPending
    <2>3. pendingMeta' \in [Doc -> Nat] /\ pendingText' \in [Doc -> Text \cup {NoText}]
      BY <1>3, <2>1 DEF AddPending
    <2>4. UNCHANGED <<index, crashes>> /\ doc' = NoDoc /\ pc' \in {"flush", "idle"}
      BY <1>3 DEF AddPending
    <2> QED
      BY <2>2, <2>3, <2>4
  <1>4. CASE Flush
    <2>1. postings' \in [Entry -> Nat] /\ pendingPostings' \in [Entry -> Nat]
      <3>1. /\ \/ postings' = postings
               \/ \E T : postings' = Merge(WithoutLists(postings, T), pendingPostings)
            /\ pendingPostings' = NoPostings \/ pendingPostings' = pendingPostings
        BY <1>4 DEF Flush, FlushCommit
      <3>2. NoPostings \in [Entry -> Nat]
        BY DEF NoPostings
      <3>3. \A T : Merge(WithoutLists(postings, T), pendingPostings) \in [Entry -> Nat]
        BY PostingTypes
      <3> QED
        BY <3>1, <3>2, <3>3
    <2>2. docs' \in [Doc -> Text \cup {NoText}] /\ docTerms' \in [Doc -> Text \cup {NoText}]
      BY <1>4 DEF Flush, FlushCommit
    <2>3. pendingMeta' \in [Doc -> Nat] /\ pendingText' \in [Doc -> Text \cup {NoText}]
      BY <1>4 DEF Flush, FlushCommit
    <2>4. UNCHANGED <<doc, text, crashes>> /\ pc' \in {"idle", "putDocCount"}
      BY <1>4 DEF Flush, FlushCommit
    <2> QED
      BY <2>1, <2>2, <2>3, <2>4
  <1>5. CASE PutDocCount \/ PutTermCount
    BY <1>5, <1>0 DEF PutDocCount, PutTermCount, Return
  <1>6. CASE Reopen \/ Crash
    BY <1>6 DEF Reopen, Crash, Reload, NoPostings
  <1>7. CASE UNCHANGED vars
    BY <1>7 DEF vars
  <1> QED
    BY <1>1, <1>2, <1>3, <1>4, <1>5, <1>6, <1>7 DEF Next, RemoveDocument, RemoveReplaced

\* The types of the rest: the counters, the bounds and the history.
Counting ==
  /\ df \in [Term -> Nat]
  /\ metaDocCount \in Nat /\ metaTermCount \in Nat
  /\ docCount \in Nat /\ termCount \in Nat /\ pendingCount \in Nat
  /\ pc \in Step /\ text \in Text \cup {NoText}
  /\ mixed \in SUBSET Doc /\ lost \in SUBSET Doc /\ unsaved \in BOOLEAN
  /\ calls \in Nat /\ faults \in Nat

\* A list has finitely many documents, and the index finitely many terms.
LEMMA ListsFinite ==
  /\ \A p, t : IsFiniteSet(DocsWith(p, t)) /\ Cardinality(DocsWith(p, t)) \in Nat
  /\ \A p, q : Cardinality(Terms(p) \ Terms(q)) \in Nat
  /\ \A p, x : \A S \in SUBSET Listings(x) :
       Cardinality(S) \in Nat /\ TermsDropped(Listings(x) \ S, p) \in Nat
  /\ \A p, q : \A S \in SUBSET (Terms(p) \cap Terms(q)) : Cardinality(S) \in Nat
  <1>1. \A p, t : IsFiniteSet(DocsWith(p, t)) /\ Cardinality(DocsWith(p, t)) \in Nat
    BY IndexAssumption, FS_Subset, FS_CardinalityType DEF DocsWith
  <1>2. \A p, q : Terms(p) \ Terms(q) \subseteq Term
    BY DEF Terms
  <1>3. \A p, q : Cardinality(Terms(p) \ Terms(q)) \in Nat
    BY <1>2, IndexAssumption, FS_Subset, FS_CardinalityType
  <1>4. IsFiniteSet(Term \X Field)
    BY IndexAssumption, FS_Product
  <1>5. \A x : \A S \in SUBSET Listings(x) : Cardinality(S) \in Nat
    BY <1>4, FS_Subset, FS_CardinalityType DEF Listings
  <1>6. ASSUME NEW p, NEW x, NEW S \in SUBSET Listings(x)
        PROVE  TermsDropped(Listings(x) \ S, p) \in Nat
    <2>1. {e \in Listings(x) \ S : e[1] \in Terms(postings) \ Terms(p)} \in SUBSET Listings(x)
      OBVIOUS
    <2> QED
      BY <2>1, <1>5 DEF TermsDropped
  <1>7. \A p, q : \A S \in SUBSET (Terms(p) \cap Terms(q)) : Cardinality(S) \in Nat
    BY IndexAssumption, FS_Subset, FS_CardinalityType DEF Terms
  <1> QED
    BY <1>1, <1>3, <1>5, <1>6, <1>7

\* load_statistics reads two keys.
LEMMA ReadsFinite == \A S \in SUBSET {"doc_count", "term_count"} : Cardinality(S) \in Nat
  <1>1. IsFiniteSet({"doc_count"}) /\ IsFiniteSet({"term_count"})
    BY FS_Singleton
  <1>2. {"doc_count", "term_count"} = {"doc_count"} \cup {"term_count"}
    OBVIOUS
  <1>3. IsFiniteSet({"doc_count", "term_count"})
    BY <1>1, <1>2, FS_Union
  <1> QED
    BY <1>3, FS_Subset, FS_CardinalityType

\* The frequencies a batch writes are numbers.
LEMMA FrequencyTypes ==
  ASSUME df \in [Term -> Nat], NEW p, NEW T
  PROVE  Frequencies(p, T) \in [Term -> Nat]
  BY ListsFinite DEF Frequencies

\* At first every counter is 0.
LEMMA InitCounting == Init => Counting
  <1>1. Init => unsaved \in BOOLEAN
    BY Zenon DEF Init
  <1> QED
    BY <1>1 DEF Init, Counting, Step

\* A step of the index builder preserves the types of the rest.
LEMMA NextCounting == Typed /\ Counting /\ [Next]_vars => Counting'
  <1> SUFFICES ASSUME Typed, Counting, [Next]_vars PROVE Counting'
    OBVIOUS
  <1> USE DEF Counting, index, meta, pending, counters, call, history, bounds
  <1>0. NoText \notin Text /\ MaxFaults \in Nat
    BY IndexAssumption
  <1>1. ASSUME NEW d \in Doc, NEW x \in Text, IndexParsed(d, x) PROVE Counting'
    BY <1>1 DEF IndexParsed, Fault, Faults, Step
  <1>2. ASSUME NEW d \in Doc, RemoveCommit(d) PROVE Counting'
    <2>1. df' \in [Term -> Nat]
      <3>1. df' = df \/ \E p, T : df' = Frequencies(p, T)
        BY <1>2 DEF RemoveCommit
      <3> QED
        BY <3>1, FrequencyTypes
    <2>2. termCount' \in Nat
      <3>1. termCount' = termCount \/ \E k \in Nat : termCount' = Minus(termCount, k)
        BY <1>2, ListsFinite DEF RemoveCommit
      <3> QED
        BY <3>1 DEF Minus
    <2>3. docCount' \in Nat /\ pc' \in Step /\ mixed' \in SUBSET Doc
      <3>1. mixed' = mixed \/ mixed' = mixed \cup {d}
        BY <1>2 DEF RemoveCommit
      <3>2. docCount' = docCount \/ (docCount > 0 /\ docCount' = docCount - 1)
        BY <1>2 DEF RemoveCommit, Return
      <3>3. pc' \in {"add", "idle", "putDocCount"}
        BY <1>2 DEF RemoveCommit, Return
      <3> QED
        BY <3>1, <3>2, <3>3 DEF Step
    <2>4. faults' \in Nat
      <3>1. \E n \in Nat : Faults(n) \/ Faults(n + 1)
        BY <1>2, ListsFinite DEF RemoveCommit, Fault
      <3> QED
        BY <3>1 DEF Faults
    <2>5. UNCHANGED <<meta, pendingCount, text, lost, unsaved, calls>>
      BY <1>2 DEF RemoveCommit
    <2> QED
      BY <2>1, <2>2, <2>3, <2>4, <2>5
  <1>3. CASE AddPending
    BY <1>3 DEF AddPending, Step, Typed
  <1>4. CASE Flush
    <2>1. df' \in [Term -> Nat]
      <3>1. df' = df \/ \E p, T : df' = Frequencies(p, T)
        BY <1>4 DEF Flush, FlushCommit
      <3> QED
        BY <3>1, FrequencyTypes
    <2>2. termCount' \in Nat
      <3>1. PICK k \in Nat : termCount' = termCount + k
        BY <1>4, ListsFinite DEF Flush, FlushCommit
      <3> QED
        BY <3>1
    <2>3. docCount' \in Nat /\ pc' \in Step /\ pendingCount' \in Nat
      BY <1>4 DEF Flush, FlushCommit, Step
    <2>4. faults' \in Nat
      <3>1. \E n \in Nat : Faults(n) \/ Faults(n + 1)
        BY <1>4, ListsFinite DEF Flush, FlushCommit
      <3> QED
        BY <3>1 DEF Faults
    <2>5. lost' \in SUBSET Doc
      <3>1. \/ lost' = lost
            \/ \E T : lost' = lost \cup UNION {DocsWith(postings, t) : t \in T}
        BY <1>4 DEF Flush, FlushCommit
      <3> QED
        BY <3>1 DEF DocsWith
    <2>6. UNCHANGED <<meta, text, mixed, unsaved, calls>>
      BY <1>4 DEF Flush, FlushCommit
    <2> QED
      BY <2>1, <2>2, <2>3, <2>4, <2>5, <2>6
  <1>5. CASE PutDocCount \/ PutTermCount
    <2>1. unsaved' \in BOOLEAN
      BY <1>5, Zenon DEF PutDocCount, PutTermCount
    <2>2. /\ metaDocCount' \in Nat /\ metaTermCount' \in Nat /\ faults' \in Nat
          /\ pc' \in Step
      BY <1>5 DEF PutDocCount, PutTermCount, Return, Fault, Faults, Step
    <2>3. UNCHANGED <<df, pendingCount, counters, text, mixed, lost, calls>>
      BY <1>5 DEF PutDocCount, PutTermCount
    <2> QED
      BY <2>1, <2>2, <2>3
  <1>6. CASE Reopen \/ Crash
    <2>1. Reload
      BY <1>6 DEF Reopen, Crash
    <2>2. PICK unread \in SUBSET {"doc_count", "term_count"} :
            /\ Faults(Cardinality(unread))
            /\ docCount' = IF "doc_count" \in unread THEN 0 ELSE metaDocCount
            /\ termCount' = IF "term_count" \in unread THEN 0 ELSE metaTermCount
            /\ unsaved' = (unsaved \/ "doc_count" \in unread)
      BY <2>1 DEF Reload
    <2>3. Cardinality(unread) \in Nat
      BY ReadsFinite
    <2>4. faults' \in Nat
      BY <2>2, <2>3 DEF Faults
    <2>5. unsaved' \in BOOLEAN
      BY <2>2, Zenon
    <2>6. /\ pendingCount' = 0 /\ pc' = "idle" /\ text' = NoText
          /\ UNCHANGED <<index, meta, mixed, lost, calls>>
      BY <2>1 DEF Reload
    <2> QED
      BY <2>2, <2>4, <2>5, <2>6 DEF Step
  <1>7. CASE UNCHANGED vars
    BY <1>7 DEF vars
  <1> QED
    BY <1>1, <1>2, <1>3, <1>4, <1>5, <1>6, <1>7
    DEF Next, RemoveDocument, RemoveReplaced, Typed

\* Every variable of the index builder has its type, and no counter is ever
\* negative.
THEOREM TypeCorrect == Spec => []TypeOK
  <1>1. Typed /\ Counting => TypeOK
    BY DEF Typed, Counting, TypeOK
  <1> QED
    BY InitTyped, NextTyped, InitCounting, NextCounting, <1>1, PTL DEF Spec

-----------------------------------------------------------------------------
(* The counters.                                                           *)

\* The metadata and the terms of a document are written and removed together,
\* no more documents are pending than pending_docs_ says, and neither doc_count_
\* nor, outside a flush or a removal, its copy in the database is too low.
Counted ==
  /\ docs = docTerms
  /\ Cardinality(PendingDocs) <= pendingCount
  /\ crashes = 0 /\ ~unsaved =>
       /\ docCount >= Cardinality(Indexed)
       /\ pc # "putDocCount" => metaDocCount >= Cardinality(Indexed)

\* The documents of the index, and those that are pending, are finitely many.
LEMMA DocsFinite ==
  /\ IsFiniteSet(Indexed) /\ Cardinality(Indexed) \in Nat
  /\ IsFiniteSet(PendingDocs) /\ Cardinality(PendingDocs) \in Nat
  BY IndexAssumption, FS_Subset, FS_CardinalityType DEF Indexed, PendingDocs

\* When pending_docs_ is 0 nothing is pending.
LEMMA NothingPending ==
  ASSUME Cardinality(PendingDocs) <= pendingCount, pendingCount = 0
  PROVE  PendingDocs = {}
  <1>1. Cardinality(PendingDocs) = 0
    BY DocsFinite
  <1> QED
    BY <1>1, DocsFinite, FS_EmptySet

\* A removal takes one document from the index and one from doc_count_.
LEMMA RemoveCounted ==
  ASSUME Typed, Counting, Counted, NEW d \in Doc, RemoveCommit(d),
         pc \in {"idle", "remove"}
  PROVE  Counted'
  <1>1. UNCHANGED <<metaDocCount, pendingMeta, pendingCount, unsaved, crashes>>
    BY DEF RemoveCommit, meta, pending
  <1>2. UNCHANGED PendingDocs
    BY <1>1 DEF PendingDocs
  <1>3. d \in Indexed
    BY DEF RemoveCommit, Counted, Indexed
  <1>4. Cardinality(Indexed) > 0
    BY <1>3, DocsFinite, FS_EmptySet
  <1>5. CASE UNCHANGED <<index, docCount>>
    <2>1. docs' = docs /\ docTerms' = docTerms
      BY <1>5 DEF index
    <2>2. UNCHANGED Indexed
      BY <2>1 DEF Indexed
    <2> QED
      BY <1>1, <1>2, <1>5, <2>1, <2>2 DEF Counted
  <1>6. CASE ~UNCHANGED <<index, docCount>>
    <2>1. /\ docs' = [docs EXCEPT ![d] = NoText]
          /\ docTerms' = [docTerms EXCEPT ![d] = NoText]
          /\ IF docCount > 0 THEN docCount' = docCount - 1 /\ pc' = "putDocCount"
                             ELSE docCount' = docCount
      BY <1>6 DEF RemoveCommit, counters
    <2>2. Indexed' = Indexed \ {d}
      BY <2>1 DEF Indexed, Typed
    <2>3. Cardinality(Indexed') = Cardinality(Indexed) - 1
      BY <2>2, <1>3, DocsFinite, FS_RemoveElement
    <2>4. docs' = docTerms'
      BY <2>1 DEF Counted
    <2> QED
      BY <1>1, <1>2, <1>4, <2>1, <2>3, <2>4, DocsFinite DEF Counted, Counting
  <1> QED
    BY <1>5, <1>6

\* A flush adds no more documents to the index than pending_docs_ to doc_count_.
LEMMA FlushCounted ==
  ASSUME Typed, Counting, Counted, Flush
  PROVE  Counted'
  <1>1. UNCHANGED <<metaDocCount, unsaved, crashes>> /\ docCount' = docCount + pendingCount
    BY DEF Flush, FlushCommit, meta
  <1>2. CASE UNCHANGED <<index, pending>>
    <2>1. UNCHANGED <<docs, docTerms, pendingMeta, pendingCount>>
      BY <1>2 DEF index, pending
    <2>2. UNCHANGED <<Indexed, PendingDocs>>
      BY <2>1 DEF Indexed, PendingDocs
    <2>3. pc # "putDocCount"
      BY DEF Flush
    <2> QED
      BY <1>1, <2>1, <2>2, <2>3, DocsFinite DEF Counted, Counting
  <1>3. CASE ~UNCHANGED <<index, pending>>
    <2>1. /\ docs' = [d \in Doc |-> IF d \in PendingDocs THEN pendingText[d] ELSE docs[d]]
          /\ docTerms' = [d \in Doc |-> IF d \in PendingDocs THEN pendingText[d]
                                                             ELSE docTerms[d]]
          /\ pendingMeta' = [d \in Doc |-> 0]
          /\ pendingCount' = 0 /\ pc' = "putDocCount"
      BY <1>3 DEF Flush, FlushCommit
    <2>2. Cardinality(PendingDocs') <= pendingCount'
      <3>1. PendingDocs' = {}
        BY <2>1 DEF PendingDocs
      <3> QED
        BY <2>1, <3>1, FS_EmptySet
    <2>3. Cardinality(Indexed') <= docCount + pendingCount \/ crashes # 0 \/ unsaved
      <3>1. Indexed' \subseteq Indexed \cup PendingDocs
        BY <2>1 DEF Indexed, PendingDocs
      <3>2. IsFiniteSet(Indexed \cup PendingDocs)
        BY DocsFinite, FS_Union
      <3>3. Cardinality(Indexed \cup PendingDocs) <= Cardinality(Indexed) + Cardinality(PendingDocs)
        <4>1. IsFiniteSet(Indexed \cap PendingDocs)
          BY DocsFinite, FS_Intersection
        <4>2. Cardinality(Indexed \cap PendingDocs) \in Nat
          BY <4>1, FS_CardinalityType
        <4>3. Cardinality(Indexed \cup PendingDocs)
                = Cardinality(Indexed) + Cardinality(PendingDocs)
                  - Cardinality(Indexed \cap PendingDocs)
          BY DocsFinite, FS_Union
        <4> HIDE DEF Indexed, PendingDocs
        <4> QED
          BY <4>2, <4>3, DocsFinite
      <3>4. /\ Cardinality(Indexed \cup PendingDocs) \in Nat
            /\ Cardinality(Indexed') <= Cardinality(Indexed \cup PendingDocs)
            /\ Cardinality(Indexed') \in Nat
        BY <3>1, <3>2, FS_Subset, FS_CardinalityType
      <3>5. /\ Cardinality(PendingDocs) <= pendingCount
            /\ docCount >= Cardinality(Indexed) \/ crashes # 0 \/ unsaved
        BY DEF Counted
      <3> HIDE DEF Indexed, PendingDocs
      <3> QED
        BY <3>3, <3>4, <3>5, DocsFinite DEF Counting
    <2>4. docs' = docTerms'
      BY <2>1 DEF Counted
    <2> QED
      BY <1>1, <2>1, <2>2, <2>3, <2>4 DEF Counted
  <1> QED
    BY <1>2, <1>3

\* At first nothing is indexed, pending or counted.
LEMMA InitCounted == Init => Counted
  <1> SUFFICES ASSUME Init PROVE Counted
    OBVIOUS
  <1>1. Indexed = {} /\ PendingDocs = {}
    BY DEF Init, Indexed, PendingDocs
  <1> QED
    BY <1>1, FS_EmptySet DEF Init, Counted

\* Every step keeps the counts.
LEMMA NextCounted == Typed /\ Counting /\ Counted /\ [Next]_vars => Counted'
  <1> SUFFICES ASSUME Typed, Counting, Counted, [Next]_vars PROVE Counted'
    OBVIOUS
  <1>1. ASSUME UNCHANGED <<docs, docTerms, pendingMeta>>
        PROVE  UNCHANGED <<Indexed, PendingDocs>>
    BY <1>1 DEF Indexed, PendingDocs
  <1>2. ASSUME NEW d \in Doc, NEW x \in Text, IndexParsed(d, x) PROVE Counted'
    BY <1>1, <1>2 DEF IndexParsed, Counted, index, meta, pending, counters, history
  <1>3. CASE AddPending
    <2>1. UNCHANGED <<docs, docTerms, metaDocCount, docCount, unsaved, crashes>>
      BY <1>3 DEF AddPending, index, meta, counters, bounds
    <2>2. PendingDocs' = PendingDocs \cup {doc}
      BY <1>3 DEF AddPending, PendingDocs, Typed
    <2>3. Cardinality(PendingDocs') <= pendingCount'
      <3>1. pendingCount' = pendingCount + 1 /\ pendingCount \in Nat
            /\ Cardinality(PendingDocs) <= pendingCount
        BY <1>3 DEF AddPending, Counted, Counting
      <3>2. Cardinality(PendingDocs \cup {doc})
              = IF doc \in PendingDocs THEN Cardinality(PendingDocs)
                                       ELSE Cardinality(PendingDocs) + 1
        BY DocsFinite, FS_AddElement
      <3> QED
        BY <2>2, <3>1, <3>2, DocsFinite
    <2>4. UNCHANGED Indexed
      BY <2>1 DEF Indexed
    <2>5. pc # "putDocCount"
      BY <1>3 DEF AddPending
    <2> QED
      BY <2>1, <2>3, <2>4, <2>5 DEF Counted
  <1>4. CASE PutDocCount
    <2>1. UNCHANGED <<docs, docTerms, pendingMeta, pendingCount, docCount, crashes>>
      BY <1>4 DEF PutDocCount, index, pending, counters
    <2>2. UNCHANGED <<Indexed, PendingDocs>>
      BY <1>1, <2>1
    <2>3. (metaDocCount' = docCount /\ unsaved' = unsaved) \/ unsaved' = TRUE
      BY <1>4, Zenon DEF PutDocCount
    <2> QED
      BY <2>1, <2>2, <2>3 DEF Counted
  <1>5. CASE PutTermCount
    BY <1>1, <1>5 DEF PutTermCount, Counted, Return, index, pending, counters, history
  <1>6. CASE Reopen \/ Crash
    <2>1. /\ UNCHANGED <<docs, docTerms, metaDocCount>>
          /\ (docCount' = metaDocCount /\ unsaved' = unsaved) \/ unsaved' = TRUE
      <3>1. PICK unread \in SUBSET {"doc_count", "term_count"} :
              /\ docCount' = IF "doc_count" \in unread THEN 0 ELSE metaDocCount
              /\ unsaved' = (unsaved \/ "doc_count" \in unread)
        BY <1>6 DEF Reopen, Crash, Reload
      <3>2. unsaved' = unsaved \/ unsaved' = TRUE
        BY <3>1 DEF Counting
      <3>3. "doc_count" \in unread => unsaved' = TRUE
        BY <3>1
      <3>4. UNCHANGED <<docs, docTerms, metaDocCount>>
        BY <1>6 DEF Reopen, Crash, Reload, index, meta
      <3> QED
        BY <3>1, <3>2, <3>3, <3>4
    <2>2. PendingDocs' = {} /\ pendingCount' = 0
      BY <1>6 DEF Reopen, Crash, Reload, PendingDocs
    <2>3. UNCHANGED Indexed
      BY <2>1 DEF Indexed
    <2>4. Cardinality(PendingDocs') <= pendingCount'
      BY <2>2, FS_EmptySet
    <2>5. CASE Reopen
      BY <2>1, <2>3, <2>4, <2>5 DEF Reopen, Counted
    <2>6. CASE Crash
      <3>1. crashes' # 0
        BY <2>6 DEF Crash, Typed
      <3> QED
        BY <2>1, <2>4, <3>1 DEF Counted
    <2> QED
      BY <1>6, <2>5, <2>6
  <1>7. CASE UNCHANGED vars
    BY <1>1, <1>7 DEF vars, Counted, index, meta, pending, counters, call, history, bounds
  <1>8. ASSUME NEW d \in Doc, RemoveDocument(d) PROVE Counted'
    BY <1>8, RemoveCounted DEF RemoveDocument
  <1>9. CASE RemoveReplaced
    BY <1>9, RemoveCounted DEF RemoveReplaced, Typed
  <1> QED
    BY <1>2, <1>3, <1>4, <1>5, <1>6, <1>7, <1>8, <1>9, FlushCounted DEF Next

\* As long as no process has died and no write or read of it has failed, doc_count_ is not
\* below the number of documents in the index, in any state: not in the middle
\* of a flush, after failed ones, or after a restart.
THEOREM CountedEnough == Spec => []NeverUndercounted
  <1>1. Counted => NeverUndercounted
    BY DEF Counted, NeverUndercounted
  <1> QED
    BY InitTyped, NextTyped, InitCounting, NextCounting, InitCounted, NextCounted,
       <1>1, PTL DEF Spec

-----------------------------------------------------------------------------
(* The document frequencies.                                               *)

\* Removing a document leaves the lists of the terms not in T alone.
LEMMA WithoutKeeps ==
  ASSUME NEW p, NEW d, NEW T, NEW t \in Term, t \notin T
  PROVE  DocsWith(Without(p, d, T), t) = DocsWith(p, t)
  BY EntryShape DEF DocsWith, Without

\* Merging leaves the lists of the terms alone of which q has no posting, whatever
\* lists of other terms were not read.
LEMMA MergeKeeps ==
  ASSUME NEW p \in [Entry -> Nat], NEW q \in [Entry -> Nat],
         NEW S, NEW t \in Term, t \notin Terms(q), t \notin S
  PROVE  DocsWith(Merge(WithoutLists(p, S), q), t) = DocsWith(p, t)
  <1>1. \A d \in Doc, f \in Field : q[<<t, d, f>>] = 0
    BY EntryShape DEF Terms, DocsWith
  <1>2. \A d \in Doc, f \in Field : Merge(WithoutLists(p, S), q)[<<t, d, f>>] = p[<<t, d, f>>]
    BY <1>1, EntryShape DEF Merge, WithoutLists
  <1> QED
    BY <1>2 DEF DocsWith

\* A batch writes the frequency of each term whose list it changes.
LEMMA FrequenciesPreserved ==
  Typed /\ DfMatchesPostings /\ [Next]_vars => DfMatchesPostings'
  <1> SUFFICES ASSUME Typed, DfMatchesPostings, [Next]_vars PROVE DfMatchesPostings'
    OBVIOUS
  <1>1. ASSUME NEW p, NEW T, postings' = p, df' = Frequencies(p, T),
               \A t \in Term \ T : DocsWith(p, t) = DocsWith(postings, t)
        PROVE  DfMatchesPostings'
    BY <1>1 DEF DfMatchesPostings, Frequencies
  <1>2. ASSUME UNCHANGED <<postings, df>> PROVE DfMatchesPostings'
    BY <1>2 DEF DfMatchesPostings, DocsWith
  <1>3. ASSUME NEW d \in Doc, RemoveCommit(d) PROVE DfMatchesPostings'
    <2>1. ASSUME NEW T, postings' = Without(postings, d, T), df' = Frequencies(postings', T)
          PROVE  DfMatchesPostings'
      BY <2>1, <1>1, WithoutKeeps
    <2>2. CASE UNCHANGED index
      BY <2>2, <1>2 DEF index
    <2> QED
      BY <1>3, <2>1, <2>2 DEF RemoveCommit
  <1>4. CASE Flush
    <2>1. ASSUME NEW S \in SUBSET Terms(pendingPostings),
                 postings' = Merge(WithoutLists(postings, S), pendingPostings),
                 df' = Frequencies(postings', Terms(pendingPostings))
          PROVE  DfMatchesPostings'
      BY <2>1, <1>1, MergeKeeps DEF Typed
    <2>2. CASE UNCHANGED index
      BY <2>2, <1>2 DEF index
    <2> QED
      BY <1>4, <2>1, <2>2 DEF Flush, FlushCommit
  <1>5. CASE AddPending \/ PutDocCount \/ PutTermCount \/ Reopen \/ Crash \/ UNCHANGED vars
    BY <1>5, <1>2 DEF AddPending, PutDocCount, PutTermCount, Reopen, Crash, Reload, vars, index
  <1>6. ASSUME NEW d \in Doc, NEW x \in Text, IndexParsed(d, x) PROVE DfMatchesPostings'
    BY <1>6, <1>2 DEF IndexParsed, index
  <1>7. CASE RemoveReplaced
    <2>1. doc \in Doc
      BY <1>7 DEF RemoveReplaced, Typed
    <2> QED
      BY <1>3, <1>7, <2>1 DEF RemoveReplaced
  <1> QED
    BY <1>3, <1>4, <1>5, <1>6, <1>7 DEF Next, RemoveDocument

-----------------------------------------------------------------------------
(* The postings of a document.                                             *)

\* In p are exactly the postings of d that x asks for.
PostingsAre(p, d, x) == \A t \in Term, f \in Field :
  p[<<t, d, f>>] = IF x = NoText THEN 0 ELSE x[<<t, f>>]

\* IndexedExactly, of one document.
ExactOf(d) == docTerms[d] = docs[d] /\ PostingsAre(postings, d, docs[d])

\* Of a document that is not mixed at most one text is pending, with exactly its
\* postings, and none while the index has one.
PendingOf(d) ==
  /\ pendingMeta[d] = 0 <=> pendingText[d] = NoText
  /\ pendingMeta[d] > 0 => docs[d] = NoText
  /\ PostingsAre(pendingPostings, d, pendingText[d])

Exact == \A d \in Doc \ (mixed \cup lost) : ExactOf(d) /\ PendingOf(d)

\* At first the index is empty, and so is every list.
LEMMA InitExact == Init => Exact /\ DfMatchesPostings
  <1>1. Init => DfMatchesPostings
    <2> SUFFICES ASSUME Init, NEW t \in Term PROVE df[t] = Cardinality(DocsWith(postings, t))
      BY DEF DfMatchesPostings
    <2>1. \A d \in Doc : ~ \E f \in Field : postings[<<t, d, f>>] > 0
      <3>1. \A e \in Entry : postings[e] = 0
        BY DEF Init, NoPostings
      <3>2. \A e \in Entry : ~(postings[e] > 0)
        BY <3>1
      <3> QED
        BY <3>2, EntryShape
    <2>2. DocsWith(postings, t) = {}
      BY <2>1 DEF DocsWith
    <2> QED
      BY <2>2, FS_EmptySet DEF Init
  <1>2. Init => Exact
    BY EntryShape DEF Init, Exact, ExactOf, PendingOf, PostingsAre, NoPostings
  <1> QED
    BY <1>1, <1>2

\* The df: key of a term is the length of its posting list in every state the
\* database goes through.
THEOREM FrequenciesMatch == Spec => []DfMatchesPostings
  BY InitTyped, NextTyped, InitExact, FrequenciesPreserved, PTL DEF Spec

\* The terms of a text are those with a posting.
LEMMA TermsOfText ==
  ASSUME NEW x \in Text, NEW t \in Term, NEW f \in Field, t \notin TermsOf(x)
  PROVE  x[<<t, f>>] = 0
  <1>1. x[<<t, f>>] \in Nat /\ <<t, f>> \in Term \X Field
    BY EntryShape
  <1>2. <<t, f>>[1] = t
    OBVIOUS
  <1>3. <<t, f>> \notin Listings(x)
    BY <1>2, Zenon DEF TermsOf
  <1> QED
    BY <1>1, <1>3 DEF Listings

\* A document that is in none of the lists that were not read keeps its postings.
LEMMA ListsAre ==
  ASSUME NEW p \in [Entry -> Nat], NEW S \in SUBSET Term, NEW d \in Doc, NEW x,
         PostingsAre(p, d, x), \A t \in S : d \notin DocsWith(p, t)
  PROVE  PostingsAre(WithoutLists(p, S), d, x)
  <1>1. ASSUME NEW t \in Term, NEW f \in Field PROVE WithoutLists(p, S)[<<t, d, f>>] = p[<<t, d, f>>]
    <2>1. CASE t \in S
      <3>1. ~(p[<<t, d, f>>] > 0) /\ p[<<t, d, f>>] \in Nat
        BY <2>1, EntryShape DEF DocsWith
      <3> QED
        BY <2>1, <3>1, EntryShape DEF WithoutLists
    <2>2. CASE t \notin S
      BY <2>2, EntryShape DEF WithoutLists
    <2> QED
      BY <2>1, <2>2
  <1> QED
    BY <1>1 DEF PostingsAre

\* The postings of d in a merge are those of the side that has them.
LEMMA MergeAre ==
  ASSUME NEW p \in [Entry -> Nat], NEW q \in [Entry -> Nat], NEW d \in Doc, NEW x,
         \/ PostingsAre(p, d, NoText) /\ PostingsAre(q, d, x)
         \/ PostingsAre(p, d, x) /\ PostingsAre(q, d, NoText)
  PROVE  PostingsAre(Merge(p, q), d, x)
  <1> SUFFICES ASSUME NEW t \in Term, NEW f \in Field
               PROVE  Merge(p, q)[<<t, d, f>>] = IF x = NoText THEN 0 ELSE x[<<t, f>>]
    BY DEF PostingsAre
  <1> DEFINE e == <<t, d, f>>
             there == IF x = NoText THEN 0 ELSE x[<<t, f>>]
  <1>1. Merge(p, q)[e] = p[e] + q[e] /\ p[e] \in Nat /\ q[e] \in Nat
    BY EntryShape DEF Merge
  <1>2. (p[e] = 0 /\ q[e] = there) \/ (p[e] = there /\ q[e] = 0)
    BY DEF PostingsAre
  <1> HIDE DEF e, there
  <1>3. Merge(p, q)[e] = there
    BY <1>1, <1>2
  <1> QED
    BY <1>3 DEF e, there

\* The postings of a text are those of its document, and of no other.
LEMMA PostingsOfAre ==
  ASSUME NEW d \in Doc, NEW x \in Text
  PROVE  /\ PostingsAre(PostingsOf(d, x), d, x)
         /\ \A c \in Doc \ {d} : PostingsAre(PostingsOf(d, x), c, NoText)
  <1>1. x # NoText
    BY IndexAssumption
  <1>2. \A c \in Doc, t \in Term, f \in Field :
          PostingsOf(d, x)[<<t, c, f>>] = IF c = d THEN x[<<t, f>>] ELSE 0
    BY EntryShape DEF PostingsOf
  <1> QED
    BY <1>1, <1>2 DEF PostingsAre

\* A removal takes the postings of its document, and no others.
LEMMA RemoveExact ==
  ASSUME Typed, Exact, NEW d \in Doc, RemoveCommit(d)
  PROVE  Exact'
  <1>1. UNCHANGED <<lost, pendingPostings, pendingMeta, pendingText>>
    BY DEF RemoveCommit, pending
  <1>2. CASE UNCHANGED <<index, mixed>>
    BY <1>1, <1>2 DEF Exact, ExactOf, PendingOf, PostingsAre, index
  <1>3. ASSUME NEW T,
               postings' = Without(postings, d, T),
               docs' = [docs EXCEPT ![d] = NoText],
               docTerms' = [docTerms EXCEPT ![d] = NoText],
               mixed' = IF T = TermsOf(docTerms[d]) THEN mixed ELSE mixed \cup {d}
        PROVE  Exact'
    <2> DEFINE p == Without(postings, d, T)
    <2> SUFFICES ASSUME NEW c \in Doc \ (mixed' \cup lost) PROVE ExactOf(c)' /\ PendingOf(c)'
      BY <1>1 DEF Exact
    <2>0. c \in Doc \ (mixed \cup lost) /\ (c = d => T = TermsOf(docTerms[d]))
      BY <1>3
    <2>1. PendingOf(c)'
      BY <1>1, <1>3, <2>0 DEF Exact, PendingOf, PostingsAre, Typed
    <2>2. CASE c # d
      <3>1. docs'[c] = docs[c] /\ docTerms'[c] = docTerms[c]
        BY <1>3, <2>2 DEF Typed
      <3>2. \A t \in Term, f \in Field : p[<<t, c, f>>] = postings[<<t, c, f>>]
        BY <2>2, EntryShape DEF Without
      <3> QED
        BY <1>3, <2>0, <2>1, <3>1, <3>2 DEF Exact, ExactOf, PostingsAre
    <2>3. CASE c = d
      <3>1. docs'[d] = NoText /\ docTerms'[d] = NoText
        BY <1>3 DEF Typed
      <3>2. docTerms[d] \in Text /\ docs[d] = docTerms[d] /\ docs[d] # NoText
        BY <2>0, <2>3 DEF RemoveCommit, Exact, ExactOf, Typed
      <3>3. ASSUME NEW t \in Term, NEW f \in Field PROVE p[<<t, d, f>>] = 0
        <4>1. CASE t \in T
          BY <4>1, EntryShape DEF Without
        <4>2. CASE t \notin T
          <5>1. docTerms[d][<<t, f>>] = 0
            BY <2>0, <2>3, <3>2, <4>2, TermsOfText
          <5>2. postings[<<t, d, f>>] = 0
            BY <2>0, <2>3, <3>2, <5>1 DEF Exact, ExactOf, PostingsAre
          <5>3. p[<<t, d, f>>] = postings[<<t, d, f>>]
            BY <4>2, EntryShape DEF Without
          <5> QED
            BY <5>2, <5>3
        <4> QED
          BY <4>1, <4>2
      <3>4. postings' = p
        BY <1>3
      <3> HIDE DEF p
      <3> QED
        BY <2>1, <2>3, <3>1, <3>3, <3>4 DEF ExactOf, PostingsAre
    <2> QED
      BY <2>2, <2>3
  <1>4. \/ UNCHANGED <<index, mixed>>
        \/ \E T : /\ postings' = Without(postings, d, T)
                  /\ docs' = [docs EXCEPT ![d] = NoText]
                  /\ docTerms' = [docTerms EXCEPT ![d] = NoText]
                  /\ mixed' = IF T = TermsOf(docTerms[d]) THEN mixed ELSE mixed \cup {d}
    BY DEF RemoveCommit
  <1> QED
    BY <1>2, <1>3, <1>4

\* A document that becomes pending and not mixed was neither indexed nor pending.
LEMMA AddExact ==
  ASSUME Typed, Exact, AddPending
  PROVE  Exact'
  <1>1. UNCHANGED <<postings, docs, docTerms, lost>> /\ mixed \subseteq mixed'
    BY DEF AddPending, index
  <1>2. doc \in Doc /\ text \in Text /\ text # NoText
    BY IndexAssumption DEF AddPending, Typed
  <1> SUFFICES ASSUME NEW c \in Doc \ (mixed' \cup lost') PROVE ExactOf(c)' /\ PendingOf(c)'
    BY DEF Exact
  <1>3. c \in Doc \ (mixed \cup lost)
    BY <1>1
  <1>4. ExactOf(c)'
    BY <1>1, <1>3 DEF Exact, ExactOf, PostingsAre
  <1>5. pendingPostings' = Merge(pendingPostings, PostingsOf(doc, text))
    BY DEF AddPending
  <1>6. PostingsOf(doc, text) \in [Entry -> Nat] /\ pendingPostings \in [Entry -> Nat]
    BY <1>2, PostingTypes DEF Typed
  <1>7. PostingsAre(pendingPostings, c, pendingText[c])
    BY <1>3 DEF Exact, PendingOf
  <1>8. CASE c # doc
    <2>1. pendingMeta'[c] = pendingMeta[c] /\ pendingText'[c] = pendingText[c]
      BY <1>2, <1>8 DEF AddPending, Typed
    <2>2. PostingsAre(pendingPostings', c, pendingText[c])
      BY <1>2, <1>5, <1>6, <1>7, <1>8, MergeAre, PostingsOfAre
    <2> QED
      BY <1>1, <1>3, <1>4, <2>1, <2>2 DEF Exact, PendingOf, PostingsAre
  <1>9. CASE c = doc
    <2>1. pendingMeta[c] = 0 /\ docs[c] = NoText
      BY <1>2, <1>9 DEF AddPending, Typed
    <2>2. pendingMeta'[c] = 1 /\ pendingText'[c] = text
      BY <1>2, <1>9, <2>1 DEF AddPending, Typed
    <2>3. pendingText[c] = NoText
      BY <1>3, <2>1 DEF Exact, PendingOf
    <2>4. PostingsAre(pendingPostings', c, text)
      BY <1>2, <1>5, <1>6, <1>7, <1>9, <2>3, MergeAre, PostingsOfAre
    <2> QED
      BY <1>1, <1>2, <1>4, <2>1, <2>2, <2>4 DEF PendingOf, PostingsAre
  <1> QED
    BY <1>8, <1>9

\* A flush adds the postings of the pending documents to the index.
LEMMA FlushExact ==
  ASSUME Typed, Exact, Flush
  PROVE  Exact'
  <1>1. UNCHANGED mixed
    BY DEF Flush, FlushCommit
  <1>2. CASE UNCHANGED <<index, pending, lost>>
    BY <1>1, <1>2 DEF Exact, ExactOf, PendingOf, PostingsAre, index, pending
  <1>3. CASE ~UNCHANGED <<index, pending, lost>>
    <2>0. PICK S \in SUBSET (Terms(pendingPostings) \cap Terms(postings)) :
            /\ postings' = Merge(WithoutLists(postings, S), pendingPostings)
            /\ lost' = lost \cup UNION {DocsWith(postings, t) : t \in S}
      BY <1>3 DEF Flush, FlushCommit
    <2> DEFINE p == WithoutLists(postings, S)
    <2>1. /\ docs' = [d \in Doc |-> IF d \in PendingDocs THEN pendingText[d] ELSE docs[d]]
          /\ docTerms' = [d \in Doc |-> IF d \in PendingDocs THEN pendingText[d]
                                                             ELSE docTerms[d]]
          /\ pendingPostings' = NoPostings
          /\ pendingMeta' = [d \in Doc |-> 0]
          /\ pendingText' = [d \in Doc |-> NoText]
      BY <1>3 DEF Flush, FlushCommit
    <2> SUFFICES ASSUME NEW c \in Doc \ (mixed \cup lost') PROVE ExactOf(c)' /\ PendingOf(c)'
      BY <1>1 DEF Exact
    <2>2. PendingOf(c)'
      BY <2>1, EntryShape DEF PendingOf, PostingsAre, NoPostings
    <2>3. ExactOf(c) /\ PendingOf(c)
      BY <2>0 DEF Exact
    <2>6. p \in [Entry -> Nat] /\ PostingsAre(p, c, docs[c]) /\ postings' = Merge(p, pendingPostings)
      <3>1. S \in SUBSET Term /\ \A t \in S : c \notin DocsWith(postings, t)
        BY <2>0 DEF Terms
      <3> QED
        BY <2>0, <2>3, <3>1, ListsAre, PostingTypes DEF ExactOf, Typed
    <2> HIDE DEF p
    <2>4. CASE pendingMeta[c] > 0
      <3>1. docs'[c] = pendingText[c] /\ docTerms'[c] = pendingText[c]
        BY <2>1, <2>4 DEF PendingDocs
      <3>2. docs[c] = NoText
        BY <2>3, <2>4 DEF PendingOf
      <3>3. PostingsAre(postings', c, pendingText[c])
        BY <2>3, <2>6, <3>2, MergeAre DEF PendingOf, Typed
      <3> QED
        BY <2>2, <3>1, <3>3 DEF ExactOf, PostingsAre
    <2>5. CASE ~(pendingMeta[c] > 0)
      <3>1. docs'[c] = docs[c] /\ docTerms'[c] = docTerms[c]
        BY <2>1, <2>5 DEF PendingDocs
      <3>2. pendingText[c] = NoText
        BY <2>3, <2>5 DEF PendingOf, Typed
      <3>3. PostingsAre(postings', c, docs[c])
        BY <2>3, <2>6, <3>2, MergeAre DEF PendingOf, Typed
      <3> QED
        BY <2>2, <2>3, <3>1, <3>3 DEF ExactOf, PostingsAre
    <2> QED
      BY <2>4, <2>5
  <1> QED
    BY <1>2, <1>3

\* Every step keeps the index exact.
LEMMA ExactPreserved == Typed /\ Exact /\ [Next]_vars => Exact'
  <1> SUFFICES ASSUME Typed, Exact, [Next]_vars PROVE Exact'
    OBVIOUS
  <1>1. ASSUME UNCHANGED <<index, pending, mixed, lost>> PROVE Exact'
    BY <1>1 DEF Exact, ExactOf, PendingOf, PostingsAre, index, pending
  <1>2. CASE PutDocCount \/ PutTermCount \/ UNCHANGED vars
    BY <1>1, <1>2 DEF PutDocCount, PutTermCount, vars, history
  <1>3. ASSUME NEW d \in Doc, NEW x \in Text, IndexParsed(d, x) PROVE Exact'
    BY <1>1, <1>3 DEF IndexParsed, history
  <1>4. ASSUME NEW d \in Doc, RemoveDocument(d) PROVE Exact'
    BY <1>4, RemoveExact DEF RemoveDocument
  <1>5. CASE RemoveReplaced
    BY <1>5, RemoveExact DEF RemoveReplaced, Typed
  <1>6. CASE Reopen \/ Crash
    <2>1. /\ UNCHANGED <<postings, docs, docTerms, mixed, lost>>
          /\ pendingPostings' = NoPostings
          /\ pendingMeta' = [d \in Doc |-> 0]
          /\ pendingText' = [d \in Doc |-> NoText]
      BY <1>6 DEF Reopen, Crash, Reload, index
    <2> QED
      BY <2>1, EntryShape DEF Exact, ExactOf, PendingOf, PostingsAre, NoPostings
  <1> QED
    BY <1>2, <1>3, <1>4, <1>5, <1>6, AddExact, FlushExact DEF Next

\* The index holds exactly the postings of what was last flushed of each
\* document, except for the documents IndexedExactly leaves out.
THEOREM ExactIndex == Spec => []IndexedExactly
  <1>1. Exact => IndexedExactly
    BY DEF Exact, ExactOf, PostingsAre, IndexedExactly
  <1> QED
    BY InitTyped, NextTyped, InitExact, <1>1, ExactPreserved, PTL DEF Spec

-----------------------------------------------------------------------------
(* The pending documents.                                                  *)

\* A step keeps each pending document, writes it, or is the death of the process.
LEMMA StepKeeps == Typed /\ Counted /\ [Next]_vars => PendingKeptOrFlushed
  <1> SUFFICES ASSUME Typed, Counted, [Next]_vars, NEW d \in PendingDocs
               PROVE  \/ d \in PendingDocs' /\ pendingMeta'[d] >= pendingMeta[d]
                      \/ docs'[d] = pendingText[d]
                      \/ crashes' > crashes
    BY DEF PendingKeptOrFlushed
  <1> DEFINE kept == d \in PendingDocs' /\ pendingMeta'[d] >= pendingMeta[d]
  <1>1. d \in Doc /\ pendingMeta[d] \in Nat /\ pendingMeta[d] > 0
    BY DEF PendingDocs, Typed
  <1>2. ASSUME pendingMeta'[d] = pendingMeta[d] \/ pendingMeta'[d] = pendingMeta[d] + 1
        PROVE  kept
    BY <1>1, <1>2 DEF PendingDocs
  <1>3. CASE UNCHANGED pending
    BY <1>2, <1>3 DEF pending
  <1>4. CASE AddPending
    BY <1>1, <1>2, <1>4 DEF AddPending, Typed
  <1>5. CASE Flush
    BY <1>1, <1>3, <1>5 DEF Flush, FlushCommit
  <1>6. CASE Reopen
    BY <1>6, NothingPending DEF Reopen, Counted
  <1>7. CASE Crash
    <2>1. crashes' = crashes + 1 /\ crashes \in Nat
      BY <1>7 DEF Crash, Typed
    <2> QED
      BY <2>1
  <1>8. CASE RemoveReplaced \/ \E c \in Doc : RemoveDocument(c)
    BY <1>3, <1>8 DEF RemoveReplaced, RemoveDocument, RemoveCommit
  <1>9. CASE (\E c \in Doc, x \in Text : IndexParsed(c, x)) \/ PutDocCount \/ PutTermCount
    BY <1>3, <1>9 DEF IndexParsed, PutDocCount, PutTermCount
  <1>10. CASE UNCHANGED vars
    BY <1>3, <1>10 DEF vars
  <1> QED
    BY <1>4, <1>5, <1>6, <1>7, <1>8, <1>9, <1>10 DEF Next

\* Pending documents leave the memory only for the database, in one piece, or
\* with the process.
THEOREM PendingSafe == Spec => PendingKept
  <1>1. Typed /\ Counted /\ [Next]_vars => [PendingKeptOrFlushed]_vars
    BY StepKeeps
  <1> QED
    BY InitTyped, NextTyped, InitCounting, NextCounting, InitCounted, NextCounted,
       <1>1, PTL DEF Spec, PendingKept
=============================================================================
