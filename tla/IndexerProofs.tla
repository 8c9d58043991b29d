---------------------------- MODULE IndexerProofs ----------------------------
(***************************************************************************)
(* Proofs about Indexer: a marked page is kept until the process dies,     *)
(* nothing waits between two batches unless a call has failed, and one     *)
(* fault does not make the index merge two versions of a page.  Then that  *)
(* the indexer drives the index builder only through its own steps, so     *)
(* that what IndexBuilderProofs proves holds of the composed system too.   *)
(***************************************************************************)
EXTENDS Indexer, FiniteSetTheorems, TLAPS

USE IndexerAssumption

\* The types that the proofs need, and what a page or a text is when it is used.
Typed ==
  /\ docs \in [Doc -> Text \cup {NoText}]
  /\ pendingMeta \in [Doc -> Nat]
  /\ pendingText \in [Doc -> Text \cup {NoText}]
  /\ \A d \in Doc : pendingMeta[d] > 0 => pendingText[d] \in Text
  /\ pendingCount \in Nat /\ (pendingCount = 0 => \A d \in Doc : pendingMeta[d] = 0)
  /\ doc # NoDoc => doc \in Doc /\ text \in Text
  /\ faults \in Nat /\ crashes \in Nat
  /\ rows \in [Doc -> Row]
  /\ \A d \in Doc : rows[d].status = "200" => rows[d].content \in Text
  /\ batch \in SUBSET (Doc \X Text)
  /\ step = "mark" => page \in Doc

\* While index_document runs, main() waits for it: pc and doc are those of a call
\* only when a page is about to be marked.
Calls ==
  /\ pc \in {"idle", "flush"} => doc = NoDoc
  /\ pc \in {"remove", "add"} => doc # NoDoc
  /\ doc # NoDoc => step = "mark"

Kept(d) == docs[d] # NoText \/ d \in Builder!PendingDocs \/ d = doc \/ d \in passedOver

\* MarkedIsKept, and the same of the page that is about to be marked.
KeptInv ==
  crashes = 0 =>
    /\ \A d \in Doc : rows[d].indexed => Kept(d)
    /\ step = "mark" => Kept(page)

\* The flush before a batch has written all there was.
Flushed == faults = 0 /\ step = "fetch" => Builder!PendingDocs = {}

-----------------------------------------------------------------------------
\* Initially the types hold and no call is running.
LEMMA InitTyped == Init => Typed /\ Calls
  BY DEF Init, Typed, Calls, Builder!Init, Row, NoRow

\* A mark changes nothing else in a row.
LEMMA MarkedRow ==
  ASSUME NEW r \in Row
  PROVE  LET s == [r EXCEPT !.indexed = TRUE] IN
         s \in Row /\ s.status = r.status /\ s.content = r.content
  BY DEF Row

\* The sets of reads that may fail are finite.
LEMMA ReadsFinite ==
  /\ \A p, q : \A S \in SUBSET (Builder!Terms(p) \cap Builder!Terms(q)) :
       Builder!Cardinality(S) \in Nat
  /\ \A x : \A S \in SUBSET Builder!Listings(x) :
       Builder!Cardinality(S) \in Nat /\ (Builder!Cardinality(S) = 0 => S = {})
  /\ \A S \in SUBSET {"doc_count", "term_count"} : Builder!Cardinality(S) \in Nat
  <1>1. \A S : IsFiniteSet(S) =>
          Builder!Cardinality(S) \in Nat /\ (Builder!Cardinality(S) = 0 => S = {})
    <2>1. \A S : Builder!Cardinality(S) = Cardinality(S)
      BY DEF Builder!Cardinality, Cardinality
    <2> QED
      BY <2>1, FS_CardinalityType, FS_EmptySet
  <1>2. \A p, q : \A S \in SUBSET (Builder!Terms(p) \cap Builder!Terms(q)) : IsFiniteSet(S)
    BY FS_Subset DEF Builder!Terms
  <1>3. \A x : \A S \in SUBSET Builder!Listings(x) : IsFiniteSet(S)
    <2>1. IsFiniteSet(Term \X Field)
      BY FS_Product
    <2> QED
      BY <2>1, FS_Subset DEF Builder!Listings
  <1>4. \A S \in SUBSET {"doc_count", "term_count"} : IsFiniteSet(S)
    <2>1. IsFiniteSet({"doc_count", "term_count"})
      <3>1. IsFiniteSet({} \cup {"doc_count"})
        BY FS_EmptySet, FS_AddElement
      <3>2. IsFiniteSet(({} \cup {"doc_count"}) \cup {"term_count"})
        BY <3>1, FS_AddElement
      <3>3. ({} \cup {"doc_count"}) \cup {"term_count"} = {"doc_count", "term_count"}
        OBVIOUS
      <3> QED
        BY <3>2, <3>3
    <2> QED
      BY <2>1, FS_Subset
  <1> QED
    BY <1>1, <1>2, <1>3, <1>4

\* Calls that fail are counted.
LEMMA FaultsCounted ==
  ASSUME Typed, NEW n \in Nat, Builder!Faults(n)
  PROVE  faults' \in Nat /\ faults' = faults + n
  BY DEF Typed, Builder!Faults

\* A flush writes all that is pending, or fails.
LEMMA FlushCases ==
  ASSUME Typed, Builder!FlushCommit
  PROVE  /\ UNCHANGED <<doc, text, mixed, crashes>> /\ faults' \in Nat
         /\ \/ /\ docs' = [d \in Doc |-> IF d \in Builder!PendingDocs
                                           THEN pendingText[d] ELSE docs[d]]
               /\ pendingMeta' = [d \in Doc |-> 0]
               /\ pendingText' = [d \in Doc |-> NoText]
               /\ pendingCount' = 0
               /\ pc' = "putDocCount"
               /\ faults' >= faults
            \/ /\ UNCHANGED <<docs, pendingMeta, pendingText, pendingCount>>
               /\ pc' = "idle"
               /\ faults' > faults
  <1> DEFINE n(S) == Builder!Cardinality(S)
  <1>1. PICK S \in SUBSET (Builder!Terms(pendingPostings) \cap Builder!Terms(postings)) :
          \/ /\ Builder!Faults(n(S))
             /\ docs' = [d \in Doc |-> IF d \in Builder!PendingDocs
                                         THEN pendingText[d] ELSE docs[d]]
             /\ pendingMeta' = [d \in Doc |-> 0]
             /\ pendingText' = [d \in Doc |-> NoText]
             /\ pendingCount' = 0
             /\ pc' = "putDocCount"
          \/ /\ Builder!Faults(n(S) + 1)
             /\ UNCHANGED <<docs, pendingMeta, pendingText, pendingCount>>
             /\ pc' = "idle"
    BY DEF Builder!FlushCommit, Builder!index, Builder!pending
  <1>2. n(S) \in Nat
    BY ReadsFinite
  <1> HIDE DEF n
  <1>3. n(S) + 1 \in Nat
    BY <1>2
  <1>4. UNCHANGED <<doc, text, mixed, crashes>>
    BY DEF Builder!FlushCommit
  <1>5. faults \in Nat
    BY DEF Typed
  <1>6. CASE Builder!Faults(n(S))
    <2>1. faults' \in Nat /\ faults' = faults + n(S)
      BY <1>2, <1>6, FaultsCounted
    <2> QED
      BY <1>1, <1>2, <1>4, <1>5, <2>1 DEF Builder!Faults
  <1>7. CASE Builder!Faults(n(S) + 1)
    <2>1. faults' \in Nat /\ faults' = faults + (n(S) + 1)
      BY <1>3, <1>7, FaultsCounted
    <2> QED
      BY <1>1, <1>2, <1>4, <1>5, <2>1 DEF Builder!Faults
  <1> QED
    BY <1>1, <1>6, <1>7

\* A flush keeps the types, and the documents that were pending are written.
LEMMA FlushDone ==
  ASSUME Typed, Builder!FlushCommit
  PROVE  /\ docs' \in [Doc -> Text \cup {NoText}]
         /\ pendingMeta' \in [Doc -> Nat]
         /\ pendingText' \in [Doc -> Text \cup {NoText}]
         /\ \A d \in Doc : pendingMeta'[d] > 0 => pendingText'[d] \in Text
         /\ pendingCount' \in Nat /\ (pendingCount' = 0 => \A d \in Doc : pendingMeta'[d] = 0)
         /\ faults' \in Nat
         /\ \A d \in Doc : docs[d] # NoText \/ d \in Builder!PendingDocs =>
              docs'[d] # NoText \/ d \in Builder!PendingDocs'
         /\ faults' = 0 => Builder!PendingDocs' = {}
         /\ UNCHANGED <<doc, text, crashes>>
         /\ pc' \in {"putDocCount", "idle"}
  <1>1. CASE /\ UNCHANGED <<docs, pendingMeta, pendingText, pendingCount>>
             /\ pc' = "idle" /\ faults' > faults
    BY <1>1, FlushCases DEF Typed, Builder!PendingDocs
  <1>2. CASE /\ docs' = [d \in Doc |-> IF d \in Builder!PendingDocs
                                         THEN pendingText[d] ELSE docs[d]]
             /\ pendingMeta' = [d \in Doc |-> 0]
             /\ pendingText' = [d \in Doc |-> NoText]
             /\ pendingCount' = 0
             /\ pc' = "putDocCount"
    BY <1>2, FlushCases DEF Typed, Builder!PendingDocs
  <1> QED
    BY <1>1, <1>2, FlushCases

\* The removal in index_parsed: when nothing fails the document is removed whole.
LEMMA RemoveDone ==
  ASSUME Typed, Calls, Builder!RemoveReplaced
  PROVE  /\ UNCHANGED <<pendingMeta, pendingText, pendingCount, doc, text, crashes>>
         /\ pc = "remove" /\ pc' \in {"add", "putDocCount"} /\ doc \in Doc
         /\ faults' \in Nat /\ faults' >= faults
         /\ \/ docs' = [docs EXCEPT ![doc] = NoText] /\ UNCHANGED <<faults, mixed>>
            \/ docs' \in {docs, [docs EXCEPT ![doc] = NoText]} /\ faults' > faults
  <1> DEFINE n(S) == Builder!Cardinality(S)
             whole == Builder!TermsOf(docTerms[doc])
             T(S) == {e[1] : e \in Builder!Listings(docTerms[doc]) \ S}
  <1>1. /\ UNCHANGED <<pendingMeta, pendingText, pendingCount, doc, text, crashes>>
        /\ pc = "remove"
    BY DEF Builder!RemoveReplaced, Builder!RemoveCommit, Builder!pending
  <1>2. doc \in Doc /\ doc # NoDoc /\ faults \in Nat
    BY <1>1 DEF Typed, Calls
  <1>3. pc' \in {"add", "putDocCount"}
    BY <1>2 DEF Builder!RemoveReplaced, Builder!RemoveCommit, Builder!Return
  <1>4. \/ Builder!Faults(1) /\ UNCHANGED docs
        \/ \E S \in SUBSET Builder!Listings(docTerms[doc]) :
             \/ /\ Builder!Faults(n(S))
                /\ docs' = [docs EXCEPT ![doc] = NoText]
                /\ T(S) = whole => UNCHANGED mixed
             \/ Builder!Faults(n(S) + 1) /\ UNCHANGED docs
    BY DEF Builder!RemoveReplaced, Builder!RemoveCommit, Builder!index, Builder!Fault
  <1>5. T({}) = whole
    BY DEF Builder!TermsOf
  <1> HIDE DEF n, T, whole
  <1>6. CASE Builder!Faults(1) /\ UNCHANGED docs
    <2>1. faults' \in Nat /\ faults' = faults + 1
      BY <1>6, FaultsCounted
    <2> QED
      BY <1>1, <1>2, <1>3, <1>6, <2>1
  <1>7. ASSUME NEW S \in SUBSET Builder!Listings(docTerms[doc]),
               \/ /\ Builder!Faults(n(S))
                  /\ docs' = [docs EXCEPT ![doc] = NoText]
                  /\ T(S) = whole => UNCHANGED mixed
               \/ Builder!Faults(n(S) + 1) /\ UNCHANGED docs
        PROVE  /\ faults' \in Nat /\ faults' >= faults
               /\ \/ docs' = [docs EXCEPT ![doc] = NoText] /\ UNCHANGED <<faults, mixed>>
                  \/ docs' \in {docs, [docs EXCEPT ![doc] = NoText]} /\ faults' > faults
    <2>1. n(S) \in Nat /\ n(S) + 1 \in Nat /\ (n(S) = 0 => S = {})
      BY ReadsFinite DEF n
    <2>2. CASE /\ Builder!Faults(n(S))
               /\ docs' = [docs EXCEPT ![doc] = NoText]
               /\ T(S) = whole => UNCHANGED mixed
      <3>1. faults' \in Nat /\ faults' = faults + n(S)
        BY <2>1, <2>2, FaultsCounted
      <3>2. CASE n(S) = 0
        <4>1. S = {}
          BY <2>1, <3>2
        <4>2. UNCHANGED mixed
          BY <1>5, <2>2, <4>1
        <4> QED
          BY <1>2, <2>2, <3>1, <3>2, <4>2
      <3>3. CASE n(S) > 0
        BY <1>2, <2>1, <2>2, <3>1, <3>3
      <3> QED
        BY <2>1, <3>2, <3>3
    <2>3. CASE Builder!Faults(n(S) + 1) /\ UNCHANGED docs
      <3>1. faults' \in Nat /\ faults' = faults + (n(S) + 1)
        BY <2>1, <2>3, FaultsCounted
      <3> QED
        BY <1>2, <2>1, <2>3, <3>1
    <2> QED
      BY <1>7, <2>2, <2>3
  <1> QED
    BY <1>1, <1>2, <1>3, <1>4, <1>6, <1>7

\* save_statistics touches nothing else.
LEMMA PutDone ==
  ASSUME Typed, Builder!PutDocCount \/ Builder!PutTermCount
  PROVE  /\ UNCHANGED <<docs, pendingMeta, pendingText, pendingCount, doc, text, mixed,
                        crashes>>
         /\ pc \in {"putDocCount", "putTermCount"}
         /\ pc' = "putTermCount" \/ Builder!Return
         /\ faults' \in Nat /\ faults' >= faults
  BY DEF Typed, Builder!PutDocCount, Builder!PutTermCount, Builder!index, Builder!pending,
    Builder!history, Builder!Fault, Builder!Faults

\* A process starts with nothing in memory.
LEMMA ReloadDone ==
  ASSUME Typed, Builder!Reload
  PROVE  /\ UNCHANGED <<docs, mixed>> /\ faults' \in Nat /\ faults' >= faults
         /\ pendingMeta' = [d \in Doc |-> 0] /\ pendingText' = [d \in Doc |-> NoText]
         /\ pendingCount' = 0 /\ Builder!PendingDocs' = {}
         /\ pc' = "idle" /\ doc' = NoDoc /\ text' = NoText
  <1>1. PICK S \in SUBSET {"doc_count", "term_count"} : Builder!Faults(Builder!Cardinality(S))
    BY DEF Builder!Reload
  <1>2. Builder!Cardinality(S) \in Nat
    BY ReadsFinite
  <1>3. faults' \in Nat /\ faults' >= faults
    <2>1. faults' \in Nat /\ faults' = faults + Builder!Cardinality(S)
      BY <1>1, <1>2, FaultsCounted
    <2> QED
      BY <1>2, <2>1 DEF Typed
  <1>4. /\ pendingMeta' = [d \in Doc |-> 0] /\ pendingText' = [d \in Doc |-> NoText]
        /\ pendingCount' = 0
        /\ pc' = "idle" /\ doc' = NoDoc /\ text' = NoText
        /\ UNCHANGED <<docs, mixed>>
    BY DEF Builder!Reload, Builder!index
  <1> QED
    BY <1>3, <1>4 DEF Builder!PendingDocs

\* The types after a step of index_document.
LEMMA BuilderTyped ==
  ASSUME Typed, Calls, BuilderStep
  PROVE  Typed' /\ Calls'
  <1>1. UNCHANGED <<rows, batch, page, step>>
    BY DEF BuilderStep, main
  <1>2. CASE Builder!RemoveReplaced
    BY <1>1, <1>2, RemoveDone DEF Typed, Calls
  <1>3. CASE Builder!AddPending
    BY <1>1, <1>3 DEF Typed, Calls, Builder!AddPending, Builder!index, Builder!bounds
  <1>4. CASE pc = "flush" /\ Builder!FlushCommit
    BY <1>1, <1>4, FlushDone DEF Typed, Calls
  <1>5. CASE Builder!PutDocCount \/ Builder!PutTermCount
    BY <1>1, <1>5, PutDone DEF Typed, Calls, Builder!Return
  <1> QED
    BY <1>2, <1>3, <1>4, <1>5 DEF BuilderStep

\* A step of index_document keeps the pages: it removes only the one that it
\* adds again.
LEMMA BuilderKept ==
  ASSUME Typed, Calls, KeptInv, BuilderStep
  PROVE  KeptInv'
  <1>1. UNCHANGED <<rows, page, step, passedOver, crashes>>
    BY DEF BuilderStep, main, Builder!RemoveReplaced, Builder!RemoveCommit,
      Builder!AddPending, Builder!FlushCommit, Builder!PutDocCount,
      Builder!PutTermCount, Builder!bounds
  <1> SUFFICES \A d \in Doc : Kept(d) => Kept(d)'
    BY <1>1 DEF KeptInv, Typed
  <1> TAKE d \in Doc
  <1> HAVE Kept(d)
  <1>2. CASE Builder!RemoveReplaced
    BY <1>1, <1>2, RemoveDone DEF Typed, Kept, Builder!PendingDocs
  <1>3. CASE Builder!AddPending
    BY <1>1, <1>3 DEF Typed, Kept, Builder!AddPending, Builder!index, Builder!PendingDocs
  <1>4. CASE pc = "flush" /\ Builder!FlushCommit
    BY <1>1, <1>4, FlushDone DEF Kept
  <1>5. CASE Builder!PutDocCount \/ Builder!PutTermCount
    BY <1>1, <1>5, PutDone DEF Kept, Builder!PendingDocs
  <1> QED
    BY <1>2, <1>3, <1>4, <1>5 DEF BuilderStep

\* flush() as main() calls it.
LEMMA FlushPendingDone ==
  ASSUME Typed, Calls, FlushPending
  PROVE  /\ docs' \in [Doc -> Text \cup {NoText}]
         /\ pendingMeta' \in [Doc -> Nat]
         /\ pendingText' \in [Doc -> Text \cup {NoText}]
         /\ \A d \in Doc : pendingMeta'[d] > 0 => pendingText'[d] \in Text
         /\ pendingCount' \in Nat /\ (pendingCount' = 0 => \A d \in Doc : pendingMeta'[d] = 0)
         /\ faults' \in Nat
         /\ \A d \in Doc : docs[d] # NoText \/ d \in Builder!PendingDocs =>
              docs'[d] # NoText \/ d \in Builder!PendingDocs'
         /\ faults' = 0 => Builder!PendingDocs' = {}
         /\ UNCHANGED <<doc, text, crashes>>
         /\ pc' \in {"putDocCount", "idle"}
         /\ doc = NoDoc
  <1>1. pc = "idle" /\ doc = NoDoc
    BY DEF FlushPending, Returned, Calls
  <1>2. CASE Builder!FlushCommit
    BY <1>1, <1>2, FlushDone
  <1>3. CASE pendingCount = 0 /\ UNCHANGED builder
    BY <1>1, <1>3 DEF Typed, builder, builderButFaults, Builder!PendingDocs
  <1> QED
    BY <1>2, <1>3 DEF FlushPending

-----------------------------------------------------------------------------
\* Every step keeps the types.
LEMMA NextTyped == Typed /\ Calls /\ [Next]_vars => Typed' /\ Calls'
  <1> SUFFICES ASSUME Typed, Calls, [Next]_vars PROVE Typed' /\ Calls'
    OBVIOUS
  <1>1. CASE FetchBatch
    <2>1. UNCHANGED builderButFaults /\ UNCHANGED <<rows, page>>
      BY <1>1 DEF FetchBatch
    <2>2. faults' \in Nat
      BY <1>1 DEF FetchBatch, Fault, Typed
    <2>3. batch' \in SUBSET (Doc \X Text)
      <3>1. CASE UNCHANGED batch
        BY <3>1 DEF Typed
      <3>2. CASE \E S \in SUBSET Waiting : batch' = {<<d, rows[d].content>> : d \in S}
        BY <3>2 DEF Waiting, Typed
      <3> QED
        BY <1>1, <3>1, <3>2 DEF FetchBatch
    <2>4. doc = NoDoc /\ step' # "mark"
      BY <1>1 DEF FetchBatch, Returned, Calls
    <2> QED
      BY <2>1, <2>2, <2>3, <2>4 DEF Typed, Calls, builderButFaults
  <1>2. CASE LeaveLoop \/ EndBatch
    BY <1>2 DEF LeaveLoop, EndBatch, Returned, Typed, Calls, builder, builderButFaults
  <1>3. CASE PassOver
    BY <1>3 DEF PassOver, Fault, Returned, Typed, Calls, builderButFaults
  <1>4. CASE IndexDocument
    BY <1>4 DEF IndexDocument, Builder!IndexParsed, Typed, Calls, Builder!index,
      Builder!pending, Builder!Fault, Builder!Faults
  <1>5. CASE MarkPage
    <2>1. /\ UNCHANGED <<builderButFaults, batch>>
          /\ doc = NoDoc /\ page \in Doc /\ step' = "page"
      BY <1>5 DEF MarkPage, Returned, Typed, Calls
    <2>2. faults' \in Nat
      BY <1>5 DEF MarkPage, MarkPageIndexed, Fault, Typed
    <2>3. rows' = rows \/ rows' = [rows EXCEPT ![page].indexed = TRUE]
      BY <1>5 DEF MarkPage, MarkPageIndexed
    <2>4. /\ rows' \in [Doc -> Row]
          /\ \A d \in Doc : rows'[d].status = "200" => rows'[d].content \in Text
      <3>1. CASE rows' = rows
        BY <3>1 DEF Typed
      <3>2. CASE rows' = [rows EXCEPT ![page].indexed = TRUE]
        <4> DEFINE s == [rows[page] EXCEPT !.indexed = TRUE]
        <4>1. s \in Row /\ s.status = rows[page].status /\ s.content = rows[page].content
          BY <2>1, MarkedRow DEF Typed
        <4>2. rows' = [rows EXCEPT ![page] = s]
          BY <3>2
        <4> HIDE DEF s
        <4> QED
          BY <2>1, <4>1, <4>2 DEF Typed
      <3> QED
        BY <2>3, <3>1, <3>2
    <2> QED
      BY <2>1, <2>2, <2>4 DEF Typed, Calls, builderButFaults
  <1>6. CASE FlushBatch \/ FinalFlush \/ Destroy
    BY <1>6, FlushPendingDone DEF FlushBatch, FinalFlush, Destroy, Typed, Calls
  <1>7. CASE BuilderStep
    BY <1>7, BuilderTyped
  <1>8. ASSUME NEW d \in Doc, Crawl(d) PROVE Typed' /\ Calls'
    <2>1. UNCHANGED <<builderButFaults, faults, batch, page, step>>
      BY <1>8 DEF Crawl, builder, main
    <2>2. rows[d] \in Row
      BY DEF Typed
    <2>3. PICK x \in Text \cup {NoText} :
            rows' = [rows EXCEPT ![d] = [status |-> IF x = NoText THEN "0" ELSE "200",
                                         content |-> x, indexed |-> @.indexed]]
      BY <1>8 DEF Crawl
    <2>4. /\ rows' \in [Doc -> Row]
          /\ \A c \in Doc : rows'[c].status = "200" => rows'[c].content \in Text
      BY <2>2, <2>3 DEF Typed, Row
    <2> QED
      BY <2>1, <2>4 DEF Typed, Calls, builderButFaults
  <1>9. CASE Signal \/ UNCHANGED vars
    BY <1>9 DEF Signal, vars, Typed, Calls, builder, builderButFaults, main
  <1>10. CASE Start \/ Crash
    <2>1. /\ Builder!Reload /\ crashes' \in Nat
          /\ step' = "fetch" /\ batch' = {} /\ UNCHANGED rows
      BY <1>10 DEF Start, Crash, Restarted, Builder!Reopen, Builder!Crash, Typed
    <2> QED
      BY <2>1, ReloadDone DEF Typed, Calls
  <1> QED
    BY <1>1, <1>2, <1>3, <1>4, <1>5, <1>6, <1>7, <1>8, <1>9, <1>10 DEF Next, Main

\* Every step keeps the marked pages.
LEMMA KeptPreserved == Typed /\ Calls /\ KeptInv /\ [Next]_vars => KeptInv'
  <1> SUFFICES ASSUME Typed, Calls, KeptInv, [Next]_vars PROVE KeptInv'
    OBVIOUS
  <1> DEFINE sameIndex == UNCHANGED <<docs, pendingMeta, doc, crashes>>
  <1>1. ASSUME sameIndex, UNCHANGED passedOver
        PROVE  \A d \in Doc : Kept(d) => Kept(d)'
    BY <1>1 DEF Kept, Builder!PendingDocs
  <1>2. CASE FetchBatch \/ LeaveLoop \/ EndBatch \/ Signal \/ UNCHANGED vars
    <2>1. sameIndex /\ UNCHANGED <<rows, page, passedOver>> /\ (step' = "mark" => step = "mark")
      BY <1>2 DEF FetchBatch, LeaveLoop, EndBatch, Signal, vars, main, builder, builderButFaults
    <2> QED
      BY <2>1, <1>1 DEF KeptInv, Typed
  <1>3. CASE PassOver
    <2>1. sameIndex /\ UNCHANGED rows
      BY <1>3 DEF PassOver, builderButFaults
    <2>2. passedOver' = passedOver \cup {page'}
      BY <1>3 DEF PassOver
    <2> QED
      BY <2>1, <2>2 DEF KeptInv, Kept, Builder!PendingDocs
  <1>4. CASE IndexDocument
    <2>1. UNCHANGED <<docs, pendingMeta, crashes, rows, passedOver>> /\ doc' = page'
      BY <1>4 DEF IndexDocument, Builder!IndexParsed, Builder!index, Builder!pending
    <2>2. doc = NoDoc
      BY <1>4 DEF IndexDocument, Builder!IndexParsed, Calls
    <2> QED
      BY <2>1, <2>2 DEF KeptInv, Kept, Builder!PendingDocs
  <1>5. CASE MarkPage
    <2>1. sameIndex /\ UNCHANGED passedOver /\ step' = "page" /\ step = "mark"
      BY <1>5 DEF MarkPage, builderButFaults
    <2>2. \A d \in Doc : rows'[d].indexed => rows[d].indexed \/ d = page
      BY <1>5 DEF MarkPage, MarkPageIndexed, Typed, Row
    <2> QED
      BY <2>1, <2>2, <1>1 DEF KeptInv, Typed
  <1>6. CASE FlushBatch \/ FinalFlush \/ Destroy
    <2>1. UNCHANGED <<rows, passedOver>> /\ step' # "mark" /\ FlushPending
      BY <1>6 DEF FlushBatch, FinalFlush, Destroy
    <2> QED
      BY <2>1, FlushPendingDone DEF KeptInv, Kept
  <1>7. CASE BuilderStep
    BY <1>7, BuilderKept
  <1>8. ASSUME NEW d \in Doc, Crawl(d) PROVE KeptInv'
    <2>1. sameIndex /\ UNCHANGED <<page, step, passedOver>>
      BY <1>8 DEF Crawl, builder, builderButFaults, main
    <2>2. \A c \in Doc : rows'[c].indexed = rows[c].indexed
      BY <1>8 DEF Crawl, Typed, Row
    <2> QED
      BY <2>1, <2>2, <1>1 DEF KeptInv, Typed
  <1>9. CASE Start
    <2>1. UNCHANGED <<docs, crashes, rows, passedOver>> /\ Builder!PendingDocs = {} /\ doc = NoDoc
      BY <1>9, ReloadDone DEF Start, Restarted, Builder!Reopen, Calls, Builder!PendingDocs, Typed
    <2>2. step' = "fetch"
      BY <1>9 DEF Start, Restarted
    <2> QED
      BY <2>1, <2>2 DEF KeptInv, Kept
  <1>10. CASE Crash
    <2>1. crashes' # 0
      BY <1>10 DEF Crash, Builder!Crash, Typed
    <2> QED
      BY <2>1 DEF KeptInv
  <1> QED
    BY <1>2, <1>3, <1>4, <1>5, <1>6, <1>7, <1>8, <1>9, <1>10 DEF Next, Main

\* A page that is marked as indexed and was readable is in the index, or in
\* memory to be written, as long as the process has not died.
THEOREM MarkedKept == Spec => []MarkedIsKept
  <1>1. Init => KeptInv
    BY DEF Init, KeptInv, NoRow
  <1>2. KeptInv => MarkedIsKept
    BY DEF KeptInv, Kept, MarkedIsKept
  <1> QED
    BY InitTyped, NextTyped, <1>1, <1>2, KeptPreserved, PTL DEF Spec

-----------------------------------------------------------------------------
\* Every step keeps Flushed: pages are added only while one is being marked, and
\* every batch ends with a flush.
LEMMA FlushedPreserved == Typed /\ Calls /\ Flushed /\ [Next]_vars => Flushed'
  <1> SUFFICES ASSUME Typed, Calls, Flushed, [Next]_vars, faults' = 0, step' = "fetch"
               PROVE  Builder!PendingDocs' = {}
    BY DEF Flushed
  <1>1. ASSUME UNCHANGED <<pendingMeta, step>>, faults = 0 PROVE Builder!PendingDocs' = {}
    BY <1>1 DEF Flushed, Builder!PendingDocs
  <1>2. CASE FetchBatch
    BY <1>1, <1>2 DEF FetchBatch, Fault, Typed, builderButFaults
  <1>3. CASE LeaveLoop \/ PassOver \/ IndexDocument \/ MarkPage \/ EndBatch
    BY <1>3 DEF LeaveLoop, PassOver, IndexDocument, MarkPage, EndBatch
  <1>4. CASE FlushBatch \/ FinalFlush \/ Destroy
    BY <1>4, FlushPendingDone DEF FlushBatch, FinalFlush, Destroy
  <1>5. CASE BuilderStep
    <2>1. step = "fetch"
      BY <1>5 DEF BuilderStep, main
    <2>2. doc = NoDoc /\ pc \notin {"remove", "add"}
      BY <2>1 DEF Calls
    <2>3. CASE pc = "flush" /\ Builder!FlushCommit
      BY <2>3, FlushDone
    <2>4. CASE Builder!PutDocCount \/ Builder!PutTermCount
      BY <1>1, <1>5, <2>4, PutDone DEF BuilderStep, main, Typed
    <2> QED
      BY <1>5, <2>2, <2>3, <2>4 DEF BuilderStep, Builder!RemoveReplaced, Builder!AddPending
  <1>6. CASE (\E d \in Doc : Crawl(d)) \/ Signal \/ UNCHANGED vars
    BY <1>1, <1>6 DEF Crawl, Signal, vars, builder, builderButFaults, main
  <1>7. CASE Start \/ Crash
    BY <1>7, ReloadDone DEF Start, Crash, Builder!Reopen, Builder!Crash
  <1> QED
    BY <1>2, <1>3, <1>4, <1>5, <1>6, <1>7 DEF Next, Main

\* Between two batches nothing waits in memory unless a write has failed.
THEOREM NothingWaits == Spec => []NothingWaitsIdle
  <1>1. Init => Flushed
    BY DEF Init, Flushed, Builder!Init, Builder!PendingDocs
  <1>2. Typed /\ Flushed => NothingWaitsIdle
    BY DEF Typed, Flushed, NothingWaitsIdle
  <1> QED
    BY InitTyped, NextTyped, <1>1, <1>2, FlushedPreserved, PTL DEF Spec

-----------------------------------------------------------------------------
(* One fault does not make the indexer merge two versions of a page.       *)

\* A batch has each page once, none of them marked or being marked.
Batch ==
  /\ \A p \in batch : ~rows[p[1]].indexed /\ (step = "mark" => p[1] # page)
  /\ \A p, q \in batch : p[1] = q[1] => p = q
  /\ doc # NoDoc => doc = page

MarkedOrNext(d) == rows[d].indexed \/ (step = "mark" /\ d = page)

\* Without a fault the pages that the index builder has are marked.
NoFault ==
  faults + crashes = 0 =>
    /\ pc # "remove"
    /\ \A d \in Doc : docs[d] # NoText \/ d \in Builder!PendingDocs => MarkedOrNext(d)

\* With one, a page that is pending and not marked is out of the batch, and is
\* written before the next batch; a page that is added is nowhere else.
OneFault ==
  faults + crashes <= 1 =>
    /\ mixed = {}
    /\ doc # NoDoc => doc \notin Builder!PendingDocs /\ (pc # "remove" => docs[doc] = NoText)
    /\ \A d \in Builder!PendingDocs :
         \/ MarkedOrNext(d)
         \/ step \in {"page", "mark", "flush"} /\ \A p \in batch : p[1] # d

IInv == Typed /\ Calls /\ Batch /\ NoFault /\ OneFault

\* Faults never become fewer, and the step in which a call fails leaves one at least.
LEMMA MoreFaults ==
  ASSUME IInv, faults' \in Nat, faults' >= faults, UNCHANGED crashes
  PROVE  /\ faults' + crashes' = 0 => faults + crashes = 0
         /\ faults' + crashes' <= 1 => faults + crashes <= 1
         /\ faults' > faults =>
              faults' + crashes' # 0 /\ (faults' + crashes' <= 1 => faults + crashes = 0)
  <1>1. \A f, g, c \in Nat : g >= f =>
          /\ g + c = 0 => f + c = 0
          /\ g + c <= 1 => f + c <= 1
          /\ g > f => g + c # 0 /\ (g + c <= 1 => f + c = 0)
    BY SMT
  <1>2. faults \in Nat /\ crashes \in Nat /\ faults' \in Nat
    BY DEF IInv, Typed
  <1>3. crashes' = crashes
    OBVIOUS
  <1>4. /\ faults' + crashes = 0 => faults + crashes = 0
        /\ faults' + crashes <= 1 => faults + crashes <= 1
        /\ faults' > faults =>
             faults' + crashes # 0 /\ (faults' + crashes <= 1 => faults + crashes = 0)
    BY <1>1, <1>2, Zenon
  <1> QED
    BY <1>3, <1>4, Zenon

\* A batch consists of unmarked pages.
LEMMA FetchOne ==
  ASSUME IInv, FetchBatch
  PROVE  Batch' /\ NoFault' /\ OneFault'
  <1>1. /\ UNCHANGED <<docs, pendingMeta, pc, doc, mixed, rows, page, crashes>>
        /\ step = "fetch" /\ step' # "mark" /\ doc = NoDoc
    BY DEF FetchBatch, builderButFaults, IInv, Calls, Returned
  <1>2. /\ faults' + crashes' = 0 => faults + crashes = 0
        /\ faults' + crashes' <= 1 => faults + crashes <= 1
    BY <1>1 DEF FetchBatch, Fault, IInv, Typed
  <1>3. Builder!PendingDocs' = Builder!PendingDocs
    BY <1>1 DEF Builder!PendingDocs
  <1>4. Batch'
    <2>1. CASE UNCHANGED batch
      BY <1>1, <2>1 DEF IInv, Batch
    <2>2. CASE \E S \in SUBSET Waiting : batch' = {<<d, rows[d].content>> : d \in S}
      BY <1>1, <2>2 DEF Waiting, Batch
    <2> QED
      BY <2>1, <2>2 DEF FetchBatch
  <1>5. NoFault'
    BY <1>1, <1>2, <1>3 DEF IInv, NoFault, MarkedOrNext
  <1>6. OneFault'
    BY <1>1, <1>2, <1>3 DEF IInv, OneFault, MarkedOrNext
  <1> QED
    BY <1>4, <1>5, <1>6

\* The steps that end a batch, or the loop, touch neither the rows nor the index.
LEMMA LeaveOne ==
  ASSUME IInv, LeaveLoop \/ EndBatch \/ Signal \/ UNCHANGED vars
  PROVE  Batch' /\ NoFault' /\ OneFault'
  <1>1. /\ UNCHANGED <<docs, pendingMeta, pc, doc, mixed, rows, page, crashes, faults>>
        /\ batch' \subseteq batch
        /\ step' = "mark" => step = "mark"
        /\ step = "mark" => step' = "mark"
    BY DEF LeaveLoop, EndBatch, Signal, vars, builder, builderButFaults, main
  <1>2. step \in {"page", "mark", "flush"} => step' \in {"page", "mark", "flush"}
    BY DEF LeaveLoop, EndBatch, Signal, vars, main
  <1>3. Builder!PendingDocs' = Builder!PendingDocs
    BY <1>1 DEF Builder!PendingDocs
  <1> QED
    BY <1>1, <1>2, <1>3 DEF IInv, Batch, NoFault, OneFault, MarkedOrNext

\* The page that is passed over leaves the batch.
LEMMA PassOne ==
  ASSUME IInv, PassOver
  PROVE  Batch' /\ NoFault' /\ OneFault'
  <1>1. /\ UNCHANGED <<docs, pendingMeta, pc, doc, mixed, rows, crashes>>
        /\ step = "page" /\ step' = "mark" /\ doc = NoDoc
    BY DEF PassOver, builderButFaults, IInv, Calls, Returned
  <1>2. /\ faults' + crashes' = 0 => faults + crashes = 0
        /\ faults' + crashes' <= 1 => faults + crashes <= 1
    BY <1>1 DEF PassOver, Fault, IInv, Typed
  <1>3. PICK p \in batch : batch' = batch \ {p} /\ page' = p[1]
    BY DEF PassOver
  <1>4. Builder!PendingDocs' = Builder!PendingDocs
    BY <1>1 DEF Builder!PendingDocs
  <1> QED
    BY <1>1, <1>2, <1>3, <1>4 DEF IInv, Batch, NoFault, OneFault, MarkedOrNext

\* The page that is indexed leaves the batch; it is not pending, and in the index
\* only after a fault.
LEMMA IndexOne ==
  ASSUME IInv, IndexDocument
  PROVE  Batch' /\ NoFault' /\ OneFault'
  <1>1. PICK p \in batch :
          /\ Builder!IndexParsed(p[1], p[2])
          /\ batch' = batch \ {p} /\ page' = p[1]
    BY DEF IndexDocument
  <1>2. /\ UNCHANGED <<docs, pendingMeta, mixed, rows, crashes>>
        /\ step = "page" /\ step' = "mark" /\ doc = NoDoc /\ doc' = p[1]
        /\ pc' \in {"remove", "add"} /\ (pc' = "remove" => docs[p[1]] # NoText)
        /\ \/ UNCHANGED faults /\ (pc' = "add" => docs[p[1]] = NoText)
           \/ docs[p[1]] # NoText /\ faults' = faults + 1
    BY <1>1 DEF IndexDocument, Builder!IndexParsed, Builder!index, Builder!pending,
      Builder!history, Builder!Fault, Builder!Faults, IInv, Calls
  <1>3. p[1] \in Doc /\ ~rows[p[1]].indexed /\ faults \in Nat /\ crashes \in Nat
    BY DEF IInv, Typed, Batch
  <1>4. Builder!PendingDocs' = Builder!PendingDocs /\ Builder!PendingDocs \subseteq Doc
    BY <1>2 DEF Builder!PendingDocs
  <1>5. Batch'
    BY <1>1, <1>2 DEF IInv, Batch
  <1>6. docs[p[1]] # NoText => faults + crashes > 0
    BY <1>2, <1>3 DEF IInv, NoFault, MarkedOrNext
  <1>7. NoFault'
    BY <1>1, <1>2, <1>3, <1>4, <1>6 DEF IInv, NoFault, MarkedOrNext
  <1>8. OneFault'
    <2>1. faults + crashes <= 1 => p[1] \notin Builder!PendingDocs
      BY <1>2, <1>3 DEF IInv, OneFault, MarkedOrNext
    <2>2. faults' + crashes' <= 1 =>
            UNCHANGED faults /\ (pc' # "remove" => docs[p[1]] = NoText)
      BY <1>2, <1>3, <1>6
    <2> QED
      BY <1>1, <1>2, <1>4, <2>1, <2>2 DEF IInv, OneFault, MarkedOrNext
  <1> QED
    BY <1>5, <1>7, <1>8

\* A page whose mark fails is out of the batch.
LEMMA MarkOne ==
  ASSUME IInv, MarkPage
  PROVE  Batch' /\ NoFault' /\ OneFault'
  <1>1. /\ UNCHANGED <<docs, pendingMeta, pc, doc, mixed, batch, crashes>>
        /\ step = "mark" /\ step' = "page" /\ doc = NoDoc /\ page \in Doc
    BY DEF MarkPage, builderButFaults, IInv, Calls, Returned, Typed
  <1>2. Builder!PendingDocs' = Builder!PendingDocs /\ Builder!PendingDocs \subseteq Doc
    BY <1>1 DEF Builder!PendingDocs
  <1>3. \A p \in batch : p[1] \in Doc /\ p[1] # page
    BY <1>1 DEF IInv, Typed, Batch
  <1>4. CASE rows' = [rows EXCEPT ![page].indexed = TRUE] /\ UNCHANGED faults
    <2>1. rows'[page].indexed /\ \A d \in Doc \ {page} : rows'[d] = rows[d]
      BY <1>1, <1>4 DEF IInv, Typed, Row
    <2>2. \A d \in Doc : MarkedOrNext(d) => MarkedOrNext(d)'
      BY <1>1, <2>1 DEF MarkedOrNext
    <2>3. Batch'
      BY <1>1, <1>3, <2>1 DEF IInv, Batch
    <2>4. NoFault' /\ OneFault'
      BY <1>1, <1>2, <1>4, <2>2 DEF IInv, NoFault, OneFault
    <2> QED
      BY <2>3, <2>4
  <1>5. CASE Fault /\ UNCHANGED rows
    <2>1. faults' = faults + 1 /\ faults \in Nat /\ crashes \in Nat
      BY <1>5 DEF Fault, IInv, Typed
    <2>2. Batch' /\ NoFault'
      BY <1>1, <1>3, <1>5, <2>1 DEF IInv, Batch, NoFault
    <2>3. OneFault'
      BY <1>1, <1>2, <1>3, <1>5, <2>1 DEF IInv, NoFault, OneFault, MarkedOrNext
    <2> QED
      BY <2>2, <2>3
  <1> QED
    BY <1>4, <1>5 DEF MarkPage, MarkPageIndexed

\* What a flush does: it writes all that is pending, or fails.
LEMMA FlushWritesOrFails ==
  ASSUME IInv, Builder!FlushCommit
  PROVE  /\ UNCHANGED <<doc, mixed, crashes>> /\ pc' \in {"putDocCount", "idle"}
         /\ faults' \in Nat
         /\ \/ /\ faults' >= faults /\ Builder!PendingDocs' = {}
               /\ \A d \in Doc : docs'[d] # NoText => docs[d] # NoText \/ d \in Builder!PendingDocs
            \/ faults' > faults /\ UNCHANGED <<docs, pendingMeta>>
  BY FlushCases DEF IInv, Builder!PendingDocs

\* The flush after a batch writes the pages whose mark has failed, or is itself
\* the one fault.
LEMMA FlushOne ==
  ASSUME IInv, FlushBatch \/ FinalFlush \/ Destroy
  PROVE  Batch' /\ NoFault' /\ OneFault'
  <1>1. /\ UNCHANGED <<rows, batch, page>> /\ FlushPending
        /\ step # "mark" /\ step' # "mark"
    BY DEF FlushBatch, FinalFlush, Destroy
  <1>2. doc = NoDoc
    BY <1>1 DEF FlushPending, Returned, IInv, Calls
  <1>5. faults \in Nat /\ crashes \in Nat
    BY DEF IInv, Typed
  <1>3. CASE pendingCount = 0 /\ UNCHANGED builder
    <2>1. /\ UNCHANGED <<docs, pendingMeta, pc, doc, mixed, crashes, faults>>
          /\ Builder!PendingDocs' = {} /\ Builder!PendingDocs = {}
      BY <1>3 DEF builder, builderButFaults, Builder!PendingDocs, IInv, Typed
    <2> QED
      BY <1>1, <1>2, <1>3, <2>1 DEF IInv, Batch, NoFault, OneFault, MarkedOrNext
  <1>4. CASE Builder!FlushCommit
    <2>1. /\ UNCHANGED <<doc, mixed, crashes>> /\ pc' \in {"putDocCount", "idle"}
          /\ faults' \in Nat
      BY <1>4, FlushWritesOrFails
    <2>2. CASE /\ faults' >= faults /\ Builder!PendingDocs' = {}
               /\ \A d \in Doc : docs'[d] # NoText => docs[d] # NoText \/ d \in Builder!PendingDocs
      <3>1. /\ faults' + crashes' = 0 => faults + crashes = 0
            /\ faults' + crashes' <= 1 => faults + crashes <= 1
        BY <2>1, <2>2, MoreFaults
      <3>2. Batch'
        BY <1>1, <1>2, <2>1 DEF IInv, Batch
      <3>3. NoFault'
        BY <1>1, <2>1, <2>2, <3>1 DEF IInv, NoFault, MarkedOrNext
      <3>4. OneFault'
        BY <1>2, <2>1, <2>2, <3>1 DEF IInv, OneFault
      <3> QED
        BY <3>2, <3>3, <3>4
    <2>3. CASE faults' > faults /\ UNCHANGED <<docs, pendingMeta>>
      <3>1. Builder!PendingDocs' = Builder!PendingDocs /\ Builder!PendingDocs \subseteq Doc
        BY <2>3 DEF Builder!PendingDocs
      <3>2. faults' + crashes' # 0 /\ (faults' + crashes' <= 1 => faults + crashes = 0)
        <4>1. faults' >= faults
          BY <1>5, <2>1, <2>3
        <4> QED
          BY <2>1, <2>3, <4>1, MoreFaults, Zenon
      <3>3. Batch' /\ NoFault'
        BY <1>1, <1>2, <2>1, <3>2 DEF IInv, Batch, NoFault
      <3>4. faults + crashes = 0 => faults + crashes <= 1
        BY <1>5
      <3>5. OneFault'
        BY <1>1, <1>2, <2>1, <2>3, <3>1, <3>2, <3>4
          DEF IInv, NoFault, OneFault, MarkedOrNext
      <3> QED
        BY <3>3, <3>5
    <2> QED
      BY <1>4, <2>2, <2>3, FlushWritesOrFails
  <1> QED
    BY <1>1, <1>3, <1>4 DEF FlushPending

\* A step of the builder keeps the batch, and counts what it fails.
LEMMA BuilderOne ==
  ASSUME IInv, BuilderStep
  PROVE  Batch' /\ NoFault' /\ OneFault'
  <1>1. UNCHANGED <<rows, batch, page, step>>
    BY DEF BuilderStep, main
  <1>2. faults \in Nat /\ crashes \in Nat /\ Builder!PendingDocs \subseteq Doc
    BY DEF IInv, Typed, Builder!PendingDocs
  <1>3. CASE Builder!RemoveReplaced
    <2>1. /\ UNCHANGED <<pendingMeta, doc, crashes>> /\ pc = "remove" /\ doc \in Doc
          /\ faults' \in Nat /\ faults' >= faults
      BY <1>3, RemoveDone DEF IInv
    <2>2. Builder!PendingDocs' = Builder!PendingDocs
      BY <2>1 DEF Builder!PendingDocs
    <2>3. Batch'
      BY <1>1, <2>1 DEF IInv, Batch
    <2>4. \/ UNCHANGED <<faults, mixed>> /\ docs' = [docs EXCEPT ![doc] = NoText]
          \/ faults' > faults
      BY <1>3, RemoveDone DEF IInv
    <2>5. faults + crashes # 0
      BY <1>2, <2>1 DEF IInv, NoFault
    <2>6. NoFault'
      <3>1. faults' + crashes' # 0
        BY <2>1, <2>5, MoreFaults
      <3> QED
        BY <3>1 DEF NoFault
    <2>7. OneFault'
      <3>1. CASE faults' > faults
        <4>1. ~(faults' + crashes' <= 1)
          BY <2>1, <2>5, <3>1, MoreFaults, Zenon
        <4> QED
          BY <4>1 DEF OneFault
      <3>2. CASE UNCHANGED <<faults, mixed>> /\ docs' = [docs EXCEPT ![doc] = NoText]
        BY <1>1, <2>1, <2>2, <3>2 DEF IInv, Typed, OneFault, MarkedOrNext
      <3> QED
        BY <2>4, <3>1, <3>2
    <2> QED
      BY <2>3, <2>6, <2>7
  <1>4. CASE Builder!AddPending
    <2>1. /\ UNCHANGED <<docs, faults, crashes>> /\ pc' # "remove" /\ doc' = NoDoc
          /\ doc \in Doc /\ doc = page /\ step = "mark" /\ pc = "add"
      BY <1>4 DEF Builder!AddPending, Builder!index, Builder!bounds, IInv, Typed, Calls, Batch
    <2>2. Builder!PendingDocs' = Builder!PendingDocs \cup {doc}
      BY <1>4, <2>1 DEF Builder!AddPending, Builder!PendingDocs, IInv, Typed
    <2>3. faults + crashes <= 1 => mixed' = {}
      <3>1. faults + crashes <= 1 => ~(pendingMeta[doc] > 0) /\ docs[doc] = NoText /\ mixed = {}
        BY <2>1 DEF IInv, OneFault, Calls, Builder!PendingDocs
      <3> QED
        BY <1>4, <3>1 DEF Builder!AddPending
    <2>4. Batch' /\ NoFault'
      BY <1>1, <2>1, <2>2 DEF IInv, Batch, NoFault, MarkedOrNext
    <2>5. OneFault'
      BY <1>1, <2>1, <2>2, <2>3 DEF IInv, OneFault, MarkedOrNext
    <2> QED
      BY <2>4, <2>5
  <1>5. CASE pc = "flush" /\ Builder!FlushCommit
    <2>1. doc = NoDoc /\ UNCHANGED <<doc, mixed, crashes>> /\ pc' # "remove" /\ faults' \in Nat
      BY <1>5, FlushWritesOrFails DEF IInv, Calls
    <2>2. CASE /\ faults' >= faults /\ Builder!PendingDocs' = {}
               /\ \A d \in Doc : docs'[d] # NoText => docs[d] # NoText \/ d \in Builder!PendingDocs
      <3>1. /\ faults' + crashes' = 0 => faults + crashes = 0
            /\ faults' + crashes' <= 1 => faults + crashes <= 1
        BY <2>1, <2>2, MoreFaults
      <3>2. Batch'
        BY <1>1, <2>1 DEF IInv, Batch
      <3>3. NoFault'
        BY <1>1, <2>1, <2>2, <3>1 DEF IInv, NoFault, MarkedOrNext
      <3>4. OneFault'
        BY <2>1, <2>2, <3>1 DEF IInv, OneFault
      <3> QED
        BY <3>2, <3>3, <3>4
    <2>3. CASE faults' > faults /\ UNCHANGED <<docs, pendingMeta>>
      <3>1. Builder!PendingDocs' = Builder!PendingDocs
        BY <2>3 DEF Builder!PendingDocs
      <3>2. faults' + crashes' # 0 /\ (faults' + crashes' <= 1 => faults + crashes <= 1)
        <4>1. faults' >= faults
          BY <1>2, <2>1, <2>3
        <4> QED
          BY <2>1, <2>3, <4>1, MoreFaults, Zenon
      <3>3. Batch' /\ NoFault'
        BY <1>1, <2>1, <3>2 DEF IInv, Batch, NoFault
      <3>4. OneFault'
        BY <1>1, <2>1, <2>3, <3>1, <3>2 DEF IInv, OneFault, MarkedOrNext
      <3> QED
        BY <3>3, <3>4
    <2> QED
      BY <1>5, <2>2, <2>3, FlushWritesOrFails
  <1>6. CASE Builder!PutDocCount \/ Builder!PutTermCount
    <2>1. /\ UNCHANGED <<docs, pendingMeta, doc, mixed, crashes>>
          /\ pc # "remove" /\ pc' # "remove"
          /\ faults' \in Nat /\ faults' >= faults
      BY <1>6, PutDone DEF IInv, Builder!Return
    <2>2. Builder!PendingDocs' = Builder!PendingDocs
      BY <2>1 DEF Builder!PendingDocs
    <2>3. /\ faults' + crashes' = 0 => faults + crashes = 0
          /\ faults' + crashes' <= 1 => faults + crashes <= 1
      BY <2>1, MoreFaults
    <2>4. Batch' /\ NoFault'
      BY <1>1, <2>1, <2>2, <2>3 DEF IInv, Batch, NoFault, MarkedOrNext
    <2>5. OneFault'
      BY <1>1, <2>1, <2>2, <2>3 DEF IInv, OneFault, MarkedOrNext
    <2> QED
      BY <2>4, <2>5
  <1> QED
    BY <1>3, <1>4, <1>5, <1>6 DEF BuilderStep

\* A new process has an empty batch and nothing pending.
LEMMA RestartOne ==
  ASSUME IInv, Start \/ Crash
  PROVE  Batch' /\ NoFault' /\ OneFault'
  <1>1. /\ Builder!Reload /\ UNCHANGED rows /\ batch' = {}
        /\ crashes' = crashes + 1 \/ (crashes' = crashes /\ step = "stopped")
    BY DEF Start, Crash, Restarted, Builder!Reopen, Builder!Crash
  <1>2. /\ UNCHANGED <<docs, mixed>> /\ faults' \in Nat /\ faults' >= faults
        /\ doc' = NoDoc /\ pc' = "idle" /\ Builder!PendingDocs' = {}
    BY <1>1, ReloadDone DEF IInv
  <1>3. faults \in Nat /\ crashes \in Nat
    BY DEF IInv, Typed
  <1> QED
    BY <1>1, <1>2, <1>3 DEF IInv, Batch, NoFault, OneFault, MarkedOrNext

\* A page that is crawled again keeps its mark.
LEMMA CrawlOne ==
  ASSUME IInv, NEW d \in Doc, Crawl(d)
  PROVE  Batch' /\ NoFault' /\ OneFault'
  <1>1. UNCHANGED <<docs, pendingMeta, pc, doc, mixed, faults, crashes, batch, page, step>>
    BY DEF Crawl, builder, builderButFaults, main
  <1>2. \A c \in Doc : rows'[c].indexed = rows[c].indexed
    BY DEF Crawl, IInv, Typed, Row
  <1>3. Builder!PendingDocs' = Builder!PendingDocs /\ Builder!PendingDocs \subseteq Doc
    BY <1>1 DEF Builder!PendingDocs
  <1>4. \A p \in batch : p[1] \in Doc
    BY DEF IInv, Typed
  <1> QED
    BY <1>1, <1>2, <1>3, <1>4 DEF IInv, Batch, NoFault, OneFault, MarkedOrNext

\* Every step keeps the invariant.
LEMMA OnePreserved == IInv /\ [Next]_vars => IInv'
  <1> SUFFICES ASSUME IInv, [Next]_vars PROVE IInv'
    OBVIOUS
  <1>1. Typed' /\ Calls'
    BY NextTyped DEF IInv
  <1>2. Batch' /\ NoFault' /\ OneFault'
    BY FetchOne, LeaveOne, PassOne, IndexOne, MarkOne, FlushOne, BuilderOne, RestartOne,
      CrawlOne DEF Next, Main
  <1> QED
    BY <1>1, <1>2 DEF IInv

\* No single failing call or crash makes the indexer merge two versions of a page.
THEOREM OneFaultExact == Spec => []OneFaultKeepsIndexExact
  <1>1. Init => IInv
    <2>1. Init => Batch /\ NoFault /\ OneFault
      BY DEF Init, Builder!Init, Batch, NoFault, OneFault, Builder!PendingDocs
    <2> QED
      BY <2>1, InitTyped DEF IInv
  <1>2. IInv => OneFaultKeepsIndexExact
    BY DEF IInv, OneFault, OneFaultKeepsIndexExact
  <1> QED
    BY <1>1, <1>2, OnePreserved, PTL DEF Spec

-----------------------------------------------------------------------------
(* What the index builder promises to any client it keeps in the indexer.  *)

\* The builder again, with its proofs.
BP == INSTANCE IndexBuilderProofs

\* The assumptions of the index builder hold of the indexer's constants.
LEMMA BuilderAssumption ==
  /\ BP!IsFiniteSet(Doc) /\ BP!IsFiniteSet(Term) /\ BP!IsFiniteSet(Field)
  BY DEF BP!IsFiniteSet, IsFiniteSet

\* The two copies of the builder have the same initial states and steps.
LEMMA SameSteps ==
  /\ Builder!Init => BP!Init
  /\ \A c, x : Builder!IndexParsed(c, x) => BP!IndexParsed(c, x)
  /\ Builder!RemoveReplaced => BP!RemoveReplaced
  /\ Builder!AddPending => BP!AddPending
  /\ pc \in {"idle", "flush"} /\ Builder!FlushCommit => BP!Flush
  /\ Builder!PutDocCount => BP!PutDocCount
  /\ Builder!PutTermCount => BP!PutTermCount
  /\ Builder!Reopen => BP!Reopen
  /\ Builder!Crash => BP!Crash
  <1> USE DEF Builder!index, BP!index, Builder!meta, BP!meta, Builder!pending, BP!pending,
      Builder!counters, BP!counters, Builder!call, BP!call, Builder!history,
      BP!history, Builder!bounds, BP!bounds, Builder!Entry, BP!Entry,
      Builder!NoPostings, BP!NoPostings, Builder!DocsWith, BP!DocsWith,
      Builder!Terms, BP!Terms, Builder!Frequencies, BP!Frequencies,
      Builder!Cardinality, BP!Cardinality, Builder!Fault, BP!Fault, Builder!Faults,
      BP!Faults, Builder!Return, BP!Return
  <1>1. Builder!Init => BP!Init
    BY DEF Builder!Init, BP!Init
  <1>2. \A c, x : Builder!IndexParsed(c, x) => BP!IndexParsed(c, x)
    BY DEF Builder!IndexParsed, BP!IndexParsed
  <1>3. Builder!RemoveReplaced => BP!RemoveReplaced
    BY DEF Builder!RemoveReplaced, BP!RemoveReplaced, Builder!RemoveCommit,
      BP!RemoveCommit, Builder!Minus, BP!Minus, Builder!TermsDropped,
      BP!TermsDropped, Builder!TermsOf, BP!TermsOf, Builder!Listings, BP!Listings,
      Builder!Without, BP!Without
  <1>4. Builder!AddPending => BP!AddPending
    BY DEF Builder!AddPending, BP!AddPending, Builder!Merge, BP!Merge,
      Builder!PostingsOf, BP!PostingsOf
  <1>5. pc \in {"idle", "flush"} /\ Builder!FlushCommit => BP!Flush
    BY DEF Builder!FlushCommit, BP!FlushCommit, BP!Flush, Builder!PendingDocs, BP!PendingDocs,
      Builder!Merge, BP!Merge, Builder!WithoutLists, BP!WithoutLists
  <1>6. (Builder!PutDocCount => BP!PutDocCount) /\ (Builder!PutTermCount => BP!PutTermCount)
    BY DEF Builder!PutDocCount, BP!PutDocCount, Builder!PutTermCount, BP!PutTermCount
  <1>7. (Builder!Reopen => BP!Reopen) /\ (Builder!Crash => BP!Crash)
    BY DEF Builder!Reopen, BP!Reopen, Builder!Crash, BP!Crash, Builder!Reload,
      BP!Reload
  <1> QED
    BY <1>1, <1>2, <1>3, <1>4, <1>5, <1>6, <1>7

\* A failing call of another part: only the bound on them, which the builder
\* shares, changes.
OtherFault == faults' = faults + 1 /\ UNCHANGED builderButFaults

\* Every step of the indexer is a step of the builder, or leaves it alone.
LEMMA StepsOfBuilder ==
  Typed /\ Calls /\ [Next]_vars => [BP!Next]_BP!vars \/ OtherFault
  <1> SUFFICES ASSUME Typed, Calls, [Next]_vars PROVE [BP!Next]_BP!vars \/ OtherFault
    OBVIOUS
  <1>1. UNCHANGED builder => UNCHANGED BP!vars
    BY DEF builder, builderButFaults, BP!vars, BP!index, BP!meta, BP!pending,
      BP!counters, BP!call, BP!history, BP!bounds
  <1>2. UNCHANGED builderButFaults /\ (UNCHANGED faults \/ Fault)
        => UNCHANGED builder \/ OtherFault
    BY DEF builder, Fault, OtherFault
  <1>3. CASE FetchBatch \/ PassOver \/ MarkPage
    BY <1>1, <1>2, <1>3 DEF FetchBatch, PassOver, MarkPage, MarkPageIndexed
  <1>4. CASE LeaveLoop \/ EndBatch \/ Signal \/ \E d \in Doc : Crawl(d)
    BY <1>1, <1>4 DEF LeaveLoop, EndBatch, Signal, Crawl
  <1>5. CASE UNCHANGED vars
    BY <1>1, <1>5 DEF vars
  <1>6. CASE IndexDocument
    <2>1. PICK p \in batch : Builder!IndexParsed(p[1], p[2])
      BY <1>6 DEF IndexDocument
    <2>2. p[1] \in Doc /\ p[2] \in Text
      BY DEF Typed
    <2> QED
      BY <2>1, <2>2, SameSteps DEF BP!Next
  <1>7. CASE BuilderStep
    BY <1>7, SameSteps DEF BuilderStep, BP!Next
  <1>8. CASE FlushBatch \/ FinalFlush \/ Destroy
    BY <1>1, <1>8, SameSteps DEF FlushBatch, FinalFlush, Destroy, FlushPending, Returned,
      BP!Next
  <1>9. CASE Start \/ Crash
    BY <1>9, SameSteps DEF Start, Crash, BP!Next
  <1> QED
    BY <1>3, <1>4, <1>5, <1>6, <1>7, <1>8, <1>9 DEF Next, Main

\* The inductive invariants of IndexBuilderProofs.
BuilderInv ==
  BP!Typed /\ BP!Counting /\ BP!Counted /\ BP!Exact /\ BP!DfMatchesPostings

\* A failing call elsewhere does not touch the builder's invariants.
LEMMA OtherFaultKeeps == BuilderInv /\ OtherFault => BuilderInv'
  <1> SUFFICES ASSUME BuilderInv, OtherFault PROVE BuilderInv'
    OBVIOUS
  <1>1. /\ UNCHANGED builderButFaults
        /\ faults \in Nat => faults' \in Nat
    BY DEF OtherFault
  <1> USE DEF builderButFaults
  <1>2. BP!Typed' /\ BP!DfMatchesPostings'
    BY <1>1 DEF BuilderInv, BP!Typed, BP!DfMatchesPostings, BP!DocsWith
  <1>3. BP!Counting'
    BY <1>1 DEF BuilderInv, BP!Counting
  <1>4. BP!Counted'
    BY <1>1 DEF BuilderInv, BP!Counted, BP!PendingDocs, BP!Indexed
  <1>5. BP!Exact'
    BY <1>1 DEF BuilderInv, BP!Exact, BP!ExactOf, BP!PendingOf, BP!PostingsAre
  <1> QED
    BY <1>2, <1>3, <1>4, <1>5 DEF BuilderInv

\* The builder's invariants are inductive in the composed system.
LEMMA BuilderInvKept ==
  /\ Init => BuilderInv
  /\ Typed /\ Calls /\ BuilderInv /\ [Next]_vars => BuilderInv'
  <1>1. Init => BuilderInv
    <2> SUFFICES ASSUME Init PROVE BuilderInv
      OBVIOUS
    <2>1. BP!Init
      BY SameSteps DEF Init
    <2>2. BP!Typed /\ BP!Counting /\ BP!Counted
      BY <2>1, BuilderAssumption, BP!InitTyped, BP!InitCounting, BP!InitCounted
    <2>3. BP!Exact /\ BP!DfMatchesPostings
      BY <2>1, BuilderAssumption, BP!InitExact
    <2> QED
      BY <2>2, <2>3 DEF BuilderInv
  <1>2. ASSUME Typed, Calls, BuilderInv, [Next]_vars PROVE BuilderInv'
    <2>1. CASE [BP!Next]_BP!vars
      <3>1. BP!Typed' /\ BP!Counting' /\ BP!Counted'
        BY <1>2, <2>1, BuilderAssumption, BP!NextTyped, BP!NextCounting, BP!NextCounted
        DEF BuilderInv
      <3>2. BP!Exact' /\ BP!DfMatchesPostings'
        BY <1>2, <2>1, BuilderAssumption, BP!ExactPreserved, BP!FrequenciesPreserved
        DEF BuilderInv
      <3> QED
        BY <3>1, <3>2 DEF BuilderInv
    <2>2. CASE OtherFault
      BY <1>2, <2>2, OtherFaultKeeps
    <2> QED
      BY <1>2, <2>1, <2>2, StepsOfBuilder
  <1> QED
    BY <1>1, <1>2

\* What the index builder promises holds in the composed system: the df: keys
\* match the lists, the index holds exactly what was flushed, and the count of
\* documents is not too low, whichever calls of main(), of the database or of
\* the content store fail.
THEOREM BuilderPromises ==
  Spec => [](/\ Builder!DfMatchesPostings /\ Builder!IndexedExactly
             /\ Builder!NeverUndercounted)
  <1>1. BuilderInv => Builder!DfMatchesPostings
    BY DEF BuilderInv, Builder!DfMatchesPostings, BP!DfMatchesPostings, Builder!DocsWith,
      BP!DocsWith, Builder!Cardinality, BP!Cardinality
  <1>2. BuilderInv => Builder!IndexedExactly
    BY DEF BuilderInv, Builder!IndexedExactly, BP!Exact, BP!ExactOf, BP!PostingsAre
  <1>3. BuilderInv => Builder!NeverUndercounted
    BY DEF BuilderInv, Builder!NeverUndercounted, BP!Counted, Builder!Indexed, BP!Indexed, Builder!Cardinality, BP!Cardinality
  <1> QED
    BY InitTyped, NextTyped, BuilderInvKept, <1>1, <1>2, <1>3, PTL DEF Spec

-----------------------------------------------------------------------------
(* The types, and the number of pages a run indexes.                       *)

\* The types of main(); the pages it has processed and still holds are within
\* its limit.
MainTyped ==
  /\ step \in MainStep /\ page \in Doc \cup {NoDoc}
  /\ stop \in BOOLEAN /\ passedOver \in SUBSET Doc /\ crawls \in 0..MaxCrawls
  /\ maxPages \in PageLimits /\ processed \in Nat
  /\ IsFiniteSet(batch)
  /\ maxPages = 0 => processed = 0
  /\ maxPages > 0 =>
       processed + Cardinality(batch) + (IF step = "mark" THEN 1 ELSE 0) <= maxPages

\* A batch is no larger than the number of rows it was fetched from.
LEMMA BatchSmall ==
  ASSUME NEW S \in SUBSET Doc
  PROVE  LET b == {<<d, rows[d].content>> : d \in S} IN
         /\ IsFiniteSet(b)
         /\ Cardinality(b) \in Nat /\ Cardinality(S) \in Nat
         /\ Cardinality(b) <= Cardinality(S)
  <1> DEFINE b == {<<d, rows[d].content>> : d \in S}
             f == [d \in S |-> <<d, rows[d].content>>]
  <1>1. IsFiniteSet(S)
    BY FS_Subset
  <1>2. f \in Surjection(S, b)
    BY DEF Surjection
  <1> HIDE DEF b, f
  <1>3. IsFiniteSet(b) /\ Cardinality(b) <= Cardinality(S)
    BY <1>1, <1>2, FS_Surjection
  <1>4. Cardinality(b) \in Nat /\ Cardinality(S) \in Nat
    BY <1>1, <1>3, FS_CardinalityType
  <1> QED
    BY <1>3, <1>4 DEF b

\* A batch that one page leaves is smaller by one.
LEMMA BatchLess ==
  ASSUME MainTyped, NEW p \in batch
  PROVE  /\ IsFiniteSet(batch \ {p}) /\ Cardinality(batch) \in Nat
         /\ Cardinality(batch \ {p}) = Cardinality(batch) - 1
  BY FS_RemoveElement, FS_CardinalityType DEF MainTyped

\* Every step keeps the types of main() and its limit.
LEMMA MainTypedKept == Typed /\ Calls /\ MainTyped /\ [Next]_vars => MainTyped'
  <1> SUFFICES ASSUME Typed, Calls, MainTyped, [Next]_vars PROVE MainTyped'
    OBVIOUS
  <1> USE DEF MainStep, main
  <1>0. Cardinality(batch) \in Nat /\ maxPages \in Nat /\ processed \in Nat
    BY FS_CardinalityType DEF MainTyped
  <1>e. IsFiniteSet({}) /\ Cardinality({}) = 0
    BY FS_EmptySet
  <1>1. CASE FetchBatch
    <2>1. UNCHANGED <<page, maxPages, processed, stop, passedOver, crawls>> /\ step = "fetch"
      BY <1>1 DEF FetchBatch
    <2>2. CASE UNCHANGED <<step, batch>>
      BY <2>1, <2>2 DEF MainTyped
    <2>3. CASE ~UNCHANGED <<step, batch>>
      <3>1. PICK S \in SUBSET Waiting :
              /\ Cardinality(S) = Smaller(Limit, Cardinality(Waiting))
              /\ batch' = {<<d, rows[d].content>> : d \in S}
        BY <1>1, <2>3 DEF FetchBatch
      <3>2. S \in SUBSET Doc /\ Waiting \in SUBSET Doc /\ step' = "page"
        BY <1>1, <2>3, <3>1 DEF Waiting, FetchBatch
      <3>3. /\ IsFiniteSet(batch') /\ Cardinality(batch') \in Nat
            /\ Cardinality(S) \in Nat /\ Cardinality(Waiting) \in Nat
            /\ Cardinality(batch') <= Cardinality(S)
        <4>1. /\ IsFiniteSet(batch') /\ Cardinality(batch') \in Nat
              /\ Cardinality(S) \in Nat /\ Cardinality(batch') <= Cardinality(S)
          BY <3>1, <3>2, BatchSmall
        <4>2. Cardinality(Waiting) \in Nat
          BY <3>2, BatchSmall
        <4> QED
          BY <4>1, <4>2
      <3>4. maxPages > 0 => Cardinality(S) <= maxPages - processed
        <4>1. maxPages > 0 => processed < maxPages
          BY <1>0, <1>1 DEF FetchBatch, Done
        <4> QED
          BY <1>0, <3>1, <3>3, <4>1 DEF Smaller, Limit
      <3> QED
        BY <1>0, <2>1, <3>2, <3>3, <3>4 DEF MainTyped
    <2> QED
      BY <2>2, <2>3
  <1>2. CASE LeaveLoop
    BY <1>0, <1>2 DEF LeaveLoop, MainTyped
  <1>3. CASE PassOver \/ IndexDocument
    <2>1. PICK p \in batch :
            /\ batch' = batch \ {p} /\ page' = p[1]
            /\ passedOver' \in {passedOver, passedOver \cup {p[1]}}
      BY <1>3 DEF PassOver, IndexDocument
    <2>2. UNCHANGED <<maxPages, processed, stop, crawls>> /\ step = "page" /\ step' = "mark"
      BY <1>3 DEF PassOver, IndexDocument
    <2>3. p[1] \in Doc
      BY DEF Typed
    <2> QED
      BY <1>0, <2>1, <2>2, <2>3, BatchLess DEF MainTyped
  <1>4. CASE MarkPage
    <2>1. /\ UNCHANGED <<batch, maxPages, stop, passedOver, crawls>> /\ page' = NoDoc
          /\ step = "mark" /\ step' = "page"
          /\ processed' = IF maxPages > 0 THEN processed + 1 ELSE processed
      BY <1>4 DEF MarkPage
    <2> QED
      BY <1>0, <2>1 DEF MainTyped
  <1>5. CASE EndBatch
    BY <1>0, <1>e, <1>5 DEF EndBatch, MainTyped
  <1>6. CASE FlushBatch \/ FinalFlush \/ Destroy
    BY <1>0, <1>6 DEF FlushBatch, FinalFlush, Destroy, MainTyped
  <1>7. CASE BuilderStep \/ UNCHANGED vars
    BY <1>7 DEF BuilderStep, vars, MainTyped
  <1>8. ASSUME NEW d \in Doc, Crawl(d) PROVE MainTyped'
    BY <1>8 DEF Crawl, MainTyped
  <1>9. CASE Signal
    BY <1>9 DEF Signal, MainTyped
  <1>10. CASE Start \/ Crash
    <2>1. /\ step' = "fetch" /\ batch' = {} /\ page' = NoDoc
          /\ maxPages' \in PageLimits /\ processed' = 0 /\ stop' = FALSE
          /\ UNCHANGED <<passedOver, crawls>>
      BY <1>10, Zenon DEF Start, Crash, Restarted
    <2>2. stop' \in BOOLEAN
      BY <2>1, Zenon
    <2> QED
      BY <1>e, <2>1, <2>2 DEF MainTyped
  <1> QED
    BY <1>1, <1>2, <1>3, <1>4, <1>5, <1>6, <1>7, <1>8, <1>9, <1>10 DEF Next, Main

\* Every variable of the indexer and of its index builder has its type, and no
\* run processes more pages than --max-pages.
THEOREM TypeCorrect == Spec => []TypeOK
  <1>1. Init => MainTyped
    <2>1. Init => stop \in BOOLEAN
      BY Zenon DEF Init
    <2> QED
      BY <2>1, FS_EmptySet DEF Init, MainTyped, MainStep
  <1>2. Typed /\ BuilderInv /\ MainTyped => TypeOK
    <2>1. BuilderInv => Builder!TypeOK
      BY DEF BuilderInv, BP!Typed, BP!Counting, Builder!TypeOK, Builder!Entry, BP!Entry, Builder!Step, BP!Step
    <2>2. MainTyped => processed \in 0..maxPages
      <3>1. MainTyped => Cardinality(batch) \in Nat
        BY FS_CardinalityType DEF MainTyped
      <3> QED
        BY <3>1 DEF MainTyped
    <2> QED
      BY <2>1, <2>2 DEF Typed, MainTyped, TypeOK
  <1> QED
    BY InitTyped, NextTyped, BuilderInvKept, MainTypedKept, <1>1, <1>2, PTL DEF Spec
=============================================================================
