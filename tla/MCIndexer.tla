------------------------------ MODULE MCIndexer ------------------------------
(* Small instances of Indexer for TLC. *)
EXTENDS Indexer

CONSTANTS p1, p2, p3, a, body

\* One text: what matters here is whether a page is in the index.
MCText == {[e \in Term \X Field |-> 1]}
=============================================================================
