--------------------------- MODULE MCIndexBuilder ---------------------------
(* Small instances of IndexBuilder for TLC. *)
EXTENDS IndexBuilder

CONSTANTS a, b, title, body

TextOf(where) == [e \in Term \X Field |-> IF e \in where THEN 1 ELSE 0]

\* One text has its term in two fields, and the two have a term in common.
MCText == {TextOf({<<a, title>>, <<a, body>>}),
           TextOf({<<a, body>>, <<b, body>>})}
=============================================================================
