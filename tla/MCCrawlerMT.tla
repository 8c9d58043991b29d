----------------------------- MODULE MCCrawlerMT -----------------------------
(* Small instances of CrawlerMT for TLC. *)
EXTENDS CrawlerMT, TLC

CONSTANTS u1, u2, u3, u4, d1, d2

\* Three pages of one domain, and one of another.
MCDomainOf == [u \in Url |-> IF u = u4 THEN d2 ELSE d1]

\* The seed's page links to the two others of its domain, which link to each
\* other and abroad.
MCLinksOf == [u \in Url |-> Url \cap (CASE u = u1 -> {u2, u3}
                                        [] u = u2 -> {u3, u4}
                                        [] OTHER  -> {u1})]

Workers == Permutations(Worker)
=============================================================================
