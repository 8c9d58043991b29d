---------------------------- MODULE MCFrontierMT ----------------------------
(* Small instances of FrontierMT for TLC. *)
EXTENDS FrontierMT

CONSTANTS u1, u2, u3, d1, d2

\* Two URLs share a domain, the third has one of its own.
MCDomainOf == [u \in Url |-> IF u = u3 THEN d2 ELSE d1]

OneDomain == [u \in Url |-> d1]
=============================================================================
