----------------------------- MODULE MCCrawlerST -----------------------------
(* A small instance of CrawlerST for TLC. *)
EXTENDS CrawlerST, TLC

CONSTANTS a1, a2, a3, b, root, part

\* Three URLs of a host, and one of a host with a port.
MCDomainOf == (a1 :> "a") @@ (a2 :> "a") @@ (a3 :> "a") @@ (b :> "b")
MCHostOf == (a1 :> "a") @@ (a2 :> "a") @@ (a3 :> "a") @@ (b :> "b:8080")

MCLinksOf == (a1 :> {a3, b}) @@ (a2 :> {b}) @@ (a3 :> {}) @@ (b :> {a1, a3})

\* All paths start with root, that of a2 also with part.
MCLength == (root :> 1) @@ (part :> 2)
MCStarts == ({root} \X Url) \cup {<<part, a2>>}

\* For the first host, no line at all; or a group of two agents that forbids part
\* and asks for a delay, before one for all that forbids the rest; or one that
\* forbids all but part, which is allowed and forbidden by rules as long.
MCRobotsFiles ==
  [h \in Domain |->
     IF h # "a" THEN {<<>>} ELSE
     {<<>>,
      <<R!UserAgent("bot"), R!Other, R!UserAgent("other"), R!Disallow(part), R!CrawlDelay(2),
        R!UserAgent("*"), R!Disallow(root)>>,
      <<R!UserAgent("*"), R!Disallow(root), R!Allow(part), R!Disallow(part), R!BadDelay>>}]

ASSUME MCRobotsAgree == RobotsAgree
=============================================================================
