---------------------------- MODULE UrlDelivery ----------------------------
(***************************************************************************)
(* What the URL frontier promises to the crawler, without locks, queues,   *)
(* condition variables or clocks: an accepted URL is handed to a worker at *)
(* most once, and, as long as the frontier is not shut down, eventually.   *)
(***************************************************************************)
EXTENDS Naturals

CONSTANT Url        \* the normalised URLs

VARIABLES accepted,   \* URLs the frontier took responsibility for
          delivered,  \* how often each URL was handed to a worker
          stopped     \* shutdown() was called

vars == <<accepted, delivered, stopped>>

Init == /\ accepted \in SUBSET Url
        /\ delivered = [u \in Url |-> 0]
        /\ stopped = FALSE

\* add() accepts a URL it has never seen.
Accept(u) == /\ u \notin accepted
             /\ accepted' = accepted \cup {u}
             /\ UNCHANGED <<delivered, stopped>>

\* pop() returns an accepted URL, never the same one twice.
Deliver(u) == /\ u \in accepted /\ delivered[u] = 0
              /\ delivered' = [delivered EXCEPT ![u] = 1]
              /\ UNCHANGED <<accepted, stopped>>

Stop == /\ stopped' = TRUE
        /\ UNCHANGED <<accepted, delivered>>

Next == \/ \E u \in Url : Accept(u) \/ Deliver(u)
        \/ Stop

\* Nothing is promised about the URLs that are still pending at shutdown.
Spec == /\ Init /\ [][Next]_vars
        /\ \A u \in Url : WF_vars(~stopped /\ Deliver(u))
=============================================================================
