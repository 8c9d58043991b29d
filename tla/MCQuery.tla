------------------------------- MODULE MCQuery -------------------------------
(* A small instance of Query for TLC. *)
EXTENDS Query, TLC

CONSTANTS d1, d2, d3

\* "rusted" and "rust" have the same stem; "the" is not indexed.
MCStem == ("rust" :> "rust") @@ ("rusted" :> "rust") @@ ("iron" :> "iron") @@ ("the" :> "the")
            @@ ("erapostai" :> "erapostai")

MCParents == ("a.com" :> {}) @@ ("x.a.com" :> {"a.com"}) @@ ("b.com" :> {})

Page(title, body, domain, era, ai) ==
  [text |-> [f \in Field |-> IF f = "title" THEN title ELSE body],
   domain |-> domain, era |-> era, ai |-> ai]

\* A phrase in a title, in a body behind another word, over a stop word, over the
\* end of the positions, and not at all.
MCDocuments ==
  {Page(<<"rust", "iron">>, <<"iron">>, "a.com", "pre-ai", 0),
   Page(<<"iron">>, <<"iron", "rusted", "the", "iron">>, "x.a.com", "post-ai", 10),
   Page(<<>>, <<"iron", "iron", "iron", "rust", "iron">>, "b.com", "unknown", 5),
   Page(<<"rusted">>, <<>>, "a.com", "post-ai", 5)}

\* "erapostai" is what is made of era:post-ai.
T(kind, value) == [kind |-> kind, value |-> value]

MCQueries ==
  {<<T("word", "rust")>>,
   <<T("word", "the"), T("word", "rusted"), T("word", "iron")>>,
   <<T("phrase", <<"rust", "iron">>)>>,
   <<T("phrase", <<"iron", "rust", "iron">>), T("site", "a.com")>>,
   <<T("word", "rust"), T("minus", "iron")>>,
   <<T("minus", "rusted"), T("word", "iron"), T("phrase", <<"iron">>)>>,
   <<T("minus", "iron")>>,
   <<T("era", "ai-era"), T("word", "iron"), T("era", "pre-ai")>>,
   <<T("word", "rust"), T("era", "erapostai"), T("max-ai", 5)>>,
   <<T("min-ai", 5), T("word", "iron"), T("site", "b.com"), T("site", "a.com"), T("era", "ai-era")>>}
=============================================================================
