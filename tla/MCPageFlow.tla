----------------------------- MODULE MCPageFlow -----------------------------
(* A small instance of PageFlow for TLC: words, pages and their links.     *)
EXTENDS PageFlow

LowerCase == ("HTTP" :> "http") @@ ("H" :> "h") @@ ("A" :> "a")
DecodedWords == "%61" :> "a"
Numbers == ("80" :> 80) @@ ("443" :> 443) @@ ("8080" :> 8080) @@ ("2022" :> 2022)
              @@ ("11" :> 11) @@ ("30" :> 30) @@ ("2" :> 2) @@ ("13" :> 13)

Day(y, m, d) == [y |-> y, m |-> m, d |-> d]

DatedWords == "2021-03-04" :> Day(2021, 3, 4)
Patterns == {<<"/", "login">>, <<"#", "top">>}

\* An item of a text, and a word.
Item(label, form, y, m, d) == [label |-> label, form |-> form, date |-> Day(y, m, d)]
W == Item("", "none", 0, 0, 0)

Text(items) == [tag |-> "#text", attr |-> <<>>, text |-> items, children |-> <<>>]
Element(tag, attr, children) == [tag |-> tag, attr |-> attr, text |-> <<>>, children |-> children]

Anchor(href) == Element("a", "href" :> href, <<Text(<<W>>)>>)
Meta(pair) == Element("meta", (pair[1] :> pair[2]) @@ ("content" :> pair[3]), <<>>)

\* A page: a title and meta tags, a text with a script below it, and links.
Html(metas, items, hrefs) ==
  Element("html", <<>>,
    <<Element("head", <<>>, <<Element("title", <<>>, <<Text(<<W>>)>>)>>
                         \o [i \in DOMAIN metas |-> Meta(metas[i])]),
      Element("body", <<>>,
        <<Element("p", <<>>, <<Text(items),
                            Element("script", <<>>, <<Text(<<Item("published", "iso", 1999, 1, 1)>>)>>)>>)>>
        \o [i \in DOMAIN hrefs |-> Anchor(hrefs[i])])>>)

HTTP(u) == <<"http", ":", "/", "/">> \o u
HTTPS(u) == <<"https", ":", "/", "/">> \o u
CAPS(u) == <<"HTTP", ":", "/", "/">> \o u

Seeds ==
  <<HTTP(<<"h">>), HTTP(<<"h", "?", "q">>), CAPS(<<"H", ":", "80", "/", "a", "/">>),
   HTTP(<<"h", "/", "a", "/", "b">>), HTTPS(<<"h", "/", "a", "?", "q", "/", "x">>),
   HTTP(<<"h", ":", "8080", "/", "a", "/", "/">>)>>

Refs ==
  <<HTTP(<<"h", "/", "a">>), CAPS(<<"h", "/", "a">>), HTTP(<<"H", ":", "80", "/", "a">>),
   HTTPS(<<"h", ":", "443", "/", "a", "/">>), HTTP(<<"h", ":", "8080", "/", "a">>),
   HTTP(<<"g">>), HTTP(<<"g", "?", "q">>), HTTP(<<"h", "/", "%61">>),
   <<"/", "a">>, <<"/", "a", "/", "/">>, <<"/", "A">>, <<"/", "a", "?">>,
   <<"/", "?", "p", "=", "2">>, <<"/", "?", "q", "&", "a">>, <<"/", "a", "#", "top">>, <<"/", "a.pdf", "#", "b">>,
   <<"/", "login">>, <<"/", "page", "/", "2">>, <<"/", "/", "g", "/", "a">>,
   <<"a">>, <<"b", "/">>, <<"?", "q">>, <<"#", "b">>, <<"mailto", ":", "b">>, <<>>,
   HTTP(<<"h", "/", "?", "q", "/">>), <<"/", "a.pdf", "/">>,
   HTTP(<<"h", ":", "80", "/", "a", "/", "b", "/", "c">>),
   HTTP(<<"a.pdf">>), HTTP(<<"h", ":", "/", "a">>), HTTP(<<"h", ":", "80", ":", "80", "/", "a">>),
   HTTP(<<"page", ":", "80", "/", "2">>)>>

Same ==
  <<HTTP(<<"h", "/", "a">>), CAPS(<<"H", "/", "a">>), HTTP(<<"H", ":", "80", "/", "a", "/">>),
   HTTP(<<"h", "/", "%61">>), <<"/", "a", "#", "b">>, <<"/", "a", "?">>, <<"?", "q">>,
   HTTP(<<"h", ":", "8080", "/", "a">>), HTTP(<<"h", "?", "q">>)>>

Items ==
  <<Item("published", "iso", 2022, 11, 30), Item("published", "text", 2020, 2, 3),
   Item("published", "short-iso", 2022, 13, 1), Item("updated", "text", 2023, 5, 6),
   Item("updated", "short-iso", 2022, 11, 29), Item("", "iso", 2021, 7, 8), Item("", "text", 2031, 1, 1),
   Item("", "month-year", 2024, 1, 0), Item("copyright", "year", 2019, 0, 0)>>

Metas ==
  << <<>>,
   <<<<"property", "article:published_time", Item("", "iso", 2022, 11, 29)>>>>,
   <<<<"name", "date", Item("", "year", 2022, 0, 0)>>>>,
   <<<<"name", "pubdate", Item("", "text", 2018, 4, 5)>>,
     <<"name", "date", Item("", "slashes", 2017, 4, 5)>>>>,
   <<<<"name", "last-modified", Item("", "iso", 2016, 4, 5)>>,
     <<"name", "description", Item("", "iso", 2014, 4, 5)>>>>>>

DatedSeeds ==
  <<HTTP(<<"h", "/", "a">>), HTTP(<<"h", "/", "2022", "/", "11", "/", "b">>),
   HTTP(<<"h", "/", "2022", "/", "11", "/", "30", "/", "b">>),
   HTTP(<<"h", "/", "2022", "/", "11", "/", "30", "/">>),
   HTTP(<<"h", "/", "2022", "/", "13", "/", "b">>), HTTP(<<"h", "/", "2021-03-04">>)>>

Pairs(s, t) ==
  [k \in 1..(Len(s) * Len(t)) |-> <<s[1 + (k - 1) \div Len(t)], t[1 + ((k - 1) % Len(t))]>>]

CasesOf(s, t, Of(_, _)) ==
  LET P == Pairs(s, t) IN [k \in DOMAIN P |-> Of(P[k][1], P[k][2])]

Case(u, html, n) == [seed |-> u, html |-> html, maxRuns |-> n]

\* The cases: one link on a page of each seed, with a second start; two links; two
\* dates at the start, or one of them behind it; and a date of the meta tags with those
\* of the URL and text.
AllCases ==
  LET a == HTTP(<<"h", "/", "a">>)
  IN CasesOf(Seeds, Refs, LAMBDA x, y : Case(x, Html(<<>>, <<W>>, <<y>>), 2))
     \o CasesOf(Same, SubSeq(Same, 1, 4),
                LAMBDA x, y : Case(a \o <<"?", "q">>, Html(<<>>, <<W>>, <<x, y>>), 1))
     \o CasesOf(Items, Items, LAMBDA x, y : Case(a, Html(<<>>, <<x, y>>, <<>>), 1))
     \o CasesOf(Items, SubSeq(Items, 1, 5),
                LAMBDA x, y : Case(a, Html(<<>>, <<W, x, W, y>>, <<>>), 1))
     \o CasesOf(DatedSeeds, Metas,
                LAMBDA x, y : Case(x, Html(y, <<W, Item("", "iso", 2021, 7, 8)>>, <<>>), 1))
     \o <<Case(HTTP(<<"h">>), Nothing, 2), Case(a, Html(Metas[5], <<W>>, <<>>), 2),
          Case(<<"h", "/", "a">>, Html(<<>>, <<W>>, <<>>), 1)>>

\* For the liveness of one crawler: a page with a link to another, and an empty one.
FewCases ==
  LET a == HTTP(<<"h", "/", "a">>)
  IN <<Case(a, Html(<<>>, <<W>>, <<<<"b", "/">>>>), 2), Case(a, Nothing, 2)>>

LaterPage == Html(<<>>, <<W, Item("", "iso", 2015, 6, 7)>>, <<>>)
ListingPage == Element("ListBucketResult", <<>>, <<Text(<<W, W, W>>)>>)

RECURSIVE NodesOf(_), HeightOf(_)
NodesOf(node) == {node} \cup UNION {NodesOf(node.children[i]) : i \in DOMAIN node.children}
HeightOf(node) ==
  IF node.children = <<>> THEN 0
  ELSE 1 + Max({HeightOf(node.children[i]) : i \in DOMAIN node.children})

NodesOfCases(cases) ==
  UNION {NodesOf(n) : n \in {LaterPage, ListingPage} \cup {cases[i].html : i \in DOMAIN cases}}
HeightsOf(nodes) == [n \in nodes |-> HeightOf(n)]

AllNodes == NodesOfCases(AllCases)
Heights == HeightsOf(AllNodes)
FewNodes == NodesOfCases(FewCases)
FewHeights == HeightsOf(FewNodes)

\* The constants: TLC evaluates a definition once, but not what it puts for a constant.
MCWord == STRING
MCLowerOf == LowerCase
MCDecoded == DecodedWords
MCNumberOf == Numbers
MCIsoDateIn == DatedWords
MCLowValuePatterns == Patterns
MCCases == AllCases
MCNode == AllNodes
MCHeight == Heights
MCFewCases == FewCases
MCFewNode == FewNodes
MCFewHeight == FewHeights
MCLater == LaterPage
MCListing == ListingPage
=============================================================================
