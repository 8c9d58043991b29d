-------------------------------- MODULE Urls --------------------------------
(***************************************************************************)
(* What the programs do to a URL: the normal forms of the two frontiers    *)
(* (crawler/url_frontier_mt.cpp and crawler/url_frontier.cpp), the domain  *)
(* they derive from it, the resolution of the links of a page              *)
(* (indexer/html_parser.cpp) and the filter of the multi-threaded crawler  *)
(* (crawler/url_filter.h).                                                 *)
(*                                                                         *)
(* A URL is the sequence of its delimiters, each a token of its own, and   *)
(* of the words between them.  The code looks for single characters from   *)
(* the left or the right; so do these definitions, and they go wrong with  *)
(* it where a delimiter stands where the code does not expect it.          *)
(***************************************************************************)
EXTENDS Naturals, SequencesExt

CONSTANTS
  Word,           \* the tokens of URLs
  LowerOf,        \* the lower-case form of the words that have capitals
  Decoded,        \* the words with an encoded unreserved character, decoded
  NumberOf,       \* the words that are numbers
  BadExtension,   \* the words, in lower case, that end in a bad extension
  LowValuePatterns,
  MaxUrlLength,   \* URLFilter::MAX_URL_LENGTH, in tokens
  MaxQueryParams  \* URLFilter::MAX_QUERY_PARAMS

Delimiter == {":", "/", "?", "#", "&", "="}

\* What is put in lower case has no capitals any more.  Nor does an encoded
\* character leave another one behind, as in a URL whose percent signs are all
\* followed by two digits.  The default ports are numbers, and no character is none.
\* "http" and "https" are in lower case.  An extension is a word with a dot.  The
\* limit of parameters is 3, not 0.
ASSUME UrlsAssumption ==
  /\ Delimiter \cup {"http", "https", "80", "443"} \subseteq Word
  /\ \A f \in {LowerOf, Decoded} : \A w \in DOMAIN f :
       /\ w \in Word \ (Delimiter \cup {"http", "https"})
       /\ f[w] \in Word \ (Delimiter \cup DOMAIN f)
  /\ NumberOf \in [DOMAIN NumberOf -> Nat]
  /\ {"80", "443"} \subseteq DOMAIN NumberOf /\ "" \notin DOMAIN NumberOf
  /\ DOMAIN NumberOf \subseteq Word \ (Delimiter \cup DOMAIN LowerOf)
  /\ BadExtension \subseteq Word \ Delimiter /\ LowValuePatterns \subseteq Seq(Word)
  /\ MaxUrlLength \in Nat /\ MaxQueryParams \in Nat \ {0}

NoUrl == <<>>

Lower(s) == [i \in DOMAIN s |-> IF s[i] \in DOMAIN LowerOf THEN LowerOf[s[i]] ELSE s[i]]

From(s, i) == SubSeq(s, i, Len(s))

Before(s, i) == SubSeq(s, 1, i - 1)

\* find_first_of: the place of the first delimiter of T from a place on, and the
\* place after the end where there is none.
First(s, T, from) ==
  LET i == SelectInSubSeq(s, from, Len(s), LAMBDA c : c \in T)
  IN IF i = 0 THEN Len(s) + 1 ELSE i

StartsWith(s, T) == s # <<>> /\ s[1] \in T

Occurs(t, s) == \E i \in DOMAIN s : IsPrefix(t, From(s, i))

Separator == <<":", "/", "/">>

\* find("://"), 0 where it is not found.
SchemeEnd(s) ==
  LET P == {i \in DOMAIN s : IsPrefix(Separator, From(s, i))}
  IN IF P = {} THEN 0 ELSE Min(P)

Schemes == {<<"http">>, <<"https">>}
DefaultPort == [http |-> "80", https |-> "443"]

-----------------------------------------------------------------------------
(* URLFrontierMT.                                                          *)

WithoutDefaultPort(scheme, host) ==
  IF Len(host) > 2 /\ IsSuffix(<<":", DefaultPort[scheme[1]]>>, host)
    THEN Before(host, Len(host) - 1) ELSE host

WithoutSlash(rest) ==
  IF Len(rest) > 1 /\ Last(rest) = "/" /\ ~Contains(rest, "?") THEN Front(rest) ELSE rest

\* Mutant: the fragment is kept.
KeepFragmentMT(u) ==
  LET e == SchemeEnd(u)
      scheme == Lower(Before(u, e))
      path == First(u, {"/"}, e + 3)
      host == Lower(SubSeq(u, e + 3, path - 1))
      rest == IF path > Len(u) THEN <<"/">> ELSE From(u, path)
  IN IF e = 0 THEN NoUrl
     ELSE scheme \o Separator \o WithoutDefaultPort(scheme, host) \o WithoutSlash(rest)

\* Mutant: the query is cut off with the fragment.
CutQueryMT(u) == KeepFragmentMT(Before(u, First(u, {"?", "#"}, 1)))

\* The host is all before the first slash, even where the query begins before it.
NormalizeMT(u) ==
  LET t == Before(u, First(u, {"#"}, 1))
      e == SchemeEnd(t)
      scheme == Lower(Before(t, e))
      path == First(t, {"/"}, e + 3)
      host == Lower(SubSeq(t, e + 3, path - 1))
      rest == IF path > Len(t) THEN <<"/">> ELSE From(t, path)
  IN IF e = 0 \/ scheme \notin Schemes THEN NoUrl
     ELSE scheme \o Separator \o WithoutDefaultPort(scheme, host) \o WithoutSlash(rest)

DomainMT(u) ==
  LET e == SchemeEnd(u)
      host == SubSeq(u, e + 3, First(u, {"/"}, e + 3) - 1)
  IN IF e = 0 THEN NoUrl ELSE Lower(Before(host, First(host, {":"}, 1)))

-----------------------------------------------------------------------------
(* URLNormalizer, of the single-threaded crawler.                          *)

NoPort == ""

DecodeUnreserved(path) ==
  [i \in DOMAIN path |-> IF path[i] \in DOMAIN Decoded THEN Decoded[path[i]] ELSE path[i]]

IsUrl(u) == SchemeEnd(u) # 0 /\ Lower(Before(u, SchemeEnd(u))) \in Schemes

\* parse(), of a URL that it accepts.  from_chars leaves the port at -1 where no
\* number follows the colon.
Parse(u) ==
  LET e == SchemeEnd(u)
      end == First(u, {"/", "?", "#"}, e + 3)
      authority == SubSeq(u, e + 3, end - 1)
      colon == First(authority, {":"}, 1)
      rest == From(u, end)
      pathEnd == IF StartsWith(rest, {"/"}) THEN First(rest, {"?", "#"}, 1) ELSE 1
      after == From(rest, pathEnd)
  IN [scheme |-> Lower(Before(u, e)),
      host |-> Lower(Before(authority, colon)),
      port |-> IF colon < Len(authority) /\ authority[colon + 1] \in DOMAIN NumberOf
                 THEN authority[colon + 1] ELSE NoPort,
      path |-> IF StartsWith(rest, {"/"}) THEN Before(rest, pathEnd) ELSE <<"/">>,
      query |-> IF StartsWith(after, {"?"}) THEN SubSeq(after, 2, First(after, {"#"}, 1) - 1)
                                            ELSE <<>>]

Build(c) ==
  c.scheme \o Separator \o c.host
  \o (IF c.port \in {NoPort, DefaultPort[c.scheme[1]]} THEN <<>> ELSE <<":", c.port>>)
  \o c.path
  \o (IF c.query = <<>> THEN <<>> ELSE <<"?">> \o c.query)

NormalizeST(u) ==
  IF IsUrl(u) THEN Build([Parse(u) EXCEPT !.path = DecodeUnreserved(@)]) ELSE NoUrl

DomainST(u) == IF IsUrl(u) THEN Parse(u).host ELSE NoUrl

-----------------------------------------------------------------------------
(* The links of a page.                                                    *)

HasHttp(u) == \E s \in Schemes : IsPrefix(s \o Separator, u)

\* base_path.rfind('/') and what is before it, of a base URL without its scheme.
BaseDir(rest) ==
  LET path == First(rest, {"/"}, 1)
  IN IF path > Len(rest) THEN <<"/">>
     ELSE SubSeq(rest, path, SelectLastInSeq(rest, LAMBDA c : c = "/"))

\* normalize_url(), the same in HTMLParser and in the single-threaded crawler: a
\* link without a lower-case scheme is relative, and the query of the base URL is
\* searched for its last slash, too.
Resolve(link, base) ==
  LET e == SchemeEnd(base)
      rest == From(base, e + 3)
      site == Before(base, e) \o Separator \o Before(rest, First(rest, {"/"}, 1))
  IN IF HasHttp(link) THEN link
     ELSE IF e = 0 THEN NoUrl
     ELSE IF IsPrefix(<<"/", "/">>, link) THEN Before(base, e) \o <<":">> \o link
     ELSE IF StartsWith(link, {"/"}) THEN site \o link
     ELSE site \o BaseDir(rest) \o link

\* What extract_links passes over.
IsNoLink(link) ==
  \/ link = <<>> \/ StartsWith(link, {"#"})
  \/ IsPrefix(<<"javascript", ":">>, link) \/ IsPrefix(<<"mailto", ":">>, link)

-----------------------------------------------------------------------------
(* URLFilter, of the multi-threaded crawler.                               *)

\* Only the query is cut off: a fragment hides the extension before it.
HasBadExtension(u) ==
  LET path == Lower(Before(u, First(u, {"?"}, 1)))
  IN path # <<>> /\ Last(path) \in BadExtension

PageParams == {"page", "p", "offset", "start"}

PagePatterns ==
  {<<q, p, "=">> : q \in {"?", "&"}, p \in PageParams}
  \cup {<<"/", p, "/", n>> : p \in {"page", "pages"}, n \in DOMAIN NumberOf}

IsPaginationUrl(u) == \E p \in PagePatterns : Occurs(p, Lower(u))

CountQueryParams(u) ==
  LET q == First(u, {"?"}, 1)
  IN IF q >= Len(u) THEN 0 ELSE 1 + Cardinality({i \in q + 1..Len(u) : u[i] = "&"})

HasLowValuePattern(u) == \E p \in LowValuePatterns : Occurs(p, Lower(u))

IsAcceptable(u) ==
  /\ Len(u) <= MaxUrlLength
  /\ HasHttp(u)
  /\ ~HasBadExtension(u)
  /\ ~IsPaginationUrl(u)
  /\ CountQueryParams(u) <= MaxQueryParams
  /\ ~HasLowValuePattern(u)
=============================================================================
