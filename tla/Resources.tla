----------------------------- MODULE Resources -----------------------------
(***************************************************************************)
(* What URLs and links mean, after RFC 3986: the reference that Urls is    *)
(* compared with.  Nothing here models code.                               *)
(***************************************************************************)
EXTENDS Urls

Located(scheme, authority, target) ==
  LET colon == First(authority, {":"}, 1)
      question == First(target, {"?"}, 1)
      path == Before(target, question)
  IN [scheme |-> scheme,
      host |-> Lower(Before(authority, colon)),
      port |-> IF colon < Len(authority) THEN authority[colon + 1] ELSE DefaultPort[scheme[1]],
      path |-> IF path = <<>> THEN <<"/">> ELSE path,
      query |-> From(target, question)]

Split(scheme, hierarchy) ==
  LET end == First(hierarchy, {"/", "?"}, 1)
  IN Located(scheme, Before(hierarchy, end), From(hierarchy, end))

\* The part of a URL that is sent to its server, and the server: the query with its
\* question mark, and no fragment.
Resource(u) ==
  LET e == SchemeEnd(u)
  IN Split(Lower(Before(u, e)), From(Before(u, First(u, {"#"}, 1)), e + 3))

\* A path without the slashes at its end, but for a path of slashes only.
Unslashed(path) ==
  LET last == SelectLastInSeq(path, LAMBDA c : c # "/")
  IN SubSeq(path, 1, IF last = 0 THEN 1 ELSE last)

\* Resources that usually are the same page: up to slashes at the end, a question
\* mark at the end and encoded unreserved characters.
Page(r) == [r EXCEPT !.path = DecodeUnreserved(Unslashed(@)),
                     !.query = IF @ = <<"?">> THEN <<>> ELSE @]

\* A link on a page whose URL up to the query is the path, with the scheme.
Joined(link, path, scheme) ==
  LET hostEnd == First(path, {"/"}, Len(scheme) + 4) - 1
      slash == SelectLastInSeq(path, LAMBDA c : c = "/")
  IN IF SchemeEnd(link) = 2 THEN link
     ELSE IF IsPrefix(<<"/", "/">>, link) THEN scheme \o <<":">> \o link
     ELSE IF StartsWith(link, {"/"}) THEN SubSeq(path, 1, hostEnd) \o link
     ELSE IF StartsWith(link, {"?"}) THEN path \o link
     ELSE (IF slash <= hostEnd THEN path \o <<"/">> ELSE SubSeq(path, 1, slash)) \o link

\* The URL that a link on the page of a base URL means.
Target(link, base) ==
  Joined(link, Before(base, First(base, {"?", "#"}, 1)), Before(base, SchemeEnd(base)))
=============================================================================
