------------------------------ MODULE PageFlow ------------------------------
(***************************************************************************)
(* The way of a page through the system: a crawler takes its URL from the  *)
(* frontier, stores what the site answers, records it in the pages table   *)
(* and adds the links to the frontier; the indexer reads the row, gets the *)
(* content and indexes it with the date that it finds.  CrawlerMT,         *)
(* CrawlerST and Indexer model the processes and their faults over names   *)
(* for URLs and contents; here there is one worker and one page, whose URL,*)
(* links, text and dates are those that the code computes with.            *)
(*                                                                         *)
(* Calls of the crawler that fail, an orderly stop, a crash, a new start   *)
(* and a page that has changed when it is crawled again come in between;   *)
(* the calls of the indexer that fail are in Indexer.                      *)
(***************************************************************************)
EXTENDS Dates, HtmlParser, Resources

CONSTANTS
  Cases,    \* a sequence of records [seed, html, maxRuns]: a seed, its page, and
            \*   a bound: how often the crawler is started
  Later,    \* what the page may become
  Listing,  \* what the store answers to a request for its bucket
  Programs  \* the crawlers: "mt" for crawler_mt, "st" for crawler

Nothing == [tag |-> "#text", attr |-> <<>>, text |-> <<>>, children |-> <<>>]

ASSUME PageFlowAssumption ==
  /\ \A i \in DOMAIN Cases : /\ Cases[i].seed \in Seq(Word)
                             /\ Cases[i].html \in Node /\ Cases[i].maxRuns \in Nat
  /\ {Later, Listing, Nothing} \subseteq Node
  /\ Programs \subseteq {"mt", "st"}

VARIABLES
  \* the web: the seed and its page, and whether the page has changed
  case, changed,
  \* durable
  store,    \* the content store, by key
  rows,     \* the pages table, by URL
  saved,    \* frontier_state
  records,  \* the documents of the index, by URL
  \* the crawler
  program, pc, seen, queue, url, content, links,
  \* history
  recorded, \* the content that a row was last written for
  again,    \* the URLs whose row was written more than once
  runs

web == <<case, changed>>
crawler == <<pc, seen, queue, url, content, links>>
history == <<recorded, again>>
vars == <<web, store, rows, saved, records, program, crawler, history, runs>>

MT == program = "mt"

seed == Cases[case].seed
first == Cases[case].html
MaxRuns == Cases[case].maxRuns

\* A content is a sequence of bytes that is named for the page it is.
HtmlOf(c) == IF c = <<"first">> THEN first ELSE IF c = <<"later">> THEN Later
             ELSE IF c = <<"listing">> THEN Listing ELSE Nothing

Site == IF changed THEN <<"later">> ELSE IF first = Nothing THEN <<>> ELSE <<"first">>

Normalize(u) == IF MT THEN NormalizeMT(u) ELSE NormalizeST(u)
DomainOf(u) == IF MT THEN DomainMT(u) ELSE DomainST(u)

\* add() of either frontier, for a set of URLs: the multi-threaded one rejects those
\* without a domain.
Admitted(U) ==
  {Normalize(u) : u \in {v \in U : Normalize(v) # NoUrl
                                   /\ (MT => DomainOf(Normalize(v)) # NoUrl)}}

Add(U) ==
  /\ seen' = seen \cup Admitted(U)
  /\ queue' = queue \cup (Admitted(U) \ seen)

Home == Normalize(seed)

-----------------------------------------------------------------------------
(* The content store: S3Client.  A key has the hash of the content or the  *)
(* URL, and hashes are taken to differ.                                    *)

EmptyKey == <<{}, NoUrl>>

ContentKey == IF MT THEN <<{content}, NoUrl>> ELSE <<{}, url>>

\* What compress() may give: the content as it is, where it is empty or fails, or in
\* a frame.
Compressed(c) == IF c = <<>> THEN {c} ELSE {c, <<"zstd">> \o c}

\* Mutant: the frame is not taken off.
Uncompressed(object) == object

\* decompress(), which get() calls for what begins like a frame.
Decompress(object) == IF StartsWith(object, {"zstd"}) THEN Tail(object) ELSE object

\* get(): the content, or {}.
\* Under the empty key it asks for the bucket, which lists it or refuses to.
Gets(key) ==
  IF key = EmptyKey THEN {{}, {<<"listing">>}}
  ELSE {IF key \in DOMAIN store THEN {Decompress(store[key])} ELSE {}}

-----------------------------------------------------------------------------
(* IndexBuilder::index_document.                                           *)

Stamps(dates) == IF dates = {} THEN 0 ELSE ParseDate(CHOOSE d \in dates : TRUE)

Document(u, html) ==
  LET page == ParseHtml(html)
      modified == Stamps(page.modified)
      published == FirstFound(<<Stamps(page.published), ExtractDateFromUrl(u),
                                ExtractDateFromContent(page.text)>>)
  IN [title |-> page.title, text |-> page.text, published |-> published,
      description |-> page.description,
      era |-> EraString(FirstFound(<<published, modified>>))]

-----------------------------------------------------------------------------
Init ==
  /\ program \in Programs
  /\ case \in DOMAIN Cases
  /\ changed = FALSE
  /\ store = <<>> /\ rows = <<>> /\ records = <<>> /\ saved = {}
  /\ pc = "off" /\ seen = {} /\ queue = {} /\ url = NoUrl
  /\ content = <<>> /\ links = <<>>
  /\ recorded = <<>> /\ again = {} /\ runs = 0

\* Mutant: the saved frontier is cleared before it is loaded.
StartAfresh ==
  /\ pc = "off" /\ runs < MaxRuns
  /\ Admitted({seed}) # {}
  /\ seen' = Admitted({seed}) /\ queue' = seen'
  /\ saved' = {}
  /\ pc' = "loop" /\ runs' = runs + 1
  /\ UNCHANGED <<web, store, rows, records, program, url, content, links, history>>

\* The start of a crawler: the saved frontier, which is then cleared, and the seeds.
\* With a seed that the frontier does not admit there is nothing to do.
Start ==
  /\ pc = "off" /\ runs < MaxRuns
  /\ Admitted({seed}) # {}
  /\ seen' = Admitted(saved \cup {seed}) /\ queue' = seen'
  /\ saved' = {}
  /\ pc' = "loop" /\ runs' = runs + 1
  /\ UNCHANGED <<web, store, rows, records, program, url, content, links, history>>

\* The next URL; the multi-threaded crawler filters it once more.
Take ==
  /\ pc = "loop"
  /\ \E u \in queue :
       /\ queue' = queue \ {u}
       /\ IF MT /\ ~IsAcceptable(u) THEN UNCHANGED <<pc, url>> ELSE pc' = "fetch" /\ url' = u
  /\ UNCHANGED <<web, store, rows, saved, records, program, seen, content, links, history, runs>>

\* The next round of the loop; the URL is done with.
NextUrl == pc' = "loop" /\ url' = NoUrl /\ content' = <<>> /\ links' = <<>>

\* mark_crawled() keeps the indexed flag of a row that is there, and upsert_page()
\* clears it.  Only the first writes the key of the content: the record that the
\* single-threaded crawler hands over has it as its url_hash, which is not used.  Nor
\* is its crawled_at: upsert_page() sets that of a row that is there, and a new one
\* has none.
Row(status) ==
  [status |-> status,
   key |-> IF MT /\ status = "200" THEN ContentKey ELSE EmptyKey,
   crawled |-> MT \/ url \in DOMAIN rows,
   indexed |-> MT /\ url \in DOMAIN rows /\ rows[url].indexed]

Record(status) ==
  /\ rows' = Put(rows, url, Row(status))
  /\ again' = again \cup ({url} \cap DOMAIN rows)

\* The site has an answer for one URL only.  The multi-threaded crawler records the
\* failure, if it can.
FetchFails ==
  /\ pc = "fetch"
  /\ NextUrl
  /\ \/ MT /\ Record("0")
     \/ UNCHANGED <<rows, again>>
  /\ UNCHANGED <<web, store, saved, records, program, seen, queue, recorded, runs>>

Fetch ==
  /\ pc = "fetch" /\ url = Home
  /\ MT => Site # <<>>
  /\ content' = Site
  /\ pc' = "store"
  /\ UNCHANGED <<web, store, rows, saved, records, program, seen, queue, url, links, history, runs>>

\* Mutant: a failure is only logged by either crawler.
StoreUnchecked ==
  /\ pc = "store" /\ pc' = "record"
  /\ \/ \E object \in Compressed(content) : store' = Put(store, ContentKey, object)
     \/ UNCHANGED store
  /\ UNCHANGED <<web, rows, saved, records, program, seen, queue, url, content, links, history, runs>>

\* A failure is only logged by the single-threaded crawler.
StoreContent ==
  /\ pc = "store"
  /\ \/ /\ \E object \in Compressed(content) : store' = Put(store, ContentKey, object)
        /\ pc' = "record" /\ UNCHANGED <<url, content, links>>
     \/ /\ UNCHANGED store
        /\ IF MT THEN NextUrl ELSE pc' = "record" /\ UNCHANGED <<url, content, links>>
  /\ UNCHANGED <<web, rows, saved, records, program, seen, queue, history, runs>>

\* The links of the page are those that the parser of either crawler finds.
ReadLinks ==
  /\ pc' = "links"
  /\ links' = IF MT THEN LinksOf[HtmlOf(content)] ELSE HrefsOf[HtmlOf(content)]
  /\ UNCHANGED <<url, content>>

RecordPage ==
  /\ pc = "record"
  /\ \/ Record("200") /\ recorded' = Put(recorded, url, content) /\ ReadLinks
     \/ UNCHANGED <<rows, history>> /\ (IF MT THEN NextUrl ELSE ReadLinks)
  /\ UNCHANGED <<web, store, saved, records, program, seen, queue, runs>>

\* Mutant: the links are added as they stand in the page.
AddUnresolved ==
  /\ pc = "links"
  /\ Add({Before(url, SchemeEnd(url)) \o Separator \o link : link \in ToSet(links)})
  /\ NextUrl
  /\ UNCHANGED <<web, store, rows, saved, records, program, history, runs>>

\* The links, which the multi-threaded crawler filters as the page has them.
AddLinks ==
  /\ pc = "links"
  /\ LET resolved == {Resolve(link, url) : link \in ToSet(links)}
     IN Add({link \in resolved : MT => IsAcceptable(link)})
  /\ NextUrl
  /\ UNCHANGED <<web, store, rows, saved, records, program, history, runs>>

End ==
  /\ pc' = "off"
  /\ seen' = {} /\ queue' = {} /\ url' = NoUrl /\ content' = <<>> /\ links' = <<>>

\* An orderly stop between two pages; only the multi-threaded crawler saves.
Stop ==
  /\ pc = "loop" /\ End
  /\ saved' = IF MT THEN queue ELSE {}
  /\ UNCHANGED <<web, store, rows, records, program, history, runs>>

Crash ==
  /\ pc # "off" /\ End
  /\ UNCHANGED <<web, store, rows, saved, records, program, history, runs>>

\* The page changes, which matters when it is fetched.
SiteChanges ==
  /\ ~changed /\ pc = "fetch"
  /\ changed' = TRUE
  /\ UNCHANGED <<case, store, rows, saved, records, program, crawler, history, runs>>

\* get_unindexed_pages(): the rows that have a crawled_at and a page not yet indexed.
Unindexed(u) == rows[u].crawled /\ rows[u].status = "200" /\ ~rows[u].indexed

\* The indexer takes a row up: it indexes the content and marks the row, which it
\* also does where it gets none.
Index ==
  \E u \in DOMAIN rows :
    /\ Unindexed(u)
    /\ \E got \in Gets(rows[u].key) :
         records' = IF got = {} THEN records
                    ELSE Put(records, u, Document(u, HtmlOf(CHOOSE c \in got : TRUE)))
    /\ rows' = [rows EXCEPT ![u].indexed = TRUE]
    /\ UNCHANGED <<web, store, saved, program, crawler, history, runs>>

Next ==
  \/ Start \/ Take \/ Fetch \/ FetchFails \/ StoreContent \/ RecordPage \/ AddLinks
  \/ Stop \/ Crash \/ SiteChanges \/ Index

Spec == Init /\ [][Next]_vars

\* What a crawler that runs does next.
Crawl == Take \/ Fetch \/ FetchFails \/ StoreContent \/ RecordPage \/ AddLinks

\* Both programs are running threads.  Nobody has to start or stop one.
FairSpec == Spec /\ WF_vars(Crawl) /\ WF_vars(Index)

-----------------------------------------------------------------------------
(* Properties.                                                             *)

Step == {"off", "loop", "fetch", "store", "record", "links"}

\* The type of the state, and that only the multi-threaded crawler saves a
\* frontier, names contents in its rows and leaves a page out that is empty, and
\* that the other one gives a row its crawled_at only when it writes it again.
TypeOK ==
  /\ program \in Programs /\ pc \in Step /\ changed \in BOOLEAN
  /\ queue \subseteq seen /\ NoUrl \notin seen
  /\ runs \in 0..MaxRuns
  /\ DOMAIN recorded \subseteq DOMAIN rows /\ again \subseteq DOMAIN rows
  /\ DOMAIN records \subseteq DOMAIN rows
  /\ \A u \in DOMAIN rows : rows[u].key = EmptyKey \/ (MT /\ rows[u].key \in DOMAIN store)
  /\ \A u \in DOMAIN rows : rows[u].crawled = (MT \/ u \in again)
  /\ ~MT => saved = {}
  /\ MT => <<>> \notin {recorded[u] : u \in DOMAIN recorded}

\* A URL whose query begins at once after its host.
NoPath(u) == First(u, {"?"}, 1) < First(u, {"/"}, SchemeEnd(u) + 3)

\* The host of a URL, with its port.
Authority(u) ==
  LET e == SchemeEnd(u) IN SubSeq(u, e + 3, First(u, {"/"}, e + 3) - 1)

\* A port that is empty, is the default one, or is followed by something else.
OddPort(u) ==
  LET host == Authority(u)
      colon == First(host, {":"}, 1)
  IN colon <= Len(host) /\ (colon + 1 # Len(host) \/ host[Len(host)] = DefaultPort[u[1]])

\* What the normal form of a frontier is to tell apart.
Identity(u) ==
  IF MT THEN Resource(u) ELSE [Resource(u) EXCEPT !.path = DecodeUnreserved(@)]

\* No resource is queued under two names: however its URL is written in the links
\* and seeds, in capitals, with the default port, with a fragment, relative to the
\* page, or (single-threaded) with encoded characters, a frontier takes it once
\* (URLNormalizer::normalize, URLFrontierMT::normalize_url).  The multi-threaded one
\* takes a query without a path for a part of the host, and keeps a port that is
\* empty and a second one.
NoPageTwice ==
  \A u, v \in seen :
    \/ u = v
    \/ Identity(u) # Identity(v)
    \/ MT /\ \E w \in {u, v} : NoPath(w) \/ OddPort(w)

\* The links that the programs do not read as RFC 3986 does: a scheme in capitals,
\* a query alone, a relative path on a page with a slash in its query, and a path on
\* a page with a query and no path.
Misread(link, base) ==
  \/ SchemeEnd(link) = 2 /\ ~HasHttp(link)
  \/ StartsWith(link, {"?"})
  \/ /\ SchemeEnd(link) # 2 /\ Contains(From(base, First(base, {"?"}, 1)), "/")
     /\ StartsWith(link, {"/"}) => NoPath(base)

\* The URLs that the frontiers do not read as RFC 3986 does: with a port that is no
\* number, or, in the multi-threaded one, with a query and no path.
Unusual(u) == Resource(u).port \notin DOMAIN NumberOf \/ (MT /\ NoPath(Normalize(u)))

PageLinks == ToSet(HrefsOf[first]) \cup ToSet(HrefsOf[Later])

PageOf(u) == Page(Resource(u))

\* What the frontier makes of a URL, by the number of times that it gets it.
Again(u) ==
  LET read[n \in 0..MaxRuns] == IF n = 0 THEN u ELSE Normalize(read[n - 1]) IN read

\* A URL is read from another, when it is added and whenever it is loaded.
IsRead(u, from) == \E n \in 1..runs : u = Again(from)[n]

Means(u, name) == PageOf(u) = PageOf(name) \/ (Unusual(name) /\ IsRead(u, name))

IsMeant(u, base) ==
  \/ Means(u, seed)
  \/ \E link \in PageLinks : IF Misread(link, base) THEN IsRead(u, Resolve(link, base))
                            ELSE Means(u, Target(link, base))

\* Every URL of the frontier is that of a page that a seed or a link names: what
\* extract_links, normalize_url of the parser, the filter and the frontier make of a
\* link, also after a frontier was saved and loaded, is still the page it meant,
\* but for the links that are misread, and the URLs with a query and no path or a
\* port that is none.
QueuedIsMeant == \A u \in seen : IsMeant(u, Home)

\* A pattern that the filter looks for begins before the path.
SoughtInHost(u) ==
  \E p \in PagePatterns \cup LowValuePatterns, i \in 1..First(u, {"/"}, SchemeEnd(u) + 3) - 1 :
    IsPrefix(p, From(Lower(u), i))

\* The filter judges a link as it judges the URL that the frontier makes of it, so
\* that nothing it accepts is queued in vain, and nothing is lost that it would
\* accept: except where the link is as long as can be, has a fragment, which the filter
\* reads, or a slash at the end, which hides the extension (main_crawler_mt.cpp:169, 230);
\* or is a host alone that looks like a file, behind which the frontier puts a slash;
\* or has a host that looks like a part of a path, as with "/archive/" or "/page/2" when
\* the slash is put behind it or the port taken off.
FilteredAlike ==
  MT => \A i \in DOMAIN links :
    LET link == Resolve(links[i], url)
    IN \/ IsAcceptable(link) = IsAcceptable(NormalizeMT(link))
       \/ Len(link) >= MaxUrlLength \/ Contains(link, "#") \/ Last(link) = "/"
       \/ First(link, {"/"}, SchemeEnd(link) + 3) > Len(link) /\ HasBadExtension(link)
       \/ SoughtInHost(link) \/ SoughtInHost(NormalizeMT(link))

\* A saved frontier is loaded as it was saved: import_urls normalises again what was
\* normalised, and that changes only URLs that still end in a slash, or with a second
\* default port.
ReloadKeepsUrls ==
  [][runs' # runs => \A u \in saved :
       \/ u \in queue' \/ Last(u) = "/"
       \/ WithoutDefaultPort(<<u[1]>>, Authority(u)) # Authority(u)]_vars

\* A page that the multi-threaded crawler has recorded waits for the indexer or is
\* in the index with its content; unless its row was written again, which may put
\* a failure over a page not yet indexed, and leaves an indexed page as it was.
RecordedReachesIndex ==
  MT => \A u \in DOMAIN recorded \ again :
    \/ Unindexed(u) /\ Gets(rows[u].key) = {{recorded[u]}}
    \/ u \in DOMAIN records /\ records[u] = Document(u, HtmlOf(recorded[u]))

\* The pages that the single-threaded crawler has recorded, and stored under the key
\* of their URL, that are not in the index.
LeftOut ==
  {u \in DOMAIN recorded :
     /\ Gets(<<{}, u>>) = {{recorded[u]}}
     /\ u \in DOMAIN records => records[u] # Document(u, HtmlOf(recorded[u]))}

\* "Crawler -> Indexer": no page that the single-threaded crawler has stored and
\* recorded is left out of the index for ever.
StoredReachesIndex == []<>(LeftOut = {})

\* The text that a reader sees: that of the nodes without an invisible ancestor.
TextBelow[p \in Node \X BOOLEAN] ==
  LET node == p[1]
      hidden == p[2]
  IN IF node.tag = "#text" THEN IF hidden THEN <<>> ELSE node.text
     ELSE FlattenSeq([i \in DOMAIN node.children |->
                        TextBelow[<<node.children[i], hidden \/ node.tag \in InvisibleTags>>]])

Visible(html) == TextBelow[<<html, FALSE>>]

AnyLabel == {"", "published", "updated", "copyright"}

\* The date of an item, with what the code takes for the day that it leaves open.
DateOf(item) ==
  CASE item.form = "month-year" -> [item.date EXCEPT !.d = 15]
    [] item.form = "year" -> [item.date EXCEPT !.m = 7, !.d = 1]
    [] OTHER -> item.date

Dated(items, n, labels, forms) ==
  LET start == SubSeq(items, 1, IF n < Len(items) THEN n ELSE Len(items))
      dates == SelectSeq(start, LAMBDA x : x.form \in forms /\ x.label \in labels)
  IN [i \in DOMAIN dates |-> DateOf(dates[i])]

TextDates(items) ==
  Dated(items, ContentWindow, {"published"}, {"iso", "short-iso"})
  \o Dated(items, ContentWindow, {"published"}, {"text"})
  \o Dated(items, ContentWindow, {"updated"}, {"iso", "short-iso"})
  \o Dated(items, StandaloneWindow, AnyLabel, {"text"})
  \o Dated(items, StandaloneWindow, AnyLabel, {"iso"})
  \o Dated(items, 1 + StartSlack, AnyLabel, {"month-year"})
  \o Dated(items, ContentWindow, {"copyright"}, {"year"})

MetaDates(meta) ==
  LET items == SetToSeq(FirstOf(meta, PublishedKeys))
  IN Dated(items, Len(items), AnyLabel, {"iso", "text", "slashes"})

\* The path of a URL without its slashes: a year and a month, and a day if there is one.
PathDates(path) ==
  LET months == {i \in 1..(Len(path) - 1) :
                   IsNumber(path[i], 1000, 9999) /\ IsNumber(path[i + 1], 0, 99)}
      words == SelectSeq(path, LAMBDA w : w \in DOMAIN IsoDateIn)
      YearAt(i) == [y |-> NumberOf[path[i]], m |-> NumberOf[path[i + 1]],
                    d |-> IF i + 2 <= Len(path) /\ IsNumber(path[i + 2], 0, 99)
                            THEN NumberOf[path[i + 2]] ELSE 1]
  IN IF months # {} THEN <<YearAt(Min(months))>>
     ELSE [i \in DOMAIN words |-> IsoDateIn[words[i]]]

\* All the dates of a page as a reader sees them, those that count more before the
\* others: the publication in the meta tags, the path of the URL, and in the text the
\* publication, the update, any date near the start, a month at the start and the
\* copyright.  An update in words counts as any date, since no date comes of its label
\* (date_utils.h:233).
DatesOf(u, html) ==
  MetaDates(MetaOf(html))
  \o PathDates(SelectSeq(Resource(u).path, LAMBDA w : w # "/"))
  \o TextDates(Visible(html))

Sound(date) == Plausible(date) /\ date.m \in 1..12 /\ date.d \in 1..31

PreAI(date) == date.y < 2022 \/ (date.y = 2022 /\ date.m * 31 + date.d < 11 * 31 + 30)

\* A URL that ends with the day, which the patterns want a slash after, and which the
\* multi-threaded frontier takes the slash from.
EndsWithDay(u) ==
  LET v == Normalize(u)
  IN Len(v) > 5 /\ IsNumber(Last(v), 0, 99)
     /\ (IsNumber(v[Len(v) - 2], 0, 99) \/ IsNumber(v[Len(v) - 2], 1000, 9999))

DateFits(r, dates, modified) ==
  IF dates = <<>>
  THEN r.published = 0 /\ (r.era = "unknown" \/ modified # {})
  ELSE /\ r.published = TimestampOf(dates[1])
       /\ r.era = IF PreAI(dates[1]) THEN "pre-ai" ELSE "post-ai"

AllSound(dates) == \A i \in DOMAIN dates : Sound(dates[i])

AnyOf(dates) == {TimestampOf(dates[i]) : i \in DOMAIN dates}

\* A record has the text that a reader of a page sees, its title and its description.
ShowsPage(r, html) ==
  /\ r.text = Visible(html) /\ r.title = TitleOf(html)
  /\ r.description = FirstOf(MetaOf(html), <<"description">>)

RecordFits(r, dates, html) ==
  /\ ShowsPage(r, html)
  /\ r.published \in {0} \cup AnyOf(dates) \/ EndsWithDay(seed)
  /\ AllSound(dates) /\ ~EndsWithDay(seed) =>
       DateFits(r, dates, FirstOf(MetaOf(html), ModifiedKeys))

\* What the index says of a page is of one version of it: the text that a reader of
\* that version sees, and its most telling date, with the era that follows from it,
\* or no date where it has none.  Where one of its dates is no date, that date may
\* hide the others; and a day at the end of a URL is not read.
RecordIsOnePage ==
  \A u \in DOMAIN records : \E html \in {first, Later, Listing} :
    RecordFits(records[u], DatesOf(u, html), html)
=============================================================================
