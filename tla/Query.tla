-------------------------------- MODULE Query --------------------------------
(***************************************************************************)
(* The query program: its prompt (main_query.cpp) over the query parser    *)
(* (query_parser.cpp), the index reader (rocksdb_index_reader.cpp) and the *)
(* ranker (ranker.cpp), for an index that does not change.                 *)
(*                                                                         *)
(* A query is a sequence of tokens; a text is a sequence of words.  AI     *)
(* scores are in tenths.                                                   *)
(***************************************************************************)
EXTENDS Integers, Sequences, FiniteSets, SequencesExt

CONSTANTS
  Doc,
  Word, Stem, StopWord,  \* the words, their stems, and those not indexed
  Documents,   \* what a document may be: its text, domain, era and AI score
  Parents,     \* the domains that a domain lies below
  Queries,     \* what is typed
  Limits,      \* and the numbers after "limit"
  PositionSize,\* 2^16: a position or frequency is read back modulo this
  MaxPage      \* bound on current_page

Field == {"title", "body"}

\* parse_era.
Eras == [e \in {"pre-ai", "ai-era", "transition"} |->
           CASE e = "pre-ai" -> "PRE_AI" [] e = "ai-era" -> "AI_ERA" [] OTHER -> "TRANSITION"]

NoFilter == "none"

\* What is typed: an era that parse_era does not know is the word that is made of it.
Token ==
  [kind : {"word", "minus"}, value : Word] \cup [kind : {"phrase"}, value : Seq(Word)]
    \cup [kind : {"era"}, value : DOMAIN Eras \cup Word]
    \cup [kind : {"site"}, value : DOMAIN Parents]
    \cup [kind : {"max-ai", "min-ai"}, value : 0..10]

ASSUME QueryAssumption ==
  /\ IsFiniteSet(Doc)
  /\ Stem \in [Word -> Word] /\ StopWord \subseteq Word
  /\ \A x \in Documents : /\ x.text \in [Field -> Seq(Word)] /\ x.domain \in DOMAIN Parents
                          /\ x.ai \in 0..10
  /\ NoFilter \notin DOMAIN Parents
  /\ Queries \subseteq Seq(Token) \ {<<>>}
  /\ Limits \subseteq Nat \ {0}
  /\ PositionSize \in Nat \ {0} /\ MaxPage \in Nat \ {0}

VARIABLES
  index,   \* the documents
  listed,  \* those that have a doc: key
  query,   \* last_query, <<>> if there is none
  limit, page,  \* current_limit, current_page
  shown,   \* the page that was printed last
  paged,   \* history: it was reached from the first page by "next" only
  trail    \* history: what was printed since the first page

vars == <<index, listed, query, limit, page, shown, paged, trail>>

-----------------------------------------------------------------------------
(* The index.                                                              *)

\* The loop of Tokenizer::tokenize: stop words take no position.
Keeping(text) ==
  LET kept[i \in 0..Len(text)] ==
        IF i = 0 THEN <<>>
        ELSE IF text[i] \in StopWord THEN kept[i - 1] ELSE Append(kept[i - 1], text[i])
  IN kept

Kept(text) == Keeping(text)[Len(text)]

Tokens(text) == LET kept == Kept(text) IN [i \in DOMAIN kept |-> Stem[kept[i]]]

\* Where a term is in a field, as Posting::deserialize reads it.
Positions(d, f, t) ==
  LET s == Tokens(index[d].text[f]) IN {(i - 1) % PositionSize : i \in {j \in DOMAIN s : s[j] = t}}

Frequency(d, f, t) ==
  LET s == Tokens(index[d].text[f]) IN Cardinality({j \in DOMAIN s : s[j] = t}) % PositionSize

FieldsWith(d, t) == {f \in Field : t \in ToSet(Tokens(index[d].text[f]))}

\* Mutant: the posting of one field hides that of the other.
AggregateLast(d, t) ==
  LET f == CHOOSE f \in FieldsWith(d, t) : "title" \in FieldsWith(d, t) => f = "title"
  IN [frequency |-> Frequency(d, f, t), positions |-> Positions(d, f, t)]

\* get_postings makes one posting of a document's, whatever their fields.
Aggregate(d, t) ==
  [frequency |-> Frequency(d, "title", t) + Frequency(d, "body", t),
   positions |-> Positions(d, "title", t) \cup Positions(d, "body", t)]

\* get_document: the stored era as string_to_era reads it.
EraOf(d) ==
  CASE index[d].era = "pre-ai" -> "PRE_AI"
    [] index[d].era = "post-ai" -> "AI_ERA"
    [] OTHER -> "UNKNOWN"

-----------------------------------------------------------------------------
(* The query parser.                                                       *)

NoQuery == [terms |-> <<>>, phrases |-> <<>>, excluded |-> <<>>, era |-> NoFilter,
            site |-> NoFilter, maxAi |-> 10, minAi |-> 0]

AddTerm(q, w) ==
  IF w \in StopWord THEN q ELSE [q EXCEPT !.terms = Append(@, Stem[w])]

\* One token.  A filter that is not understood becomes a term.  Phrases are not
\* stemmed, and excluded words may be stop words.
ParseToken(q, token) ==
  LET v == token.value IN
  CASE token.kind = "phrase" -> [q EXCEPT !.phrases = Append(@, v)]
    [] token.kind = "minus" -> [q EXCEPT !.excluded = Append(@, Stem[v])]
    [] token.kind = "word" -> AddTerm(q, v)
    [] token.kind = "era" ->
         IF v \in DOMAIN Eras THEN [q EXCEPT !.era = Eras[v]] ELSE AddTerm(q, v)
    [] token.kind = "site" -> [q EXCEPT !.site = v]
    [] token.kind = "max-ai" -> [q EXCEPT !.maxAi = v]
    [] token.kind = "min-ai" -> [q EXCEPT !.minAi = v]

Parsing(tokens) ==
  LET parsed[i \in 0..Len(tokens)] ==
        IF i = 0 THEN NoQuery ELSE ParseToken(parsed[i - 1], tokens[i])
  IN parsed

Parse(tokens) == Parsing(tokens)[Len(tokens)]

-----------------------------------------------------------------------------
(* The ranker.                                                             *)

\* all_terms, after each of the phrases.
Gathering(q) ==
  LET all[i \in 0..Len(q.phrases)] ==
        IF i = 0 THEN q.terms ELSE all[i - 1] \o q.phrases[i]
  IN all

AllTerms(q) == Gathering(q)[Len(q.phrases)]

\* Mutant: the excluded terms are not looked up.
SearchTermsPositive(q) == ToSet(AllTerms(q))

SearchTerms(q) == ToSet(AllTerms(q)) \cup ToSet(q.excluded)

\* The terms of a candidate's term_postings.
TermsOf(d, q) == {t \in SearchTerms(q) : FieldsWith(d, t) # {}}

HasExcludedTerms(d, q) == \E t \in ToSet(q.excluded) : t \in TermsOf(d, q)

PassesFilters(d, q) ==
  /\ q.era # NoFilter => EraOf(d) = q.era
  /\ index[d].ai <= q.maxAi /\ index[d].ai >= q.minAi
  /\ q.site # NoFilter => index[d].domain = q.site \/ q.site \in Parents[index[d].domain]

MatchesPhrase(d, t1, t2) ==
  \E i \in Aggregate(d, t1).positions, j \in Aggregate(d, t2).positions : j = i + 1

\* Each two words of a phrase that follow each other do so somewhere.
CheckPhrases(d, q) ==
  \A phrase \in ToSet(q.phrases) :
    /\ ToSet(phrase) \subseteq TermsOf(d, q)
    /\ \A k \in 1..(Len(phrase) - 1) : MatchesPhrase(d, phrase[k], phrase[k + 1])

Matches(q) ==
  IF q.terms = <<>> /\ q.phrases = <<>> THEN {}
  ELSE {d \in listed : /\ TermsOf(d, q) # {} /\ ~HasExcludedTerms(d, q)
                       /\ PassesFilters(d, q) /\ CheckPhrases(d, q)}

\* The frequencies stand for the BM25 score, which grows with them; a fifth of
\* the AI score is taken off.
Scoring(d, q) ==
  LET terms == AllTerms(q)
      present == TermsOf(d, q)
      total[i \in 0..Len(terms)] ==
        IF i = 0 THEN 0
        ELSE total[i - 1] + (IF terms[i] \in present THEN Aggregate(d, terms[i]).frequency ELSE 0)
  IN total

Score(d, q) == (50 - index[d].ai) * Scoring(d, q)[Len(AllTerms(q))]

\* What std::sort makes of the matches: those of equal score are in some order, the
\* same one each time.
Sorted(S, score) ==
  CHOOSE s \in [1..Cardinality(S) -> S] :
    /\ \A d \in S : \E i \in DOMAIN s : s[i] = d
    /\ \A i, j \in DOMAIN s : i < j => score[s[i]] >= score[s[j]]

Ranking(q) == Sorted(Matches(q), [d \in Matches(q) |-> Score(d, q)])

Rank(q, maxResults) ==
  LET r == Ranking(q) IN SubSeq(r, 1, IF Len(r) > maxResults THEN maxResults ELSE Len(r))

-----------------------------------------------------------------------------
(* The prompt.                                                             *)

\* Mutant: pages count from zero.
StartIndexLate(p) == p * limit

StartIndex(p) == (p - 1) * limit

ExecuteSearch(typed, p) ==
  LET r == Rank(Parse(typed), limit * p)
      start == StartIndex(p)
      end == IF start + limit < Len(r) THEN start + limit ELSE Len(r)
  IN IF r = <<>> THEN <<>> ELSE SubSeq(r, start + 1, end)

Init ==
  /\ index \in [Doc -> Documents] /\ listed \in SUBSET Doc
  /\ query = <<>> /\ limit \in Limits /\ page = 1
  /\ shown = <<>> /\ paged = FALSE /\ trail = <<>>

Search(typed) ==
  /\ query' = typed /\ page' = 1
  /\ shown' = ExecuteSearch(typed, 1)
  /\ paged' = TRUE /\ trail' = shown'
  /\ UNCHANGED <<index, listed, limit>>

NextPage ==
  /\ query # <<>> /\ page < MaxPage
  /\ page' = page + 1
  /\ shown' = ExecuteSearch(query, page + 1)
  /\ trail' = trail \o shown'
  /\ UNCHANGED <<index, listed, query, limit, paged>>

Jump(p) ==
  /\ page' = p
  /\ shown' = ExecuteSearch(query, p)
  /\ paged' = FALSE /\ trail' = <<>>
  /\ UNCHANGED <<index, listed, query, limit>>

\* Mutant: the first page has a previous one.
PrevPageAlways == query # <<>> /\ Jump(page - 1)

PrevPage == query # <<>> /\ page > 1 /\ Jump(page - 1)

GoToPage(p) == query # <<>> /\ Jump(p)

SetLimit(n) ==
  /\ limit' = n
  /\ paged' = FALSE /\ trail' = <<>>
  /\ UNCHANGED <<index, listed, query, page, shown>>

Next ==
  \/ \E typed \in Queries : Search(typed)
  \/ NextPage \/ PrevPage
  \/ \E p \in 1..MaxPage : GoToPage(p)
  \/ \E n \in Limits : SetLimit(n)

Spec == Init /\ [][Next]_vars

-----------------------------------------------------------------------------
(* Properties, in terms of what was typed and of the texts.                *)

\* Every variable has its type; in particular there is no page before the first.
TypeOK ==
  /\ index \in [Doc -> Documents] /\ listed \subseteq Doc
  /\ query \in Queries \cup {<<>>}
  /\ limit \in Limits /\ page \in 1..MaxPage
  /\ ToSet(shown) \subseteq Doc /\ ToSet(trail) \subseteq Doc /\ paged \in BOOLEAN

Typed(kind) == {query[i].value : i \in {j \in DOMAIN query : query[j].kind = kind}}

Understood(token) == token.kind = "era" => token.value \in DOMAIN Eras

\* The last filter of a kind counts.
LastTyped(kind, value) ==
  \E i \in DOMAIN query :
    /\ query[i] = [kind |-> kind, value |-> value] /\ Understood(query[i])
    /\ \A j \in (i + 1)..Len(query) : query[j].kind = kind => ~Understood(query[j])

HasTerm(d, t) ==
  \E f \in Field : \E v \in ToSet(index[d].text[f]) \ StopWord : Stem[v] = t

HasWord(d, w) == w \notin StopWord /\ HasTerm(d, Stem[w])

\* The filters that the parser understands.  The index has no third era, so that
\* nothing is of "transition".
ObeysFilters(d) ==
  /\ \A w \in Typed("minus") : ~HasTerm(d, Stem[w])
  /\ LastTyped("era", "pre-ai") => index[d].era = "pre-ai"
  /\ LastTyped("era", "ai-era") => index[d].era = "post-ai"
  /\ ~LastTyped("era", "transition")
  /\ \A n \in 0..10 : /\ LastTyped("max-ai", n) => index[d].ai <= n
                      /\ LastTyped("min-ai", n) => index[d].ai >= n
  /\ \A h \in Typed("site") :
       LastTyped("site", h) => h = index[d].domain \/ h \in Parents[index[d].domain]

\* The words of a phrase are looked up as they are, though the index has stems.
Asked(d) ==
  \/ \E w \in Typed("word") \cup (Typed("era") \ DOMAIN Eras) : HasWord(d, w)
  \/ \E p \in Typed("phrase") : \E w \in ToSet(p) : HasTerm(d, w)

\* Every document on the page is there, has a word that was asked for and none
\* with the stem of an excluded one, and obeys the filters, whatever the order of
\* the tokens.
NothingWrongShown ==
  \A i \in DOMAIN shown :
    shown[i] \in listed /\ Asked(shown[i]) /\ ObeysFilters(shown[i])

\* A phrase of words that are their own stems, which a field of at most
\* PositionSize words has; other phrases are never found, or not always.
HasPhrase(d, p) ==
  /\ ToSet(p) \cap StopWord = {} /\ \A w \in ToSet(p) : Stem[w] = w
  /\ \E f \in Field :
       LET s == Kept(index[d].text[f]) IN
       /\ Len(s) <= PositionSize
       /\ \E i \in 0..(Len(s) - Len(p)) : \A k \in DOMAIN p : Stem[s[i + k]] = p[k]

\* A document that obeys the filters and has the phrases and, without phrases,
\* one of the words, is a match: excluded words, the fields that its words are
\* in, and the stems hide none.
NothingMissed ==
  \A d \in listed :
    Asked(d) /\ ObeysFilters(d) /\ (\A p \in Typed("phrase") : HasPhrase(d, p))
      => d \in Matches(Parse(query))

\* Each page searches anew, for a longer list.  From the first page on, "next"
\* shows the matches in the order of their scores, none twice, and all of them
\* when a page is not full.
PagesInOrder ==
  LET q == Parse(query)
      found == ToSet(trail) IN
  paged =>
    /\ Cardinality(found) = Len(trail) /\ found \subseteq Matches(q)
    /\ Len(shown) < limit => found = Matches(q)
    /\ \A i \in DOMAIN trail :
         LET before == ToSet(SubSeq(trail, 1, i - 1)) IN
         \A d \in Matches(q) \ before : Score(trail[i], q) >= Score(d, q)
=============================================================================
