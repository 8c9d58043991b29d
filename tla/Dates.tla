------------------------------- MODULE Dates -------------------------------
(***************************************************************************)
(* DateUtils (common/date_utils.h): when a page was published, and the era *)
(* that follows.                                                           *)
(*                                                                         *)
(* An item of a text is a word, or a date with the word before it that a   *)
(* pattern asks for: [label, form, date].  Each pattern is searched from   *)
(* the left, in the first items of the text, and takes one match.          *)
(***************************************************************************)
EXTENDS Urls

CONSTANTS
  ContentWindow,     \* the first 2500 characters of the text, in items,
  StandaloneWindow,  \*   the first 500,
  StartWindow,       \*   the first 100
  StartSlack,        \*   and the first 20
  IsoDateIn          \* the words of a URL that have a date YYYY-MM-DD, and the date

\* The forms of a date: 2021-01-15, 2021-1-5, January 15, 2021, January 2021, 2021
\* and /2021/01/15/.
Form == {"none", "iso", "short-iso", "text", "month-year", "year", "slashes"}

\* make_timestamp, as the number of a day; 0 where it fails.  A day that the month
\* does not have is one of the next month, with timegm as with this number.
MakeTimestamp(y, m, d) ==
  IF y \in 1970..2100 /\ m \in 1..12 /\ d \in 1..31 THEN (y * 12 + m) * 31 + d ELSE 0

TimestampOf(date) == MakeTimestamp(date.y, date.m, date.d)

AI_ERA_CUTOFF == MakeTimestamp(2022, 11, 30)

EraString(t) ==
  IF t = 0 THEN "unknown" ELSE IF t < AI_ERA_CUTOFF THEN "pre-ai" ELSE "post-ai"

\* The first result that is not 0.
FirstFound(results) ==
  LET i == SelectInSeq(results, LAMBDA t : t > 0) IN IF i = 0 THEN 0 ELSE results[i]

-----------------------------------------------------------------------------
\* extract_date_from_url: a match of /YYYY/MM/ or /YYYY/MM/DD/ whose numbers are no
\* date ends the search.
IsNumber(w, low, high) == w \in DOMAIN NumberOf /\ NumberOf[w] \in low..high

SlashDateAt(u, i) ==
  /\ i + 4 <= Len(u)
  /\ u[i] = "/" /\ u[i + 2] = "/" /\ u[i + 4] = "/"
  /\ IsNumber(u[i + 1], 1000, 9999) /\ IsNumber(u[i + 3], 0, 99)

DayAt(u, i) ==
  IF i + 6 <= Len(u) /\ u[i + 6] = "/" /\ IsNumber(u[i + 5], 0, 99)
    THEN NumberOf[u[i + 5]] ELSE 1

ExtractDateFromUrl(u) ==
  LET at == {i \in DOMAIN u : SlashDateAt(u, i)}
      i == CHOOSE i \in at : \A j \in at : i <= j
      w == SelectInSeq(u, LAMBDA c : c \in DOMAIN IsoDateIn)
  IN IF at # {} THEN MakeTimestamp(NumberOf[u[i + 1]], NumberOf[u[i + 3]], DayAt(u, i))
     ELSE IF w # 0 THEN TimestampOf(IsoDateIn[u[w]]) ELSE 0

\* parse_date: of a value that is one date.
ParseDate(item) ==
  IF item.form \in {"iso", "text", "slashes"} THEN TimestampOf(item.date) ELSE 0

-----------------------------------------------------------------------------
\* regex_search in the first n items, 0 or the place of the match.
Search(text, n, label, forms) ==
  SelectInSubSeq(text, 1, IF n < Len(text) THEN n ELSE Len(text),
                 LAMBDA x : x.form \in forms /\ label \in {"", x.label})

FindPublished(text) ==
  LET iso == Search(text, ContentWindow, "published", {"iso", "short-iso"})
      words == Search(text, ContentWindow, "published", {"text"})
  IN IF iso # 0 THEN TimestampOf(text[iso].date)
     ELSE IF words # 0 THEN TimestampOf(text[words].date) ELSE 0

\* The month of a date in words is read from match[4], a group that its pattern
\* does not have: it is 0, and no date comes of it.
FindLabeled(text) ==
  LET iso == Search(text, ContentWindow, "updated", {"iso", "short-iso"})
      words == Search(text, ContentWindow, "updated", {"text"})
  IN IF iso # 0 THEN TimestampOf(text[iso].date)
     ELSE IF words # 0 THEN MakeTimestamp(text[words].date.y, 0, text[words].date.d) ELSE 0

Plausible(date) == date.y \in 1995..2030

FindStandalone(text) ==
  LET words == Search(text, StandaloneWindow, "", {"text"})
      iso == Search(text, StandaloneWindow, "", {"iso"})
  IN IF words # 0 /\ Plausible(text[words].date) THEN TimestampOf(text[words].date)
     ELSE IF iso # 0 /\ Plausible(text[iso].date) THEN TimestampOf(text[iso].date) ELSE 0

FindMonthYear(text) ==
  LET i == Search(text, StartWindow, "", {"month-year"})
  IN IF i # 0 /\ i <= 1 + StartSlack /\ Plausible(text[i].date)
       THEN MakeTimestamp(text[i].date.y, text[i].date.m, 15) ELSE 0

FindCopyright(text) ==
  LET i == Search(text, ContentWindow, "copyright", {"year"})
  IN IF i # 0 /\ Plausible(text[i].date) THEN MakeTimestamp(text[i].date.y, 7, 1) ELSE 0

\* Mutant: the copyright before what stands at the start.
CopyrightFirst(text) ==
  FirstFound(<<FindPublished(text), FindLabeled(text), FindCopyright(text),
               FindStandalone(text), FindMonthYear(text)>>)

ExtractDateFromContent(text) ==
  FirstFound(<<FindPublished(text), FindLabeled(text), FindStandalone(text),
               FindMonthYear(text), FindCopyright(text)>>)
=============================================================================
