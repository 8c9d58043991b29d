-------------------------------- MODULE Robots --------------------------------
(***************************************************************************)
(* RobotsParser (crawler/robots_parser.cpp): what a robots.txt allows, as  *)
(* the code computes it, and as the file says it.                          *)
(*                                                                         *)
(* A file is a sequence of lines, each a directive with its value.  Of a   *)
(* path it matters how long it is and which URLs start with it.            *)
(***************************************************************************)
EXTENDS Integers, Sequences

CONSTANTS
  Url, Agent, RulePath,
  Length,   \* of a rule's path, 0 for an empty one
  Starts    \* the pairs of a path and a URL that starts with it

Allow(p) == [directive |-> "allow", value |-> p]
Disallow(p) == [directive |-> "disallow", value |-> p]
UserAgent(a) == [directive |-> "user-agent", value |-> a]
CrawlDelay(n) == [directive |-> "crawl-delay", value |-> n]
\* A value that is not a number.
BadDelay == [directive |-> "bad-delay", value |-> ""]
\* A comment, or a directive that the parser does not know.
Other == [directive |-> "other", value |-> ""]

Line ==
  [directive : {"allow", "disallow"}, value : RulePath]
    \cup [directive : {"user-agent"}, value : Agent]
    \cup [directive : {"crawl-delay"}, value : Int]
    \cup {BadDelay, Other}

NotSet == -1

-----------------------------------------------------------------------------
(* What the code computes.                                                 *)

NoGroups == [a \in Agent |-> [listed |-> FALSE, rules |-> <<>>, crawlDelay |-> NotSet]]

IsRule(line) == line.directive \in {"allow", "disallow", "crawl-delay", "bad-delay"}

\* rules_[agent], for all the current agents, after a rule.
Ruled(group, line) ==
  CASE line.directive \in {"allow", "disallow"} ->
         [group EXCEPT !.rules = Append(@, [allow |-> line.directive = "allow",
                                            path |-> line.value])]
    [] line.directive = "crawl-delay" -> [group EXCEPT !.crawlDelay = line.value]
    [] OTHER -> group

\* Mutant: a user-agent line always starts a new group.
ParseLineUngrouped(s, line) ==
  IF line.directive = "user-agent"
    THEN [groups |-> [s.groups EXCEPT ![line.value].listed = TRUE],
          agents |-> {line.value}, seenRule |-> FALSE]
    ELSE [s EXCEPT !.groups = [a \in Agent |-> IF a \in s.agents THEN Ruled(@[a], line)
                                                               ELSE @[a]]]

\* One turn of the loop of parse(): user-agent lines that follow each other share
\* their rules; the first one after a rule starts a new group.
ParseLine(s, line) ==
  IF line.directive = "user-agent"
    THEN [groups |-> [s.groups EXCEPT ![line.value].listed = TRUE],
          agents |-> (IF s.seenRule THEN {} ELSE s.agents) \cup {line.value},
          seenRule |-> FALSE]
    ELSE IF IsRule(line) /\ s.agents # {}
    THEN [s EXCEPT !.groups = [a \in Agent |-> IF a \in s.agents THEN Ruled(@[a], line)
                                                               ELSE @[a]],
                   !.seenRule = TRUE]
    ELSE s

\* The state of parse() after each of the lines.
Parsing(file) ==
  LET state[i \in 0..Len(file)] ==
        IF i = 0 THEN [groups |-> NoGroups, agents |-> {}, seenRule |-> FALSE]
                 ELSE ParseLine(state[i - 1], file[i])
  IN state

Parse(file) == Parsing(file)[Len(file)].groups

\* get_matching_rules, {} where it returns nullptr.
MatchingRules(groups, bot) ==
  IF groups[bot].listed THEN {groups[bot]}
  ELSE IF groups["*"].listed THEN {groups["*"]} ELSE {}

\* One turn of the loop of is_allowed.
BestMatch(url, best, rule) ==
  LET n == Length[rule.path] IN
  IF n = 0 \/ <<rule.path, url>> \notin Starts THEN best
  ELSE IF n > best.length THEN [length |-> n, allow |-> rule.allow]
  ELSE IF n = best.length /\ rule.allow THEN [best EXCEPT !.allow = TRUE]
  ELSE best

\* The best match among the first rules of a group.
Matching(url, rules) ==
  LET best[i \in 0..Len(rules)] ==
        IF i = 0 THEN [length |-> -1, allow |-> TRUE]
                 ELSE BestMatch(url, best[i - 1], rules[i])
  IN best

IsAllowed(groups, bot, url) ==
  \A g \in MatchingRules(groups, bot) : Matching(url, g.rules)[Len(g.rules)].allow

GetCrawlDelay(groups, bot) ==
  IF MatchingRules(groups, bot) = {} THEN NotSet
  ELSE (CHOOSE g \in MatchingRules(groups, bot) : TRUE).crawlDelay

-----------------------------------------------------------------------------
(* What a file says.                                                       *)

NamesAt(file, a, i) == file[i].directive = "user-agent" /\ file[i].value = a

Names(file, a) == \E i \in DOMAIN file : NamesAt(file, a, i)

\* The rules for an agent: those after a line that names it, with no rule and
\* then another user-agent line in between.
RulesFor(file, a) ==
  {k \in DOMAIN file : IsRule(file[k]) /\
     \E i \in 1..(k - 1) :
       /\ NamesAt(file, a, i)
       /\ \A j \in i..(k - 1), m \in i..(k - 1) :
            IsRule(file[j]) /\ j < m => file[m].directive # "user-agent"}

\* The rules that a bot has to follow: its own group's, or those for all.
RulesOf(file, bot) ==
  IF Names(file, bot) THEN RulesFor(file, bot) ELSE RulesFor(file, "*")

\* The longest rule that matches decides, an allow where two are as long.
Forbids(file, bot, url) ==
  LET R == {i \in RulesOf(file, bot) :
              /\ file[i].directive \in {"allow", "disallow"}
              /\ Length[file[i].value] > 0 /\ <<file[i].value, url>> \in Starts} IN
  \E i \in R :
    /\ file[i].directive = "disallow"
    /\ \A j \in R : \/ Length[file[j].value] < Length[file[i].value]
                    \/ /\ Length[file[j].value] = Length[file[i].value]
                       /\ file[j].directive = "disallow"

\* The last crawl-delay counts.
DelayOf(file, bot) ==
  LET D == {i \in RulesOf(file, bot) : file[i].directive = "crawl-delay"} IN
  IF D = {} THEN NotSet ELSE file[CHOOSE i \in D : \A j \in D : j <= i].value
=============================================================================
