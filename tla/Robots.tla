-------------------------------- MODULE Robots --------------------------------
(***************************************************************************)
(* robots.txt (crawler/robots): the parser, line by line, and the answers  *)
(* to Allowed and CrawlDelay.  Characters are numbers.  A line is what     *)
(* splitField leaves of it, [field, value], comments, case and spaces      *)
(* gone; field "none" is a line it cannot split.  The value of a           *)
(* crawl-delay is a number of seconds, negative when it does not parse.    *)
(***************************************************************************)
EXTENDS Integers, Sequences, FiniteSets, FiniteSetsExt, SequencesExt, Iteration

CONSTANTS
    FileLines,  \* the lines a file may have
    MaxLines,   \* bound on the length of a file
    UserAgents, \* user agents that ask
    Paths       \* paths they ask for

ASSUME RobotsAssumption ==
    /\ MaxLines \in Nat
    /\ Paths \subseteq Seq(Nat)
    /\ \A line \in FileLines :
         \/ line.field \in {"user-agent", "allow", "disallow", "sitemap"} /\ line.value \in Seq(Nat)
         \/ line.field = "crawl-delay" /\ line.value \in Int
         \/ line.field = "none"

Star == 0   \* "*"
Dollar == 9 \* "$"
Slash == 5  \* "/"

VARIABLES
    file,           \* the lines read so far
    groups,         \* [agents, rules, crawlDelay, hasDelay]; the last one is cur
    sitemaps,
    startedRules    \* a rule since the last user-agent line

robotsVars == <<file, groups, sitemaps, startedRules>>

emptyGroup == [agents |-> <<>>, rules |-> <<>>, crawlDelay |-> 0, hasDelay |-> FALSE]

RobotsInit ==
    /\ file = <<>> /\ groups = <<>> /\ sitemaps = <<>>
    /\ startedRules = FALSE

(* Consecutive user-agent lines share a group; an empty token is not kept. *)
UserAgentLine(v) ==
    LET gs == IF groups = <<>> \/ startedRules THEN Append(groups, emptyGroup) ELSE groups
    IN  /\ groups' = IF v = <<>> THEN gs ELSE [gs EXCEPT ![Len(gs)].agents = Append(@, v)]
        /\ startedRules' = FALSE
        /\ UNCHANGED sitemaps

(* A rule before any user-agent line has no group; an empty Disallow ends  *)
(* the agents of its group and leaves no rule.                             *)
RuleLine(allow, v) ==
    /\ IF groups = <<>> THEN UNCHANGED <<groups, startedRules>>
       ELSE /\ startedRules' = TRUE
            /\ groups' = IF ~allow /\ v = <<>> THEN groups
                         ELSE [groups EXCEPT ![Len(groups)].rules =
                                 Append(@, [allow |-> allow, pattern |-> v])]
    /\ UNCHANGED sitemaps

CrawlDelayLine(d) ==
    /\ IF groups = <<>> THEN UNCHANGED <<groups, startedRules>>
       ELSE /\ startedRules' = TRUE
            /\ groups' = IF d < 0 THEN groups
                         ELSE [groups EXCEPT ![Len(groups)].crawlDelay = d,
                                             ![Len(groups)].hasDelay = TRUE]
    /\ UNCHANGED sitemaps

SitemapLine(v) ==
    /\ sitemaps' = IF v = <<>> THEN sitemaps ELSE Append(sitemaps, v)
    /\ UNCHANGED <<groups, startedRules>>

Parse ==
    /\ Len(file) < MaxLines
    /\ \E line \in FileLines :
         /\ file' = Append(file, line)
         /\ \/ line.field = "user-agent" /\ UserAgentLine(line.value)
            \/ line.field = "allow" /\ RuleLine(TRUE, line.value)
            \/ line.field = "disallow" /\ RuleLine(FALSE, line.value)
            \/ line.field = "crawl-delay" /\ CrawlDelayLine(line.value)
            \/ line.field = "sitemap" /\ SitemapLine(line.value)
            \/ line.field = "none" /\ UNCHANGED <<groups, sitemaps, startedRules>>

RobotsNext == Parse

RobotsSpec == RobotsInit /\ [][RobotsNext]_robotsVars

-----------------------------------------------------------------------------
(* Pattern matching.                                                       *)

(* The loop of matchGlob: p and j count the characters consumed, starP is  *)
(* -1 before the first "*".                                                *)
Globbing(pattern, s) ==
    [p : 0 .. Len(pattern), j : 0 .. Len(s), starP : -1 .. Len(pattern), starS : 0 .. Len(s),
     verdict : {"none", "match", "miss"}]

globTurn(pattern, s, anchored) ==
    [g \in Globbing(pattern, s) |->
       IF g.verdict # "none" THEN g
       ELSE IF g.p = Len(pattern) /\ (~anchored \/ g.j = Len(s)) THEN [g EXCEPT !.verdict = "match"]
       ELSE IF g.p < Len(pattern) /\ pattern[g.p + 1] = Star
       THEN [g EXCEPT !.starP = g.p, !.starS = g.j, !.p = @ + 1]
       ELSE IF g.p < Len(pattern) /\ g.j < Len(s) /\ pattern[g.p + 1] = s[g.j + 1]
       THEN [g EXCEPT !.p = @ + 1, !.j = @ + 1]
       ELSE IF g.starP < 0 \/ g.starS >= Len(s) THEN [g EXCEPT !.verdict = "miss"]
       ELSE [g EXCEPT !.starS = @ + 1, !.j = g.starS + 1, !.p = g.starP + 1]]

(* No pattern and no path makes it turn more often. *)
globTurns(pattern, s) == (Len(s) + 2) * (Len(pattern) + 1)

matchGlob(pattern, s, anchored) ==
    Iterate(globTurn(pattern, s, anchored),
            [p |-> 0, j |-> 0, starP |-> -1, starS |-> 0, verdict |-> "none"],
            globTurns(pattern, s)).verdict

(* The number of pattern characters, or -1 for no match. *)
matchLen(pattern, path) ==
    LET anchored == pattern # <<>> /\ Last(pattern) = Dollar
        pat == IF anchored THEN Front(pattern) ELSE pattern
    IN  IF matchGlob(pat, path, anchored) = "match" THEN Len(pat) ELSE -1

normalizePath(p) == IF p # <<>> /\ p[1] = Slash THEN p ELSE <<Slash>> \o p

Patterns == {line.value : line \in {l \in FileLines : l.field \in {"allow", "disallow"}}}
MatchTable == [pattern \in Patterns |-> [path \in Paths |-> matchLen(pattern, normalizePath(path))]]

-----------------------------------------------------------------------------
(* Answers.                                                                *)

contains(ua, a) == \E i \in 0 .. Len(ua) - Len(a) : SubSeq(ua, i + 1, i + Len(a)) = a

(* The first group with the longest token in the agent's name, else the    *)
(* first group for "*", else 0.                                            *)
groupFor(ua) ==
    LET with(a) == {i \in DOMAIN groups : a \in ToSet(groups[i].agents)}
        tokens == {a \in UNION {ToSet(groups[i].agents) : i \in DOMAIN groups} :
                     a # <<Star>> /\ contains(ua, a)}
        longest == Max({Len(a) : a \in tokens})
        best == UNION {with(a) : a \in {b \in tokens : Len(b) = longest}}
    IN  IF tokens # {} THEN Min(best)
        ELSE IF with(<<Star>>) # {} THEN Min(with(<<Star>>)) ELSE 0

(* A slip: the later of two rules of one length wins. *)
LaterRuleWins(n, rule, bestLen) == n >= bestLen

beats(n, rule, bestLen) == n > bestLen \/ (n = bestLen /\ rule.allow)

(* The loop of Allowed over the first i rules. *)
weighRule(rules, path) ==
    [b \in [i : Nat, bestLen : Int, allow : BOOLEAN] |->
       LET rule == rules[b.i + 1]
           n == MatchTable[rule.pattern][path]
       IN  IF n >= 0 /\ beats(n, rule, b.bestLen)
           THEN [i |-> b.i + 1, bestLen |-> n, allow |-> rule.allow] ELSE [b EXCEPT !.i = @ + 1]]

Allowed(ua, path) ==
    LET rules == groups[groupFor(ua)].rules
    IN  groupFor(ua) = 0 \/
        Iterate(weighRule(rules, path), [i |-> 0, bestLen |-> -1, allow |-> TRUE], Len(rules)).allow

(* The delay, or -1 for none. *)
CrawlDelay(ua) ==
    LET g == groups[groupFor(ua)]
    IN  IF groupFor(ua) = 0 THEN -1 ELSE IF ~g.hasDelay THEN -1 ELSE g.crawlDelay

-----------------------------------------------------------------------------
(* The same questions, asked of the file itself.                           *)

isAgent(i) == file[i].field = "user-agent"
isRule(i) == file[i].field \in {"allow", "disallow", "crawl-delay"}

(* The rules of agent line j: those with no rule and then agent in between. *)
governed(j) == {i \in j + 1 .. Len(file) : isRule(i) /\
                  ~\E r, a \in j + 1 .. i - 1 : r < a /\ isRule(r) /\ isAgent(a)}

agentLine(ua) ==
    LET named == {j \in DOMAIN file : isAgent(j) /\ file[j].value \notin {<<>>, <<Star>>}
                                      /\ contains(ua, file[j].value)}
        longest == {j \in named : \A k \in named : Len(file[k].value) <= Len(file[j].value)}
        star == {j \in DOMAIN file : isAgent(j) /\ file[j].value = <<Star>>}
    IN  IF named # {} THEN Min(longest) ELSE Min(star \cup {Len(file) + 1})

(* A "$" at the end of a pattern is no character of it. *)
ends(pattern) == pattern # <<>> /\ Last(pattern) = Dollar
size(pattern) == IF ends(pattern) THEN Len(pattern) - 1 ELSE Len(pattern)

(* Whether the pattern can be laid along s: its first k characters take    *)
(* laid[k] of s, a "*" any number, another character itself.               *)
takes(pattern, s, k, from, to) ==
    IF pattern[k] = Star THEN from <= to ELSE to = from + 1 /\ s[to] = pattern[k]

Matches(pattern, s) ==
    LET n == size(pattern)
    IN  \E laid \in [0 .. n -> 0 .. Len(s)] :
          /\ laid[0] = 0
          /\ \A k \in 1 .. n : takes(pattern, s, k, laid[k - 1], laid[k])
          /\ ends(pattern) => laid[n] = Len(s)

MatchesTable == [pattern \in Patterns |-> [path \in Paths |-> Matches(pattern, normalizePath(path))]]

(* RobotsVerdict: whatever the order of the lines, the page is refused     *)
(* exactly when a Disallow of the agent's own group matches it and every   *)
(* matching Allow is shorter; the delay is the last one that group gives   *)
(* (robots.go:61-102 and 143-162).                                         *)
RobotsVerdict ==
    \A ua \in UserAgents :
        LET mine == governed(agentLine(ua))
            delays == {i \in mine : file[i].field = "crawl-delay" /\ file[i].value >= 0}
            hits(field, path) ==
                {i \in mine : file[i].field = field /\ MatchesTable[file[i].value][path]}
        IN  /\ CrawlDelay(ua) = IF delays = {} THEN -1 ELSE file[Max(delays)].value
            /\ \A path \in Paths : ~Allowed(ua, path) <=>
                 \E i \in hits("disallow", path) : file[i].value # <<>> /\
                     \A a \in hits("allow", path) : size(file[a].value) < size(file[i].value)
=============================================================================
