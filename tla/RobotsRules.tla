---------------------------- MODULE RobotsRules ----------------------------
(* robots.txt: the parser, which group and rule decide, and the pattern      *)
(* matcher (src/src/core/robots.py), each beside a definition of what it is  *)
(* to compute.  Paths and patterns are sequences of characters.              *)
EXTENDS Integers, SequencesExt

CONSTANTS
    Lines,       \* the lines a file may have: [field, token, pattern, delay]
    TokenLength, \* the tokens that prefix this crawler's name, with their lengths
    Paths,       \* the paths that are asked for
    MaxLines,    \* _MAX_LINES
    Chars,       \* the characters of patterns and texts, "*" among them
    MaxPattern, MaxText  \* bounds on the lengths of those

Wildcard == "*"
NoDelay == -1

\* The wildcard prefixes no crawler's name.
ASSUME RobotsAssumption ==
    /\ {MaxLines, MaxPattern, MaxText} \subseteq Nat
    /\ Lines \subseteq [field : STRING, token : STRING, pattern : Seq(STRING), delay : Int]
    /\ TokenLength \in [DOMAIN TokenLength -> Nat] /\ Wildcard \notin DOMAIN TokenLength

VARIABLES
    file,     \* the lines read so far
    parser,   \* parse_robots_txt's variables
    glob      \* _glob_full_match's arguments and variables

robotsVars == <<file, parser, glob>>

-----------------------------------------------------------------------------
(* _glob_full_match, one round of its loop at a time.  Indexes count from 1. *)

GlobInit ==
    glob \in [pattern : SeqOf(Chars, MaxPattern), text : SeqOf(Chars, MaxText),
              p : {1}, t : {1}, starP : {0}, starT : {1}, verdict : {"none"}]

InText == glob.verdict = "none" /\ glob.t <= Len(glob.text)
CharMatches == glob.p <= Len(glob.pattern) /\ glob.pattern[glob.p] = glob.text[glob.t]
AtStar == glob.p <= Len(glob.pattern) /\ glob.pattern[glob.p] = Wildcard

MatchChar ==
    /\ InText /\ CharMatches
    /\ glob' = [glob EXCEPT !.p = @ + 1, !.t = @ + 1]

MatchStar ==
    /\ InText /\ ~CharMatches /\ AtStar
    /\ glob' = [glob EXCEPT !.starP = glob.p, !.starT = glob.t, !.p = @ + 1]

Backtrack ==
    /\ InText /\ ~CharMatches /\ ~AtStar /\ glob.starP # 0
    /\ glob' = [glob EXCEPT !.starT = @ + 1, !.t = glob.starT + 1, !.p = glob.starP + 1]

Mismatch ==
    /\ InText /\ ~CharMatches /\ ~AtStar /\ glob.starP = 0
    /\ glob' = [glob EXCEPT !.verdict = "no"]

\* Mistake: stars that end the pattern are not skipped.
TextEndsAtPattern ==
    /\ glob.verdict = "none" /\ glob.t > Len(glob.text)
    /\ glob' = [glob EXCEPT !.verdict = IF glob.p > Len(glob.pattern) THEN "yes" ELSE "no"]

\* Only stars may be left of the pattern.
TextEnds ==
    /\ glob.verdict = "none" /\ glob.t > Len(glob.text)
    /\ glob' = [glob EXCEPT !.verdict =
         IF \A i \in glob.p .. Len(glob.pattern) : glob.pattern[i] = Wildcard THEN "yes" ELSE "no"]

GlobStep ==
    (MatchChar \/ MatchStar \/ Backtrack \/ Mismatch \/ TextEnds) /\ UNCHANGED <<file, parser>>

\* What `*` means: any sequence, the other characters themselves.
Matches(pattern, text) ==
    LET m[i \in 1 .. Len(pattern) + 1, k \in 1 .. Len(text) + 1] ==
          IF i > Len(pattern) THEN k > Len(text)
          ELSE IF pattern[i] = Wildcard
          THEN m[i + 1, k] \/ (k <= Len(text) /\ m[i, k + 1])
          ELSE k <= Len(text) /\ pattern[i] = text[k] /\ m[i + 1, k + 1]
    IN m[1, 1]

\* _matches_pattern: "$" anchors the end, other patterns match what they prefix.
RuleMatches(pattern, path) ==
    IF pattern # <<>> /\ Last(pattern) = "$" THEN Matches(Front(pattern), path)
    ELSE Matches(Append(pattern, Wildcard), path)

-----------------------------------------------------------------------------
(* parse_robots_txt.                                                         *)

Fresh == [agents |-> <<>>, rules |-> <<>>, delay |-> NoDelay]

RobotsInit ==
    /\ file = <<>>
    /\ parser = [groups |-> <<>>, pending |-> Fresh, accepting |-> FALSE, sitemaps |-> 0]

\* flush(): a group without agents is dropped.
Flushed(s) ==
    [s EXCEPT !.groups = IF s.pending.agents = <<>> THEN @ ELSE Append(@, s.pending),
              !.pending = Fresh]

AgentLine(s, l) ==
    LET f == IF s.accepting THEN s ELSE Flushed(s) IN
    [f EXCEPT !.accepting = TRUE,
              !.pending.agents = IF l.token = "" THEN @ ELSE Append(@, l.token)]

\* An empty pattern restricts nothing, and is no rule.
RuleLine(s, l) ==
    [s EXCEPT !.accepting = FALSE,
              !.pending.rules = IF l.pattern = <<>> THEN @
                                ELSE Append(@, [allow |-> l.field = "allow",
                                                pattern |-> l.pattern])]

\* A value that is no number, or is negative, is ignored.
DelayLine(s, l) ==
    [s EXCEPT !.accepting = FALSE, !.pending.delay = IF l.delay >= 0 THEN l.delay ELSE @]

After(s, l) ==
    CASE l.field = "user-agent" -> AgentLine(s, l)
      [] l.field = "sitemap" -> [s EXCEPT !.sitemaps = @ + 1]
      [] l.field \in {"allow", "disallow"} -> RuleLine(s, l)
      [] l.field = "crawl-delay" -> DelayLine(s, l)
      [] OTHER -> [s EXCEPT !.accepting = FALSE]

ReadLine ==
    /\ Len(file) < MaxLines
    /\ \E l \in Lines : file' = Append(file, l) /\ parser' = After(parser, l)
    /\ UNCHANGED glob

\* The file may end here.
Groups == Flushed(parser).groups

\* group_for: the longest token that prefixes the crawler's name, the first of these; else the
\* first wildcard group.
Heard(b, g, token) ==
    IF token \in DOMAIN TokenLength /\ TokenLength[token] > b.length
    THEN [b EXCEPT !.group = <<g>>, !.length = TokenLength[token]]
    ELSE IF token = Wildcard /\ b.fallback = <<>> THEN [b EXCEPT !.fallback = <<g>>]
    ELSE b

Better(best, g) == FoldLeft(LAMBDA b, token : Heard(b, g, token), best, g.agents)

GroupFor(groups) ==
    LET best == FoldLeft(Better, [group |-> <<>>, length |-> -1, fallback |-> <<>>], groups)
    IN IF best.group # <<>> THEN best.group ELSE best.fallback

\* Mistake: the last of the most specific rules wins.
WinnerOfTies(winner, rule) ==
    IF winner = <<>> \/ Len(rule.pattern) >= Len(winner[1].pattern) THEN <<rule>> ELSE winner

Winner(winner, rule) ==
    IF \/ winner = <<>>
       \/ Len(rule.pattern) > Len(winner[1].pattern)
       \/ Len(rule.pattern) = Len(winner[1].pattern) /\ rule.allow
    THEN <<rule>> ELSE winner

\* can_fetch.
Deciding(rules, path) ==
    FoldLeft(LAMBDA w, r : IF RuleMatches(r.pattern, path) THEN Winner(w, r) ELSE w, <<>>, rules)

CanFetch(groups, path) ==
    LET group == GroupFor(groups)
        winner == Deciding(group[1].rules, path)
    IN group = <<>> \/ winner = <<>> \/ winner[1].allow

CrawlDelay(groups) ==
    LET group == GroupFor(groups) IN IF group = <<>> THEN NoDelay ELSE group[1].delay

-----------------------------------------------------------------------------
(* What a file means, read off its lines.                                    *)

IsAgent(i) == file[i].field = "user-agent"
IsRule(i) == file[i].field \in {"allow", "disallow"} /\ file[i].pattern # <<>>
Ends(i) == file[i].field \notin {"user-agent", "sitemap"}

\* A User-agent line opens a block unless only sitemap lines are between it and another one.
OpensBlock(i) ==
    IsAgent(i) /\ ~\E k \in 1 .. i - 1 : IsAgent(k) /\ \A j \in k + 1 .. i - 1 : ~Ends(j)

Block(i) == {j \in i .. Len(file) : ~\E k \in i + 1 .. j : OpensBlock(k)}
Blocks == {Block(i) : i \in {k \in DOMAIN file : OpensBlock(k)}}
Tokens(block) == {file[i].token : i \in {k \in block : IsAgent(k)}} \ {""}
Earliest(blocks) ==
    CHOOSE b \in blocks : \A c \in blocks : \E i \in b : \A k \in c : i <= k

Reach(block) == {TokenLength[t] : t \in Tokens(block) \cap DOMAIN TokenLength}
Named == {b \in Blocks : Reach(b) # {}}
MostSpecific ==
    {b \in Named : \E n \in Reach(b) : \A c \in Named : \A k \in Reach(c) : k <= n}

\* The block that governs this crawler, if there is one.
Governing ==
    LET wild == {b \in Blocks : Wildcard \in Tokens(b)} IN
    IF Named # {} THEN {Earliest(MostSpecific)} ELSE IF wild # {} THEN {Earliest(wild)} ELSE {}

\* The most specific rule wins, and an Allow rule among equals.
Permitted(path) ==
    LET rules == {i \in UNION Governing : IsRule(i) /\ RuleMatches(file[i].pattern, path)} IN
    \/ rules = {}
    \/ \E i \in rules : /\ file[i].field = "allow"
                        /\ \A k \in rules : Len(file[k].pattern) <= Len(file[i].pattern)

-----------------------------------------------------------------------------
(* Properties.                                                               *)

\* However the file's lines are ordered, the parser and can_fetch answer what the file says,
\* and the crawl delay is that of the governing block alone: the last that parses.
RobotsAnswersTheFile ==
    LET delays == {i \in UNION Governing : file[i].field = "crawl-delay" /\ file[i].delay >= 0}
    IN /\ \A path \in Paths : CanFetch(Groups, path) = Permitted(path)
       /\ CrawlDelay(Groups) =
            IF delays = {} THEN NoDelay
            ELSE file[CHOOSE i \in delays : \A k \in delays : k <= i].delay

\* The matcher's loop with one backtrack position always decides, and decides what `*` means,
\* in a text that has no asterisk of its own.
GlobDecides ==
    <>/\ glob.verdict # "none"
      /\ Wildcard \notin ToSet(glob.text)
           => (glob.verdict = "yes" <=> Matches(glob.pattern, glob.text))
=============================================================================
