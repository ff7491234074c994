-------------------------- MODULE InterceptMatcher --------------------------
(***************************************************************************)
(* The rules that decide what is done with an intercepted request          *)
(* (intercepts/matcher.rs): how a rule of the configuration is compiled    *)
(* (InterceptMatcher::new, SimplePattern::from_pattern), and how the three *)
(* lists of rules are searched for a domain and a path (match_domain).     *)
(*                                                                         *)
(* A name, a path or a pattern is a sequence of characters, in which Wild  *)
(* stands for the five characters [^/]+ and Rest for the two of .*; paths   *)
(* and domains have neither.  Upper case is left out: both sides are       *)
(* lowered.  The loops of the search and of the walk over a path are the   *)
(* steps of the module.                                                    *)
(***************************************************************************)
EXTENDS Integers, Sequences, SequencesExt

CONSTANTS
  Characters,
  RuleSets,   \* lists of rules
  Domains,    \* domains that are asked for
  Paths       \* paths that are asked for

\* from and from_pattern of a rule
Rules == [from : Seq(Characters), pattern : Seq(Characters)]

ASSUME MatcherConstants ==
  /\ {"*", "."} \subseteq Characters
  /\ RuleSets \subseteq Seq(Rules)
  /\ Domains \subseteq Seq(Characters) /\ Paths \subseteq Seq(Characters)

Wild == "[^/]+"
Rest == ".*"
NoPattern == <<>>

VARIABLES
  rules,         \* the configured rules; a rule's action is its number
  domain, path,  \* the request
  list, next,    \* the list that is searched, and the next rule of it
  at,            \* "search", or inside matches_segment_prefix: before a "chunk" of
                 \* the rule's pattern, or in a "segment" that a wildcard takes
  chunk, pos,    \* the next chunk, and the characters of the path taken so far
  verdict        \* 0 while searching, then the number of a rule, or NoRule

request == <<rules, domain, path>>
matchVars == <<request, list, next, at, chunk, pos, verdict>>

NoRule == -1

-----------------------------------------------------------------------------
(* SimplePattern *)

\* trim_start_matches('^')
Trimmed(p) ==
  LET carets == CHOOSE n \in 0..Len(p) :
                  (\A i \in 1..n : p[i] = "^") /\ (n = Len(p) \/ p[n + 1] # "^")
  IN SubSeq(p, carets + 1, Len(p))
StripRest(p) == IF p # <<>> /\ Last(p) = Rest THEN Front(p) ELSE p

\* from_pattern; a SegmentPrefix is kept as one sequence, its literals being the
\* characters between the wildcards.
FromPattern(pattern) ==
  LET p == Trimmed(pattern)
      anchored == p # pattern
  IN IF Contains(p, Wild) THEN [kind |-> "SegmentPrefix", text |-> StripRest(p)]
     ELSE IF p = <<>> \/ p = <<Rest>> THEN [kind |-> "MatchAll", text |-> <<>>]
     ELSE IF Last(p) # Rest THEN [kind |-> "Exact", text |-> p]
     ELSE [kind |-> IF anchored THEN "StartsWith" ELSE "Contains", text |-> Front(p)]

\* matches, for the kinds other than SegmentPrefix.
Matches(pattern, s) ==
  CASE pattern.kind = "MatchAll" -> TRUE
    [] pattern.kind = "Exact" -> s = pattern.text
    [] pattern.kind = "StartsWith" -> IsPrefix(pattern.text, s)
    [] OTHER -> \E i \in 0..Len(s) : IsPrefix(pattern.text, SubSeq(s, i + 1, Len(s)))

-----------------------------------------------------------------------------
(* InterceptMatcher *)

\* new: the list that a rule is put in, by its from.
ListOf(rule) ==
  IF IsPrefix(<<"*", ".">>, rule.from) THEN "suffix"
  ELSE IF Contains(rule.from, "*") THEN "wildcard"
  ELSE "exact"

Star(from) == CHOOSE i \in 1..Len(from) :
                from[i] = "*" /\ \A j \in 1..(i - 1) : from[j] # "*"

\* Mutant: prefix and suffix may overlap in the domain.
DomainMatches_Overlap(rule, d) ==
  LET star == IF ListOf(rule) = "exact" THEN 0 ELSE Star(rule.from)
      suffix == SubSeq(rule.from, star + 1, Len(rule.from)) IN
  CASE ListOf(rule) = "exact" -> d = rule.from
    [] ListOf(rule) = "suffix" -> d = Tail(suffix) \/ IsSuffix(suffix, d)
    [] OTHER -> /\ IsPrefix(SubSeq(rule.from, 1, star - 1), d)
                /\ IsSuffix(suffix, d)

\* The three comparisons of match_domain; a wildcard is split at its first star.
DomainMatches(rule, d) ==
  LET star == IF ListOf(rule) = "exact" THEN 0 ELSE Star(rule.from)
      suffix == SubSeq(rule.from, star + 1, Len(rule.from)) IN
  CASE ListOf(rule) = "exact" -> d = rule.from
    [] ListOf(rule) = "suffix" -> d = Tail(suffix) \/ IsSuffix(suffix, d)
    [] OTHER -> /\ IsPrefix(SubSeq(rule.from, 1, star - 1), d)
                /\ IsSuffix(suffix, d)
                /\ Len(d) >= star - 1 + Len(suffix)

MatchInit ==
  /\ rules \in RuleSets /\ domain \in Domains /\ path \in Paths
  /\ list = "exact" /\ next = 1
  /\ at = "search" /\ chunk = 1 /\ pos = 0
  /\ verdict = 0

Pattern == FromPattern(rules[next].pattern)
Concerns == ListOf(rules[next]) = list /\ DomainMatches(rules[next], domain)
Walks == rules[next].pattern # NoPattern /\ Pattern.kind = "SegmentPrefix"

\* The rule decides, or the search goes on behind it.
Decide == verdict' = next /\ UNCHANGED next
PassBy == next' = next + 1 /\ UNCHANGED verdict

\* One turn of a loop of match_domain: the next rule of the list is tried.  A
\* list has its rules in the order of the configuration, and a rule without
\* from_pattern matches every path.
TryRule ==
  /\ verdict = 0 /\ at = "search" /\ next <= Len(rules)
  /\ ~(Concerns /\ Walks)
  /\ IF Concerns /\ (rules[next].pattern = NoPattern \/ Matches(Pattern, path))
     THEN Decide ELSE PassBy
  /\ UNCHANGED <<request, list, at, chunk, pos>>

\* matches_segment_prefix begins.
BeginWalk ==
  /\ verdict = 0 /\ at = "search" /\ next <= Len(rules)
  /\ Concerns /\ Walks
  /\ at' = "chunk" /\ chunk' = 1 /\ pos' = 0
  /\ UNCHANGED <<request, list, next, verdict>>

\* The next character of the path is one that the next chunk begins with.
Fitting ==
  /\ pos < Len(path)
  /\ IF Pattern.text[chunk] = Wild THEN path[pos + 1] # "/"
     ELSE path[pos + 1] = Pattern.text[chunk]

TakeCharacter ==
  /\ at = "chunk" /\ chunk <= Len(Pattern.text) /\ Fitting
  /\ pos' = pos + 1
  /\ IF Pattern.text[chunk] = Wild THEN at' = "segment" /\ UNCHANGED chunk
     ELSE chunk' = chunk + 1 /\ UNCHANGED at
  /\ UNCHANGED <<request, list, next, verdict>>

\* A wildcard takes all of the segment; nothing of it is tried again.
TakeSegment ==
  /\ at = "segment"
  /\ IF pos < Len(path) /\ path[pos + 1] # "/"
     THEN pos' = pos + 1 /\ UNCHANGED <<at, chunk>>
     ELSE at' = "chunk" /\ chunk' = chunk + 1 /\ UNCHANGED pos
  /\ UNCHANGED <<request, list, next, verdict>>

\* The walk is over: all chunks are taken, or the next one does not fit.
EndWalk ==
  /\ at = "chunk"
  /\ \/ chunk > Len(Pattern.text) /\ Decide
     \/ chunk <= Len(Pattern.text) /\ ~Fitting /\ PassBy
  /\ at' = "search"
  /\ UNCHANGED <<request, list, chunk, pos>>

NextList ==
  /\ verdict = 0 /\ at = "search" /\ next > Len(rules)
  /\ next' = 1
  /\ \/ list = "exact" /\ list' = "suffix" /\ UNCHANGED verdict
     \/ list = "suffix" /\ list' = "wildcard" /\ UNCHANGED verdict
     \/ list = "wildcard" /\ verdict' = NoRule /\ UNCHANGED list
  /\ UNCHANGED <<request, at, chunk, pos>>

Found == verdict # 0 /\ UNCHANGED matchVars

MatchNext ==
  \/ TryRule \/ BeginWalk \/ TakeCharacter \/ TakeSegment \/ EndWalk
  \/ NextList \/ Found

MatchSpec == MatchInit /\ [][MatchNext]_matchVars

-----------------------------------------------------------------------------
(* Properties *)

\* What a segment pattern means: some prefix of the path is its characters, with
\* at least one character other than / for every wildcard, however they are
\* divided.
Fits(text, s) ==
  \E ends \in [0..Len(text) -> 0..Len(s)] :
    /\ ends[0] = 0
    /\ \A k \in 1..Len(text) :
         IF text[k] = Wild
         THEN ends[k] > ends[k - 1] /\ \A i \in (ends[k - 1] + 1)..ends[k] : s[i] # "/"
         ELSE ends[k] = ends[k - 1] + 1 /\ s[ends[k]] = text[k]

\* Every wildcard is a whole segment.
Segmented(text) == \A k \in 1..(Len(text) - 1) : text[k] = Wild => text[k + 1] = "/"

\* What a domain pattern means: its first star stands for any characters, also
\* none, and *.x for x too.
Covers(from, d) ==
  \/ d = from
  \/ IsPrefix(<<"*", ".">>, from) /\ d = Tail(Tail(from))
  \/ \E star \in 1..Len(from), i, j \in 0..Len(d) :
       /\ from[star] = "*" /\ \A k \in 1..(star - 1) : from[k] # "*"
       /\ i <= j
       /\ d = SubSeq(from, 1, star - 1) \o SubSeq(d, i + 1, j)
              \o SubSeq(from, star + 1, Len(from))

Means(rule, d, s) ==
  LET p == FromPattern(rule.pattern) IN
  /\ Covers(rule.from, d)
  /\ rule.pattern = NoPattern
     \/ IF p.kind = "SegmentPrefix" THEN Fits(p.text, s) ELSE Matches(p, s)

Rank(rule) == CASE ListOf(rule) = "exact" -> 1 [] ListOf(rule) = "suffix" -> 2
                [] OTHER -> 3

\* The search answers with a rule that means the request, and when every wildcard
\* is a whole segment, with the first of those of the most specific list, or with
\* none only if there is none: the single pass over a path, which never goes
\* back, loses no match.
VerdictIsFirstMatch ==
  verdict # 0 =>
    LET fit == {k \in 1..Len(rules) : Means(rules[k], domain, path)} IN
    /\ verdict # NoRule => verdict \in fit
    /\ (\A k \in 1..Len(rules) : Segmented(FromPattern(rules[k].pattern).text)) =>
         IF fit = {} THEN verdict = NoRule
         ELSE \A k \in fit \ {verdict} :
                \/ Rank(rules[verdict]) < Rank(rules[k])
                \/ Rank(rules[verdict]) = Rank(rules[k]) /\ verdict < k

=============================================================================
