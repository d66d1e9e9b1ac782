--------------------------------- MODULE Sizzle ---------------------------------
(***************************************************************************)
(* Sizzle: how jQuery finds the elements for a selector itself, when the   *)
(* browser's querySelectorAll is not there or rejects the selector.  The   *)
(* selector is matched from right to left, and what was found out about an *)
(* ancestor or sibling is kept on it under a key that says for which run.  *)
(* Selectors are taken as tokenize returns them; names of elements, CHILD, *)
(* :not, :has and the four combinators are modelled, sets of positions are *)
(* not.  Nodes are numbered in the order of the document, 0 is Doc.        *)
(***************************************************************************)
EXTENDS Integers, Sequences, FiniteSets, SequencesExt, FiniteSetsExt, TLC

CONSTANTS Trees,      \* trees: [parent, name] of the nodes from 1 on
          Selectors,  \* sequences of sequences of tokens
          Contexts,   \* what may be searched: 0, or nodes
          MaxFinds    \* bound on searches

ASSUME MaxFinds \in Nat

VARIABLES
  tree,    \* the page as it is
  state,   \* the variables of Sizzle that outlive a search, see Init
  asked,   \* the last search, <<groups, context>>
  found,   \* what it found, until the page changes
  finds    \* searches so far

vars == <<tree, state, asked, found, finds>>

Doc == 0
Outside == -1
Anywhere == -2    \* outermostContext, in the document
Yes == -3         \* "true" in a cache; false is noted by the number of the run
Unset == -4

-------------------------------------------------------------------------------
(* Tokens.                                                                    *)

Token(is, name, first, last, groups) ==
  [is |-> is, name |-> name, first |-> first, last |-> last, groups |-> groups]
Tag(name) == Token("TAG", name, 0, 0, <<>>)
Relative(name) == Token("relative", name, 0, 0, <<>>)
Child(type, first, last) == Token("CHILD", type, first, last, <<>>)
Not(groups) == Token("not", "", 0, 0, groups)
Has(groups) == Token("has", "", 0, 0, groups)

IsRelative(token) == token.is = "relative"
Direction(combinator) == IF combinator \in {">", " "} THEN "parentNode" ELSE "previousSibling"
Nearest(combinator) == combinator \in {">", "+"}

RECURSIVE HasSibling(_)

\* needsContext: a leading combinator; rsibling: a "+" or "~" anywhere in the text, also in
\* an argument, be it of :nth-child
NeedsContext(groups) == IsRelative(groups[1][1])
HasSibling(groups) ==
  LET told(token) == IF IsRelative(token) THEN token.name \in {"+", "~"}
                     ELSE IF token.is = "CHILD" THEN token.first # 0 /\ token.last > 0
                     ELSE HasSibling(token.groups)
  IN \E g \in DOMAIN groups : \E i \in DOMAIN groups[g] : told(groups[g][i])

-------------------------------------------------------------------------------
(* The page.                                                                  *)

Nodes == DOMAIN tree.parent
Up(e) == IF e = Doc THEN Outside ELSE tree.parent[e]
Siblings(e) == {s \in Nodes : Up(e) # Outside /\ tree.parent[s] = Up(e)}
Before(e) == LET s == {x \in Siblings(e) : x < e} IN IF s = {} THEN Outside ELSE Max(s)
Step(e, dir) == IF dir = "parentNode" THEN Up(e) ELSE Before(e)
Inside(e) ==
  LET up[x \in Nodes \union {Doc}] == IF x = Doc THEN {Doc} ELSE {x} \union up[tree.parent[x]]
  IN {x \in Nodes : x # e /\ e \in up[x]}
InOrder(set) == SetToSortSeq(set, LAMBDA a, b : a < b)

-------------------------------------------------------------------------------
(* compile.                                                                   *)

Combinator(name, base, parts, done) ==
  [is |-> "combinator", name |-> name, base |-> base, parts |-> parts, done |-> done, token |-> <<>>]
Part(is, token) == [is |-> is, name |-> "", base |-> FALSE, parts |-> <<>>, done |-> <<>>, token |-> token]

\* matcherFromTokens: first whether the context can be reached; a combinator takes what
\* stands before it as its matcher.  "done" tells the combinators apart.
MatcherFromTokens(tokens) ==
  LET leading == tokens # <<>> /\ IsRelative(tokens[1])
      context == Combinator(IF leading THEN tokens[1].name ELSE " ", TRUE, <<Part("context", <<>>)>>, <<tokens, 0>>)
      first == <<[context EXCEPT !.is = IF leading THEN "leading" ELSE "top"]>>
      from == IF leading THEN 2 ELSE 1
      add(parts, i) == IF IsRelative(tokens[i])
                       THEN <<Combinator(tokens[i].name, FALSE, parts, <<tokens, i>>)>>
                       ELSE Append(parts, Part("filter", tokens[i]))
  IN FoldLeft(add, first, [i \in 1..(Len(tokens) - from + 1) |-> i + from - 1])

Compile(groups) == [g \in DOMAIN groups |-> MatcherFromTokens(groups[g])]

-------------------------------------------------------------------------------
(* Matching.  "s" is the state: the caches on the nodes, dirruns, cachedruns,  *)
(* outermostContext, the counters of runs in compiled functions, and the       *)
(* number of runs so far, for keys that are new.                               *)

Answer(ok, s) == [ok |-> ok, s |-> s]

RECURSIVE MatchesAll(_, _, _, _), Climb(_, _, _, _, _), ClimbOn(_, _, _, _, _)
RECURSIVE SuperMatcher(_, _, _, _, _, _), Select(_, _, _)

\* Expr.filter.CHILD: positions are counted from the one that is cached on the parent,
\* or on the element for those counted from the end.
NthForward(e, s) ==
  LET cached == s.nth[Up(e)]
      at == Cardinality({x \in Siblings(e) : x <= e})
      from == IF cached[1] = s.dirruns /\ cached[2] < at THEN cached[2] ELSE 0
      steps == Cardinality({x \in Siblings(e) : x <= e /\ Cardinality({y \in Siblings(e) : y <= x}) > from})
  IN [diff |-> from + steps, s |-> [s EXCEPT !.nth[Up(e)] = <<s.dirruns, from + steps>>]]
NthBackward(e, s) ==
  LET fromEnd(x) == Cardinality({y \in Siblings(e) : y >= x})
  IN IF s.last[e][1] = s.dirruns THEN [diff |-> s.last[e][2], s |-> s]
     ELSE [diff |-> fromEnd(e),
           s |-> [s EXCEPT !.last = [x \in Nodes |-> IF x \in Siblings(e) /\ x >= e
                                                     THEN <<s.dirruns, fromEnd(x)>> ELSE @[x]]]]

Cycle(diff, first) ==
  \/ diff = first
  \/ first > 0 /\ diff % first = 0 /\ diff >= 0
  \/ first < 0 /\ (-diff) % (-first) = 0 /\ diff <= 0

ChildFilter(token, e, s) ==
  IF token.name = "first" THEN Answer({x \in Siblings(e) : x < e} = {}, s)
  ELSE IF token.name = "last" THEN Answer({x \in Siblings(e) : x > e} = {}, s)
  ELSE IF token.name = "only" THEN Answer(Siblings(e) = {e}, s)
  ELSE IF token.first = 1 /\ token.last = 0 THEN Answer(TRUE, s)
  ELSE LET counted == IF token.name = "nth" THEN NthForward(e, s) ELSE NthBackward(e, s)
       IN Answer(Cycle(counted.diff - token.last, token.first), counted.s)

\* Expr.filter; :not runs the function that is compiled for its argument, :has searches.
Finds(some, r) == Answer((r.results # <<>>) = some, r.s)
Filter(token, e, s) ==
  IF token.is = "TAG" THEN Answer(token.name \in {"*", tree.name[e]}, s)
  ELSE IF token.is = "CHILD" THEN ChildFilter(token, e, s)
  ELSE IF token.is = "not"
       THEN Finds(FALSE, SuperMatcher(token.groups, <<e>>, Outside, FALSE, FALSE, s))
  ELSE Finds(TRUE, Select(token.groups, e, s))

\* addCombinator for all ancestors or preceding siblings.  What is known about a node holds
\* for the key; false holds for good, but ends the search only within the same run.
Climb(m, e, context, key, s) ==
  LET dir == Direction(m.name)
      up == Step(e, dir)
      cached == s.dir[up][dir]
  IN IF up = Outside \/ (up = Doc /\ ~m.base) THEN Answer(FALSE, s)
     ELSE IF cached[1] = key /\ cached[2] = Yes THEN Answer(TRUE, s)
     ELSE IF cached[1] = key /\ cached[2] = s.cachedruns THEN Answer(FALSE, s)
     ELSE IF cached[1] = key THEN Climb(m, up, context, key, s)
     ELSE ClimbOn(m, up, context, key,
                  MatchesAll(m.parts, up, context, [s EXCEPT !.dir[up][dir] = <<key, Unset>>]))
ClimbOn(m, up, context, key, tried) ==
  LET dir == Direction(m.name)
      noted == IF tried.s.dir[up][dir][1] = key
               THEN [tried.s EXCEPT !.dir[up][dir][2] = IF tried.ok THEN Yes ELSE tried.s.cachedruns]
               ELSE tried.s
  IN IF tried.ok THEN Answer(TRUE, noted) ELSE Climb(m, up, context, key, noted)

Combine(m, e, context, s) ==
  LET up == Step(e, Direction(m.name))
  IN IF ~Nearest(m.name) THEN Climb(m, e, context, <<s.dirruns, m.done>>, s)
     ELSE IF up = Outside \/ (up = Doc /\ ~m.base) THEN Answer(FALSE, s)
     ELSE MatchesAll(m.parts, up, context, s)

MatchesPart(m, e, context, s) ==
  IF m.is = "filter" THEN Filter(m.token, e, s)
  ELSE IF m.is = "context" THEN Answer(e = context, s)
  ELSE IF m.is = "top" /\ context # s.outermostContext THEN Answer(TRUE, s)
  ELSE Combine(m, e, context, s)

\* elementMatcher: from right to left.
MatchesAll(parts, e, context, s) ==
  FoldRight(LAMBDA part, r : IF r.ok THEN MatchesPart(part, e, context, r.s) ELSE r, parts, Answer(TRUE, s))

\* One of the compiled groups, the last first, as compile pushes them.
MatchesAny(matchers, e, context, s) ==
  LET one(r, parts) == IF r.ok THEN r ELSE MatchesAll(parts, e, context, r.s)
  IN FoldLeft(one, Answer(FALSE, s), Reverse(matchers))

Runs(s, groups) == IF groups \in DOMAIN s.matcherCachedRuns THEN s.matcherCachedRuns[groups] ELSE 0

\* The loop of superMatcher for one element, when it has been tried.  Mutant: the globals
\* that a nested matcher has changed are not set again.
TakeKeepingRuns(groups, e, outermost, dirrunsUnique, results, tried) ==
  [results |-> IF tried.ok THEN Append(results, e) ELSE results, s |-> tried.s]
Take(groups, e, outermost, dirrunsUnique, results, tried) ==
  LET runs == Runs(tried.s, groups) + 1
  IN [results |-> IF tried.ok THEN Append(results, e) ELSE results,
      s |-> IF outermost
            THEN [tried.s EXCEPT !.dirruns = dirrunsUnique, !.cachedruns = runs,
                                 !.matcherCachedRuns = (groups :> runs) @@ @]
            ELSE tried.s]

\* matcherFromGroupMatchers' superMatcher, for the elements "seed".  dirruns becomes a number
\* that was not there before.
SuperMatcher(groups, seed, context, outermost, document, s) ==
  LET matchers == Compile(groups)
      unique == s.runs + 1
      started == [s EXCEPT !.runs = unique, !.dirruns = unique,
                           !.outermostContext = IF ~outermost THEN @ ELSE IF document THEN Anywhere ELSE context,
                           !.cachedruns = IF outermost THEN Runs(s, groups) ELSE @]
      try(r, e) == Take(groups, e, outermost, unique, r.results, MatchesAny(matchers, e, context, r.s))
  IN [FoldLeft(try, [results |-> <<>>, s |-> started], seed)
        EXCEPT !.s.dirruns = IF outermost THEN unique ELSE @,
               !.s.outermostContext = IF outermost THEN s.outermostContext ELSE @]

\* select: a name in the last part of a single group gives the elements to look at.
SeedToken(groups) ==
  LET tokens == groups[1]
      relative == {i \in DOMAIN tokens : IsRelative(tokens[i])}
      named == {i \in DOMAIN tokens : /\ tokens[i].is = "TAG"
                                      /\ relative = {} \/ i > Max(relative)}
  IN IF Len(groups) > 1 \/ NeedsContext(groups) \/ named = {} THEN 0 ELSE Max(named)
Select(groups, context, s) ==
  LET i == SeedToken(groups)
      where == IF HasSibling(groups) /\ context # Doc THEN Up(context) ELSE context
      named == {e \in Inside(context) : groups[1][i].name \in {"*", tree.name[e]}}
      rest == <<RemoveAt(groups[1], i)>>
  IN IF i = 0 THEN SuperMatcher(groups, InOrder(Inside(where)), context, TRUE, context = Doc, s)
     ELSE IF named = {} \/ rest = <<<<>>>> THEN [results |-> InOrder(named), s |-> s]
     ELSE SuperMatcher(rest, InOrder(named), context, TRUE, context = Doc, s)

-------------------------------------------------------------------------------
(* The searches of a page that changes.                                       *)

Clear == [parentNode |-> <<<<0, <<>>>>, 0>>, previousSibling |-> <<<<0, <<>>>>, 0>>]

Init ==
  /\ tree \in Trees
  /\ state = [dir |-> [e \in Nodes \union {Doc, Outside} |-> Clear],
              nth |-> [e \in Nodes \union {Doc} |-> <<0, 0>>], last |-> [e \in Nodes |-> <<0, 0>>],
              dirruns |-> 0, runs |-> 0, cachedruns |-> 0, outermostContext |-> Anywhere,
              matcherCachedRuns |-> <<>>]
  /\ asked = <<>> /\ found = <<>> /\ finds = 0

\* Sizzle(selector, context); later searches are for the same.
Find ==
  /\ finds < MaxFinds /\ found = <<>>
  /\ \E groups \in Selectors, context \in Contexts \cap (Nodes \union {Doc}) :
       LET r == Select(groups, context, state)
       IN /\ finds = 0 \/ asked = <<groups, context>>
          /\ asked' = <<groups, context>>
          /\ found' = <<r.results>> /\ state' = r.s
  /\ finds' = finds + 1
  /\ UNCHANGED tree

\* The page changes: an element is put elsewhere, or another one is put in its place.
Change ==
  /\ found # <<>> /\ finds < MaxFinds
  /\ \E other \in Trees :
       /\ DOMAIN other.parent = Nodes
       /\ Cardinality({e \in Nodes : <<other.parent[e], other.name[e]>> # <<tree.parent[e], tree.name[e]>>}) = 1
       /\ tree' = other
  /\ found' = <<>>
  /\ UNCHANGED <<asked, state, finds>>

Wait == finds = MaxFinds /\ UNCHANGED vars

Next == Find \/ Change \/ Wait

Spec == Init /\ [][Next]_vars

-------------------------------------------------------------------------------
(* What a selector means, from left to right.                                 *)

RECURSIVE Selected(_, _), Means(_, _)

Around(set, combinator) ==
  {e \in Nodes :
     IF combinator = ">" THEN Up(e) \in set
     ELSE IF combinator = " " THEN \E x \in set : e \in Inside(x)
     ELSE IF combinator = "+" THEN Before(e) \in set
     ELSE \E x \in set : x \in Siblings(e) /\ x < e}

NthOf(token, position) == \E n \in 0..Cardinality(Nodes) : position = token.first * n + token.last
Means(token, e) ==
  LET position == Cardinality({x \in Siblings(e) : x <= e})
      fromEnd == Cardinality({x \in Siblings(e) : x >= e})
  IN IF token.is = "TAG" THEN token.name \in {"*", tree.name[e]}
     ELSE IF token.is = "not" THEN e \notin UNION {Selected(token.groups[g], Doc) : g \in DOMAIN token.groups}
     ELSE IF token.is = "has" THEN \E g \in DOMAIN token.groups : Selected(token.groups[g], e) # {}
     ELSE IF token.name = "first" THEN position = 1
     ELSE IF token.name = "last" THEN fromEnd = 1
     ELSE IF token.name = "only" THEN position = 1 /\ fromEnd = 1
     ELSE NthOf(token, IF token.name = "nth" THEN position ELSE fromEnd)

Selected(tokens, context) ==
  LET add(set, token) == IF IsRelative(token) THEN Around(set, token.name)
                         ELSE {e \in set : Means(token, e)}
      start == IF IsRelative(tokens[1]) THEN {context} ELSE Inside(context)
  IN FoldLeft(add, start, tokens)

\* The selectors for which not all ancestors are tried, see the README: a nested search on
\* an ancestor leaves in cachedruns what a later element may have for its own number.
SearchesOnce(groups) == Len(groups) = 1 /\ Len(groups[1]) = 1 /\ groups[1][1].is = "TAG"
HasAbove(groups) ==
  \E g \in DOMAIN groups : \E i, j \in DOMAIN groups[g] :
    /\ i < j /\ IsRelative(groups[g][j])
    /\ groups[g][i].is = "has" /\ ~SearchesOnce(groups[g][i].groups)

\* A search finds, in the order of the document, the elements the selector means, whatever
\* was searched for before and has been cached on elements that have changed since.
FindsWhatIsMeant ==
  found # <<>> =>
    LET groups == asked[1]
        meant == UNION {Selected(groups[g], asked[2]) : g \in DOMAIN groups}
    IN ~HasAbove(groups) => found[1] = InOrder(meant)
===============================================================================
