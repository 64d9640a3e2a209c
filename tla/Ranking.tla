------------------------------- MODULE Ranking -------------------------------
(* One search of the memory: the keyword half, the half by meaning (of the    *)
(* space, with local vectors for what is not there yet, or local vectors      *)
(* alone), and how the two are scaled, added and cut.  Ranks are of BM25:     *)
(* less is better.  Entries a filter excludes match in neither half.          *)
EXTENDS Integers, Sequences, FiniteSets, FiniteSetsExt, Functions

CONSTANTS
  Hits,        \* entries
  Grades,      \* ranks and similarities an entry can have: 0 is no match
  Limits       \* what a search may be asked for

ASSUME HitsAssumption == IsFiniteSet(Hits)
ASSUME GradesAssumption == Grades \subseteq Nat /\ 0 \in Grades /\ Limits \subseteq Nat \ {0}

VARIABLES
  query,       \* the matches of a search
  answer, answered

rankingVars == <<query, answer, answered>>

\* space: the space answers, and which entries it has.
Searches == {q \in [rank : [Hits -> Grades], near : [Hits -> Grades], limit : Limits,
                    space : BOOLEAN, pushed : SUBSET Hits] : q.space \/ q.pushed = {}}

Matches(grade) == {h \in Hits : grade[h] # 0}

\* The n best of S, whatever the order among equals.
Best(S, n, worth) ==
  {T \in kSubset(IF Cardinality(S) < n THEN Cardinality(S) ELSE n, S) :
     \A x \in S \ T, y \in T : worth[x] <= worth[y]}

ByRank == [h \in Hits |-> -query.rank[h]]
Nearer(x, y) == query.near[x] > query.near[y]

\* ------------------------------------------------------------- the two halves
Keywords == Best(Matches(query.rank), query.limit, ByRank)
LocalVectors(only) == Best(Matches(query.near) \cap only, query.limit, query.near)

\* A space that fails leaves the whole half to the local vectors.
Semantic ==
  IF ~query.space THEN LocalVectors(Hits)
  ELSE {F \cup L : F \in LocalVectors(query.pushed), L \in LocalVectors(Hits \ query.pushed)}

\* --------------------------------------------------------------------- merging
Span(S, grade) == LET G == {grade[h] : h \in S} IN Max(G) - Min(G)

\* Mutant: the ranks are scaled as the similarities are.
KeywordShareUp(h, K) ==
  IF h \notin K THEN 0
  ELSE IF Span(K, query.rank) = 0 THEN 1
  ELSE query.rank[h] - Min({query.rank[x] : x \in K})

\* Numerators over the span of their half, which is 1 where all are the same.
KeywordShare(h, K) ==
  IF h \notin K THEN 0
  ELSE IF Span(K, query.rank) = 0 THEN 1
  ELSE Max({query.rank[x] : x \in K}) - query.rank[h]

VectorShare(h, V) ==
  IF h \notin V THEN 0
  ELSE IF Span(V, query.near) = 0 THEN 1
  ELSE query.near[h] - Min({query.near[x] : x \in V})

Whole(S, grade) == IF S = {} \/ Span(S, grade) = 0 THEN 1 ELSE Span(S, grade)

Score(h, K, V) == KeywordShare(h, K) * Whole(V, query.near)
                  + VectorShare(h, V) * Whole(K, query.rank)

\* Sorted by score and cut; equals come in any order.
Merged(K, V) ==
  LET all == K \cup V
      n == IF Cardinality(all) < query.limit THEN Cardinality(all) ELSE query.limit
  IN {s \in Injection(1..n, all) :
        /\ \A i \in 1..(n - 1) : Score(s[i], K, V) >= Score(s[i + 1], K, V)
        /\ n > 0 => \A h \in all \ Range(s) : Score(s[n], K, V) >= Score(h, K, V)}

Search ==
  /\ ~answered /\ answered' = TRUE
  /\ \E K \in Keywords, V \in Semantic : answer' \in Merged(K, V)
  /\ UNCHANGED query

RankingInit == query \in Searches /\ answer = <<>> /\ answered = FALSE
RankingSpec == RankingInit /\ [][Search]_rankingVars

-----------------------------------------------------------------------------
(* The better match comes first: an entry that matches better than another in  *)
(* every half that finds either is listed, and before it, if the other is      *)
(* listed at all, however the halves were cut and scaled.  Of an entry the     *)
(* space has and one it has not this is not said: they come from two lists,    *)
(* each cut on its own.                                                        *)
Outranks(a, b) ==
  LET byWord == query.rank[a] # 0 /\ (query.rank[b] = 0 \/ ByRank[a] > ByRank[b])
      byMeaning == Nearer(a, b)
      noWord == query.rank[a] = 0 /\ query.rank[b] = 0
      noMeaning == query.near[a] = 0 /\ query.near[b] = 0
  IN (byWord \/ noWord) /\ (byMeaning \/ noMeaning) /\ (byWord \/ byMeaning)
Apart(a, b) == query.space /\ (a \in query.pushed) # (b \in query.pushed)

BetterFirst ==
  \A a, b \in Hits : Outranks(a, b) /\ ~Apart(a, b) =>
    \A j \in DOMAIN answer : answer[j] = b => \E i \in 1..(j - 1) : answer[i] = a

=============================================================================
