---------------------------- MODULE QuerySessionProofs ---------------------------
(***************************************************************************)
(* For every collection, query file and command line: no search starts     *)
(* from a threshold that could cost it a result, and every answer is a     *)
(* top-K of the collection.                                                *)
(***************************************************************************)
EXTENDS QuerySession, CommonLemmas

\* A threshold for q that is a score and safe.
Good(q, v) == v \in 0 .. MaxScore /\ SafeFor(q, v)

\* A cache all of whose entries are good for the queries they are of.
GoodCache(c) == \A s \in DOMAIN c : s \in SUBSET Tokens /\ Good(s, c[s])

-----------------------------------------------------------------------------
(* Scores.                                                                 *)

\* Scores are numbers that grow with the set of tokens.
LEMMA ScoreTypes ==
    ASSUME score \in Collections
    PROVE  /\ \A q \in SUBSET Tokens : \A d \in Docs : score[q][d] \in 0 .. MaxScore
           /\ \A q \in SUBSET Tokens : \A s \in SUBSET q : \A d \in Docs :
                 score[s][d] <= score[q][d]
           /\ K \in Nat \ {0} /\ MaxScore \in Nat /\ Docs \subseteq Nat
<1>1. K \in Nat \ {0} /\ MaxScore \in Nat /\ Docs \subseteq Nat
  BY KAssumption, MaxScoreAssumption, NumDocsAssumption DEF Docs
<1>2. score \in [SUBSET Tokens -> [Docs -> 0 .. MaxScore]]
  BY CollectionsAssumption
<1>3. ASSUME NEW q \in SUBSET Tokens, NEW d \in Docs
      PROVE  score[q][d] \in 0 .. MaxScore
  <2>1. score[q] \in [Docs -> 0 .. MaxScore]
    BY <1>2
  <2> QED
    BY <2>1
<1>4. \A q \in SUBSET Tokens : \A s \in SUBSET q : \A d \in Docs :
         score[s][d] <= score[q][d]
  BY CollectionsAssumption
<1> QED
  BY <1>1, <1>3, <1>4

\* Some of the documents are finitely many.
LEMMA ReachingFinite ==
    ASSUME NEW D \in SUBSET Docs
    PROVE  IsFiniteSet(D) /\ Cardinality(D) \in Nat
<1>1. IsFiniteSet(Docs)
  BY FS_Interval, NumDocsAssumption DEF Docs
<1> QED
  BY <1>1, FS_Subset, FS_CardinalityType

\* A threshold that is safe for some of the tokens is safe for all of them.
LEMMA SafeForMore ==
    ASSUME score \in Collections,
           NEW q \in SUBSET Tokens, NEW s \in SUBSET q, NEW v, Good(s, v)
    PROVE  Good(q, v)
<1>1. v \in 0 .. MaxScore /\ MaxScore \in Nat /\ K \in Nat
  BY ScoreTypes DEF Good
<1>2. ASSUME v > 0 PROVE Cardinality(Reaching(q, v)) >= K
  <2>1. Cardinality(Reaching(s, v)) >= K
    BY <1>2 DEF Good, SafeFor
  <2>2. ASSUME NEW d \in Docs, score[s][d] >= v PROVE score[q][d] >= v
    <3>1. s \in SUBSET Tokens
      OBVIOUS
    <3>2. /\ score[s][d] \in 0 .. MaxScore /\ score[q][d] \in 0 .. MaxScore
          /\ score[s][d] <= score[q][d]
      BY <3>1, ScoreTypes
    <3> QED
      BY <3>2, <2>2, <1>1
  <2>3. Reaching(s, v) \in SUBSET Reaching(q, v)
    BY <2>2 DEF Reaching
  <2>4. /\ IsFiniteSet(Reaching(q, v))
        /\ Cardinality(Reaching(q, v)) \in Nat /\ Cardinality(Reaching(s, v)) \in Nat
    BY ReachingFinite DEF Reaching
  <2>5. Cardinality(Reaching(s, v)) <= Cardinality(Reaching(q, v))
    BY <2>3, <2>4, FS_Subset
  <2> QED
    BY <2>1, <2>4, <2>5, <1>1
<1> QED
  BY <1>1, <1>2 DEF Good, SafeFor

\* A bounded set of numbers has a highest.
LEMMA HighestIn ==
    ASSUME NEW B \in Nat, NEW V \in SUBSET (0 .. B), V # {}
    PROVE  Highest(V) \in V /\ \A u \in V : u <= Highest(V)
<1> DEFINE W == {B - v : v \in V}
<1>0. \A v \in V : v \in 0 .. B /\ B - v \in Nat
  OBVIOUS
<1>1. W \in SUBSET Nat /\ W # {}
  BY <1>0
<1>2. PICK w \in W : \A x \in W : w <= x
  BY <1>1, LeastExists
<1>3. PICK v \in V : w = B - v
  BY <1>2
<1>4. \A u \in V : u <= v
  <2> TAKE u \in V
  <2>1. B - u \in W
    OBVIOUS
  <2>2. B - v <= B - u
    BY <2>1, <1>2, <1>3
  <2>3. u \in 0 .. B /\ v \in 0 .. B
    OBVIOUS
  <2> QED
    BY <2>2, <2>3
<1> QED
  BY <1>4 DEF Highest

-----------------------------------------------------------------------------
(* The thresholds the heuristics find are safe.                            *)

\* The best of a safe threshold and of safe scores of parts of a query is safe.
LEMMA BestIsGood ==
    ASSUME score \in Collections, NEW q \in SUBSET Tokens, NEW low, Good(q, low),
           NEW keys \in SUBSET SUBSET q, NEW c, GoodCache(c)
    PROVE  Good(q, Best(low, keys, c))
<1> DEFINE V == {low} \cup {c[s] : s \in Cached(keys, c)}
<1>1. ASSUME NEW v \in V PROVE Good(q, v)
  <2>1. CASE v = low
    BY <2>1
  <2>2. CASE v # low
    <3>1. PICK s \in Cached(keys, c) : v = c[s]
      BY <2>2
    <3>2. s \in SUBSET q /\ Good(s, v)
      BY <3>1 DEF Cached, GoodCache
    <3> QED
      BY <3>2, SafeForMore
  <2> QED
    BY <2>1, <2>2
<1>2. V \in SUBSET (0 .. MaxScore) /\ V # {}
  BY <1>1 DEF Good
<1>3. MaxScore \in Nat
  BY MaxScoreAssumption
<1> HIDE DEF V
<1>4. Highest(V) \in V
  BY <1>2, <1>3, HighestIn
<1>5. Best(low, keys, c) = Highest(V)
  BY DEF Best, V
<1> QED
  BY <1>1, <1>4, <1>5

\* All keys that the heuristics look up are parts of the query.
LEMMA KeysAreParts ==
    ASSUME NEW q, NEW c
    PROVE  /\ \A r : KeysOfSize(q, r) \in SUBSET SUBSET q
           /\ \A sizes : LargestCached(q, sizes, c) \in SUBSET SUBSET q
           /\ \A lo, hi : ProperKeys(q, lo, hi) \in SUBSET SUBSET q
<1>1. \A r : KeysOfSize(q, r) \in SUBSET SUBSET q
  BY DEF KeysOfSize
<1>2. \A sizes : LargestCached(q, sizes, c) \in SUBSET SUBSET q
  BY <1>1 DEF LargestCached
<1>3. \A lo, hi : ProperKeys(q, lo, hi) \in SUBSET SUBSET q
  BY DEF ProperKeys
<1> QED
  BY <1>1, <1>2, <1>3

\* What any heuristic returns for q is safe for q.
LEMMA EstimatesAreGood ==
    ASSUME score \in Collections, NEW q \in SUBSET Tokens,
           NEW c, GoodCache(c), NEW terms, GoodCache(terms), NEW df,
           NEW m \in Methods, NEW low \in Estimates(m, q, c, terms, df)
    PROVE  Good(q, low)
<1>0. Good(q, 0)
  BY MaxScoreAssumption DEF Good, SafeFor
<1>1. Good(q, HR1(q, c))
  BY <1>0, KeysAreParts, BestIsGood DEF HR1
<1>2. Good(q, HR2(q, c))
  BY <1>0, KeysAreParts, BestIsGood DEF HR2
<1>3. Good(q, HR3(q, c))
  BY <1>0, KeysAreParts, BestIsGood DEF HR3
<1>4. ASSUME NEW head \in HR4Heads(q, df) PROVE Good(q, HR4(head, c))
  <2>1. SUBSET head \ {{}} \in SUBSET SUBSET q
    BY DEF HR4Heads
  <2> QED
    BY <2>1, <1>0, BestIsGood DEF HR4
<1>5. Good(q, ALL(q, c))
  BY <1>0, KeysAreParts, BestIsGood DEF ALL
<1>6. Good(q, TS(q, terms))
  BY <1>0, KeysAreParts, BestIsGood DEF TS
<1>7. Good(q, HR1TS(q, c, terms))
  BY <1>6, KeysAreParts, BestIsGood DEF HR1TS
<1>8. Good(q, HR2TS(q, c, terms))
  BY <1>6, KeysAreParts, BestIsGood DEF HR2TS
<1>9. \/ m = "NAIVE" /\ low = 0
      \/ m = "HR1" /\ low = HR1(q, c)
      \/ m = "HR2" /\ low = HR2(q, c)
      \/ m = "HR3" /\ low = HR3(q, c)
      \/ m = "HR4" /\ \E head \in HR4Heads(q, df) : low = HR4(head, c)
      \/ m = "ALL" /\ low = ALL(q, c)
      \/ m = "TS" /\ low = TS(q, terms)
      \/ m = "HR1_TS" /\ low = HR1TS(q, c, terms)
      \/ m = "HR2_TS" /\ low = HR2TS(q, c, terms)
  BY DEF Estimates, Methods
<1> QED
  BY <1>0, <1>1, <1>2, <1>3, <1>4, <1>5, <1>6, <1>7, <1>8, <1>9

\* A cache file holds good thresholds.
LEMMA FilesAreGood ==
    ASSUME score \in Collections, NEW keys \in SUBSET SUBSET Tokens
    PROVE  GoodCache(FileOf(keys))
<1> SUFFICES ASSUME NEW s \in DOMAIN FileOf(keys)
             PROVE  s \in SUBSET Tokens /\ Good(s, FileOf(keys)[s])
  BY DEF GoodCache
<1> DEFINE V == {t \in 1 .. MaxScore : Cardinality(Reaching(s, t)) >= FileRank}
<1>1. /\ s \in SUBSET Tokens
      /\ Cardinality(Matching(s)) >= FileRank
      /\ FileOf(keys)[s] = Highest(V)
  BY DEF FileOf
<1>2. MaxScore \in Nat /\ K \in Nat \ {0} /\ FileRank \in Nat /\ FileRank >= K
  BY MaxScoreAssumption, KAssumption, FileRankAssumption
<1>3. Matching(s) # {}
  <2>1. Cardinality({}) = 0
    BY FS_EmptySet
  <2>2. 0 >= FileRank => FALSE
    BY <1>2
  <2> HIDE DEF V
  <2> QED
    BY <1>1, <2>1, <2>2
<1>4. MaxScore >= 1
  BY <1>1, <1>2, <1>3, ScoreTypes DEF Matching
<1>5. Reaching(s, 1) = Matching(s)
  BY <1>1, <1>2, ScoreTypes DEF Reaching, Matching
<1>6. 1 \in V
  BY <1>1, <1>2, <1>4, <1>5
<1>7. V \in SUBSET (0 .. MaxScore)
  BY <1>2
<1>8. \A t \in V : t \in 0 .. MaxScore /\ Cardinality(Reaching(s, t)) >= FileRank
  BY <1>2
<1> HIDE DEF V
<1>9. Highest(V) \in V
  BY <1>2, <1>6, <1>7, HighestIn
<1>10. Cardinality(Reaching(s, Highest(V))) \in Nat
  BY ReachingFinite DEF Reaching
<1> QED
  BY <1>1, <1>2, <1>8, <1>9, <1>10 DEF Good, SafeFor

-----------------------------------------------------------------------------
(* What an engine answers, and the threshold it leaves.                    *)

\* An answer is a heap of true entries, of K at most.
LEMMA AnswerIsHeap ==
    ASSUME score \in Collections, NEW q \in SUBSET Tokens, NEW low,
           NEW ans \in Answers(q, low)
    PROVE  /\ IsHeap(ans) /\ Cardinality(ans) \in 0 .. K
           /\ \A h \in ans : h.doc \in Docs /\ h.score = score[q][h.doc]
<1>1. \A h \in ans : \E d \in Docs : h = [doc |-> d, score |-> score[q][d]]
  BY DEF Answers, Entry, Matching
<1>2. \A d \in Docs : d \in Nat /\ score[q][d] \in Nat
  BY ScoreTypes
<1>3. \A h \in ans : /\ h.doc \in Docs /\ h.score = score[q][h.doc]
                     /\ h \in [doc : Nat, score : Nat]
                     /\ h = [doc |-> h.doc, score |-> score[q][h.doc]]
  BY <1>1, <1>2
<1>4. IsFiniteSet(ans)
  <2> DEFINE f == [h \in ans |-> h.doc]
  <2>1. f \in [ans -> Docs]
    BY <1>3
  <2>2. \A x, y \in ans : f[x] = f[y] => x = y
    BY <1>3
  <2> HIDE DEF f
  <2>3. f \in Injection(ans, Docs)
    BY <2>1, <2>2 DEF Injection, IsInjective
  <2> QED
    BY <2>3, ReachingFinite, FS_Injection
<1>5. Cardinality(ans) <= K /\ Cardinality(ans) \in Nat /\ K \in Nat
  BY <1>4, FS_CardinalityType, KAssumption DEF Answers
<1> QED
  BY <1>3, <1>4, <1>5 DEF IsHeap

\* An engine that starts from a safe threshold ends on the K-th best score.
LEMMA LastThreshold ==
    ASSUME score \in Collections, NEW q \in SUBSET Tokens, NEW low, Good(q, low),
           NEW ans \in Answers(q, low)
    PROVE  LET t == ThresholdAfter(ans, low)
           IN  Good(q, t) /\ Cardinality(Reaching(q, t + 1)) < K
<1> DEFINE t == ThresholdAfter(ans, low)
<1>1. /\ IsHeap(ans) /\ IsFiniteSet(ans) /\ Cardinality(ans) \in 0 .. K
      /\ \A h \in ans : h.doc \in Docs /\ h.score = score[q][h.doc]
  BY AnswerIsHeap DEF IsHeap
<1>2. \A d \in Docs : score[q][d] \in 0 .. MaxScore
  BY ScoreTypes
<1>3. K \in Nat \ {0} /\ MaxScore \in Nat
  BY KAssumption, MaxScoreAssumption
<1>4. IsTopK(q, ans)
  BY DEF Answers, Good
<1>5. CASE IsFull(ans)
  <2>1. Cardinality(ans) = K /\ ans # {}
    BY <1>3, <1>5, FS_EmptySet DEF IsFull
  <2>2. t = Top(ans).score
    BY <1>5 DEF ThresholdAfter
  <2> HIDE DEF t
  <2>3. Top(ans) \in ans /\ \A y \in ans : t <= y.score
    BY <1>1, <2>1, <2>2, TopIsLowest
  <2>4. t \in 0 .. MaxScore
    BY <1>1, <1>2, <2>2, <2>3
  <2>5. Cardinality(Reaching(q, t)) >= K
    <3>1. \A x \in ans : x.doc \in Reaching(q, t)
      BY <1>1, <2>3 DEF Reaching
    <3>2. IsFiniteSet(Reaching(q, t))
      BY ReachingFinite DEF Reaching
    <3> QED
      BY <1>1, <2>1, <3>1, <3>2, DocsOf
  <2>6. Cardinality(Reaching(q, t + 1)) < K
    <3> DEFINE rest == ans \ {Top(ans)}
    <3>1. IsFiniteSet(rest) /\ Cardinality(rest) = K - 1
      BY <1>1, <2>1, <2>3, FS_RemoveElement
    <3>2. ASSUME NEW d \in Reaching(q, t + 1)
          PROVE  [doc |-> d, score |-> score[q][d]] \in rest
      <4>1. d \in Docs /\ score[q][d] \in 0 .. MaxScore /\ score[q][d] > t
        BY <1>2, <2>4 DEF Reaching
      <4>2. d \in Matching(q)
        BY <2>4, <4>1 DEF Matching
      <4>3. Entry(q, d) \in ans
        BY <1>1, <1>2, <1>4, <2>2, <2>3, <2>4, <4>1, <4>2 DEF IsTopK
      <4>4. Entry(q, d) # Top(ans)
        BY <2>2, <4>1, <2>4 DEF Entry
      <4> QED
        BY <4>3, <4>4 DEF Entry
    <3> HIDE DEF rest
    <3>3. Cardinality(Reaching(q, t + 1)) <= K - 1
      BY <3>1, <3>2, EntriesOf
    <3>4. Cardinality(Reaching(q, t + 1)) \in Nat
      BY ReachingFinite DEF Reaching
    <3> QED
      BY <3>3, <3>4, <1>3
  <2> QED
    BY <2>4, <2>5, <2>6 DEF Good, SafeFor, t
<1>6. CASE ~IsFull(ans)
  <2>1. t = low /\ low \in 0 .. MaxScore
    BY <1>6 DEF ThresholdAfter, Good
  <2>2. Cardinality(ans) < K
    BY <1>1, <1>3, <1>6 DEF IsFull
  <2>3. \A d \in Matching(q) : [doc |-> d, score |-> score[q][d]] \in ans
    BY <1>4, <1>6 DEF IsTopK, Entry
  <2>4. IsFiniteSet(Matching(q)) /\ Cardinality(Matching(q)) <= Cardinality(ans)
    BY <1>1, <2>3, EntriesOf
  <2>5. Cardinality(Matching(q)) \in Nat
    BY ReachingFinite DEF Matching
  <2>6. ASSUME NEW v \in 0 .. MaxScore + 1, v > 0
        PROVE  Cardinality(Reaching(q, v)) < K
    <3>1. Reaching(q, v) \in SUBSET Matching(q)
      BY <1>2, <1>3, <2>6 DEF Reaching, Matching
    <3>2. Cardinality(Reaching(q, v)) <= Cardinality(Matching(q))
      BY <2>4, <3>1, FS_Subset
    <3>3. Cardinality(Reaching(q, v)) \in Nat
      BY ReachingFinite DEF Reaching
    <3> QED
      BY <1>1, <1>3, <2>2, <2>4, <2>5, <3>2, <3>3
  <2>7. low = 0
    <3>1. low > 0 => Cardinality(Reaching(q, low)) >= K
      BY DEF Good, SafeFor
    <3>2. low > 0 => Cardinality(Reaching(q, low)) < K
      BY <1>3, <2>1, <2>6
    <3>3. Cardinality(Reaching(q, low)) \in Nat
      BY ReachingFinite DEF Reaching
    <3> QED
      BY <1>3, <2>1, <3>1, <3>2, <3>3
  <2>8. Cardinality(Reaching(q, low + 1)) < K
    BY <1>3, <2>6, <2>7
  <2> HIDE DEF t
  <2> QED
    BY <2>1, <2>8 DEF t
<1> QED
  BY <1>5, <1>6

-----------------------------------------------------------------------------
(* The inductive invariant.                                                *)

\* A query is being searched for in one of the runs.
Running == at # 0 => run < args.runs

\* The queries the cache holds when run r comes to query i: those of the file,
\* those stored in this run, and, if it was not emptied, those of the runs
\* before.
Held(i, r) ==
    (IF args.useFile THEN DOMAIN FileOf(args.fileKeys) ELSE {})
    \cup {queries[j] : j \in {k \in DOMAIN queries :
                               Grows /\ (k < i \/ (r > 0 /\ ~args.useFile))}}

CacheHolds ==
    args.traversal = "OR" /\ (at > 0 \/ ~args.useFile) => DOMAIN cache = Held(at, run)

\* How query i ends in run r.
Kind(i, r) ==
    IF args.traversal = "AND" THEN "undefined"
    ELSE IF queries[i] \in Held(i, r) THEN "hit" ELSE "miss"

\* The first run is reported as far as it has come.
Reported ==
    \A i \in DOMAIN queries :
        answers[i].how = IF i < at \/ run > 0 THEN Kind(i, 0) ELSE "none"

\* The searches for query i so far: those of the runs that are over, and that
\* of this run if it has come that far.
Searches(i) == IF i < at THEN run + 1 ELSE run

\* Of the first n searches for query i those of kind how that are timed: the
\* first unless there are three runs or more, and the others, which are alike.
TimedOf(i, how, n) ==
    (IF n > 0 /\ args.runs < 3 /\ how = Kind(i, 0) THEN 1 ELSE 0)
    + (IF n > 0 /\ how = Kind(i, 1) THEN n - 1 ELSE 0)

Timed ==
    \A i \in DOMAIN queries : \A how \in Kinds :
        timed[i][how] = TimedOf(i, how, Searches(i))

IInv == /\ TypeOK /\ CacheSound /\ KthScoreKept /\ AnswersTopK
        /\ Running /\ CacheHolds /\ Reported /\ Timed

\* What KthScoreKept says of the query s when the cache holds v for it.
IsKthScore(s, v) == /\ Cardinality(Reaching(s, v + 1)) < K
                    /\ v > 0 => Cardinality(Reaching(s, v)) >= K

\* Queries, options and places in the file have their types.
LEMMA QueryTypes ==
    ASSUME TypeOK
    PROVE  /\ Len(queries) \in Nat /\ DOMAIN queries = 1 .. Len(queries)
           /\ \A i \in DOMAIN queries : queries[i] \in SUBSET Tokens
           /\ args.runs \in Nat /\ args.method \in Methods
           /\ args.fileKeys \in SUBSET SUBSET Tokens
           /\ args.termKeys \in SUBSET SUBSET Tokens
           /\ at \in Nat /\ run \in Nat
<1>1. queries \in Seq(SUBSET Tokens)
  BY QueriesAssumption DEF TypeOK
<1>2. Len(queries) \in Nat /\ DOMAIN queries = 1 .. Len(queries)
  BY <1>1
<1>3. \A i \in DOMAIN queries : queries[i] \in SUBSET Tokens
  BY <1>1
<1>4. /\ args.runs \in Nat /\ args.method \in Methods
      /\ args.fileKeys \in SUBSET SUBSET Tokens
      /\ args.termKeys \in SUBSET SUBSET Tokens
  BY ArgumentsAssumption DEF TypeOK
<1>5. at \in Nat /\ run \in Nat
  BY <1>2, <1>4 DEF TypeOK
<1> QED
  BY <1>2, <1>3, <1>4, <1>5

\* A sound cache is good in the sense of the estimates.
LEMMA InvGoodCache == ASSUME TypeOK, CacheSound PROVE GoodCache(cache)
BY DEF TypeOK, CacheSound, GoodCache, Good

\* A run after the first is as the second.
LEMMA KindTypes ==
    ASSUME TypeOK
    PROVE  /\ args.traversal \in {"OR", "AND"}
           /\ \A i, r : Kind(i, r) \in Kinds
           /\ \A i : \A r \in Nat \ {0} : Kind(i, r) = Kind(i, 1)
<1>1. args.traversal \in {"OR", "AND"}
  BY ArgumentsAssumption DEF TypeOK
<1>2. \A i : \A r \in Nat \ {0} : Held(i, r) = Held(i, 1)
  BY DEF Held
<1> QED
  BY <1>1, <1>2 DEF Kind, Kinds

\* What a run will do depends on nothing a step changes.
LEMMA SameKinds ==
    ASSUME UNCHANGED <<score, args, queries>>
    PROVE  \A i, r : Held(i, r)' = Held(i, r) /\ Kind(i, r)' = Kind(i, r)
<1>1. FileOf(args.fileKeys)' = FileOf(args.fileKeys)
  BY DEF FileOf, Matching, Reaching
<1>2. \A i, r : Held(i, r)' = Held(i, r)
  BY <1>1 DEF Held, Grows
<1>3. \A i, r : Kind(i, r)' = Kind(i, r)
  BY <1>2 DEF Kind
<1> QED
  BY <1>2, <1>3

\* The first query finds what was loaded, or what the runs before left.
LEMMA HeldFirst ==
    ASSUME TypeOK
    PROVE  /\ args.useFile => Held(1, run) = DOMAIN FileOf(args.fileKeys)
           /\ ~args.useFile => Held(1, run) = Held(0, run)
           /\ (~args.useFile /\ run = 0) => Held(0, run) = {}
           /\ ~args.useFile => Held(0, run + 1) = Held(Len(queries) + 1, run)
<1>1. /\ Len(queries) \in Nat /\ DOMAIN queries = 1 .. Len(queries) /\ run \in Nat
  BY QueryTypes
<1>2. \A k \in DOMAIN queries : ~(k < 1) /\ ~(k < 0) /\ k < Len(queries) + 1
  BY <1>1
<1>3. args.useFile => Held(1, run) = DOMAIN FileOf(args.fileKeys)
  BY <1>2 DEF Held
<1>4. ~args.useFile => Held(1, run) = Held(0, run)
  BY <1>2 DEF Held
<1>5. (~args.useFile /\ run = 0) => Held(0, run) = {}
  BY <1>2 DEF Held
<1>6. run + 1 > 0
  BY <1>1
<1>7. ~args.useFile => Held(0, run + 1) = Held(Len(queries) + 1, run)
  BY <1>2, <1>6 DEF Held
<1> QED
  BY <1>3, <1>4, <1>5, <1>7

\* A query leaves itself behind if the cache grows, and nothing else.
LEMMA HeldNext ==
    ASSUME TypeOK, at \in DOMAIN queries
    PROVE  Held(at + 1, run) = Held(at, run) \cup (IF Grows THEN {queries[at]} ELSE {})
<1>1. /\ DOMAIN queries = 1 .. Len(queries) /\ Len(queries) \in Nat /\ at \in Nat
  BY QueryTypes
<1>2. \A k \in DOMAIN queries : k < at + 1 <=> (k < at \/ k = at)
  BY <1>1
<1> QED
  BY <1>2 DEF Held

\* The invariant holds at first.
LEMMA InitInv == Init => IInv
<1> SUFFICES ASSUME Init PROVE IInv
  OBVIOUS
<1>1. queries \in Seq(SUBSET Tokens) /\ args.runs \in Nat
  BY QueriesAssumption, ArgumentsAssumption DEF Init
<1>2. Len(queries) \in Nat /\ DOMAIN queries = 1 .. Len(queries)
  BY <1>1
<1>3. DOMAIN cache = {}
  BY DEF Init, EmptyCache
<1>4. TypeOK
  BY <1>1, <1>2, <1>3 DEF Init, TypeOK
<1>5. CacheSound /\ KthScoreKept
  BY <1>3 DEF CacheSound, KthScoreKept
<1>6. AnswersTopK /\ Running
  BY DEF Init, AnswersTopK, Running
<1>7. CacheHolds
  <2>1. ~(at > 0) /\ at = 0 /\ run = 0
    BY DEF Init
  <2>2. ~args.useFile => Held(at, run) = {}
    BY <1>4, <2>1, HeldFirst
  <2> QED
    BY <1>3, <2>1, <2>2 DEF CacheHolds
<1>8. \A i \in DOMAIN queries : ~(i < at) /\ Searches(i) = 0 /\ run = 0
  BY <1>2 DEF Init, Searches
<1>9. Reported
  BY <1>8 DEF Init, Reported
<1>10. Timed
  <2> SUFFICES ASSUME NEW i \in DOMAIN queries, NEW how \in Kinds
               PROVE  timed[i][how] = TimedOf(i, how, Searches(i))
    BY DEF Timed
  <2>1. timed[i][how] = 0
    BY DEF Init
  <2>2. TimedOf(i, how, 0) = 0
    BY DEF TimedOf
  <2> QED
    BY <1>8, <2>1, <2>2
<1> QED
  BY <1>4, <1>5, <1>6, <1>7, <1>9, <1>10 DEF IInv

\* It is enough to look at the cache a step leaves with the eyes of the state
\* before, as the collection and the arguments stay.
LEMMA CacheStep ==
    ASSUME UNCHANGED <<score, args, queries>>, GoodCache(cache'),
           \A s \in DOMAIN cache' :
              (args.useFile => s \notin DOMAIN FileOf(args.fileKeys))
                 => IsKthScore(s, cache'[s])
    PROVE  /\ CacheSound' /\ KthScoreKept'
           /\ DOMAIN cache' \subseteq SUBSET Tokens
           /\ \A s \in DOMAIN cache' : cache'[s] \in 0 .. MaxScore
<1>1. \A q, t : Reaching(q, t)' = Reaching(q, t)
  BY DEF Reaching
<1>2. FileOf(args.fileKeys)' = FileOf(args.fileKeys)
  BY DEF FileOf, Matching, Reaching
<1>3. CacheSound'
  BY DEF CacheSound, GoodCache, Good, SafeFor, Reaching
<1>4. KthScoreKept'
  BY <1>2 DEF KthScoreKept, IsKthScore, Reaching
<1> QED
  BY <1>3, <1>4 DEF GoodCache, Good

\* If what was computed is a top-K, all the answers are.
LEMMA AnswersStep ==
    ASSUME UNCHANGED <<score, queries>>,
           \A i \in DOMAIN queries :
               answers'[i].how = "miss" => IsTopK(queries[i], answers'[i].list)
    PROVE  AnswersTopK'
BY DEF AnswersTopK, IsTopK, Matching, Entry

\* The times are right after a step if they are by the kinds known before it.
LEMMA TimedStep ==
    ASSUME UNCHANGED <<score, args, queries>>,
           \A i \in DOMAIN queries : \A how \in Kinds :
               timed'[i][how] = TimedOf(i, how, IF i < at' THEN run' + 1 ELSE run')
    PROVE  Timed'
BY SameKinds DEF Timed, TimedOf, Searches, Kinds

\* So is what the cache holds.
LEMMA HoldsStep ==
    ASSUME UNCHANGED <<score, args, queries>>,
           args.traversal = "OR" /\ (at' > 0 \/ ~args.useFile)
              => DOMAIN cache' = Held(at', run')
    PROVE  CacheHolds'
<1>1. FileOf(args.fileKeys)' = FileOf(args.fileKeys)
  BY DEF FileOf, Matching, Reaching
<1> QED
  BY <1>1 DEF CacheHolds, Held, Grows

\* Starting a run keeps the invariant.
LEMMA StartRunInv == ASSUME IInv, StartRun PROVE IInv'
<1>1. /\ TypeOK /\ CacheSound /\ KthScoreKept /\ AnswersTopK
      /\ CacheHolds /\ Reported /\ Timed
      /\ run < args.runs /\ at = 0 /\ at' = 1
      /\ cache' = IF args.useFile THEN FileOf(args.fileKeys) ELSE cache
      /\ UNCHANGED <<score, args, queries, run, answers, timed>>
  BY DEF IInv, StartRun
<1>2. /\ Len(queries) \in Nat /\ DOMAIN queries = 1 .. Len(queries)
      /\ args.fileKeys \in SUBSET SUBSET Tokens /\ score \in Collections
      /\ run \in Nat
  BY <1>1, QueryTypes DEF TypeOK
<1>3. GoodCache(cache')
  <2>1. GoodCache(FileOf(args.fileKeys)) /\ GoodCache(cache)
    BY <1>1, <1>2, FilesAreGood, InvGoodCache
  <2> QED
    BY <1>1, <2>1
<1>4. \A s \in DOMAIN cache' :
         (args.useFile => s \notin DOMAIN FileOf(args.fileKeys))
            => IsKthScore(s, cache'[s])
  BY <1>1 DEF KthScoreKept, IsKthScore
<1>5. /\ CacheSound' /\ KthScoreKept'
      /\ DOMAIN cache' \subseteq SUBSET Tokens
      /\ \A s \in DOMAIN cache' : cache'[s] \in 0 .. MaxScore
  BY <1>1, <1>3, <1>4, CacheStep
<1>6. TypeOK'
  BY <1>1, <1>2, <1>5 DEF TypeOK
<1>7. AnswersTopK'
  BY <1>1, AnswersStep DEF AnswersTopK
<1>8. Running'
  BY <1>1 DEF Running
<1>9. CacheHolds'
  <2>1. Held(at', run') = Held(1, run)
    BY <1>1
  <2>2. ASSUME args.traversal = "OR" PROVE DOMAIN cache' = Held(1, run)
    <3>1. CASE args.useFile
      BY <1>1, <3>1, HeldFirst
    <3>2. CASE ~args.useFile
      <4>1. DOMAIN cache = Held(0, run)
        BY <1>1, <2>2, <3>2 DEF CacheHolds
      <4> QED
        BY <1>1, <3>2, <4>1, HeldFirst
    <3> QED
      BY <3>1, <3>2
  <2> QED
    BY <1>1, <2>1, <2>2, HoldsStep
<1>10. \A i \in DOMAIN queries : ~(i < at) /\ ~(i < at')
  BY <1>1, <1>2
<1>11. Reported'
  <2>1. \A i \in DOMAIN queries : answers'[i].how = IF i < at' \/ run' > 0 THEN Kind(i, 0) ELSE "none"
    BY <1>1, <1>10 DEF Reported
  <2> QED
    BY <1>1, <2>1, SameKinds DEF Reported
<1>12. Timed'
  <2>1. \A i \in DOMAIN queries : (IF i < at' THEN run' + 1 ELSE run') = Searches(i)
    BY <1>1, <1>10 DEF Searches
  <2> QED
    BY <1>1, <2>1, TimedStep DEF Timed
<1> QED
  BY <1>5, <1>6, <1>7, <1>8, <1>9, <1>11, <1>12 DEF IInv

\* Ending a run keeps the invariant.
LEMMA EndRunInv == ASSUME IInv, EndRun PROVE IInv'
<1>1. /\ TypeOK /\ CacheSound /\ KthScoreKept /\ AnswersTopK /\ Running
      /\ CacheHolds /\ Reported /\ Timed
      /\ at > Len(queries) /\ at' = 0 /\ run' = run + 1
      /\ UNCHANGED <<score, args, queries, cache, answers, timed>>
  BY DEF IInv, EndRun
<1>2. /\ Len(queries) \in Nat /\ DOMAIN queries = 1 .. Len(queries)
      /\ run \in Nat /\ at \in Nat /\ args.runs \in Nat
  BY <1>1, QueryTypes
<1>3. run < args.runs
  BY <1>1, <1>2 DEF Running
<1>4. GoodCache(cache)
  BY <1>1, InvGoodCache
<1>5. CacheSound' /\ KthScoreKept'
  BY <1>1, <1>4, CacheStep DEF KthScoreKept, IsKthScore
<1>6. TypeOK'
  BY <1>1, <1>2, <1>3 DEF TypeOK
<1>7. AnswersTopK'
  BY <1>1, AnswersStep DEF AnswersTopK
<1>8. Running'
  BY <1>1 DEF Running
<1>9. CacheHolds'
  <2>1. Held(at', run') = Held(0, run + 1)
    BY <1>1
  <2>2. ASSUME args.traversal = "OR", ~args.useFile PROVE DOMAIN cache = Held(0, run + 1)
    <3>1. at = Len(queries) + 1 /\ at > 0
      BY <1>1, <1>2 DEF TypeOK
    <3>2. DOMAIN cache = Held(Len(queries) + 1, run)
      BY <1>1, <2>2, <3>1 DEF CacheHolds
    <3> QED
      BY <1>1, <2>2, <3>2, HeldFirst
  <2>3. ~(at' > 0)
    BY <1>1
  <2> QED
    BY <1>1, <2>1, <2>2, <2>3, HoldsStep
<1>10. \A i \in DOMAIN queries : i < at /\ ~(i < at')
  BY <1>1, <1>2
<1>11. Reported'
  <2>1. run' > 0
    BY <1>1, <1>2
  <2>2. \A i \in DOMAIN queries : answers'[i].how = IF i < at' \/ run' > 0 THEN Kind(i, 0) ELSE "none"
    BY <1>1, <1>10, <2>1 DEF Reported
  <2> QED
    BY <1>1, <2>2, SameKinds DEF Reported
<1>12. Timed'
  <2>1. \A i \in DOMAIN queries : (IF i < at' THEN run' + 1 ELSE run') = Searches(i)
    BY <1>1, <1>10 DEF Searches
  <2> QED
    BY <1>1, <2>1, TimedStep DEF Timed
<1> QED
  BY <1>5, <1>6, <1>7, <1>8, <1>9, <1>11, <1>12 DEF IInv

\* The three ways a search ends.
LEMMA ReportInv ==
    ASSUME IInv, Searching, NEW how, NEW ans, Report(how, ans), how = Kind(at, run),
           how = "miss" => IsTopK(queries[at], ans),
           args.traversal = "OR" => DOMAIN cache' = Held(at + 1, run),
           GoodCache(cache'),
           \A s \in DOMAIN cache' :
              (args.useFile => s \notin DOMAIN FileOf(args.fileKeys))
                 => IsKthScore(s, cache'[s])
    PROVE  IInv'
<1>1. /\ TypeOK /\ CacheSound /\ KthScoreKept /\ AnswersTopK /\ Running
      /\ CacheHolds /\ Reported /\ Timed
      /\ at \in DOMAIN queries /\ at' = at + 1
      /\ answers' = IF run = 0
                    THEN [answers EXCEPT ![at] = [how |-> how, list |-> ans]]
                    ELSE answers
      /\ timed' = IF args.runs < 3 \/ run > 0
                  THEN [timed EXCEPT ![at][how] = @ + 1] ELSE timed
      /\ UNCHANGED <<score, args, queries, run>>
  BY DEF IInv, Searching, Report
<1>2. /\ Len(queries) \in Nat /\ DOMAIN queries = 1 .. Len(queries)
      /\ run \in Nat /\ at \in Nat /\ args.runs \in Nat
      /\ timed \in [DOMAIN queries -> [Kinds -> Nat]] /\ DOMAIN answers = DOMAIN queries
      /\ how \in Kinds
  BY <1>1, QueryTypes, KindTypes DEF TypeOK
<1>3. /\ CacheSound' /\ KthScoreKept'
      /\ DOMAIN cache' \subseteq SUBSET Tokens
      /\ \A s \in DOMAIN cache' : cache'[s] \in 0 .. MaxScore
  BY <1>1, CacheStep
<1>4. TypeOK'
  <2>1. timed' \in [DOMAIN queries -> [Kinds -> Nat]] /\ DOMAIN answers' = DOMAIN queries
    BY <1>1, <1>2
  <2>2. at' \in 0 .. Len(queries) + 1
    BY <1>1, <1>2
  <2> QED
    BY <1>1, <1>3, <2>1, <2>2 DEF TypeOK
<1>5. AnswersTopK'
  <2>1. ASSUME NEW i \in DOMAIN queries, answers'[i].how = "miss"
        PROVE  IsTopK(queries[i], answers'[i].list)
    <3>1. CASE run = 0 /\ i = at
      BY <1>1, <1>2, <2>1, <3>1
    <3>2. CASE ~(run = 0 /\ i = at)
      <4>1. answers'[i] = answers[i]
        BY <1>1, <1>2, <3>2
      <4> QED
        BY <1>1, <2>1, <4>1 DEF AnswersTopK
    <3> QED
      BY <3>1, <3>2
  <2> QED
    BY <1>1, <2>1, AnswersStep
<1>6. Running'
  BY <1>1, <1>2 DEF Running
<1>7. CacheHolds'
  <2>1. Held(at', run') = Held(at + 1, run)
    BY <1>1
  <2> QED
    BY <1>1, <2>1, HoldsStep
<1>8. Reported'
  <2>1. ASSUME NEW i \in DOMAIN queries
        PROVE  answers'[i].how = IF i < at' \/ run' > 0 THEN Kind(i, 0) ELSE "none"
    <3>1. i \in Nat
      BY <1>2
    <3>2. CASE i = at /\ run = 0
      BY <1>1, <1>2, <3>1, <3>2
    <3>3. CASE ~(i = at /\ run = 0)
      <4>1. answers'[i] = answers[i] /\ ((i < at' \/ run' > 0) <=> (i < at \/ run > 0))
        BY <1>1, <1>2, <3>1, <3>3
      <4> QED
        BY <1>1, <4>1 DEF Reported
    <3> QED
      BY <3>2, <3>3
  <2> QED
    BY <1>1, <2>1, SameKinds DEF Reported
<1>9. Timed'
  <2> DEFINE n(i) == IF i < at' THEN run' + 1 ELSE run'
  <2> SUFFICES ASSUME NEW i \in DOMAIN queries, NEW h \in Kinds
               PROVE  timed'[i][h] = TimedOf(i, h, n(i))
    BY <1>1, TimedStep
  <2>2. i \in Nat /\ timed[i][h] = TimedOf(i, h, Searches(i)) /\ timed[i][h] \in Nat
    BY <1>1, <1>2 DEF Timed
  <2>3. CASE i # at
    <3>1. timed'[i] = timed[i] /\ (i < at' <=> i < at)
      BY <1>1, <1>2, <2>2, <2>3
    <3>2. n(i) = Searches(i)
      BY <1>1, <3>1 DEF Searches
    <3> QED
      BY <2>2, <3>1, <3>2
  <2>4. CASE i = at
    <3>1. Searches(i) = run /\ n(i) = run + 1
      BY <1>1, <1>2, <2>2, <2>4 DEF Searches
    <3>2. timed'[i][h] = IF (args.runs < 3 \/ run > 0) /\ h = Kind(i, run)
                         THEN timed[i][h] + 1 ELSE timed[i][h]
      BY <1>1, <1>2, <2>2, <2>4
    <3>3. TimedOf(i, h, run + 1) = IF (args.runs < 3 \/ run > 0) /\ h = Kind(i, run)
                                   THEN TimedOf(i, h, run) + 1 ELSE TimedOf(i, h, run)
      <4>1. CASE run = 0
        BY <1>2, <4>1 DEF TimedOf
      <4>2. CASE run > 0
        <5>1. Kind(i, run) = Kind(i, 1)
          BY <1>1, <1>2, <4>2, KindTypes
        <5> QED
          BY <1>2, <4>2, <5>1 DEF TimedOf
      <4> QED
        BY <1>2, <4>1, <4>2
    <3> QED
      BY <2>2, <3>1, <3>2, <3>3
  <2> QED
    BY <2>3, <2>4
<1> QED
  BY <1>3, <1>4, <1>5, <1>6, <1>7, <1>8, <1>9 DEF IInv

\* A query answered from the cache keeps the invariant.
LEMMA SearchEmptyInv == ASSUME IInv, SearchHit \/ SearchAnd PROVE IInv'
<1>1. /\ Searching /\ cache' = cache /\ CacheSound /\ KthScoreKept /\ TypeOK /\ CacheHolds
      /\ at \in DOMAIN queries /\ at > 0
  BY QueryTypes DEF IInv, SearchHit, SearchAnd, Searching
<1>2. GoodCache(cache')
  BY <1>1, InvGoodCache
<1>3. \A s \in DOMAIN cache' :
         (args.useFile => s \notin DOMAIN FileOf(args.fileKeys))
            => IsKthScore(s, cache'[s])
  BY <1>1 DEF KthScoreKept, IsKthScore
<1>4. CASE SearchHit
  <2>1. Report("hit", {}) /\ args.traversal = "OR" /\ queries[at] \in DOMAIN cache
    BY <1>4 DEF SearchHit
  <2>2. DOMAIN cache = Held(at, run)
    BY <1>1, <2>1 DEF CacheHolds
  <2>3. "hit" = Kind(at, run)
    BY <2>1, <2>2 DEF Kind
  <2>4. DOMAIN cache' = Held(at + 1, run)
    BY <1>1, <2>1, <2>2, HeldNext
  <2> QED
    BY <1>1, <1>2, <1>3, <2>1, <2>3, <2>4, ReportInv
<1>5. CASE SearchAnd
  <2>1. /\ args.traversal = "AND"
        /\ \E ans \in Undefined : Report("undefined", ans)
    BY <1>5 DEF SearchAnd
  <2>2. "undefined" = Kind(at, run) /\ args.traversal # "OR"
    BY <2>1 DEF Kind
  <2> QED
    BY <1>1, <1>2, <1>3, <2>1, <2>2, ReportInv
<1> QED
  BY <1>4, <1>5

\* A query that is searched for keeps the invariant: what it leaves in the cache is sound.
LEMMA SearchMissInv == ASSUME IInv, SearchMiss PROVE IInv'
<1> DEFINE q == queries[at]
<1>1. /\ TypeOK /\ CacheSound /\ KthScoreKept /\ Searching /\ score \in Collections
      /\ CacheHolds /\ args.traversal = "OR" /\ q \notin DOMAIN cache
  BY DEF IInv, SearchMiss, TypeOK
<1>2. q \in SUBSET Tokens /\ args.method \in Methods /\ args.termKeys \in SUBSET SUBSET Tokens
  BY <1>1, QueryTypes DEF Searching
<1>3. PICK low \in Estimates(args.method, q, cache, FileOf(args.termKeys),
                              DocumentFrequencies(q)) :
            \E ans \in Answers(q, low) :
               Report("miss", ans) /\ cache' = Remember(q, ans, low)
  BY DEF SearchMiss
<1>4. PICK ans \in Answers(q, low) :
            Report("miss", ans) /\ cache' = Remember(q, ans, low)
  BY <1>3
<1>5. GoodCache(cache)
  BY <1>1, InvGoodCache
<1>6. GoodCache(FileOf(args.termKeys))
  BY <1>1, <1>2, FilesAreGood
<1> HIDE DEF q
<1>7. Good(q, low)
  BY <1>1, <1>2, <1>5, <1>6, EstimatesAreGood
<1>8. Good(q, ThresholdAfter(ans, low)) /\ IsTopK(q, ans)
  BY <1>1, <1>2, <1>7, LastThreshold DEF Answers, Good
<1>9. IsKthScore(q, ThresholdAfter(ans, low))
  BY <1>1, <1>2, <1>7, <1>8, LastThreshold DEF Good, SafeFor, IsKthScore
<1>10. \A s \in DOMAIN cache' :
          \/ s = q /\ cache'[s] = ThresholdAfter(ans, low)
          \/ s \in DOMAIN cache /\ cache'[s] = cache[s]
  BY <1>4 DEF Remember
<1>11. GoodCache(cache')
  BY <1>2, <1>5, <1>8, <1>10 DEF GoodCache
<1>12. \A s \in DOMAIN cache' :
          (args.useFile => s \notin DOMAIN FileOf(args.fileKeys))
             => IsKthScore(s, cache'[s])
  BY <1>1, <1>9, <1>10 DEF KthScoreKept, IsKthScore
<1>13. IsTopK(queries[at], ans)
  BY <1>8 DEF q
<1>14. at \in DOMAIN queries /\ at > 0
  BY <1>1, QueryTypes DEF Searching
<1>15. DOMAIN cache = Held(at, run)
  BY <1>1, <1>14 DEF CacheHolds
<1>16. "miss" = Kind(at, run)
  BY <1>1, <1>15 DEF Kind, q
<1>17. DOMAIN cache' = Held(at + 1, run)
  <2>1. DOMAIN cache' = DOMAIN cache \cup (IF Grows THEN {q} ELSE {})
    BY <1>4 DEF Remember
  <2> QED
    BY <1>1, <1>14, <1>15, <2>1, HeldNext DEF q
<1> QED
  BY <1>1, <1>4, <1>11, <1>12, <1>13, <1>16, <1>17, ReportInv

\* A stutter keeps the invariant.
LEMMA StutterInv == ASSUME IInv, UNCHANGED vars PROVE IInv'
<1>1. UNCHANGED <<score, args, queries, cache, run, at, answers, timed>>
  BY DEF vars
<1>2. GoodCache(cache) /\ CacheSound /\ KthScoreKept /\ AnswersTopK
  BY InvGoodCache DEF IInv
<1>3. CacheSound' /\ KthScoreKept'
  BY <1>1, <1>2, CacheStep DEF KthScoreKept, IsKthScore
<1>4. AnswersTopK'
  BY <1>1, <1>2, AnswersStep DEF AnswersTopK
<1>5. TypeOK' /\ Running'
  BY <1>1 DEF IInv, TypeOK, Running
<1>6. CacheHolds' /\ Reported'
  BY <1>1, SameKinds DEF IInv, CacheHolds, Reported
<1>7. Timed'
  BY <1>1, TimedStep DEF IInv, Timed, Searches
<1> QED
  BY <1>3, <1>4, <1>5, <1>6, <1>7 DEF IInv

\* Every step keeps the invariant.
LEMMA NextInv == IInv /\ [Next]_vars => IInv'
<1> SUFFICES ASSUME IInv, [Next]_vars PROVE IInv'
  OBVIOUS
<1>1. CASE StartRun
  BY <1>1, StartRunInv
<1>2. CASE SearchHit \/ SearchAnd
  BY <1>2, SearchEmptyInv
<1>3. CASE SearchMiss
  BY <1>3, SearchMissInv
<1>4. CASE EndRun
  BY <1>4, EndRunInv
<1>5. CASE UNCHANGED vars
  BY <1>5, StutterInv
<1> QED
  BY <1>1, <1>2, <1>3, <1>4, <1>5 DEF Next

\* The invariant always holds.
LEMMA InvAlways == Spec => []IInv
<1>1. Init => IInv
  BY InitInv
<1>2. IInv /\ [Next]_vars => IInv'
  BY NextInv
<1> QED
  BY <1>1, <1>2, PTL DEF Spec

-----------------------------------------------------------------------------
(* The theorems.                                                           *)

\* The session's state has its type: no run too many, no query out of the
\* file, no cached score above what documents can score.
THEOREM TypeCorrect == Spec => []TypeOK
<1>1. IInv => TypeOK
  BY DEF IInv
<1> QED
  BY <1>1, InvAlways, PTL

\* Whatever the heuristic, the files and the order of the queries, the cache
\* of search_index never holds a threshold that would cost a query a result.
THEOREM CacheStaysSound == Spec => []CacheSound
<1>1. IInv => CacheSound
  BY DEF IInv
<1> QED
  BY <1>1, InvAlways, PTL

\* What process_bmw_disjunctive leaves in the cache is the K-th best score,
\* although it started from thresholds the cache gave it.
THEOREM CacheKeepsKthScore == Spec => []KthScoreKept
<1>1. IInv => KthScoreKept
  BY DEF IInv
<1> QED
  BY <1>1, InvAlways, PTL

\* Every answer of search that is not a cache hit is a top-K.
THEOREM AnswersStayTopK == Spec => []AnswersTopK
<1>1. IInv => AnswersTopK
  BY DEF IInv
<1> QED
  BY <1>1, InvAlways, PTL

\* The times search_index writes are averages over as many searches as it
\* divides by; with a cache emptied between the runs, or one that does not
\* grow, over searches of the kind the row names, and without that the later
\* runs are all hits.
THEOREM TimesAreAveraged == Spec => []TimesAveraged
<1>1. ASSUME IInv PROVE TimesAveraged
  <2> SUFFICES ASSUME run = args.runs, at = 0, NEW i \in DOMAIN queries
               PROVE  /\ timed[i]["hit"] + timed[i]["miss"] + timed[i]["undefined"] = AvgNumRun
                      /\ (args.useFile \/ ~Grows) =>
                            \A how \in Kinds \ {answers[i].how} : timed[i][how] = 0
                      /\ (Grows /\ ~args.useFile /\ args.traversal = "OR") =>
                            timed[i]["hit"] >= args.runs - 1
    BY DEF TimesAveraged
  <2>1. i \in Nat /\ args.runs \in Nat /\ i >= 1 /\ ~(i < at)
    BY <1>1, QueryTypes DEF IInv
  <2>2. Searches(i) = args.runs
    BY <2>1 DEF Searches
  <2>3. \A how \in Kinds : timed[i][how] = TimedOf(i, how, args.runs)
    BY <1>1, <2>2 DEF IInv, Timed
  <2>4. Kind(i, 0) \in Kinds /\ Kind(i, 1) \in Kinds
    BY <1>1, KindTypes DEF IInv
  <2>5. timed[i]["hit"] + timed[i]["miss"] + timed[i]["undefined"] = AvgNumRun
    <3>1. /\ timed[i]["hit"] = TimedOf(i, "hit", args.runs)
          /\ timed[i]["miss"] = TimedOf(i, "miss", args.runs)
          /\ timed[i]["undefined"] = TimedOf(i, "undefined", args.runs)
      BY <2>3 DEF Kinds
    <3> QED
      BY <2>1, <2>4, <3>1 DEF TimedOf, Kinds, AvgNumRun
  <2>6. ASSUME args.useFile \/ ~Grows, NEW how \in Kinds \ {answers[i].how}
        PROVE  timed[i][how] = 0
    <3>1. Kind(i, 1) = Kind(i, 0)
      <4>1. Held(i, 1) = Held(i, 0)
        BY <2>6 DEF Held
      <4> QED
        BY <4>1 DEF Kind
    <3>2. CASE args.runs = 0
      BY <2>3, <3>2 DEF TimedOf
    <3>3. CASE args.runs > 0
      <4>1. answers[i].how = Kind(i, 0)
        BY <1>1, <3>3 DEF IInv, Reported
      <4> QED
        BY <2>3, <2>6, <3>1, <4>1 DEF TimedOf
    <3> QED
      BY <2>1, <3>2, <3>3
  <2>7. ASSUME Grows, ~args.useFile, args.traversal = "OR"
        PROVE  timed[i]["hit"] >= args.runs - 1
    <3>1. Kind(i, 1) = "hit"
      <4>1. queries[i] \in Held(i, 1)
        BY <2>7 DEF Held
      <4> QED
        BY <2>7, <4>1 DEF Kind
    <3>2. timed[i]["hit"] = TimedOf(i, "hit", args.runs)
      BY <2>3 DEF Kinds
    <3> QED
      BY <2>1, <3>1, <3>2 DEF TimedOf
  <2> QED
    BY <2>5, <2>6, <2>7
<1> QED
  BY <1>1, InvAlways, PTL

=============================================================================
