------------------------------ MODULE EngineProofs ------------------------------
(***************************************************************************)
(* The disjunctive engines, WAND and Block-Max WAND, for every index,      *)
(* query, block size, number of results and safe initial threshold.        *)
(***************************************************************************)
EXTENDS BmwSearch, CommonLemmas

-----------------------------------------------------------------------------
(* The index and the query.                                                *)

\* What the index promises of a list.
GoodList(pl) ==
    /\ IsPostingsList(pl)
    /\ \A p \in 0 .. pl.n - 1 : /\ pl.ids[p] \in Docs
                                /\ pl.w[p] \in Nat \ {0}
                                /\ pl.w[p] <= pl.max
    /\ pl.max \in Nat
    /\ \A b \in 0 .. NumBlocks(pl) - 1 :
          pl.bmax[b] \in Nat /\ \A p \in BlockPositions(pl, b) : pl.w[p] <= pl.bmax[b]

\* Every list of an index keeps the promise.
LEMMA ListsAreGood ==
    ASSUME NEW L \in Indexes, NEW t \in Terms
    PROVE  GoodList(L[t])
<1>1. /\ IsPostingsList(L[t])
      /\ \A p \in 0 .. L[t].n - 1 : L[t].ids[p] < NumDocs /\ L[t].w[p] \in Nat \ {0}
      /\ L[t].max \in Nat
      /\ \A b \in 0 .. NumBlocks(L[t]) - 1 : L[t].bmax[b] \in Nat
      /\ IsBounded(L[t])
  BY IndexesAssumption
<1>2. \A p \in 0 .. L[t].n - 1 : L[t].ids[p] \in Docs
  BY <1>1, NumDocsAssumption DEF IsPostingsList, Docs
<1> QED
  BY <1>1, <1>2 DEF GoodList, IsBounded

\* There are no more tokens than the query is long.
LEMMA TermsFinite ==
    /\ Len(Query) \in Nat /\ Query \in [1 .. Len(Query) -> Terms]
    /\ IsFiniteSet(Terms) /\ Cardinality(Terms) \in Nat /\ Cardinality(Terms) <= Len(Query)
<1>1. Len(Query) \in Nat /\ DOMAIN Query = 1 .. Len(Query) /\ Query \in [1 .. Len(Query) -> Terms]
  BY QueryAssumption
<1>2. Query \in Surjection(1 .. Len(Query), Terms)
  BY <1>1 DEF Terms, Surjection
<1>3. IsFiniteSet(1 .. Len(Query)) /\ Cardinality(1 .. Len(Query)) = Len(Query)
  BY <1>1, FS_Interval
<1>4. IsFiniteSet(Terms) /\ Cardinality(Terms) <= Len(Query)
  BY <1>2, <1>3, FS_Surjection
<1> QED
  BY <1>1, <1>4, FS_CardinalityType

\* A document occurs once in a list.
LEMMA WeightAt ==
    ASSUME NEW pl, IsPostingsList(pl), NEW p \in 0 .. pl.n - 1,
           NEW from \in Nat, from <= p
    PROVE  Weight(pl, pl.ids[p], from) = pl.w[p]
<1> DEFINE P == {q \in from .. pl.n - 1 : pl.ids[q] = pl.ids[p]}
<1>1. pl.n \in Nat
  BY DEF IsPostingsList
<1>2. p \in P /\ P \in SUBSET Nat
  BY <1>1
<1>3. \A q \in P : q = p
  <2> SUFFICES ASSUME NEW q \in P PROVE q = p
    OBVIOUS
  <2>1. q \in 0 .. pl.n - 1 /\ pl.ids[q] = pl.ids[p] /\ pl.ids[p] \in Nat /\ q \in Nat /\ p \in Nat
    BY <1>1 DEF IsPostingsList
  <2>2. (q < p => pl.ids[q] < pl.ids[p]) /\ (p < q => pl.ids[p] < pl.ids[q])
    BY <2>1 DEF IsPostingsList
  <2> QED
    BY <2>1, <2>2
<1>4. Least(P) = p
  BY <1>2, <1>3, LeastInSet
<1> QED
  BY <1>2, <1>4 DEF Weight

\* A list that no longer holds a document adds nothing to its score.
LEMMA WeightNone ==
    ASSUME NEW pl, NEW d, NEW from, \A q \in from .. pl.n - 1 : pl.ids[q] # d
    PROVE  Weight(pl, d, from) = 0
<1>1. {q \in from .. pl.n - 1 : pl.ids[q] = d} = {}
  OBVIOUS
<1> QED
  BY <1>1 DEF Weight

\* The weight of a document is that of its posting, or nothing.
LEMMA WeightType ==
    ASSUME NEW pl, GoodList(pl), NEW d, NEW from \in Nat
    PROVE  /\ Weight(pl, d, from) \in Nat
           /\ Weight(pl, d, from) <= pl.max
           /\ Weight(pl, d, from) # 0 =>
                 \E p \in from .. pl.n - 1 : pl.ids[p] = d /\ pl.w[p] = Weight(pl, d, from)
<1>1. pl.n \in Nat /\ IsPostingsList(pl) /\ pl.max \in Nat
  BY DEF GoodList, IsPostingsList
<1>2. CASE \E p \in from .. pl.n - 1 : pl.ids[p] = d
  <2>1. PICK p \in from .. pl.n - 1 : pl.ids[p] = d
    BY <1>2
  <2>2. p \in 0 .. pl.n - 1 /\ from <= p
    BY <1>1
  <2>3. Weight(pl, d, from) = pl.w[p]
    BY <1>1, <2>1, <2>2, WeightAt
  <2>4. pl.w[p] \in Nat /\ pl.w[p] <= pl.max
    BY <2>2 DEF GoodList
  <2> QED
    BY <2>1, <2>3, <2>4
<1>3. CASE \A p \in from .. pl.n - 1 : pl.ids[p] # d
  <2>1. Weight(pl, d, from) = 0
    BY <1>3, WeightNone
  <2> QED
    BY <2>1, <1>1
<1> QED
  BY <1>2, <1>3

\* What a document has left is what it weighs when it has not been passed.
PassedIn(pl, it, d) == \E p \in 0 .. it.pos - 1 : pl.ids[p] = d

\* What is left of a list gives a document at most what the list does, and all of it
\* when the postings passed are of other documents.
LEMMA WeightLeft ==
    ASSUME NEW pl, GoodList(pl), NEW d, NEW from \in 0 .. pl.n
    PROVE  /\ Weight(pl, d, from) <= Weight(pl, d, 0)
           /\ (\A p \in 0 .. from - 1 : pl.ids[p] # d) => Weight(pl, d, from) = Weight(pl, d, 0)
<1>1. pl.n \in Nat /\ IsPostingsList(pl) /\ from \in Nat
  BY DEF GoodList, IsPostingsList
<1>2. Weight(pl, d, from) \in Nat /\ Weight(pl, d, 0) \in Nat
  BY <1>1, WeightType
<1>3. ASSUME NEW p \in from .. pl.n - 1, pl.ids[p] = d
      PROVE  Weight(pl, d, from) = Weight(pl, d, 0)
  <2>1. p \in 0 .. pl.n - 1 /\ from <= p /\ 0 <= p
    BY <1>1
  <2>2. Weight(pl, d, from) = pl.w[p] /\ Weight(pl, d, 0) = pl.w[p]
    BY <1>1, <1>3, <2>1, WeightAt
  <2> QED
    BY <2>2
<1>4. ASSUME \A p \in from .. pl.n - 1 : pl.ids[p] # d PROVE Weight(pl, d, from) = 0
  BY <1>4, WeightNone
<1>5. ASSUME \A p \in from .. pl.n - 1 : pl.ids[p] # d, \A p \in 0 .. from - 1 : pl.ids[p] # d
      PROVE  Weight(pl, d, 0) = 0
  <2>1. \A p \in 0 .. pl.n - 1 : pl.ids[p] # d
    BY <1>1, <1>5
  <2> QED
    BY <2>1, WeightNone
<1> QED
  BY <1>2, <1>3, <1>4, <1>5

-----------------------------------------------------------------------------
(* Scores and bounds.                                                      *)

\* The sum of the maxima of the lists in T.
BoundOf(L, T) == SumFunctionOnSet([t \in Terms |-> L[t].max], T)

\* What adds up to a score is bounded by the bounds of the lists that
\* contribute to it.
LEMMA SumBelow ==
    ASSUME NEW f, \A t \in Terms : f[t] \in Nat,
           NEW T \in SUBSET Terms, \A t \in Terms \ T : f[t] = 0,
           NEW g, \A t \in T : g[t] \in Nat /\ f[t] <= g[t]
    PROVE  SumFunctionOnSet(f, Terms) <= SumFunctionOnSet(g, T)
<1>1. IsFiniteSet(Terms) /\ IsFiniteSet(T)
  BY TermsFinite, FS_Subset
<1>2. SumFunctionOnSet(f, T) = SumFunctionOnSet(f, Terms)
  BY <1>1, SumPart
<1>3. SumFunctionOnSet(f, T) <= SumFunctionOnSet(g, T)
  BY <1>1, SumMono
<1> QED
  BY <1>2, <1>3

\* The sum of the maxima of some lists is a number,
LEMMA BoundType ==
    ASSUME NEW L \in Indexes, NEW T \in SUBSET Terms
    PROVE  BoundOf(L, T) \in Nat
<1> DEFINE m == [t \in Terms |-> L[t].max]
<1>1. IsFiniteSet(T)
  BY TermsFinite, FS_Subset
<1>2. \A t \in T : m[t] \in Nat
  BY ListsAreGood DEF GoodList
<1> HIDE DEF m
<1>3. SumFunctionOnSet(m, T) \in Nat
  BY <1>1, <1>2, SumNat
<1> QED
  BY <1>3 DEF BoundOf, m

\* and more lists have a higher one.
LEMMA BoundMono ==
    ASSUME NEW L \in Indexes, NEW T \in SUBSET Terms, NEW S \in SUBSET T
    PROVE  BoundOf(L, S) <= BoundOf(L, T)
<1> DEFINE m == [t \in Terms |-> L[t].max]
<1>1. IsFiniteSet(T)
  BY TermsFinite, FS_Subset
<1>2. \A t \in T : m[t] \in Nat
  BY ListsAreGood DEF GoodList
<1> HIDE DEF m
<1>3. SumFunctionOnSet(m, S) <= SumFunctionOnSet(m, T)
  BY <1>1, <1>2, SumPart
<1> QED
  BY <1>3 DEF BoundOf, m

\* A document scores more than nothing when some list holds it.
LEMMA ScoreType ==
    ASSUME NEW L \in Indexes, NEW d
    PROVE  /\ ScoreIn(L, d) \in Nat
           /\ ScoreIn(L, d) > 0 => \E t \in Terms : \E p \in 0 .. L[t].n - 1 : L[t].ids[p] = d
           /\ \A t \in Terms : \A p \in 0 .. L[t].n - 1 : L[t].ids[p] = d => ScoreIn(L, d) > 0
<1> DEFINE f == [t \in Terms |-> Weight(L[t], d, 0)]
<1>1. \A t \in Terms : /\ f[t] \in Nat
                       /\ f[t] # 0 => \E p \in 0 .. L[t].n - 1 : L[t].ids[p] = d
  BY ListsAreGood, WeightType
<1>2. ASSUME NEW t \in Terms, NEW p \in 0 .. L[t].n - 1, L[t].ids[p] = d PROVE f[t] > 0
  <2>1. GoodList(L[t]) /\ IsPostingsList(L[t])
    BY ListsAreGood DEF GoodList
  <2>2. Weight(L[t], d, 0) = L[t].w[p]
    BY <2>1, <1>2, WeightAt
  <2>3. L[t].w[p] \in Nat \ {0}
    BY <2>1 DEF GoodList
  <2> QED
    BY <2>2, <2>3
<1>3. ScoreIn(L, d) = SumFunctionOnSet(f, Terms)
  BY DEF ScoreIn
<1> HIDE DEF f
<1>4. IsFiniteSet(Terms)
  BY TermsFinite
<1>5. SumFunctionOnSet(f, Terms) \in Nat
  BY <1>1, <1>4, SumNat
<1>6. ASSUME \A t \in Terms : f[t] = 0 PROVE SumFunctionOnSet(f, Terms) = 0
  <2>1. {} \in SUBSET Terms /\ \A t \in Terms \ {} : f[t] = 0
    BY <1>6
  <2>2. SumFunctionOnSet(f, {}) = SumFunctionOnSet(f, Terms)
    BY <2>1, <1>1, <1>4, SumPart
  <2> QED
    BY <2>2, SumUnfolds, FS_EmptySet
<1>7. ASSUME NEW t \in Terms PROVE f[t] <= SumFunctionOnSet(f, Terms)
  <2>1. SumFunctionOnSet(f, Terms) = f[t] + SumFunctionOnSet(f, Terms \ {t})
    BY <1>1, <1>4, SumTakeOff
  <2>2. IsFiniteSet(Terms \ {t})
    BY <1>4, FS_RemoveElement
  <2>3. SumFunctionOnSet(f, Terms \ {t}) \in Nat
    BY <1>1, <2>2, SumNat
  <2> QED
    BY <1>1, <2>1, <2>3
<1>8. ASSUME NEW t \in Terms, NEW p \in 0 .. L[t].n - 1, L[t].ids[p] = d
      PROVE  SumFunctionOnSet(f, Terms) > 0
  BY <1>1, <1>2, <1>5, <1>7, <1>8
<1> QED
  BY <1>1, <1>3, <1>5, <1>6, <1>8

\* What the lists have left of a document is its score while none of them has
\* passed it, and never more.
LEMMA LeftFacts ==
    ASSUME NEW L \in Indexes, NEW c, \A t \in Terms : c[t].pos \in 0 .. L[t].n, NEW d
    PROVE  LET left == SumFunctionOnSet([t \in Terms |-> Weight(L[t], d, c[t].pos)], Terms)
           IN  /\ left \in Nat
               /\ left <= ScoreIn(L, d)
               /\ (\A t \in Terms : ~PassedIn(L[t], c[t], d)) => left = ScoreIn(L, d)
<1> DEFINE f == [t \in Terms |-> Weight(L[t], d, c[t].pos)]
           g == [t \in Terms |-> Weight(L[t], d, 0)]
<1>1. IsFiniteSet(Terms)
  BY TermsFinite
<1>2. ASSUME NEW t \in Terms
      PROVE  /\ f[t] \in Nat /\ g[t] \in Nat /\ f[t] <= g[t]
             /\ ~PassedIn(L[t], c[t], d) => f[t] = g[t]
  <2>1. GoodList(L[t]) /\ c[t].pos \in 0 .. L[t].n /\ L[t].n \in Nat
    BY ListsAreGood DEF GoodList, IsPostingsList
  <2>2. c[t].pos \in Nat
    BY <2>1
  <2>3. Weight(L[t], d, c[t].pos) \in Nat /\ Weight(L[t], d, 0) \in Nat
    BY <2>1, <2>2, WeightType
  <2> QED
    BY <2>1, <2>3, WeightLeft DEF PassedIn
<1>3. ScoreIn(L, d) = SumFunctionOnSet(g, Terms)
  BY DEF ScoreIn
<1> HIDE DEF f, g
<1>4. SumFunctionOnSet(f, Terms) \in Nat
  BY <1>1, <1>2, SumNat
<1>5. SumFunctionOnSet(f, Terms) <= SumFunctionOnSet(g, Terms)
  BY <1>1, <1>2, SumMono
<1>6. (\A t \in Terms : ~PassedIn(L[t], c[t], d))
         => SumFunctionOnSet(f, Terms) = SumFunctionOnSet(g, Terms)
  BY <1>1, <1>2, SumSame
<1> QED
  BY <1>3, <1>4, <1>5, <1>6 DEF f

-----------------------------------------------------------------------------
(* The heap.                                                               *)

\* What the search has put into the heap: true scores of documents before
\* the frontier, none below the threshold.
HeapGood(h, full, thr, sc, fr) ==
    /\ IsHeap(h) /\ Cardinality(h) <= K /\ full = IsFull(h)
    /\ thr \in Nat
    /\ \A e \in h : /\ e.doc \in Docs /\ e.doc < fr
                    /\ e.score = sc[e.doc] /\ e.score >= thr

\* What does not reach the threshold of a heap will not reach a later one.
Harder(thr, full, thr2, full2) == thr <= thr2 /\ (full => full2)

\* A score that is too low stays too low when the test gets harder,
LEMMA HarderReaches ==
    ASSUME NEW thr \in Nat, NEW thr2 \in Nat, NEW full \in BOOLEAN, NEW full2 \in BOOLEAN,
           Harder(thr, full, thr2, full2), NEW x \in Nat, ~Reaches(x, thr, full)
    PROVE  ~Reaches(x, thr2, full2)
BY DEF Harder, Reaches

\* and so does every lower score.
LEMMA ReachesMono ==
    ASSUME NEW thr \in Nat, NEW full \in BOOLEAN, NEW x \in Int, NEW y \in Int, x <= y,
           ~Reaches(y, thr, full)
    PROVE  ~Reaches(x, thr, full)
BY DEF Reaches

\* A heap all of whose scores reach the threshold raises it or keeps it.
LEMMA RaisedThreshold ==
    ASSUME NEW h, IsHeap(h), NEW thr \in Nat, \A e \in h : e.score >= thr
    PROVE  /\ ThresholdAfter(h, thr) \in Nat
           /\ thr <= ThresholdAfter(h, thr)
           /\ \A e \in h : e.score >= ThresholdAfter(h, thr)
<1>1. CASE ~IsFull(h)
  BY <1>1 DEF ThresholdAfter
<1>2. CASE IsFull(h)
  <2>1. h # {}
    BY <1>2, KAssumption, FS_EmptySet DEF IsFull
  <2>2. Top(h) \in h /\ \A y \in h : Top(h).score <= y.score
    BY <2>1, TopIsLowest
  <2>3. \A e \in h : e.score \in Nat
    BY DEF IsHeap
  <2>4. ThresholdAfter(h, thr) = Top(h).score
    BY <1>2 DEF ThresholdAfter
  <2> QED
    BY <2>2, <2>3, <2>4
<1> QED
  BY <1>1, <1>2

\* Scoring the next document keeps the heap and never lowers the bar.
LEMMA PushKeeps ==
    ASSUME NEW h, NEW full, NEW thr, NEW sc, NEW fr \in Nat, HeapGood(h, full, thr, sc, fr),
           NEW d \in Docs, fr <= d, sc[d] \in Nat
    PROVE  LET e == [doc |-> d, score |-> sc[d]]
               h2 == HeapAfter(h, thr, e)
           IN  /\ HeapGood(h2, IsFull(h2), ThresholdAfter(h2, thr), sc, d + 1)
               /\ Harder(thr, full, ThresholdAfter(h2, thr), IsFull(h2))
<1> DEFINE e == [doc |-> d, score |-> sc[d]]
           h2 == HeapAfter(h, thr, e)
<1>1. /\ IsHeap(h) /\ IsFiniteSet(h) /\ Cardinality(h) \in Nat /\ Cardinality(h) <= K
      /\ full = IsFull(h) /\ thr \in Nat /\ K \in Nat \ {0} /\ d \in Nat
      /\ \A x \in h : x.doc \in Docs /\ x.doc \in Nat /\ x.doc < fr /\ x.score = sc[x.doc]
                      /\ x.score >= thr /\ x.score \in Nat
  BY FS_CardinalityType, KAssumption, NumDocsAssumption DEF HeapGood, IsHeap, Docs
<1>2. e \in [doc : Nat, score : Nat] /\ e.doc = d /\ e.score = sc[d]
  BY <1>1
<1> HIDE DEF e
<1>3. e \notin h
  BY <1>1, <1>2
<1>4. /\ IsHeap(h2) /\ Cardinality(h2) <= K /\ (IsFull(h) => IsFull(h2))
      /\ \A x \in h2 : x \in h \/ x = e
      /\ \A x \in h2 : x.score >= thr
  <2>1. CASE ~Reaches(e.score, thr, IsFull(h))
    BY <2>1, <1>1 DEF HeapAfter
  <2>2. CASE Reaches(e.score, thr, IsFull(h)) /\ IsFull(h)
    <3>1. h # {} /\ Cardinality(h) = K
      BY <2>2, <1>1, FS_EmptySet DEF IsFull
    <3>2. Top(h) \in h
      BY <3>1, <1>1, TopIsLowest
    <3> DEFINE r == h \ {Top(h)}
    <3>3. IsFiniteSet(r) /\ Cardinality(r) = K - 1 /\ r \subseteq h
      BY <3>1, <3>2, <1>1, FS_RemoveElement
    <3>4. h2 = r \cup {e}
      BY <2>2 DEF HeapAfter
    <3> HIDE DEF r, h2
    <3>5. e \notin r
      BY <3>3, <1>3
    <3>6. IsFiniteSet(h2) /\ Cardinality(h2) = K
      BY <3>3, <3>4, <3>5, <1>1, FS_AddElement
    <3>7. e.score >= thr
      BY <2>2, <1>1, <1>2 DEF Reaches
    <3>8. IsHeap(h2)
      BY <3>3, <3>4, <3>6, <1>1, <1>2 DEF IsHeap
    <3> QED
      BY <3>3, <3>4, <3>6, <3>7, <3>8, <1>1 DEF IsFull
  <2>3. CASE Reaches(e.score, thr, IsFull(h)) /\ ~IsFull(h)
    <3>1. h2 = h \cup {e}
      BY <2>3 DEF HeapAfter
    <3> HIDE DEF h2
    <3>2. IsFiniteSet(h2) /\ Cardinality(h2) = Cardinality(h) + 1
      BY <3>1, <1>1, <1>3, FS_AddElement
    <3>3. Cardinality(h2) <= K
      BY <3>2, <2>3, <1>1 DEF IsFull
    <3>4. e.score >= thr
      BY <2>3, <1>1, <1>2 DEF Reaches
    <3>5. IsHeap(h2)
      BY <3>1, <3>2, <1>1, <1>2 DEF IsHeap
    <3> QED
      BY <3>1, <3>3, <3>4, <3>5, <2>3, <1>1
  <2> QED
    BY <2>1, <2>2, <2>3
<1> HIDE DEF h2
<1> DEFINE thr2 == ThresholdAfter(h2, thr)
<1>5. thr2 \in Nat /\ thr <= thr2 /\ \A x \in h2 : x.score >= thr2
  BY <1>1, <1>4, RaisedThreshold
<1> HIDE DEF thr2
<1>6. \A x \in h2 : x.doc \in Docs /\ x.doc < d + 1 /\ x.score = sc[x.doc]
  BY <1>1, <1>2, <1>4
<1>7. HeapGood(h2, IsFull(h2), thr2, sc, d + 1)
  BY <1>4, <1>5, <1>6 DEF HeapGood
<1>8. Harder(thr, full, thr2, IsFull(h2))
  BY <1>1, <1>4, <1>5 DEF Harder
<1> QED
  BY <1>7, <1>8 DEF h2, e, thr2

-----------------------------------------------------------------------------
(* The order of the lists.                                                 *)

\* pls are the lists of S, each once, in the order of their documents.
Arranged(pls, S, c) ==
    /\ Len(pls) \in Nat /\ pls \in [1 .. Len(pls) -> Terms]
    /\ FirstLists(pls, Len(pls)) = S
    /\ \A i, j \in 1 .. Len(pls) : i < j =>
          pls[i] # pls[j] /\ c[pls[i]].docid <= c[pls[j]].docid

\* The length of a sequence given as a function.
LEMMA LenOf ==
    ASSUME NEW n \in Nat, NEW S, NEW s \in [1 .. n -> S]
    PROVE  s \in Seq(S) /\ Len(s) = n
<1>1. s \in Seq(S)
  OBVIOUS
<1>2. DOMAIN s = 1 .. n /\ DOMAIN s = 1 .. Len(s) /\ Len(s) \in Nat
  BY <1>1
<1> QED
  BY <1>1, <1>2

\* Neighbours in order are enough.
LEMMA AdjacentSorted ==
    ASSUME NEW n \in Nat, NEW f, \A j \in 1 .. n : f[j] \in Int,
           \A j \in 2 .. n : f[j - 1] <= f[j],
           NEW i \in 1 .. n, NEW j \in 1 .. n, i < j
    PROVE  f[i] <= f[j]
<1> DEFINE bad == {k \in 1 .. n : i < k /\ ~(f[i] <= f[k])}
<1>1. SUFFICES ASSUME bad # {} PROVE FALSE
  OBVIOUS
<1>2. bad \in SUBSET Nat
  OBVIOUS
<1>3. PICK k \in bad : \A m \in bad : k <= m
  BY <1>1, <1>2, LeastExists
<1>4. k \in 2 .. n /\ i < k /\ ~(f[i] <= f[k]) /\ f[k - 1] <= f[k]
  BY <1>3
<1>5. k - 1 = i \/ (k - 1 \in 1 .. n /\ i < k - 1 /\ k - 1 \notin bad)
  BY <1>3, <1>4
<1>6. f[i] <= f[k - 1] /\ k - 1 \in 1 .. n
  BY <1>4, <1>5
<1>7. f[i] \in Int /\ f[k - 1] \in Int /\ f[k] \in Int
  BY <1>4, <1>6
<1> QED
  BY <1>4, <1>6, <1>7

\* What sort_list_by_id leaves.
LEMMA SortedArranged ==
    ASSUME NEW S \in SUBSET Terms, NEW c, \A t \in S : c[t].docid \in Int,
           NEW pls \in SortedOrders(S, c)
    PROVE  Arranged(pls, S, c)
<1> DEFINE n == Cardinality(S)
<1>1. IsFiniteSet(S) /\ n \in Nat
  BY TermsFinite, FS_Subset, FS_CardinalityType
<1>2. /\ pls \in [1 .. n -> S]
      /\ \A j \in 2 .. n : /\ c[pls[j - 1]].docid <= c[pls[j]].docid
                           /\ \A i \in 1 .. j - 1 : pls[i] # pls[j]
  BY DEF SortedOrders
<1> HIDE DEF n
<1>3. Len(pls) = n
  BY <1>1, <1>2, LenOf
<1>4. \A i, j \in 1 .. n : i < j => pls[i] # pls[j]
  <2> SUFFICES ASSUME NEW i \in 1 .. n, NEW j \in 1 .. n, i < j PROVE pls[i] # pls[j]
    OBVIOUS
  <2>1. j \in 2 .. n /\ i \in 1 .. j - 1
    BY <1>1
  <2> QED
    BY <2>1, <1>2
<1>5. ASSUME NEW i \in 1 .. n, NEW j \in 1 .. n, i < j
      PROVE  c[pls[i]].docid <= c[pls[j]].docid
  <2> DEFINE f == [k \in 1 .. n |-> c[pls[k]].docid]
  <2>1. \A k \in 1 .. n : f[k] \in Int /\ f[k] = c[pls[k]].docid
    BY <1>2
  <2>2. \A k \in 2 .. n : f[k - 1] <= f[k]
    <3> SUFFICES ASSUME NEW k \in 2 .. n PROVE f[k - 1] <= f[k]
      OBVIOUS
    <3>1. k \in 1 .. n /\ k - 1 \in 1 .. n
      BY <1>1
    <3> QED
      BY <3>1, <2>1, <1>2
  <2> HIDE DEF f
  <2>3. f[i] <= f[j]
    BY <1>1, <1>5, <2>1, <2>2, AdjacentSorted
  <2> QED
    BY <2>1, <2>3
<1>6. FirstLists(pls, n) = S
  <2>1. pls \in Injection(1 .. n, S)
    <3>1. \A i, j \in 1 .. n : pls[i] = pls[j] => i = j
      <4> SUFFICES ASSUME NEW i \in 1 .. n, NEW j \in 1 .. n, i # j PROVE pls[i] # pls[j]
        OBVIOUS
      <4>1. i < j \/ j < i
        BY <1>1
      <4> QED
        BY <4>1, <1>4
    <3> QED
      BY <3>1, <1>2 DEF Injection, IsInjective
  <2>2. Cardinality(1 .. n) = n
    BY <1>1, FS_Interval
  <2>3. pls \in Surjection(1 .. n, S)
    BY <2>1, <2>2, <1>1, FS_Injection DEF n
  <2> QED
    BY <2>3, <1>2 DEF Surjection, FirstLists
<1> QED
  BY <1>1, <1>2, <1>3, <1>4, <1>5, <1>6 DEF Arranged

\* The list at i has moved on; bubbling it down restores the order.
LEMMA BubbledArranged ==
    ASSUME Len(plists) \in Nat, plists \in [1 .. Len(plists) -> Terms],
           NEW S, FirstLists(plists, Len(plists)) = S,
           \A j, k \in 1 .. Len(plists) : j < k => plists[j] # plists[k],
           NEW c, \A k \in 1 .. Len(plists) : c[plists[k]].docid \in Int,
           NEW i \in 1 .. Len(plists),
           \A j, k \in 1 .. Len(plists) :
              j < k /\ j # i => c[plists[j]].docid <= c[plists[k]].docid
    PROVE  Arranged(BubbleDown(i, c), S, c)
<1> DEFINE n == Len(plists)
           id(k) == c[plists[k]].docid
           J == {k \in i .. n : k = n \/ id(i) <= id(k + 1)}
           j == Least(J)
           new == BubbleDown(i, c)
           from(k) == IF k < i \/ k > j THEN k ELSE IF k = j THEN i ELSE k + 1
<1>1. n \in Nat /\ i \in 1 .. n /\ plists \in [1 .. n -> Terms]
      /\ (\A a, b \in 1 .. n : a < b => plists[a] # plists[b])
      /\ (\A a \in 1 .. n : id(a) \in Int)
      /\ (\A a, b \in 1 .. n : a < b /\ a # i => id(a) <= id(b))
  OBVIOUS
<1>2. new = [k \in 1 .. n |-> IF k < i \/ k > j THEN plists[k]
                              ELSE IF k = j THEN plists[i] ELSE plists[k + 1]]
  BY DEF BubbleDown
<1> HIDE DEF new, n
<1>3. J \in SUBSET Nat /\ n \in J
  BY <1>1
<1>4. j \in J /\ \A k \in J : j <= k
  BY <1>3, LeastInSet
<1>5. j \in i .. n /\ (j = n \/ id(i) <= id(j + 1))
  BY <1>4
<1>6. \A k \in i .. j - 1 : id(k + 1) < id(i)
  <2> SUFFICES ASSUME NEW k \in i .. j - 1 PROVE id(k + 1) < id(i)
    OBVIOUS
  <2> HIDE DEF J, j
  <2>3. k \in Int /\ i <= k /\ k < j /\ j <= n /\ j \in Int
    BY <1>1, <1>5
  <2>4. k \notin J
    BY <2>3, <1>4
  <2>1. k \in i .. n /\ k # n /\ k + 1 \in 1 .. n /\ k \notin J
    BY <2>3, <2>4, <1>1
  <2>2. ~(id(i) <= id(k + 1))
    BY <2>1 DEF J
  <2> QED
    BY <2>1, <2>2, <1>1
<1> HIDE DEF j, J
<1>7. \A k \in 1 .. n : from(k) \in 1 .. n /\ new[k] = plists[from(k)]
  BY <1>1, <1>2, <1>5
<1>8. \A a, b \in 1 .. n : a < b => from(a) # from(b)
  BY <1>1, <1>5
<1>9. ASSUME NEW a \in 1 .. n, NEW b \in 1 .. n, a < b PROVE id(from(a)) <= id(from(b))
  <2>1. CASE b = j
    <3>1. from(b) = i
      BY <2>1, <1>5, <1>1
    <3>2. CASE a < i
      BY <3>1, <3>2, <1>1
    <3>3. CASE a >= i
      <4>1. from(a) = a + 1 /\ a \in i .. j - 1 /\ a + 1 \in 1 .. n
        BY <3>3, <2>1, <1>9, <1>5, <1>1
      <4>2. id(a + 1) < id(i)
        BY <4>1, <1>6
      <4> QED
        BY <4>1, <4>2, <3>1, <1>1
    <3> QED
      BY <3>2, <3>3, <1>1
  <2>2. CASE a = j
    <3>1. from(a) = i /\ from(b) = b /\ j + 1 \in 1 .. n /\ j # n /\ j + 1 # i
      BY <2>2, <1>9, <1>5, <1>1
    <3>2. id(i) <= id(j + 1)
      BY <3>1, <1>5
    <3>3. j + 1 = b \/ j + 1 < b
      BY <2>2, <1>9, <1>5, <1>1
    <3>4. id(j + 1) <= id(b)
      BY <3>1, <3>3, <1>1
    <3> QED
      BY <3>1, <3>2, <3>4, <1>1
  <2>3. CASE a # j /\ b # j
    <3>1. from(a) < from(b) /\ from(a) # i /\ from(a) \in 1 .. n /\ from(b) \in 1 .. n
      BY <2>3, <1>9, <1>5, <1>1
    <3> QED
      BY <3>1, <1>1
  <2> QED
    BY <2>1, <2>2, <2>3
<1>10. new \in [1 .. n -> Terms]
  BY <1>1, <1>2, <1>5
<1>11. Len(new) = n
  BY <1>1, <1>10, LenOf
<1>12. \A a \in 1 .. n : \E k \in 1 .. n : from(k) = a
  <2> SUFFICES ASSUME NEW a \in 1 .. n PROVE \E k \in 1 .. n : from(k) = a
    OBVIOUS
  <2>1. CASE a < i \/ a > j
    BY <2>1, <1>1, <1>5
  <2>2. CASE a = i
    <3>1. from(j) = i /\ j \in 1 .. n
      BY <1>1, <1>5
    <3> QED
      BY <3>1, <2>2
  <2>3. CASE a > i /\ a <= j
    <3>1. a - 1 \in 1 .. n /\ from(a - 1) = a
      BY <2>3, <1>1, <1>5
    <3> QED
      BY <3>1
  <2> QED
    BY <2>1, <2>2, <2>3, <1>1, <1>5
<1> HIDE DEF from
<1>13. FirstLists(new, n) = S
  <2>1. FirstLists(new, n) = {plists[from(k)] : k \in 1 .. n}
    BY <1>7 DEF FirstLists
  <2>2. {plists[from(k)] : k \in 1 .. n} = {plists[k] : k \in 1 .. n}
    <3>1. \A k \in 1 .. n : plists[from(k)] \in {plists[a] : a \in 1 .. n}
      BY <1>7
    <3>2. ASSUME NEW a \in 1 .. n PROVE plists[a] \in {plists[from(k)] : k \in 1 .. n}
      <4>1. PICK k \in 1 .. n : from(k) = a
        BY <1>12
      <4> QED
        BY <4>1
    <3> QED
      BY <3>1, <3>2
  <2> QED
    BY <2>1, <2>2 DEF FirstLists, n
<1>14. \A a, b \in 1 .. n : a < b => new[a] # new[b] /\ c[new[a]].docid <= c[new[b]].docid
  <2> SUFFICES ASSUME NEW a \in 1 .. n, NEW b \in 1 .. n, a < b
               PROVE  new[a] # new[b] /\ c[new[a]].docid <= c[new[b]].docid
    OBVIOUS
  <2>1. from(a) # from(b) /\ from(a) \in 1 .. n /\ from(b) \in 1 .. n
    BY <1>7, <1>8
  <2>2. plists[from(a)] # plists[from(b)]
    <3>1. from(a) < from(b) \/ from(b) < from(a)
      BY <2>1, <1>1
    <3> QED
      BY <3>1, <2>1, <1>1
  <2> QED
    BY <2>2, <1>7, <1>9
<1> QED
  BY <1>1, <1>10, <1>11, <1>13, <1>14 DEF Arranged, new

-----------------------------------------------------------------------------
(* The pivot.                                                              *)

\* The largest of some numbers is one of them.
LEMMA MaxInSet ==
    ASSUME NEW n \in Nat, NEW S \in SUBSET (0 .. n), S # {}
    PROVE  Max(S) \in S /\ \A y \in S : y <= Max(S)
<1> DEFINE D == {n - x : x \in S}
<1>0. \A x \in S : x \in Int /\ n - x \in Nat
  OBVIOUS
<1>1. D \in SUBSET Nat /\ D # {}
  BY <1>0
<1>2. PICK d \in D : \A e \in D : d <= e
  BY <1>1, LeastExists
<1>3. PICK x \in S : d = n - x
  BY <1>2
<1>4. \A y \in S : x >= y
  <2> SUFFICES ASSUME NEW y \in S PROVE x >= y
    OBVIOUS
  <2>1. n - x <= n - y
    BY <1>2, <1>3
  <2>2. x \in Int /\ y \in Int
    BY <1>0
  <2> QED
    BY <2>1, <2>2
<1>5. Max(S) \in S /\ \A y \in S : Max(S) >= y
  BY <1>4 DEF Max
<1>6. Max(S) \in Int
  BY <1>0, <1>5
<1> QED
  BY <1>5, <1>6

\* The pivot is the last of the lists at its document, and no shorter
\* prefix of the lists than one that ends there can reach the threshold.
Chosen(L, pls, c, thr, full, pv) ==
    \/ /\ pv = 0
       /\ \A i \in 1 .. Len(pls) : ~Reaches(BoundOf(L, FirstLists(pls, i)), thr, full)
    \/ /\ pv \in 1 .. Len(pls)
       /\ pv < Len(pls) => c[pls[pv + 1]].docid # c[pls[pv]].docid
       /\ \E first \in 1 .. pv :
             /\ Reaches(BoundOf(L, FirstLists(pls, first)), thr, full)
             /\ \A i \in 1 .. first - 1 : ~Reaches(BoundOf(L, FirstLists(pls, i)), thr, full)
             /\ \A k \in first .. pv : c[pls[k]].docid = c[pls[pv]].docid

\* determine_candidate finds the pivot: the first list that can matter, and behind it the
\* lists at the same document.
LEMMA PivotIsChosen ==
    ASSUME F = 1, NEW pls, NEW S, NEW c, Arranged(pls, S, c), NEW thr \in Nat, NEW full
    PROVE  Chosen(lists, pls, c, thr, full, DetermineCandidate(pls, c, thr, full))
<1> DEFINE n == Len(pls)
           E == {i \in 1 .. n : Reaches(UpperBound(pls, i), thr * F, full)}
           first == Least(E)
           J == {j \in first .. n :
                   \A k \in first .. j : c[pls[k]].docid = c[pls[first]].docid}
           pv == DetermineCandidate(pls, c, thr, full)
<1>1. n \in Nat /\ thr * F = thr
  BY DEF Arranged
<1>2. \A i : UpperBound(pls, i) = BoundOf(lists, FirstLists(pls, i))
  BY DEF UpperBound, BoundOf
<1>3. E = {i \in 1 .. n : Reaches(BoundOf(lists, FirstLists(pls, i)), thr, full)}
  BY <1>1, <1>2
<1>4. pv = IF E = {} THEN 0 ELSE Max(J)
  BY DEF DetermineCandidate
<1> HIDE DEF n, E, pv
<1>5. CASE E = {}
  BY <1>3, <1>4, <1>5 DEF Chosen, n, pv
<1>6. CASE E # {}
  <2>1. first \in E /\ \A i \in E : first <= i
    <3>1. E \in SUBSET Nat
      BY <1>1, <1>3
    <3> QED
      BY <3>1, <1>6, LeastInSet
  <2> HIDE DEF first
  <2>2. first \in 1 .. n /\ first \in J
    BY <2>1, <1>1, <1>3
  <2>3. J \in SUBSET (0 .. n)
    BY <2>2, <1>1
  <2>4. pv \in J /\ \A j \in J : j <= pv
    BY <2>2, <2>3, <1>1, <1>4, <1>6, MaxInSet
  <2>5. pv \in first .. n /\ \A k \in first .. pv : c[pls[k]].docid = c[pls[first]].docid
    BY <2>4
  <2>6. c[pls[pv]].docid = c[pls[first]].docid
    BY <2>2, <2>5
  <2>7. ASSUME pv < n PROVE c[pls[pv + 1]].docid # c[pls[pv]].docid
    <3>1. SUFFICES ASSUME c[pls[pv + 1]].docid = c[pls[first]].docid PROVE FALSE
      BY <2>6
    <3>2. pv + 1 \in first .. n /\ pv + 1 \notin J
      BY <2>2, <2>4, <2>5, <2>7, <1>1
    <3>3. \A k \in first .. pv + 1 : k \in first .. pv \/ k = pv + 1
      BY <2>2, <2>5, <1>1
    <3>4. \A k \in first .. pv + 1 : c[pls[k]].docid = c[pls[first]].docid
      BY <3>1, <3>3, <2>5
    <3> QED
      BY <3>2, <3>4
  <2>8. \A i \in 1 .. first - 1 : ~Reaches(BoundOf(lists, FirstLists(pls, i)), thr, full)
    <3> SUFFICES ASSUME NEW i \in 1 .. first - 1
                 PROVE  ~Reaches(BoundOf(lists, FirstLists(pls, i)), thr, full)
      OBVIOUS
    <3>1. i \in 1 .. n /\ i \notin E
      BY <2>1, <2>2, <1>1
    <3> QED
      BY <3>1, <1>3
  <2>9. Reaches(BoundOf(lists, FirstLists(pls, first)), thr, full)
    BY <2>1, <1>3
  <2>10. pv \in 1 .. n /\ first \in 1 .. pv
    BY <2>2, <2>5, <1>1
  <2>11. \A k \in first .. pv : c[pls[k]].docid = c[pls[pv]].docid
    BY <2>5, <2>6
  <2>12. Chosen(lists, pls, c, thr, full, pv)
    BY <2>7, <2>8, <2>9, <2>10, <2>11 DEF Chosen, n
  <2> QED
    BY <2>12 DEF pv
<1> QED
  BY <1>5, <1>6

-----------------------------------------------------------------------------
(* The iterators.                                                          *)

\* The caches of the iterator are filled for its position.
Loaded(pl, it) ==
    /\ it.accPos = it.pos /\ it.docid = pl.ids[it.pos] /\ it.accBlk = BlockOf(it.pos)
    /\ it.blk \in BlockOf(it.pos) .. NumBlocks(pl)

CursorGood(pl, it) ==
    /\ it \in Iterators /\ it.pos \in 0 .. pl.n
    /\ it.pos < pl.n => Loaded(pl, it)

\* docid() fills the caches.
LEMMA DerefLoads ==
    ASSUME NEW pl, IsPostingsList(pl), NEW it \in Iterators, it.pos \in 0 .. pl.n - 1,
           it.pos = it.accPos => Loaded(pl, it)
    PROVE  LET k == Deref(pl, it)
           IN  /\ k \in Iterators /\ k.pos = it.pos /\ Loaded(pl, k)
               /\ it.pos = it.accPos => k = it
               /\ it.pos # it.accPos => k.blk = BlockOf(k.pos)
<1> DEFINE k == Deref(pl, it)  b == BlockOf(it.pos)  d == pl.ids[it.pos]  p == it.pos
<1>1. b \in 0 .. NumBlocks(pl) - 1 /\ NumBlocks(pl) \in Nat /\ d \in Nat /\ p \in Nat
  BY PositionInBlock DEF IsPostingsList
<1>2. CASE it.pos = it.accPos
  BY <1>2 DEF Deref
<1>3. CASE it.pos # it.accPos
  <2>1. k = [it EXCEPT !.blk = b, !.accBlk = b, !.accPos = p, !.docid = d]
    BY <1>3 DEF Deref
  <2> HIDE DEF k, b, d, p
  <2>2. /\ k \in Iterators /\ k.pos = it.pos /\ k.accPos = p /\ k.blk = b /\ k.accBlk = b
        /\ k.docid = d
    <3>1. b \in Nat /\ d \in Nat /\ p \in Nat
      BY <1>1
    <3> QED
      BY <2>1, <3>1 DEF Iterators
  <2> QED
    BY <1>1, <1>3, <2>2 DEF Loaded, b, d, k, p
<1> QED
  BY <1>2, <1>3

\* A loaded iterator whose document is not before id stands in the block its
\* pointer is at.
LEMMA BlockExact ==
    ASSUME NEW pl, IsPostingsList(pl), NEW it, NEW id \in Nat, SearchReady(pl, it, id),
           pl.ids[it.pos] >= id
    PROVE  it.blk = BlockOf(it.pos)
<1> DEFINE b == BlockOf(it.pos)
<1>1. it.pos \in 0 .. pl.n - 1 /\ it.blk \in b .. NumBlocks(pl)
      /\ (it.blk > b => BlockRep(pl, it.blk - 1) < id)
  BY DEF SearchReady
<1>2. b \in 0 .. NumBlocks(pl) - 1 /\ NumBlocks(pl) \in Nat /\ it.pos \in BlockPositions(pl, b)
  BY <1>1, PositionInBlock
<1>3. pl.ids[it.pos] <= BlockRep(pl, b) /\ BlockRep(pl, b) \in Nat /\ pl.ids[it.pos] \in Nat
  BY <1>2, BlockMembers
<1> HIDE DEF b
<1>4. SUFFICES ASSUME it.blk > b PROVE FALSE
  BY <1>1, <1>2 DEF b
<1>5. it.blk - 1 \in 0 .. NumBlocks(pl) - 1 /\ b <= it.blk - 1
  BY <1>1, <1>2, <1>4
<1>6. BlockRep(pl, it.blk - 1) \in Nat
  BY <1>5, BlockMembers
<1>7. b = it.blk - 1 \/ BlockRep(pl, b) < BlockRep(pl, it.blk - 1)
  BY <1>2, <1>5, RepsAscend
<1> QED
  BY <1>1, <1>3, <1>4, <1>6, <1>7

\* What is ready for a search stays ready for a later one.
LEMMA ReadyLater ==
    ASSUME NEW pl, IsPostingsList(pl), NEW it, NEW id \in Nat, NEW id2 \in Nat, id <= id2,
           SearchReady(pl, it, id)
    PROVE  SearchReady(pl, it, id2)
<1> DEFINE b == BlockOf(it.pos)
<1>1. it.pos \in 0 .. pl.n - 1 /\ it.blk \in b .. NumBlocks(pl)
      /\ (it.blk > b => BlockRep(pl, it.blk - 1) < id)
  BY DEF SearchReady
<1>2. b \in 0 .. NumBlocks(pl) - 1 /\ NumBlocks(pl) \in Nat
  BY <1>1, PositionInBlock
<1>3. it.blk > b => BlockRep(pl, it.blk - 1) < id2
  <2>1. SUFFICES ASSUME it.blk > b PROVE BlockRep(pl, it.blk - 1) < id2
    OBVIOUS
  <2>2. it.blk - 1 \in 0 .. NumBlocks(pl) - 1
    BY <2>1, <1>1, <1>2
  <2>3. BlockRep(pl, it.blk - 1) \in Nat
    BY <2>2, BlockMembers
  <2> QED
    BY <2>1, <2>3, <1>1
<1> QED
  BY <1>3 DEF SearchReady

\* A shallow move moves the block pointer only, and not too far.
LEMMA ShallowReady ==
    ASSUME NEW pl, IsPostingsList(pl), NEW it, NEW id \in Nat, SearchReady(pl, it, id)
    PROVE  LET k == ShallowMove(pl, it, id)
           IN  /\ SearchReady(pl, k, id)
               /\ k.pos = it.pos /\ k.docid = it.docid
<1> DEFINE k == ShallowMove(pl, it, id)  f == FindBlock(pl, id, it.blk)  b == BlockOf(it.pos)
<1>1. /\ it \in Iterators /\ it.pos \in 0 .. pl.n - 1 /\ it.blk \in b .. NumBlocks(pl)
      /\ it.blk > b => BlockRep(pl, it.blk - 1) < id
      /\ it.accPos = it.pos /\ it.docid = pl.ids[it.pos] /\ it.accBlk = b
  BY DEF SearchReady
<1>2. b \in 0 .. NumBlocks(pl) - 1 /\ NumBlocks(pl) \in Nat /\ it.blk \in Nat
  BY <1>1, PositionInBlock
<1>3. /\ f \in Nat /\ it.blk <= f /\ f <= NumBlocks(pl)
      /\ \A a \in it.blk .. f - 1 : BlockRep(pl, a) < id
  <2>1. it.blk <= NumBlocks(pl)
    BY <1>1, <1>2
  <2> QED
    BY <2>1, <1>2, FindBlockFinds
<1>4. k = [it EXCEPT !.blk = f]
  BY DEF ShallowMove
<1> HIDE DEF k, f, b
<1>5. /\ k \in Iterators /\ k.pos = it.pos /\ k.docid = it.docid /\ k.blk = f
      /\ k.accPos = it.accPos /\ k.accBlk = it.accBlk
  BY <1>1, <1>3, <1>4 DEF Iterators
<1>6. f > b => BlockRep(pl, f - 1) < id
  <2>1. SUFFICES ASSUME f > b PROVE BlockRep(pl, f - 1) < id
    OBVIOUS
  <2>2. f = it.blk \/ f - 1 \in it.blk .. f - 1
    BY <1>2, <1>3
  <2> QED
    BY <2>1, <2>2, <1>1, <1>3
<1>7. SearchReady(pl, k, id)
  BY <1>1, <1>2, <1>3, <1>5, <1>6 DEF SearchReady, b
<1> QED
  BY <1>5, <1>7 DEF k

\* The lists that are not at their end.
Unfinished(L, c) == {t \in Terms : c[t].pos < L[t].n}

\* sort_list_by_id reads the document of every list that is left, puts them in
\* order and chooses a pivot.
LEMMA SortSettles ==
    ASSUME F = 1, lists \in Indexes, NEW c, NEW thr \in Nat, NEW full,
           \A t \in Terms : /\ c[t] \in Iterators /\ c[t].pos \in 0 .. lists[t].n
                            /\ c[t].pos < lists[t].n /\ c[t].pos = c[t].accPos
                                  => Loaded(lists[t], c[t]),
           {plists[i] : i \in DOMAIN plists} \subseteq Terms,
           Unfinished(lists, c) \subseteq {plists[i] : i \in DOMAIN plists},
           SortListById(c, thr, full)
    PROVE  /\ cur' \in [Terms -> Iterators]
           /\ \A t \in Terms :
                 /\ CursorGood(lists[t], cur'[t])
                 /\ cur'[t].pos = c[t].pos
                 /\ c[t].pos = lists[t].n \/ c[t].pos = c[t].accPos => cur'[t] = c[t]
                 /\ c[t].pos < lists[t].n /\ c[t].pos # c[t].accPos
                       => cur'[t].blk = BlockOf(c[t].pos)
           /\ Arranged(plists', Unfinished(lists, cur'), cur')
           /\ Chosen(lists, plists', cur', thr, full, pivot')
           /\ turn' = 1 - turn
<1> DEFINE S == {plists[i] : i \in DOMAIN plists}
           U == {t \in S : ~AtEnd(lists[t], c[t])}
           c2 == [t \in Terms |-> IF t \in U THEN Deref(lists[t], c[t]) ELSE c[t]]
<1>1. PICK pls \in SortedOrders(U, c2) : Settle(pls, c2, thr, full)
  BY DEF SortListById
<1>2. /\ turn' = 1 - turn /\ plists' = pls /\ cur' = c2
      /\ pivot' = DetermineCandidate(pls, c2, thr, full)
  BY <1>1 DEF Settle
<1>3. \A t \in Terms : IsPostingsList(lists[t]) /\ lists[t].n \in Nat
  BY ListsAreGood DEF GoodList, IsPostingsList
<1>4. U = Unfinished(lists, c)
  <2>1. \A t \in Terms : AtEnd(lists[t], c[t]) <=> ~(c[t].pos < lists[t].n)
    BY <1>3 DEF AtEnd
  <2> QED
    BY <2>1 DEF Unfinished
<1> HIDE DEF S, U
<1>5. ASSUME NEW t \in Terms
      PROVE  /\ CursorGood(lists[t], c2[t])
             /\ c2[t].pos = c[t].pos
             /\ c[t].pos = lists[t].n \/ c[t].pos = c[t].accPos => c2[t] = c[t]
             /\ c[t].pos < lists[t].n /\ c[t].pos # c[t].accPos
                   => c2[t].blk = BlockOf(c[t].pos)
  <2>1. CASE t \in U
    <3>1. c2[t] = Deref(lists[t], c[t])
      BY <2>1
    <3>2. c[t].pos \in 0 .. lists[t].n - 1 /\ c[t] \in Iterators /\ IsPostingsList(lists[t])
          /\ (c[t].pos = c[t].accPos => Loaded(lists[t], c[t])) /\ lists[t].n \in Nat
      BY <2>1, <1>3, <1>4 DEF Unfinished
    <3> HIDE DEF c2
    <3>3. /\ c2[t] \in Iterators /\ c2[t].pos = c[t].pos /\ Loaded(lists[t], c2[t])
          /\ c[t].pos = c[t].accPos => c2[t] = c[t]
          /\ c[t].pos # c[t].accPos => c2[t].blk = BlockOf(c[t].pos)
      BY <3>1, <3>2, DerefLoads
    <3>4. c2[t].pos \in 0 .. lists[t].n /\ c[t].pos # lists[t].n
      BY <3>2, <3>3
    <3> QED
      BY <3>3, <3>4 DEF CursorGood
  <2>2. CASE t \notin U
    <3>1. c2[t] = c[t] /\ ~(c[t].pos < lists[t].n)
      BY <2>2, <1>4 DEF Unfinished
    <3> QED
      BY <3>1 DEF CursorGood
  <2> QED
    BY <2>1, <2>2
<1>6. Unfinished(lists, c2) = U
  BY <1>4, <1>5 DEF Unfinished
<1>7. U \in SUBSET Terms
  BY <1>4 DEF Unfinished
<1>8. c2 \in [Terms -> Iterators] /\ \A t \in U : c2[t].docid \in Int
  BY <1>5, <1>7 DEF CursorGood, Iterators
<1> HIDE DEF c2
<1>9. Arranged(pls, U, c2)
  BY <1>1, <1>7, <1>8, SortedArranged
<1>10. Chosen(lists, pls, c2, thr, full, pivot')
  BY <1>2, <1>9, PivotIsChosen
<1> QED
  BY <1>2, <1>5, <1>6, <1>8, <1>9, <1>10

-----------------------------------------------------------------------------
(* The inductive invariant.                                                *)

\* A document some list has passed is settled, or could not enter the heap.
NoLoss(L, c, sc, fr, thr, full) ==
    \A d \in Docs : (d >= fr /\ \E t \in Terms : PassedIn(L[t], c[t], d))
                      => ~Reaches(sc[d], thr, full)

\* Between two turns: the iterators, the order of the lists, the pivot, the
\* block pointers, what was passed over, and the heap.
LoopInv(L, sc, fr, pls, c, h, full, thr, pv) ==
    /\ c \in [Terms -> Iterators]
    /\ \A t \in Terms : CursorGood(L[t], c[t])
    /\ \A t \in Unfinished(L, c) : c[t].docid >= fr
    /\ Arranged(pls, Unfinished(L, c), c)
    /\ Chosen(L, pls, c, thr, full, pv)
    /\ pv # 0 => \A t \in Unfinished(L, c) : SearchReady(L[t], c[t], c[pls[pv]].docid)
    /\ NoLoss(L, c, sc, fr, thr, full)
    /\ HeapGood(h, full, thr, sc, fr)

InLoop == LoopInv(lists, score, frontier, plists, cur, heap, heapFull, threshold, pivot)

AtStart ==
    /\ cur = [t \in Terms |-> Begin] /\ plists = Query
    /\ heap = {} /\ heapFull = FALSE /\ threshold = 0 /\ frontier = 0

IInv ==
    /\ lists \in Indexes
    /\ score = [d \in Docs |-> ScoreIn(lists, d)]
    /\ frontier \in 0 .. NumDocs
    /\ turn \in {0, 1}
    /\ pc \in {"start", "loop", "done"}
    /\ pc = "start" => AtStart
    /\ pc = "loop" => InLoop
    /\ pc = "done" => TypeOK /\ heap = {}

-----------------------------------------------------------------------------
(* What the invariant says of the lists.                                   *)

\* The iterator of an unfinished list is read as it stands.
LEMMA Reading ==
    ASSUME lists \in Indexes, InLoop, NEW t \in Unfinished(lists, cur)
    PROVE  /\ t \in Terms /\ GoodList(lists[t]) /\ IsPostingsList(lists[t])
           /\ lists[t].n \in Nat /\ cur[t].pos \in 0 .. lists[t].n - 1
           /\ cur[t] \in Iterators /\ Loaded(lists[t], cur[t])
           /\ DocId(t) = cur[t].docid
           /\ cur[t].docid = lists[t].ids[cur[t].pos]
           /\ cur[t].docid \in Docs /\ cur[t].docid \in Nat /\ cur[t].docid >= frontier
<1>1. t \in Terms /\ cur[t].pos < lists[t].n
  BY DEF Unfinished
<1>2. GoodList(lists[t]) /\ IsPostingsList(lists[t]) /\ lists[t].n \in Nat
  BY <1>1, ListsAreGood DEF GoodList, IsPostingsList
<1>3. CursorGood(lists[t], cur[t]) /\ cur[t].docid >= frontier
  BY <1>1 DEF InLoop, LoopInv
<1>4. cur[t] \in Iterators /\ cur[t].pos \in 0 .. lists[t].n - 1 /\ Loaded(lists[t], cur[t])
  BY <1>1, <1>2, <1>3 DEF CursorGood
<1>5. cur[t].accPos = cur[t].pos /\ cur[t].docid = lists[t].ids[cur[t].pos]
  BY <1>4 DEF Loaded
<1>6. DocId(t) = cur[t].docid
  BY <1>5 DEF DocId, Deref
<1>7. cur[t].docid \in Docs /\ cur[t].docid \in Nat
  BY <1>2, <1>4, <1>5, NumDocsAssumption DEF GoodList, Docs
<1> QED
  BY <1>1, <1>2, <1>3, <1>4, <1>5, <1>6, <1>7

\* The list at a place of the order.
LEMMA Placed ==
    ASSUME lists \in Indexes, InLoop
    PROVE  /\ Len(plists) \in Nat /\ plists \in [1 .. Len(plists) -> Terms]
           /\ DOMAIN plists = 1 .. Len(plists)
           /\ {plists[i] : i \in DOMAIN plists} = Unfinished(lists, cur)
           /\ \A i \in 1 .. Len(plists) : plists[i] \in Unfinished(lists, cur)
           /\ \A i, j \in 1 .. Len(plists) : i < j =>
                 plists[i] # plists[j] /\ cur[plists[i]].docid <= cur[plists[j]].docid
           /\ pivot \in 0 .. Len(plists)
           /\ pivot # 0 => /\ pivot \in 1 .. Len(plists)
                           /\ plists[pivot] \in Unfinished(lists, cur)
                           /\ PivotDoc = cur[plists[pivot]].docid /\ PivotDoc \in Nat
                           /\ PivotDoc \in Docs
<1>1. Arranged(plists, Unfinished(lists, cur), cur)
      /\ Chosen(lists, plists, cur, threshold, heapFull, pivot)
  BY DEF InLoop, LoopInv
<1>2. /\ Len(plists) \in Nat /\ plists \in [1 .. Len(plists) -> Terms]
      /\ FirstLists(plists, Len(plists)) = Unfinished(lists, cur)
      /\ \A i, j \in 1 .. Len(plists) : i < j =>
            plists[i] # plists[j] /\ cur[plists[i]].docid <= cur[plists[j]].docid
  BY <1>1 DEF Arranged
<1>3. DOMAIN plists = 1 .. Len(plists)
  BY <1>2
<1>4. {plists[i] : i \in DOMAIN plists} = Unfinished(lists, cur)
  BY <1>2, <1>3 DEF FirstLists
<1>5. \A i \in 1 .. Len(plists) : plists[i] \in Unfinished(lists, cur)
  BY <1>3, <1>4
<1>6. pivot \in 0 .. Len(plists) /\ (pivot # 0 => pivot \in 1 .. Len(plists))
  BY <1>1, <1>2 DEF Chosen
<1>7. ASSUME pivot # 0
      PROVE  PivotDoc = cur[plists[pivot]].docid /\ PivotDoc \in Nat /\ PivotDoc \in Docs
  <2>1. plists[pivot] \in Unfinished(lists, cur)
    BY <1>5, <1>6, <1>7
  <2> QED
    BY <2>1, Reading DEF PivotDoc
<1> QED
  BY <1>2, <1>3, <1>4, <1>5, <1>6, <1>7

\* A list that holds a document it has not passed is at it or before it.
LEMMA HeldAhead ==
    ASSUME lists \in Indexes, InLoop, NEW t \in Terms, NEW d,
           NEW p \in 0 .. lists[t].n - 1, lists[t].ids[p] = d, ~PassedIn(lists[t], cur[t], d)
    PROVE  /\ t \in Unfinished(lists, cur) /\ cur[t].pos <= p
           /\ cur[t].docid <= d
           /\ cur[t].docid = d => cur[t].pos = p
<1>1. CursorGood(lists[t], cur[t]) /\ IsPostingsList(lists[t])
  BY ListsAreGood DEF InLoop, LoopInv, GoodList
<1>2. cur[t].pos \in 0 .. lists[t].n /\ lists[t].n \in Nat
  BY <1>1 DEF CursorGood, IsPostingsList
<1>3. cur[t].pos <= p
  BY <1>2 DEF PassedIn
<1>4. t \in Unfinished(lists, cur)
  BY <1>2, <1>3 DEF Unfinished
<1>5. cur[t].docid = lists[t].ids[cur[t].pos] /\ cur[t].pos \in 0 .. lists[t].n - 1
  BY <1>4, Reading
<1>6. cur[t].pos < p => cur[t].docid < d
  BY <1>1, <1>5 DEF IsPostingsList
<1>7. cur[t].docid \in Nat
  BY <1>4, Reading
<1>8. cur[t].pos = p => cur[t].docid = d
  BY <1>5
<1>9. cur[t].pos < p \/ cur[t].pos = p
  BY <1>2, <1>3
<1>10. cur[t].docid <= d /\ (cur[t].docid = d => cur[t].pos = p)
  <2>1. d \in Nat
    BY <1>1 DEF IsPostingsList
  <2>2. CASE cur[t].pos < p
    <3>1. cur[t].docid < d
      BY <2>2, <1>6
    <3> QED
      BY <3>1, <2>1, <1>7
  <2>3. CASE cur[t].pos = p
    BY <2>1, <2>3, <1>7, <1>8
  <2> QED
    BY <2>2, <2>3, <1>9
<1> QED
  BY <1>3, <1>4, <1>10

\* An unpassed document scores what the lists that hold it give it.
LEMMA ScoreBelow ==
    ASSUME lists \in Indexes, score = [d \in Docs |-> ScoreIn(lists, d)],
           NEW d \in Docs, NEW T \in SUBSET Terms,
           \A t \in Terms : \A p \in 0 .. lists[t].n - 1 : lists[t].ids[p] = d => t \in T,
           NEW g, \A t \in T : g[t] \in Nat /\ Weight(lists[t], d, 0) <= g[t]
    PROVE  score[d] <= SumFunctionOnSet(g, T)
<1> DEFINE f == [t \in Terms |-> Weight(lists[t], d, 0)]
<1>1. \A t \in Terms : f[t] \in Nat
  BY ListsAreGood, WeightType
<1>2. \A t \in Terms \ T : f[t] = 0
  BY WeightNone
<1>3. \A t \in T : f[t] <= g[t]
  OBVIOUS
<1>4. score[d] = SumFunctionOnSet(f, Terms)
  BY DEF ScoreIn
<1> HIDE DEF f
<1> QED
  BY <1>1, <1>2, <1>3, <1>4, SumBelow

\* The lists at documents before the pivot cannot reach the threshold.
LEMMA BeforePivot ==
    ASSUME lists \in Indexes, InLoop, pivot # 0,
           NEW T \in SUBSET Unfinished(lists, cur), T # {},
           \A t \in T : cur[t].docid < PivotDoc
    PROVE  ~Reaches(BoundOf(lists, T), threshold, heapFull)
<1>1. /\ Len(plists) \in Nat /\ pivot \in 1 .. Len(plists)
      /\ PivotDoc = cur[plists[pivot]].docid /\ PivotDoc \in Nat
      /\ {plists[i] : i \in 1 .. Len(plists)} = Unfinished(lists, cur)
      /\ \A i, j \in 1 .. Len(plists) : i < j => cur[plists[i]].docid <= cur[plists[j]].docid
      /\ \A i \in 1 .. Len(plists) : plists[i] \in Terms /\ cur[plists[i]].docid \in Nat
  BY Placed, Reading
<1>2. PICK first \in 1 .. pivot :
         /\ \A i \in 1 .. first - 1 : ~Reaches(BoundOf(lists, FirstLists(plists, i)), threshold, heapFull)
         /\ \A k \in first .. pivot : cur[plists[k]].docid = PivotDoc
  BY <1>1 DEF InLoop, LoopInv, Chosen
<1>3. ASSUME NEW i \in 1 .. Len(plists), cur[plists[i]].docid < PivotDoc PROVE i < first
  <2>1. SUFFICES ASSUME first <= i PROVE FALSE
    BY <1>1
  <2>2. cur[plists[first]].docid = PivotDoc /\ first \in 1 .. Len(plists)
    BY <1>1, <1>2
  <2>3. first = i \/ cur[plists[first]].docid <= cur[plists[i]].docid
    BY <2>1, <2>2, <1>1
  <2> QED
    BY <2>2, <2>3, <1>1, <1>3
<1>4. \A t \in T : \E i \in 1 .. first - 1 : t = plists[i]
  BY <1>1, <1>3
<1>5. T \in SUBSET FirstLists(plists, first - 1) /\ first - 1 \in 1 .. first - 1
  BY <1>4 DEF FirstLists
<1>6. FirstLists(plists, first - 1) \in SUBSET Terms
  BY <1>1, <1>5 DEF FirstLists
<1>7. /\ BoundOf(lists, T) <= BoundOf(lists, FirstLists(plists, first - 1))
      /\ BoundOf(lists, T) \in Nat /\ BoundOf(lists, FirstLists(plists, first - 1)) \in Nat
  <2>1. T \in SUBSET Terms
    BY <1>5, <1>6
  <2> QED
    BY <2>1, <1>5, <1>6, BoundMono, BoundType
<1>8. threshold \in Nat /\ heapFull \in BOOLEAN
  BY DEF InLoop, LoopInv, HeapGood, IsFull
<1> QED
  BY <1>2, <1>5, <1>7, <1>8, ReachesMono

\* Nor can a document before the pivot that no list has passed.
LEMMA Worthless ==
    ASSUME lists \in Indexes, score = [d \in Docs |-> ScoreIn(lists, d)], InLoop, pivot # 0,
           NEW d \in Docs, d < PivotDoc, \A t \in Terms : ~PassedIn(lists[t], cur[t], d),
           NEW h \in Terms, NEW q \in 0 .. lists[h].n - 1, lists[h].ids[q] = d
    PROVE  ~Reaches(score[d], threshold, heapFull)
<1> DEFINE T == {t \in Terms : \E p \in 0 .. lists[t].n - 1 : lists[t].ids[p] = d}
           m == [t \in Terms |-> lists[t].max]
<1>1. PivotDoc \in Nat /\ d \in Nat
  BY Placed, NumDocsAssumption DEF Docs
<1>2. \A t \in T : t \in Unfinished(lists, cur) /\ cur[t].docid < PivotDoc
  <2> SUFFICES ASSUME NEW t \in T
               PROVE  t \in Unfinished(lists, cur) /\ cur[t].docid < PivotDoc
    OBVIOUS
  <2>1. PICK p \in 0 .. lists[t].n - 1 : lists[t].ids[p] = d
    OBVIOUS
  <2>2. t \in Unfinished(lists, cur) /\ cur[t].docid <= d
    BY <2>1, HeldAhead
  <2>3. cur[t].docid \in Nat
    BY <2>2, Reading
  <2> QED
    BY <2>2, <2>3, <1>1
<1>3. h \in T /\ T \in SUBSET Terms
  OBVIOUS
<1>4. \A t \in T : m[t] \in Nat /\ Weight(lists[t], d, 0) <= m[t]
  BY ListsAreGood, WeightType DEF GoodList
<1>5. \A t \in Terms : \A p \in 0 .. lists[t].n - 1 : lists[t].ids[p] = d => t \in T
  OBVIOUS
<1> HIDE DEF T, m
<1>6. score[d] <= SumFunctionOnSet(m, T)
  BY <1>3, <1>4, <1>5, ScoreBelow
<1>7. SumFunctionOnSet(m, T) = BoundOf(lists, T)
  BY DEF m, BoundOf
<1>8. ~Reaches(BoundOf(lists, T), threshold, heapFull)
  BY <1>2, <1>3, BeforePivot
<1>9. BoundOf(lists, T) \in Nat /\ score[d] \in Nat
  BY <1>3, BoundType, ScoreType
<1>10. threshold \in Nat /\ heapFull \in BOOLEAN
  BY DEF InLoop, LoopInv, HeapGood, IsFull
<1> QED
  BY <1>6, <1>7, <1>8, <1>9, <1>10, ReachesMono

\* When there is no pivot, no document that is not settled can enter any more.
LEMMA NoneLeft ==
    ASSUME lists \in Indexes, score = [d \in Docs |-> ScoreIn(lists, d)], InLoop, pivot = 0,
           NEW d \in Docs, d >= frontier, score[d] > 0
    PROVE  ~Reaches(score[d], threshold, heapFull)
<1> DEFINE T == Unfinished(lists, cur)
           m == [t \in Terms |-> lists[t].max]
<1>1. CASE \E t \in Terms : PassedIn(lists[t], cur[t], d)
  BY <1>1 DEF InLoop, LoopInv, NoLoss
<1>2. CASE \A t \in Terms : ~PassedIn(lists[t], cur[t], d)
  <2>1. T \in SUBSET Terms /\ T = FirstLists(plists, Len(plists)) /\ Len(plists) \in Nat
    BY DEF InLoop, LoopInv, Arranged, Unfinished
  <2>2. \A t \in Terms : \A p \in 0 .. lists[t].n - 1 : lists[t].ids[p] = d => t \in T
    BY <1>2, HeldAhead
  <2>3. \A t \in T : m[t] \in Nat /\ Weight(lists[t], d, 0) <= m[t]
    BY <2>1, ListsAreGood, WeightType DEF GoodList
  <2>4. \E t \in Terms : \E p \in 0 .. lists[t].n - 1 : lists[t].ids[p] = d
    BY ScoreType
  <2>5. T # {}
    BY <2>2, <2>4
  <2> HIDE DEF T, m
  <2>6. score[d] <= SumFunctionOnSet(m, T)
    BY <2>1, <2>2, <2>3, ScoreBelow
  <2>7. SumFunctionOnSet(m, T) = BoundOf(lists, T)
    BY DEF m, BoundOf
  <2>8. Len(plists) \in 1 .. Len(plists)
    BY <2>1, <2>5 DEF FirstLists
  <2>9. ~Reaches(BoundOf(lists, T), threshold, heapFull)
    BY <2>1, <2>8 DEF InLoop, LoopInv, Chosen
  <2>10. BoundOf(lists, T) \in Nat /\ score[d] \in Nat
    BY <2>1, BoundType, ScoreType
  <2>11. threshold \in Nat /\ heapFull \in BOOLEAN
    BY DEF InLoop, LoopInv, HeapGood, IsFull
  <2> QED
    BY <2>6, <2>7, <2>9, <2>10, <2>11, ReachesMono
<1> QED
  BY <1>1, <1>2

\* The next pivot is not before this one, when the lists have only moved to
\* it or past it.
LEMMA PivotAdvances ==
    ASSUME lists \in Indexes, InLoop, pivot # 0,
           NEW c2, NEW pls2, NEW pv2,
           Arranged(pls2, Unfinished(lists, c2), c2),
           Chosen(lists, pls2, c2, threshold, heapFull, pv2), pv2 # 0,
           \A t \in Unfinished(lists, c2) :
              /\ t \in Unfinished(lists, cur) /\ c2[t].docid \in Int
              /\ c2[t].docid = cur[t].docid \/ c2[t].docid >= PivotDoc
    PROVE  c2[pls2[pv2]].docid >= PivotDoc
<1> DEFINE pd2 == c2[pls2[pv2]].docid
<1>1. PICK first \in 1 .. pv2 :
         /\ Reaches(BoundOf(lists, FirstLists(pls2, first)), threshold, heapFull)
         /\ c2[pls2[first]].docid = pd2 /\ pv2 \in 1 .. Len(pls2) /\ Len(pls2) \in Nat
  BY DEF Chosen, Arranged
<1> DEFINE T == FirstLists(pls2, first)
<1>2. PivotDoc \in Nat
  BY Placed
<1>3. \A i \in 1 .. Len(pls2) : pls2[i] \in Unfinished(lists, c2)
  BY DEF Arranged, FirstLists
<1>4. SUFFICES ASSUME ~(pd2 >= PivotDoc) PROVE FALSE
  OBVIOUS
<1>5. pd2 \in Int
  BY <1>1, <1>3
<1>6. \A i \in 1 .. first : c2[pls2[i]].docid <= pd2
  <2> SUFFICES ASSUME NEW i \in 1 .. first PROVE c2[pls2[i]].docid <= pd2
    OBVIOUS
  <2>1. i \in 1 .. Len(pls2) /\ first \in 1 .. Len(pls2) /\ (i < first \/ i = first)
    BY <1>1
  <2>2. i < first => c2[pls2[i]].docid <= c2[pls2[first]].docid
    BY <2>1 DEF Arranged
  <2> QED
    BY <2>1, <2>2, <1>1, <1>5
<1> HIDE DEF pd2
<1>7. ASSUME NEW t \in T PROVE t \in Unfinished(lists, cur) /\ cur[t].docid < PivotDoc
  <2>1. PICK i \in 1 .. first : t = pls2[i]
    BY DEF FirstLists
  <2>2. t \in Unfinished(lists, c2) /\ c2[t].docid <= pd2
    BY <2>1, <1>1, <1>3, <1>6
  <2>3. c2[t].docid \in Int /\ t \in Unfinished(lists, cur)
        /\ (c2[t].docid = cur[t].docid \/ c2[t].docid >= PivotDoc)
    BY <2>2
  <2> QED
    BY <2>2, <2>3, <1>2, <1>4, <1>5
<1>8. T # {}
  <2>1. first \in 1 .. first
    BY <1>1
  <2> QED
    BY <2>1 DEF FirstLists
<1>9. ~Reaches(BoundOf(lists, T), threshold, heapFull)
  BY <1>7, <1>8, BeforePivot
<1> QED
  BY <1>1, <1>9

-----------------------------------------------------------------------------
(* A skip.                                                                 *)

\* The iterators c before the skip of the i-th list to id: some of the block
\* pointers have been moved to the pivot.
SkipReady(i, id, c) ==
    /\ i \in 1 .. pivot /\ id \in Nat /\ id >= PivotDoc
    /\ c \in [Terms -> Iterators]
    /\ \A t \in Terms : \/ c[t] = cur[t]
                        \/ /\ t \in Unfinished(lists, cur)
                           /\ c[t] = ShallowMove(lists[t], cur[t], PivotDoc)

Skipped(i, id, c) == [c EXCEPT ![plists[i]] = SkipTo(lists[plists[i]], c[plists[i]], id)]

\* Shallow moves to the pivot leave every list as it can be searched from.
LEMMA MovedReady ==
    ASSUME lists \in Indexes, InLoop, pivot # 0, NEW i, NEW id, NEW c, SkipReady(i, id, c),
           NEW t \in Unfinished(lists, cur)
    PROVE  /\ SearchReady(lists[t], c[t], PivotDoc)
           /\ c[t].pos = cur[t].pos /\ c[t].docid = cur[t].docid
<1>1. PivotDoc = cur[plists[pivot]].docid /\ PivotDoc \in Nat
  BY Placed
<1>2. SearchReady(lists[t], cur[t], PivotDoc)
  BY <1>1 DEF InLoop, LoopInv
<1>3. t \in Terms /\ IsPostingsList(lists[t])
  BY Reading
<1>4. CASE c[t] = cur[t]
  BY <1>2, <1>4
<1>5. CASE c[t] = ShallowMove(lists[t], cur[t], PivotDoc)
  BY <1>1, <1>2, <1>3, <1>5, ShallowReady
<1> QED
  BY <1>3, <1>4, <1>5 DEF SkipReady

\* What the iterators are like after it.
LEMMA SkippedLands ==
    ASSUME lists \in Indexes, InLoop, pivot # 0, NEW i, NEW id, NEW c, SkipReady(i, id, c)
    PROVE  LET k == Skipped(i, id, c)[plists[i]]
               l == lists[plists[i]]
               j == cur[plists[i]]
           IN  /\ k \in Iterators
               /\ k.pos \in j.pos .. l.n
               /\ \A q \in j.pos .. k.pos - 1 : l.ids[q] < id
               /\ k.pos < l.n =>
                     /\ Loaded(l, k)
                     /\ k.docid >= id /\ k.docid >= j.docid
                     /\ \A x \in Nat : SearchReady(l, k, x)
<1> DEFINE t == plists[i]  k == Skipped(i, id, c)[t]  l == lists[t]  j == cur[t]
<1>1. t \in Unfinished(lists, cur) /\ id \in Nat /\ PivotDoc \in Nat /\ PivotDoc <= id
  BY Placed DEF SkipReady
<1>2. /\ t \in Terms /\ IsPostingsList(l) /\ l.n \in Nat /\ j.pos \in 0 .. l.n - 1
      /\ j.docid = l.ids[j.pos] /\ j.docid \in Nat
  BY <1>1, Reading
<1>3. SearchReady(l, c[t], id) /\ c[t].pos = j.pos
  BY <1>1, <1>2, MovedReady, ReadyLater
<1>4. k = SkipTo(l, c[t], id)
  BY <1>2 DEF SkipReady, Skipped
<1> HIDE DEF k, l, j, t
<1>5. /\ k \in Iterators
      /\ k.pos \in j.pos .. l.n
      /\ \A q \in j.pos .. k.pos - 1 : l.ids[q] < id
      /\ k.pos < l.n => SearchReady(l, k, id) /\ l.ids[k.pos] >= id
  BY <1>1, <1>2, <1>3, <1>4, SkipLands
<1>6. ASSUME k.pos < l.n
      PROVE  /\ Loaded(l, k) /\ k.docid >= id /\ k.docid >= j.docid
             /\ \A x \in Nat : SearchReady(l, k, x)
  <2>1. SearchReady(l, k, id) /\ l.ids[k.pos] >= id
    BY <1>5, <1>6
  <2>2. Loaded(l, k) /\ k.docid = l.ids[k.pos] /\ k.pos \in 0 .. l.n - 1
    BY <2>1 DEF SearchReady, Loaded
  <2>3. k.docid >= j.docid
    <3>1. j.pos = k.pos \/ j.pos < k.pos
      BY <1>2, <1>5
    <3>2. j.pos < k.pos => l.ids[j.pos] < l.ids[k.pos]
      BY <1>2, <2>2 DEF IsPostingsList
    <3>3. l.ids[k.pos] \in Nat
      BY <1>2, <2>2 DEF IsPostingsList
    <3> QED
      BY <3>1, <3>2, <3>3, <2>2, <1>2
  <2>4. k.blk = BlockOf(k.pos)
    BY <1>1, <1>2, <2>1, BlockExact
  <2>5. BlockOf(k.pos) \in Nat
    BY <1>2, <2>2, PositionInBlock
  <2>6. \A x \in Nat : SearchReady(l, k, x)
    BY <2>1, <2>4, <2>5 DEF SearchReady
  <2> QED
    BY <2>1, <2>2, <2>3, <2>6
<1> QED
  BY <1>5, <1>6 DEF k, l, j, t

\* A skip leaves the other lists where they are, ready for the next search.
LEMMA SkippedStays ==
    ASSUME lists \in Indexes, InLoop, pivot # 0, NEW i, NEW id, NEW c, SkipReady(i, id, c),
           NEW t \in Terms, t # plists[i]
    PROVE  LET k == Skipped(i, id, c)[t]
           IN  /\ k \in Iterators /\ k.pos = cur[t].pos
               /\ k.pos \in 0 .. lists[t].n
               /\ k.pos < lists[t].n =>
                     /\ Loaded(lists[t], k) /\ k.docid = cur[t].docid
                     /\ \A x \in Nat : x >= PivotDoc => SearchReady(lists[t], k, x)
<1>1. Skipped(i, id, c)[t] = c[t] /\ c[t] \in Iterators
  BY DEF SkipReady, Skipped
<1>2. CursorGood(lists[t], cur[t]) /\ PivotDoc \in Nat
  BY Placed DEF InLoop, LoopInv
<1>3. CASE t \in Unfinished(lists, cur)
  <2>1. /\ SearchReady(lists[t], c[t], PivotDoc) /\ IsPostingsList(lists[t])
        /\ c[t].pos = cur[t].pos /\ c[t].docid = cur[t].docid
    BY <1>3, MovedReady, Reading
  <2>2. \A x \in Nat : x >= PivotDoc => SearchReady(lists[t], c[t], x)
    BY <2>1, <1>2, ReadyLater
  <2>3. Loaded(lists[t], c[t])
    BY <2>1 DEF SearchReady, Loaded
  <2> QED
    BY <1>1, <1>2, <2>1, <2>2, <2>3 DEF CursorGood
<1>4. CASE t \notin Unfinished(lists, cur)
  <2>1. c[t] = cur[t] /\ ~(cur[t].pos < lists[t].n)
    BY <1>4 DEF SkipReady, Unfinished
  <2> QED
    BY <2>1, <1>1, <1>2 DEF CursorGood
<1> QED
  BY <1>3, <1>4

\* The lists keep their order, and a pivot follows from it.
LEMMA SkipSettles ==
    ASSUME F = 1, lists \in Indexes, InLoop, pivot # 0,
           NEW i, NEW id, NEW c, SkipReady(i, id, c), SkipShortest(i, id, c)
    PROVE  /\ cur' \in [Terms -> Iterators]
           /\ \A t \in Terms : cur'[t] = Skipped(i, id, c)[t]
           /\ Arranged(plists', Unfinished(lists, cur'), cur')
           /\ Chosen(lists, plists', cur', threshold, heapFull, pivot')
           /\ turn' = 1 - turn
<1> DEFINE k == Skipped(i, id, c)  ti == plists[i]
<1>1. /\ Len(plists) \in Nat /\ plists \in [1 .. Len(plists) -> Terms]
      /\ DOMAIN plists = 1 .. Len(plists)
      /\ {plists[j] : j \in DOMAIN plists} = Unfinished(lists, cur)
      /\ \A j \in 1 .. Len(plists) : plists[j] \in Unfinished(lists, cur)
      /\ \A a, b \in 1 .. Len(plists) : a < b =>
            plists[a] # plists[b] /\ cur[plists[a]].docid <= cur[plists[b]].docid
      /\ i \in 1 .. Len(plists) /\ ti \in Terms /\ ti \in Unfinished(lists, cur)
  BY Placed DEF SkipReady
<1>2. threshold \in Nat
  BY DEF InLoop, LoopInv, HeapGood
<1>3. \A t \in Terms : lists[t].n \in Nat /\ (t \in Unfinished(lists, cur) => cur[t].docid \in Nat)
  BY ListsAreGood, Reading DEF GoodList, IsPostingsList
<1>4. /\ k[ti] \in Iterators /\ k[ti].pos \in cur[ti].pos .. lists[ti].n
      /\ k[ti].pos < lists[ti].n => Loaded(lists[ti], k[ti]) /\ k[ti].docid >= cur[ti].docid
  BY SkippedLands
<1>5. k[ti].pos \in 0 .. lists[ti].n
  <2>1. cur[ti].pos \in Nat /\ lists[ti].n \in Nat
    BY <1>1, Reading
  <2> QED
    BY <2>1, <1>4
<1>6. \A t \in Terms : t # ti =>
         /\ k[t] \in Iterators /\ k[t].pos = cur[t].pos /\ k[t].pos \in 0 .. lists[t].n
         /\ k[t].pos < lists[t].n => Loaded(lists[t], k[t]) /\ k[t].docid = cur[t].docid
  BY SkippedStays
<1>7. k \in [Terms -> Iterators]
  <2>1. k = [c EXCEPT ![ti] = SkipTo(lists[ti], c[ti], id)] /\ c \in [Terms -> Iterators]
    BY DEF SkipReady, Skipped
  <2> HIDE DEF k
  <2>2. DOMAIN k = Terms /\ k = [t \in Terms |-> k[t]]
    BY <2>1
  <2>3. \A t \in Terms : k[t] \in Iterators
    BY <1>4, <1>6
  <2> QED
    BY <2>2, <2>3
<1>8. Unfinished(lists, k) \subseteq Unfinished(lists, cur)
  <2>1. \A t \in Terms : k[t].pos < lists[t].n => t = ti \/ cur[t].pos < lists[t].n
    BY <1>6
  <2> QED
    BY <2>1, <1>1 DEF Unfinished
<1>9. SkipShortest(i, id, c) =
        IF AtEnd(lists[ti], k[ti]) THEN SortListById(k, threshold, heapFull)
        ELSE Settle(BubbleDown(i, k), k, threshold, heapFull)
  BY DEF SkipShortest, Skipped
<1> HIDE DEF k
<1>10. CASE AtEnd(lists[ti], k[ti])
  <2>1. SortListById(k, threshold, heapFull)
    BY <1>9, <1>10
  <2>2. \A t \in Terms : /\ k[t] \in Iterators /\ k[t].pos \in 0 .. lists[t].n
                         /\ k[t].pos < lists[t].n => Loaded(lists[t], k[t])
    BY <1>4, <1>5, <1>6
  <2>3. Unfinished(lists, k) \subseteq {plists[j] : j \in DOMAIN plists}
        /\ {plists[j] : j \in DOMAIN plists} \subseteq Terms
    BY <1>1, <1>8
  <2>4. /\ cur' \in [Terms -> Iterators]
        /\ \A t \in Terms :
              k[t].pos = lists[t].n \/ k[t].pos = k[t].accPos => cur'[t] = k[t]
        /\ Arranged(plists', Unfinished(lists, cur'), cur')
        /\ Chosen(lists, plists', cur', threshold, heapFull, pivot')
        /\ turn' = 1 - turn
    BY <1>2, <2>1, <2>2, <2>3, SortSettles
  <2>5. \A t \in Terms : k[t].pos = lists[t].n \/ k[t].pos = k[t].accPos
    <3>1. \A t \in Terms : k[t].pos < lists[t].n \/ k[t].pos = lists[t].n
      BY <2>2, <1>3
    <3> QED
      BY <3>1, <2>2 DEF Loaded
  <2> QED
    BY <2>4, <2>5 DEF k
<1>11. CASE ~AtEnd(lists[ti], k[ti])
  <2>1. /\ turn' = 1 - turn /\ plists' = BubbleDown(i, k) /\ cur' = k
        /\ pivot' = DetermineCandidate(plists', k, threshold, heapFull)
    BY <1>9, <1>11 DEF Settle
  <2>2. k[ti].pos < lists[ti].n
    BY <1>3, <1>1, <1>5, <1>11 DEF AtEnd
  <2>3. Unfinished(lists, k) = Unfinished(lists, cur)
    <3>1. \A t \in Terms : k[t].pos < lists[t].n <=> cur[t].pos < lists[t].n
      BY <1>1, <1>6, <2>2 DEF Unfinished
    <3> QED
      BY <3>1 DEF Unfinished
  <2>4. \A j \in 1 .. Len(plists) :
           /\ k[plists[j]].docid \in Int /\ k[plists[j]].docid >= cur[plists[j]].docid
           /\ j # i => k[plists[j]].docid = cur[plists[j]].docid
    <3> SUFFICES ASSUME NEW j \in 1 .. Len(plists)
                 PROVE  /\ k[plists[j]].docid \in Int
                        /\ k[plists[j]].docid >= cur[plists[j]].docid
                        /\ j # i => k[plists[j]].docid = cur[plists[j]].docid
      OBVIOUS
    <3>1. plists[j] \in Terms /\ plists[j] \in Unfinished(lists, cur) /\ cur[plists[j]].docid \in Nat
      BY <1>1, <1>3
    <3>2. k[plists[j]] \in Iterators /\ k[plists[j]].docid \in Int
      BY <3>1, <1>7 DEF Iterators
    <3>3. CASE j = i
      BY <3>2, <3>3, <1>4, <2>2
    <3>4. CASE j # i
      <4>1. plists[j] # ti
        <5>1. j < i \/ i < j
          BY <3>4, <1>1
        <5> QED
          BY <5>1, <1>1
      <4>2. k[plists[j]].docid = cur[plists[j]].docid
        <5>1. k[plists[j]].pos < lists[plists[j]].n
          BY <3>1, <2>3 DEF Unfinished
        <5> QED
          BY <5>1, <4>1, <3>1, <1>6
      <4> QED
        BY <4>2, <3>1, <3>2
    <3> QED
      BY <3>3, <3>4
  <2>5. \A a, b \in 1 .. Len(plists) : a < b /\ a # i =>
           k[plists[a]].docid <= k[plists[b]].docid
    <3> SUFFICES ASSUME NEW a \in 1 .. Len(plists), NEW b \in 1 .. Len(plists), a < b, a # i
                 PROVE  k[plists[a]].docid <= k[plists[b]].docid
      OBVIOUS
    <3>1. cur[plists[a]].docid <= cur[plists[b]].docid
      BY <1>1
    <3>2. cur[plists[a]].docid \in Nat /\ cur[plists[b]].docid \in Nat
      BY <1>1, <1>3
    <3>3. /\ k[plists[a]].docid = cur[plists[a]].docid
          /\ k[plists[b]].docid >= cur[plists[b]].docid /\ k[plists[b]].docid \in Int
      BY <2>4
    <3> QED
      BY <3>1, <3>2, <3>3
  <2>6. FirstLists(plists, Len(plists)) = Unfinished(lists, cur)
    BY <1>1 DEF FirstLists
  <2>7. Arranged(BubbleDown(i, k), Unfinished(lists, cur), k)
    BY <1>1, <2>4, <2>5, <2>6, BubbledArranged
  <2>8. Arranged(plists', Unfinished(lists, k), k)
    BY <2>1, <2>3, <2>7
  <2>9. Chosen(lists, plists', k, threshold, heapFull, pivot')
    BY <1>2, <2>1, <2>8, PivotIsChosen
  <2> QED
    BY <2>1, <2>8, <2>9, <1>7 DEF k
<1> QED
  BY <1>10, <1>11

\* A skip keeps the invariant when none of the documents it drops could enter
\* the heap.
LEMMA SkipKeeps ==
    ASSUME F = 1, lists \in Indexes, InLoop, pivot # 0, frontier \in Nat,
           NEW i, NEW id, NEW c, SkipReady(i, id, c), SkipShortest(i, id, c),
           \A d \in Docs : \A q \in 0 .. lists[plists[i]].n - 1 :
              /\ d >= frontier /\ d < id /\ lists[plists[i]].ids[q] = d
              /\ \A t \in Terms : ~PassedIn(lists[t], cur[t], d)
              => ~Reaches(score[d], threshold, heapFull)
    PROVE  /\ LoopInv(lists, score, frontier, plists', cur', heap, heapFull, threshold, pivot')
           /\ pivot' # 0 => cur'[plists'[pivot']].docid >= PivotDoc
           /\ \A t \in Terms : cur'[t].pos >= cur[t].pos
           /\ cur[plists[i]].docid < id => cur'[plists[i]].pos > cur[plists[i]].pos
           /\ turn' = 1 - turn
<1> DEFINE ti == plists[i]
<1>1. /\ cur' \in [Terms -> Iterators]
      /\ \A t \in Terms : cur'[t] = Skipped(i, id, c)[t]
      /\ Arranged(plists', Unfinished(lists, cur'), cur')
      /\ Chosen(lists, plists', cur', threshold, heapFull, pivot')
      /\ turn' = 1 - turn
  BY SkipSettles
<1>2. ti \in Unfinished(lists, cur) /\ id \in Nat /\ PivotDoc \in Nat /\ id >= PivotDoc
  BY Placed DEF SkipReady
<1>3. /\ ti \in Terms /\ IsPostingsList(lists[ti]) /\ lists[ti].n \in Nat
      /\ cur[ti].pos \in 0 .. lists[ti].n - 1
      /\ cur[ti].docid = lists[ti].ids[cur[ti].pos] /\ cur[ti].docid \in Nat
  BY <1>2, Reading
<1>4. /\ cur'[ti] \in Iterators /\ cur'[ti].pos \in cur[ti].pos .. lists[ti].n
      /\ \A q \in cur[ti].pos .. cur'[ti].pos - 1 : lists[ti].ids[q] < id
      /\ cur'[ti].pos < lists[ti].n =>
            /\ Loaded(lists[ti], cur'[ti])
            /\ cur'[ti].docid >= id /\ cur'[ti].docid >= cur[ti].docid
            /\ \A x \in Nat : SearchReady(lists[ti], cur'[ti], x)
  BY <1>1, <1>3, SkippedLands
<1>5. \A t \in Terms : t # ti =>
         /\ cur'[t] \in Iterators /\ cur'[t].pos = cur[t].pos /\ cur'[t].pos \in 0 .. lists[t].n
         /\ cur'[t].pos < lists[t].n =>
               /\ Loaded(lists[t], cur'[t]) /\ cur'[t].docid = cur[t].docid
               /\ \A x \in Nat : x >= PivotDoc => SearchReady(lists[t], cur'[t], x)
  BY <1>1, SkippedStays
<1>6. \A t \in Terms : CursorGood(lists[t], cur'[t])
  <2>1. cur'[ti].pos \in 0 .. lists[ti].n
    BY <1>3, <1>4
  <2> QED
    BY <2>1, <1>4, <1>5 DEF CursorGood
<1>7. \A t \in Unfinished(lists, cur') :
         /\ t \in Unfinished(lists, cur) /\ t \in Terms /\ cur'[t].docid \in Nat
         /\ cur[t].docid \in Nat /\ cur'[t].docid >= cur[t].docid
         /\ cur'[t].docid = cur[t].docid \/ cur'[t].docid >= PivotDoc
         /\ \A x \in Nat : x >= PivotDoc => SearchReady(lists[t], cur'[t], x)
  <2> SUFFICES ASSUME NEW t \in Unfinished(lists, cur')
               PROVE  /\ t \in Unfinished(lists, cur) /\ t \in Terms /\ cur'[t].docid \in Nat
                      /\ cur[t].docid \in Nat /\ cur'[t].docid >= cur[t].docid
                      /\ cur'[t].docid = cur[t].docid \/ cur'[t].docid >= PivotDoc
                      /\ \A x \in Nat : x >= PivotDoc => SearchReady(lists[t], cur'[t], x)
    OBVIOUS
  <2>1. t \in Terms /\ cur'[t].pos < lists[t].n /\ cur'[t].docid \in Nat
    BY <1>1 DEF Unfinished, Iterators
  <2>2. CASE t = ti
    <3>1. cur'[t].docid >= id /\ cur'[t].docid >= cur[t].docid
          /\ \A x \in Nat : SearchReady(lists[t], cur'[t], x)
      BY <2>1, <2>2, <1>4
    <3>2. cur'[t].docid >= PivotDoc
      BY <3>1, <2>1, <1>2
    <3> QED
      BY <3>1, <3>2, <2>1, <2>2, <1>2, <1>3
  <2>3. CASE t # ti
    <3>1. cur[t].pos = cur'[t].pos /\ cur'[t].docid = cur[t].docid
          /\ \A x \in Nat : x >= PivotDoc => SearchReady(lists[t], cur'[t], x)
      BY <2>1, <2>3, <1>5
    <3>2. t \in Unfinished(lists, cur)
      BY <3>1, <2>1 DEF Unfinished
    <3> QED
      BY <3>1, <3>2, <2>1
  <2> QED
    BY <2>2, <2>3
<1>8. \A t \in Unfinished(lists, cur') : cur'[t].docid >= frontier
  <2> SUFFICES ASSUME NEW t \in Unfinished(lists, cur') PROVE cur'[t].docid >= frontier
    OBVIOUS
  <2>1. t \in Unfinished(lists, cur) /\ cur'[t].docid \in Nat /\ cur'[t].docid >= cur[t].docid
    BY <1>7
  <2>2. cur[t].docid \in Nat /\ cur[t].docid >= frontier
    BY <2>1, Reading
  <2> QED
    BY <2>1, <2>2
<1>9. pivot' # 0 => cur'[plists'[pivot']].docid >= PivotDoc
  BY <1>1, <1>7, PivotAdvances
<1>10. ASSUME pivot' # 0, NEW t \in Unfinished(lists, cur')
       PROVE  SearchReady(lists[t], cur'[t], cur'[plists'[pivot']].docid)
  <2>1. plists'[pivot'] \in Unfinished(lists, cur')
    BY <1>1, <1>10 DEF Chosen, Arranged, FirstLists
  <2>2. cur'[plists'[pivot']].docid \in Nat
    BY <2>1, <1>7
  <2> QED
    BY <2>2, <1>7, <1>9, <1>10
<1>11. NoLoss(lists, cur', score, frontier, threshold, heapFull)
  <2> SUFFICES ASSUME NEW d \in Docs, d >= frontier, NEW t \in Terms,
                      PassedIn(lists[t], cur'[t], d)
               PROVE  ~Reaches(score[d], threshold, heapFull)
    BY DEF NoLoss
  <2>1. CASE \E s \in Terms : PassedIn(lists[s], cur[s], d)
    BY <2>1 DEF InLoop, LoopInv, NoLoss
  <2>2. CASE \A s \in Terms : ~PassedIn(lists[s], cur[s], d)
    <3>1. t = ti
      <4>1. t # ti => PassedIn(lists[t], cur[t], d)
        BY <1>5 DEF PassedIn
      <4> QED
        BY <4>1, <2>2
    <3>2. PICK q \in 0 .. cur'[ti].pos - 1 : lists[ti].ids[q] = d
      BY <3>1 DEF PassedIn
    <3>3. q \in cur[ti].pos .. cur'[ti].pos - 1 /\ q \in 0 .. lists[ti].n - 1
      <4>1. ~(q \in 0 .. cur[ti].pos - 1)
        BY <2>2, <3>2, <1>3 DEF PassedIn
      <4>2. cur'[ti].pos \in Nat /\ cur[ti].pos \in Nat /\ cur'[ti].pos <= lists[ti].n
        BY <1>3, <1>4
      <4> QED
        BY <4>1, <4>2, <1>3
    <3>4. d < id
      BY <3>2, <3>3, <1>4
    <3> QED
      BY <2>2, <3>2, <3>3, <3>4
  <2> QED
    BY <2>1, <2>2
<1>12. \A t \in Terms : cur'[t].pos >= cur[t].pos
  <2>1. cur'[ti].pos >= cur[ti].pos
    BY <1>3, <1>4
  <2>2. \A t \in Terms : t # ti => cur'[t].pos = cur[t].pos /\ cur'[t].pos \in Nat
    <3>1. \A t \in Terms : lists[t].n \in Nat
      BY ListsAreGood DEF GoodList, IsPostingsList
    <3> QED
      BY <3>1, <1>5
  <2> QED
    BY <2>1, <2>2
<1>13. ASSUME cur[ti].docid < id PROVE cur'[ti].pos > cur[ti].pos
  <2>1. SUFFICES ASSUME cur'[ti].pos = cur[ti].pos PROVE FALSE
    BY <1>3, <1>4
  <2>2. cur'[ti].pos < lists[ti].n
    BY <2>1, <1>3
  <2>3. Loaded(lists[ti], cur'[ti]) /\ cur'[ti].docid >= id
    BY <2>2, <1>4
  <2>4. cur'[ti].docid = cur[ti].docid
    BY <2>1, <2>3, <1>3 DEF Loaded
  <2> QED
    BY <2>3, <2>4, <1>2, <1>3, <1>13
<1>14. HeapGood(heap, heapFull, threshold, score, frontier)
  BY DEF InLoop, LoopInv
<1> QED
  BY <1>1, <1>6, <1>8, <1>9, <1>10, <1>11, <1>12, <1>13, <1>14 DEF LoopInv

-----------------------------------------------------------------------------
(* An evaluation.                                                          *)

\* The lists at the pivot document are those up to the pivot, when the first
\* one is.
LEMMA AlignedLists ==
    ASSUME lists \in Indexes, InLoop, pivot # 0, Aligned
    PROVE  /\ DocId(plists[1]) = PivotDoc
           /\ {i \in 1 .. Len(plists) : \A j \in 1 .. i : DocId(plists[j]) = PivotDoc} = 1 .. pivot
           /\ \A t \in Unfinished(lists, cur) :
                 IF t \in FirstLists(plists, pivot) THEN cur[t].docid = PivotDoc
                 ELSE cur[t].docid > PivotDoc
<1>1. /\ Len(plists) \in Nat /\ pivot \in 1 .. Len(plists)
      /\ {plists[j] : j \in 1 .. Len(plists)} = Unfinished(lists, cur)
      /\ \A j \in 1 .. Len(plists) :
            /\ DocId(plists[j]) = cur[plists[j]].docid /\ DocId(plists[j]) \in Nat
      /\ \A a, b \in 1 .. Len(plists) : a < b =>
            DocId(plists[a]) <= DocId(plists[b])
      /\ PivotDoc \in Nat /\ PivotDoc = DocId(plists[pivot])
  BY Placed, Reading DEF PivotDoc
<1>2. DocId(plists[1]) = PivotDoc
  BY DEF Aligned
<1>3. pivot < Len(plists) => DocId(plists[pivot + 1]) # PivotDoc
  <2>1. pivot < Len(plists) => cur[plists[pivot + 1]].docid # cur[plists[pivot]].docid
    BY <1>1 DEF InLoop, LoopInv, Chosen
  <2> QED
    BY <2>1, <1>1
<1>4. ASSUME NEW i \in 1 .. pivot PROVE DocId(plists[i]) = PivotDoc
  <2>1. i \in 1 .. Len(plists) /\ 1 \in 1 .. Len(plists) /\ (1 < i \/ i = 1) /\ (i < pivot \/ i = pivot)
    BY <1>1
  <2>2. DocId(plists[1]) <= DocId(plists[i]) /\ DocId(plists[i]) <= PivotDoc
    BY <2>1, <1>1
  <2>3. DocId(plists[i]) \in Nat
    BY <2>1, <1>1
  <2> QED
    BY <2>2, <2>3, <1>1, <1>2
<1>5. ASSUME NEW i \in 1 .. Len(plists), i > pivot PROVE DocId(plists[i]) > PivotDoc
  <2>1. pivot + 1 \in 1 .. Len(plists) /\ (pivot + 1 < i \/ i = pivot + 1) /\ pivot < pivot + 1
        /\ pivot < Len(plists)
    BY <1>1, <1>5
  <2>2. PivotDoc <= DocId(plists[pivot + 1]) /\ DocId(plists[pivot + 1]) # PivotDoc
    BY <2>1, <1>1, <1>3
  <2>3. DocId(plists[pivot + 1]) <= DocId(plists[i])
    BY <2>1, <1>1
  <2> QED
    BY <2>1, <2>2, <2>3, <1>1
<1>6. {i \in 1 .. Len(plists) : \A j \in 1 .. i : DocId(plists[j]) = PivotDoc} = 1 .. pivot
  <2>1. \A i \in 1 .. Len(plists) : DocId(plists[i]) = PivotDoc => i \in 1 .. pivot
    <3> SUFFICES ASSUME NEW i \in 1 .. Len(plists), DocId(plists[i]) = PivotDoc
                 PROVE  i \in 1 .. pivot
      OBVIOUS
    <3>1. ~(i > pivot)
      BY <1>1, <1>5
    <3> QED
      BY <3>1, <1>1
  <2>2. \A i \in 1 .. pivot : i \in 1 .. Len(plists) /\ i \in 1 .. i
    BY <1>1
  <2>3. \A i \in 1 .. pivot : \A j \in 1 .. i : j \in 1 .. pivot
    BY <1>1
  <2>4. \A i \in 1 .. Len(plists) : i \in 1 .. i
    BY <1>1
  <2> QED
    BY <2>1, <2>2, <2>3, <2>4, <1>4
<1>7. ASSUME NEW t \in Unfinished(lists, cur)
      PROVE  IF t \in FirstLists(plists, pivot) THEN cur[t].docid = PivotDoc
             ELSE cur[t].docid > PivotDoc
  <2>1. CASE t \in FirstLists(plists, pivot)
    <3>1. PICK i \in 1 .. pivot : t = plists[i]
      BY <2>1 DEF FirstLists
    <3>2. i \in 1 .. Len(plists)
      BY <1>1
    <3> QED
      BY <3>1, <3>2, <2>1, <1>1, <1>4
  <2>2. CASE t \notin FirstLists(plists, pivot)
    <3>1. PICK i \in 1 .. Len(plists) : t = plists[i]
      BY <1>1
    <3>2. i > pivot
      BY <3>1, <2>2, <1>1 DEF FirstLists
    <3> QED
      BY <3>1, <3>2, <2>2, <1>1, <1>5
  <2> QED
    BY <2>1, <2>2
<1> QED
  BY <1>2, <1>6, <1>7

\* No list after the pivot has the pivot document left to give.
LEMMA WeightAfterPivot ==
    ASSUME lists \in Indexes, InLoop, pivot # 0,
           NEW t \in Terms, t \notin FirstLists(plists, pivot)
    PROVE  Weight(lists[t], PivotDoc, cur[t].pos) = 0
<1>1. /\ Len(plists) \in Nat /\ pivot \in 1 .. Len(plists)
      /\ {plists[j] : j \in 1 .. Len(plists)} = Unfinished(lists, cur)
      /\ \A a, b \in 1 .. Len(plists) : a < b =>
            cur[plists[a]].docid <= cur[plists[b]].docid
      /\ PivotDoc \in Nat /\ PivotDoc = cur[plists[pivot]].docid
  BY Placed
<1>2. CASE t \notin Unfinished(lists, cur)
  <2>1. ~(cur[t].pos < lists[t].n) /\ lists[t].n \in Nat /\ cur[t].pos \in 0 .. lists[t].n
    BY <1>2, ListsAreGood DEF Unfinished, GoodList, IsPostingsList, InLoop, LoopInv, CursorGood
  <2>2. cur[t].pos .. lists[t].n - 1 = {}
    BY <2>1
  <2> QED
    BY <2>2, WeightNone
<1>3. CASE t \in Unfinished(lists, cur)
  <2>1. PICK i \in 1 .. Len(plists) : t = plists[i]
    BY <1>1, <1>3
  <2>2. i > pivot
    BY <2>1, <1>1 DEF FirstLists
  <2>3. cur[plists[pivot + 1]].docid # PivotDoc /\ pivot + 1 \in 1 .. Len(plists)
    <3>1. pivot < Len(plists)
      BY <2>2, <1>1
    <3> QED
      BY <3>1, <1>1 DEF InLoop, LoopInv, Chosen
  <2>4. /\ IsPostingsList(lists[t]) /\ lists[t].n \in Nat /\ cur[t].pos \in 0 .. lists[t].n - 1
        /\ cur[t].docid = lists[t].ids[cur[t].pos] /\ cur[t].docid \in Nat
    BY <1>3, Reading
  <2>5. cur[plists[pivot + 1]].docid \in Nat
    <3>1. plists[pivot + 1] \in Unfinished(lists, cur)
      BY <1>1, <2>3
    <3> QED
      BY <3>1, Reading
  <2>6. PivotDoc <= cur[plists[pivot + 1]].docid /\ cur[plists[pivot + 1]].docid <= cur[t].docid
    <3>1. pivot < pivot + 1 /\ (pivot + 1 < i \/ pivot + 1 = i)
      BY <2>2, <1>1
    <3> QED
      BY <3>1, <2>1, <2>3, <2>4, <1>1
  <2>7. cur[t].docid > PivotDoc
    <3>1. PivotDoc \in Nat
      BY <1>1
    <3>2. PivotDoc < cur[plists[pivot + 1]].docid
      BY <3>1, <2>3, <2>5, <2>6
    <3> QED
      BY <3>1, <3>2, <2>4, <2>5, <2>6
  <2>8. \A q \in cur[t].pos .. lists[t].n - 1 : lists[t].ids[q] # PivotDoc
    <3> SUFFICES ASSUME NEW q \in cur[t].pos .. lists[t].n - 1
                 PROVE  lists[t].ids[q] # PivotDoc
      OBVIOUS
    <3>1. q \in 0 .. lists[t].n - 1 /\ (cur[t].pos = q \/ cur[t].pos < q)
      BY <2>4
    <3>2. cur[t].pos < q => lists[t].ids[cur[t].pos] < lists[t].ids[q]
      BY <3>1, <2>4 DEF IsPostingsList
    <3>3. lists[t].ids[q] \in Nat
      BY <3>1, <2>4 DEF IsPostingsList
    <3> QED
      BY <3>1, <3>2, <3>3, <2>4, <2>7, <1>1
  <2> QED
    BY <2>8, WeightNone
<1> QED
  BY <1>2, <1>3

\* What the lists have left of the pivot document is never more than its score,
\* and less only when it cannot enter the heap.
LEMMA LeftOfPivot ==
    ASSUME lists \in Indexes, score = [d \in Docs |-> ScoreIn(lists, d)], InLoop,
           NEW d \in Docs, d >= frontier
    PROVE  /\ ScoreLeft(d) \in Nat /\ score[d] \in Nat /\ ScoreLeft(d) <= score[d]
           /\ ScoreLeft(d) < score[d] => ~Reaches(score[d], threshold, heapFull)
<1>1. \A t \in Terms : cur[t].pos \in 0 .. lists[t].n
  BY DEF InLoop, LoopInv, CursorGood
<1>2. /\ ScoreLeft(d) \in Nat /\ ScoreLeft(d) <= ScoreIn(lists, d)
      /\ (\A t \in Terms : ~PassedIn(lists[t], cur[t], d)) => ScoreLeft(d) = ScoreIn(lists, d)
  BY <1>1, LeftFacts DEF ScoreLeft
<1>3. score[d] = ScoreIn(lists, d) /\ score[d] \in Nat
  BY ScoreType
<1>4. ASSUME ScoreLeft(d) < score[d] PROVE ~Reaches(score[d], threshold, heapFull)
  <2>1. \E t \in Terms : PassedIn(lists[t], cur[t], d)
    BY <1>2, <1>3, <1>4
  <2> QED
    BY <2>1 DEF InLoop, LoopInv, NoLoss
<1> QED
  BY <1>2, <1>3, <1>4

\* Aligned lists give all that is left of the document.
LEMMA AlignedGive ==
    ASSUME lists \in Indexes, InLoop, pivot # 0, Aligned
    PROVE  LET gives == [t \in FirstLists(plists, pivot) |-> lists[t].w[cur[t].pos]]
           IN  /\ \A t \in FirstLists(plists, pivot) : gives[t] \in Nat
               /\ SumFunctionOnSet(gives, FirstLists(plists, pivot)) = ScoreLeft(PivotDoc)
<1> DEFINE T == FirstLists(plists, pivot)
           f == [t \in Terms |-> Weight(lists[t], PivotDoc, cur[t].pos)]
           g == [t \in T |-> lists[t].w[cur[t].pos]]
<1>1. T \in SUBSET Unfinished(lists, cur) /\ T \in SUBSET Terms
  BY Placed DEF FirstLists, Unfinished
<1>2. ASSUME NEW t \in T PROVE f[t] = g[t] /\ g[t] \in Nat
  <2>1. t \in Unfinished(lists, cur) /\ t \in Terms
    BY <1>1
  <2>2. /\ IsPostingsList(lists[t]) /\ GoodList(lists[t]) /\ cur[t].pos \in 0 .. lists[t].n - 1
        /\ lists[t].ids[cur[t].pos] = PivotDoc /\ cur[t].pos \in Nat /\ lists[t].n \in Nat
    BY <2>1, Reading, AlignedLists
  <2>3. Weight(lists[t], PivotDoc, cur[t].pos) = lists[t].w[cur[t].pos]
    BY <2>2, WeightAt
  <2>4. lists[t].w[cur[t].pos] \in Nat
    BY <2>2 DEF GoodList
  <2> QED
    BY <2>1, <2>3, <2>4
<1>3. \A t \in Terms \ T : f[t] = 0
  BY WeightAfterPivot
<1>4. ScoreLeft(PivotDoc) = SumFunctionOnSet(f, Terms)
  BY DEF ScoreLeft
<1>5. IsFiniteSet(Terms) /\ IsFiniteSet(T)
  BY <1>1, TermsFinite, FS_Subset
<1> HIDE DEF T, f, g
<1>6. \A t \in Terms : f[t] \in Nat
  <2>1. \A t \in T : f[t] \in Nat
    BY <1>2
  <2>2. \A t \in Terms \ T : f[t] \in Nat
    BY <1>3
  <2> QED
    BY <2>1, <2>2
<1>7. SumFunctionOnSet(f, T) = SumFunctionOnSet(f, Terms)
  BY <1>1, <1>3, <1>6, <1>5, SumPart
<1>8. SumFunctionOnSet(g, T) = SumFunctionOnSet(f, T)
  BY <1>2, <1>5, SumSame
<1> QED
  BY <1>2, <1>4, <1>7, <1>8 DEF T, g

\* The lists P of A have been added up, and they are all of A or the bound,
\* refined by what they gave, has dropped below the threshold.
Stopped(A, P, bound, gives, refines, thr) ==
    /\ A \in SUBSET Terms /\ P \in SUBSET A /\ thr \in Nat
    /\ \A t \in A : /\ bound[t] \in Nat /\ gives[t] \in Nat /\ gives[t] <= bound[t]
                   /\ refines[t] = gives[t] - bound[t]
    /\ P = A \/ SumFunctionOnSet(bound, A) + SumFunctionOnSet(refines, P) < thr

\* Stopping an evaluation early gives the full sum or one below the threshold.
LEMMA EarlyStop ==
    ASSUME NEW A, NEW P, NEW bound, NEW gives, NEW refines, NEW thr,
           Stopped(A, P, bound, gives, refines, thr)
    PROVE  /\ SumFunctionOnSet(gives, P) \in Nat /\ SumFunctionOnSet(gives, A) \in Nat
           /\ SumFunctionOnSet(gives, P) <= SumFunctionOnSet(gives, A)
           /\ P = A \/ SumFunctionOnSet(gives, A) < thr
<1> DEFINE R == A \ P
           refined == SumFunctionOnSet(bound, A) + SumFunctionOnSet(refines, P)
<1>0. /\ A \in SUBSET Terms /\ P \in SUBSET A /\ thr \in Nat
      /\ \A t \in A : /\ bound[t] \in Nat /\ gives[t] \in Nat /\ gives[t] <= bound[t]
                     /\ refines[t] = gives[t] - bound[t]
      /\ P = A \/ refined < thr
  BY DEF Stopped
<1>1. IsFiniteSet(A) /\ IsFiniteSet(P) /\ IsFiniteSet(R) /\ R \in SUBSET A
  BY <1>0, TermsFinite, FS_Subset, FS_Difference
<1>2. \A t \in A : bound[t] \in Int /\ gives[t] \in Int
  BY <1>0
<1>3. /\ SumFunctionOnSet(gives, A) = SumFunctionOnSet(gives, P) + SumFunctionOnSet(gives, R)
      /\ SumFunctionOnSet(bound, A) = SumFunctionOnSet(bound, P) + SumFunctionOnSet(bound, R)
  BY <1>0, <1>1, <1>2, SumSplit
<1> HIDE DEF R
<1>4. SumFunctionOnSet(refines, P) = SumFunctionOnSet(gives, P) - SumFunctionOnSet(bound, P)
  BY <1>0, <1>1, <1>2, SumMinus
<1>5. SumFunctionOnSet(gives, R) <= SumFunctionOnSet(bound, R)
  BY <1>0, <1>1, <1>2, SumMono
<1>6. /\ SumFunctionOnSet(gives, P) \in Nat /\ SumFunctionOnSet(gives, R) \in Nat
      /\ SumFunctionOnSet(bound, P) \in Nat /\ SumFunctionOnSet(bound, R) \in Nat
  BY <1>0, <1>1, SumNat
<1>7. refined < thr => SumFunctionOnSet(gives, A) < thr
  BY <1>0, <1>3, <1>4, <1>5, <1>6
<1>8. /\ SumFunctionOnSet(gives, A) \in Nat
      /\ SumFunctionOnSet(gives, P) <= SumFunctionOnSet(gives, A)
  BY <1>3, <1>6
<1> QED
  BY <1>0, <1>6, <1>7, <1>8

\* What the heap becomes: as if the document had been offered with its score.
LEMMA PushIsOffer ==
    ASSUME heapFull = IsFull(heap), NEW thr \in Nat, thr = threshold,
           NEW d, NEW s \in Nat, NEW all \in Nat, NEW x \in Nat, s <= all, all <= x,
           s = all \/ all < thr, all < x => ~Reaches(x, thr, heapFull)
    PROVE  PushScored([doc |-> d, score |-> s])
              = HeapAfter(heap, thr, [doc |-> d, score |-> x])
<1>1. ASSUME NEW y \in Nat
      PROVE  PushScored([doc |-> d, score |-> y])
                = HeapAfter(heap, thr, [doc |-> d, score |-> y])
  BY DEF PushScored, HeapAfter, Reaches
<1>2. CASE s = x
  BY <1>1, <1>2
<1>3. CASE s # x
  <2>1. ~Reaches(x, thr, heapFull)
    <3>1. CASE all < x
      BY <3>1
    <3>2. CASE all = x
      BY <3>2, <1>3 DEF Reaches
    <3> QED
      BY <3>1, <3>2
  <2>2. ~Reaches(s, thr, heapFull)
    BY <2>1 DEF Reaches
  <2>3. PushScored([doc |-> d, score |-> s]) = heap
    BY <2>2, <1>1 DEF HeapAfter
  <2>4. HeapAfter(heap, thr, [doc |-> d, score |-> x]) = heap
    BY <2>1 DEF HeapAfter
  <2> QED
    BY <2>3, <2>4
<1> QED
  BY <1>2, <1>3

\* The evaluated document, the next to matter, is offered with its full score.
LEMMA EvaluateOffers ==
    ASSUME lists \in Indexes, score = [d \in Docs |-> ScoreIn(lists, d)], InLoop,
           pivot # 0, Aligned, NEW potential, NEW bound,
           potential = SumFunctionOnSet(bound, FirstLists(plists, pivot)),
           \A t \in FirstLists(plists, pivot) :
              bound[t] \in Nat /\ lists[t].w[cur[t].pos] <= bound[t],
           Evaluate(potential, bound)
    PROVE  /\ heap' = HeapAfter(heap, threshold,
                                [doc |-> PivotDoc, score |-> score[PivotDoc]])
           /\ heapFull' = IsFull(heap') /\ threshold' = ThresholdAfter(heap', threshold)
           /\ SortListById([t \in Terms |-> IF t \in FirstLists(plists, pivot)
                                            THEN Increment(cur[t]) ELSE cur[t]],
                           threshold', heapFull')
           /\ frontier' = PivotDoc + 1
           /\ UNCHANGED <<lists, pc, res, score>>
<1> DEFINE n     == Len(plists)
           doc     == DocId(plists[1])
           aligned == {i \in 1 .. n : \A j \in 1 .. i : DocId(plists[j]) = doc}
           moved   == {plists[i] : i \in aligned}
           gives   == [t \in moved |-> lists[t].w[cur[t].pos]]
           refines == [t \in moved |-> gives[t] - bound[t]]
           refined(i) == potential + SumFunctionOnSet(refines, FirstLists(plists, i))
           last    == Least({i \in aligned : refined(i) < threshold} \cup {Max(aligned)})
           some    == SumFunctionOnSet(gives, FirstLists(plists, last))
           entry   == [doc |-> doc, score |-> some]
           top     == PushScored(entry)
           T       == FirstLists(plists, pivot)
<1>1. /\ heap' = top
      /\ heapFull' = IsFull(top)
      /\ threshold' = ThresholdAfter(top, threshold)
      /\ SortListById([t \in Terms |-> IF t \in moved THEN Increment(cur[t]) ELSE cur[t]],
                      ThresholdAfter(top, threshold), IsFull(top))
      /\ frontier' = doc + 1
      /\ UNCHANGED <<lists, pc, res, score>>
  BY DEF Evaluate
<1>2. doc = PivotDoc /\ aligned = 1 .. pivot
  BY AlignedLists
<1>3. moved = T
  BY <1>2 DEF FirstLists
<1>4. gives = [t \in T |-> lists[t].w[cur[t].pos]]
  BY <1>3
<1>5. pivot \in Nat \ {0} => last \in 1 .. pivot /\ (last = pivot \/ refined(last) < threshold)
  <2> HIDE DEF refined, aligned, doc
  <2> SUFFICES ASSUME pivot \in Nat \ {0}
               PROVE  last \in 1 .. pivot /\ (last = pivot \/ refined(last) < threshold)
    OBVIOUS
  <2>1. Max(aligned) = pivot
    <3>1. aligned \in SUBSET (0 .. pivot) /\ pivot \in aligned /\ \A i \in aligned : i <= pivot
      BY <1>2
    <3>2. Max(aligned) \in aligned /\ pivot <= Max(aligned)
      BY <3>1, MaxInSet
    <3>3. Max(aligned) \in 0 .. pivot
      BY <3>1, <3>2
    <3> QED
      BY <3>2, <3>3
  <2> DEFINE S == {i \in aligned : refined(i) < threshold} \cup {Max(aligned)}
  <2>2. S \in SUBSET Nat /\ S # {}
    BY <2>1, <1>2
  <2>3. last \in S
    <3> HIDE DEF S
    <3>1. last = Least(S)
      BY DEF S
    <3> QED
      BY <3>1, <2>2, LeastInSet
  <2> HIDE DEF last
  <2> QED
    BY <2>1, <2>3, <1>2
<1>6. /\ T \in SUBSET Terms /\ pivot \in Nat \ {0}
      /\ PivotDoc \in Docs /\ PivotDoc >= frontier
  <2>1. /\ pivot \in 1 .. Len(plists) /\ Len(plists) \in Nat
        /\ plists \in [1 .. Len(plists) -> Terms] /\ PivotDoc \in Docs
        /\ plists[pivot] \in Unfinished(lists, cur) /\ PivotDoc = cur[plists[pivot]].docid
    BY Placed
  <2>2. PivotDoc >= frontier
    BY <2>1, Reading
  <2>3. \A i \in 1 .. pivot : plists[i] \in Terms
    BY <2>1
  <2> QED
    BY <2>1, <2>2, <2>3 DEF FirstLists
<1>7. threshold \in Nat /\ heapFull = IsFull(heap)
  BY DEF InLoop, LoopInv, HeapGood
<1> HIDE DEF last
<1>8. /\ \A t \in T : gives[t] \in Nat
      /\ SumFunctionOnSet(gives, T) = ScoreLeft(PivotDoc)
  BY <1>4, AlignedGive
<1>9. \A t \in T : /\ bound[t] \in Nat /\ gives[t] \in Nat /\ gives[t] <= bound[t]
                   /\ refines[t] = gives[t] - bound[t]
  BY <1>3, <1>4, <1>8
<1> HIDE DEF gives, refines, T, moved, aligned, doc
<1>13. last \in 1 .. pivot
       /\ (last = pivot \/ potential + SumFunctionOnSet(refines, FirstLists(plists, last)) < threshold)
  BY <1>5, <1>6
<1>10. /\ some \in Nat /\ SumFunctionOnSet(gives, T) \in Nat
       /\ some <= SumFunctionOnSet(gives, T)
       /\ some = SumFunctionOnSet(gives, T) \/ SumFunctionOnSet(gives, T) < threshold
  <2> DEFINE P == FirstLists(plists, last)
  <2>1. P \in SUBSET T /\ (last = pivot => P = T)
    <3>1. \A i \in 1 .. last : i \in 1 .. pivot
      BY <1>13, <1>6
    <3> QED
      BY <3>1 DEF FirstLists, T
  <2>2. P = T \/ SumFunctionOnSet(bound, T) + SumFunctionOnSet(refines, P) < threshold
    BY <2>1, <1>13 DEF T
  <2> HIDE DEF P
  <2>3. Stopped(T, P, bound, gives, refines, threshold)
    BY <2>1, <2>2, <1>6, <1>7, <1>9 DEF Stopped
  <2>4. /\ SumFunctionOnSet(gives, P) \in Nat /\ SumFunctionOnSet(gives, T) \in Nat
        /\ SumFunctionOnSet(gives, P) <= SumFunctionOnSet(gives, T)
        /\ P = T \/ SumFunctionOnSet(gives, T) < threshold
    BY <2>3, EarlyStop
  <2> QED
    BY <2>4 DEF P
<1>11. /\ ScoreLeft(PivotDoc) \in Nat /\ score[PivotDoc] \in Nat
       /\ ScoreLeft(PivotDoc) <= score[PivotDoc]
       /\ ScoreLeft(PivotDoc) < score[PivotDoc]
             => ~Reaches(score[PivotDoc], threshold, heapFull)
  BY <1>6, LeftOfPivot
<1>12. top = HeapAfter(heap, threshold, [doc |-> doc, score |-> score[PivotDoc]])
  <2> HIDE DEF some
  <2>1. some \in Nat /\ some <= ScoreLeft(PivotDoc)
        /\ (some = ScoreLeft(PivotDoc) \/ ScoreLeft(PivotDoc) < threshold)
    BY <1>8, <1>10
  <2> QED
    BY <2>1, <1>7, <1>11, PushIsOffer
<1> QED
  BY <1>1, <1>2, <1>3, <1>12 DEF T

\* It is a document no list has fewer of to come, and it scores something.
LEMMA PivotIsNext ==
    ASSUME lists \in Indexes, score = [d \in Docs |-> ScoreIn(lists, d)], InLoop,
           pivot # 0, Aligned
    PROVE  /\ PivotDoc \in Docs /\ PivotDoc >= frontier /\ score[PivotDoc] > 0
           /\ \A d \in Docs : (d >= frontier /\ d < PivotDoc /\ score[d] > 0)
                 => ~Reaches(score[d], threshold, heapFull)
<1>1. /\ PivotDoc \in Docs /\ PivotDoc \in Nat /\ plists[pivot] \in Unfinished(lists, cur)
      /\ PivotDoc = cur[plists[pivot]].docid
  BY Placed
<1>2. /\ plists[pivot] \in Terms /\ cur[plists[pivot]].pos \in 0 .. lists[plists[pivot]].n - 1
      /\ lists[plists[pivot]].ids[cur[plists[pivot]].pos] = PivotDoc /\ PivotDoc >= frontier
  BY <1>1, Reading
<1>3. score[PivotDoc] > 0
  BY <1>1, <1>2, ScoreType
<1>4. ASSUME NEW d \in Docs, d >= frontier, d < PivotDoc, score[d] > 0
      PROVE  ~Reaches(score[d], threshold, heapFull)
  <2>1. PICK t \in Terms : \E p \in 0 .. lists[t].n - 1 : lists[t].ids[p] = d
    BY <1>4, ScoreType
  <2>2. CASE PassedIn(lists[t], cur[t], d)
    BY <2>2, <1>4 DEF InLoop, LoopInv, NoLoss
  <2>3. CASE ~PassedIn(lists[t], cur[t], d)
    <3>1. t \in Unfinished(lists, cur) /\ cur[t].docid <= d
      BY <2>1, <2>3, HeldAhead
    <3>2. cur[t].docid \in Nat /\ cur[t].docid >= PivotDoc
      BY <3>1, <1>1, Reading, AlignedLists
    <3> QED
      BY <3>1, <3>2, <1>1, <1>4, NumDocsAssumption DEF Docs
  <2> QED
    BY <2>2, <2>3
<1> QED
  BY <1>1, <1>2, <1>3, <1>4

\* The evaluation keeps the invariant and moves every list it used.
LEMMA EvaluateKeeps ==
    ASSUME F = 1, lists \in Indexes, score = [d \in Docs |-> ScoreIn(lists, d)],
           frontier \in Nat, InLoop,
           pivot # 0, Aligned, NEW potential, NEW bound,
           potential = SumFunctionOnSet(bound, FirstLists(plists, pivot)),
           \A t \in FirstLists(plists, pivot) :
              bound[t] \in Nat /\ lists[t].w[cur[t].pos] <= bound[t],
           Evaluate(potential, bound)
    PROVE  /\ LoopInv(lists, score, frontier', plists', cur', heap', heapFull', threshold', pivot')
           /\ pivot' # 0 => cur'[plists'[pivot']].docid >= PivotDoc
           /\ \A t \in Terms : cur'[t].pos >= cur[t].pos
           /\ cur'[plists[pivot]].pos > cur[plists[pivot]].pos
           /\ turn' = 1 - turn
<1> DEFINE T == FirstLists(plists, pivot)
           c == [t \in Terms |-> IF t \in T THEN Increment(cur[t]) ELSE cur[t]]
<1>1. /\ heap' = HeapAfter(heap, threshold, [doc |-> PivotDoc, score |-> score[PivotDoc]])
      /\ heapFull' = IsFull(heap') /\ threshold' = ThresholdAfter(heap', threshold)
      /\ SortListById(c, threshold', heapFull')
      /\ frontier' = PivotDoc + 1
  BY EvaluateOffers
<1>2. PivotDoc \in Docs /\ PivotDoc \in Nat /\ PivotDoc >= frontier /\ score[PivotDoc] \in Nat
  BY PivotIsNext, ScoreType, Placed
<1>3. /\ HeapGood(heap', heapFull', threshold', score, frontier')
      /\ Harder(threshold, heapFull, threshold', heapFull')
  <2>1. HeapGood(heap, heapFull, threshold, score, frontier)
    BY DEF InLoop, LoopInv
  <2> QED
    BY <2>1, <1>1, <1>2, PushKeeps
<1>4. threshold' \in Nat /\ heapFull' \in BOOLEAN /\ threshold \in Nat /\ heapFull \in BOOLEAN
  BY <1>3 DEF HeapGood, IsFull, InLoop, LoopInv
<1>5. /\ pivot \in 1 .. Len(plists) /\ Len(plists) \in Nat
      /\ \A i \in 1 .. Len(plists) : plists[i] \in Unfinished(lists, cur)
      /\ {plists[i] : i \in DOMAIN plists} = Unfinished(lists, cur)
  BY Placed
<1>6. T \in SUBSET Unfinished(lists, cur) /\ plists[pivot] \in T
  <2>1. \A i \in 1 .. pivot : i \in 1 .. Len(plists)
    BY <1>5
  <2>2. pivot \in 1 .. pivot
    BY <1>5
  <2> QED
    BY <2>1, <2>2, <1>5 DEF FirstLists
<1>7. \A t \in Terms : /\ lists[t].n \in Nat /\ IsPostingsList(lists[t])
                       /\ CursorGood(lists[t], cur[t]) /\ cur[t] \in Iterators
                       /\ cur[t].pos \in 0 .. lists[t].n
  BY ListsAreGood DEF GoodList, IsPostingsList, InLoop, LoopInv, CursorGood
<1>8. \A t \in T : /\ t \in Terms /\ c[t] \in Iterators /\ c[t].pos = cur[t].pos + 1
                   /\ c[t].pos \in 0 .. lists[t].n /\ c[t].accPos = cur[t].pos
                   /\ cur[t].pos \in 0 .. lists[t].n - 1 /\ cur[t].docid = PivotDoc
                   /\ cur[t].docid = lists[t].ids[cur[t].pos]
  <2> SUFFICES ASSUME NEW t \in T
               PROVE  /\ t \in Terms /\ c[t] \in Iterators /\ c[t].pos = cur[t].pos + 1
                      /\ c[t].pos \in 0 .. lists[t].n /\ c[t].accPos = cur[t].pos
                      /\ cur[t].pos \in 0 .. lists[t].n - 1 /\ cur[t].docid = PivotDoc
                      /\ cur[t].docid = lists[t].ids[cur[t].pos]
    OBVIOUS
  <2>1. /\ t \in Terms /\ lists[t].n \in Nat /\ cur[t].pos \in 0 .. lists[t].n - 1
        /\ cur[t] \in Iterators /\ Loaded(lists[t], cur[t]) /\ cur[t].docid = PivotDoc
        /\ cur[t].docid = lists[t].ids[cur[t].pos]
    BY <1>6, Reading, AlignedLists
  <2>2. c[t] = Increment(cur[t])
    BY <2>1
  <2> HIDE DEF T, c
  <2>3. c[t] \in Iterators /\ c[t].pos = cur[t].pos + 1 /\ c[t].accPos = cur[t].accPos
    BY <2>1, <2>2 DEF Increment, Iterators
  <2> QED
    BY <2>1, <2>3 DEF Loaded
<1>9. \A t \in Terms \ T : c[t] = cur[t]
  OBVIOUS
<1> HIDE DEF T, c
<1>10. \A t \in Terms : /\ c[t] \in Iterators /\ c[t].pos \in 0 .. lists[t].n
                        /\ c[t].pos < lists[t].n /\ c[t].pos = c[t].accPos
                              => Loaded(lists[t], c[t])
  <2> SUFFICES ASSUME NEW t \in Terms
               PROVE  /\ c[t] \in Iterators /\ c[t].pos \in 0 .. lists[t].n
                      /\ c[t].pos < lists[t].n /\ c[t].pos = c[t].accPos
                            => Loaded(lists[t], c[t])
    OBVIOUS
  <2>1. CASE t \in T
    BY <2>1, <1>7, <1>8
  <2>2. CASE t \notin T
    BY <2>2, <1>7, <1>9 DEF CursorGood
  <2> QED
    BY <2>1, <2>2
<1>11. Unfinished(lists, c) \subseteq Unfinished(lists, cur)
  <2>1. \A t \in Terms : c[t].pos < lists[t].n => t \in Unfinished(lists, cur)
    BY <1>6, <1>9 DEF Unfinished
  <2> QED
    BY <2>1 DEF Unfinished
<1>12. /\ cur' \in [Terms -> Iterators]
       /\ \A t \in Terms :
             /\ CursorGood(lists[t], cur'[t])
             /\ cur'[t].pos = c[t].pos
             /\ c[t].pos = lists[t].n \/ c[t].pos = c[t].accPos => cur'[t] = c[t]
             /\ c[t].pos < lists[t].n /\ c[t].pos # c[t].accPos
                   => cur'[t].blk = BlockOf(c[t].pos)
       /\ Arranged(plists', Unfinished(lists, cur'), cur')
       /\ Chosen(lists, plists', cur', threshold', heapFull', pivot')
       /\ turn' = 1 - turn
  <2>1. {plists[i] : i \in DOMAIN plists} \subseteq Terms
        /\ Unfinished(lists, c) \subseteq {plists[i] : i \in DOMAIN plists}
    BY <1>5, <1>11 DEF Unfinished
  <2> QED
    BY <2>1, <1>1, <1>4, <1>10, SortSettles
<1>13. \A t \in Unfinished(lists, cur') :
          /\ cur'[t].docid \in Nat /\ cur'[t].docid > PivotDoc
          /\ \A x \in Nat : x >= PivotDoc => SearchReady(lists[t], cur'[t], x)
  <2> SUFFICES ASSUME NEW t \in Unfinished(lists, cur')
               PROVE  /\ cur'[t].docid \in Nat /\ cur'[t].docid > PivotDoc
                      /\ \A x \in Nat : x >= PivotDoc => SearchReady(lists[t], cur'[t], x)
    OBVIOUS
  <2>1. t \in Terms /\ cur'[t].pos < lists[t].n /\ cur'[t].pos = c[t].pos
    BY <1>12 DEF Unfinished
  <2>2. Loaded(lists[t], cur'[t]) /\ cur'[t] \in Iterators /\ cur'[t].pos \in 0 .. lists[t].n - 1
    BY <2>1, <1>7, <1>12 DEF CursorGood
  <2>3. cur'[t].docid \in Nat /\ cur'[t].docid = lists[t].ids[cur'[t].pos]
    BY <2>2 DEF Loaded, Iterators
  <2>4. CASE t \in T
    <3>1. cur'[t].blk = BlockOf(cur'[t].pos) /\ cur'[t].pos = cur[t].pos + 1
      BY <2>1, <2>4, <1>8, <1>12
    <3>2. cur'[t].docid > PivotDoc
      <4>1. /\ cur[t].pos \in 0 .. lists[t].n - 1 /\ cur[t].pos < cur'[t].pos
            /\ lists[t].ids[cur[t].pos] = PivotDoc
        BY <3>1, <2>4, <1>8
      <4>2. lists[t].ids[cur[t].pos] < lists[t].ids[cur'[t].pos]
        BY <4>1, <2>1, <2>2, <1>7 DEF IsPostingsList
      <4> QED
        BY <4>1, <4>2, <2>3, <1>2
    <3>3. BlockOf(cur'[t].pos) \in Nat
      BY <2>1, <2>2, <1>7, PositionInBlock
    <3>4. \A x \in Nat : SearchReady(lists[t], cur'[t], x)
      BY <2>2, <3>1, <3>3 DEF SearchReady, Loaded
    <3> QED
      BY <2>3, <3>2, <3>4
  <2>5. CASE t \notin T
    <3>1. t \in Unfinished(lists, cur) /\ c[t] = cur[t]
      BY <2>1, <2>5, <1>9 DEF Unfinished
    <3>2. cur[t].docid > PivotDoc
      BY <2>5, <3>1, AlignedLists DEF T
    <3>3. cur'[t] = cur[t]
      BY <3>1, <2>1, <1>12, Reading DEF Loaded
    <3>4. SearchReady(lists[t], cur[t], PivotDoc)
      BY <3>1, Placed DEF InLoop, LoopInv
    <3>5. \A x \in Nat : x >= PivotDoc => SearchReady(lists[t], cur[t], x)
      BY <3>4, <2>1, <1>2, <1>7, ReadyLater
    <3> QED
      BY <2>3, <3>2, <3>3, <3>5
  <2> QED
    BY <2>4, <2>5
<1>14. \A t \in Unfinished(lists, cur') : cur'[t].docid >= frontier'
  BY <1>1, <1>2, <1>13
<1>15. ASSUME pivot' # 0
       PROVE  /\ cur'[plists'[pivot']].docid >= PivotDoc
              /\ \A t \in Unfinished(lists, cur') :
                    SearchReady(lists[t], cur'[t], cur'[plists'[pivot']].docid)
  <2>1. plists'[pivot'] \in Unfinished(lists, cur')
    BY <1>12, <1>15 DEF Chosen, Arranged, FirstLists
  <2>2. cur'[plists'[pivot']].docid \in Nat /\ cur'[plists'[pivot']].docid >= PivotDoc
    BY <2>1, <1>2, <1>13
  <2> QED
    BY <2>2, <1>13
<1>16. NoLoss(lists, cur', score, frontier', threshold', heapFull')
  <2> SUFFICES ASSUME NEW d \in Docs, d >= frontier', NEW t \in Terms,
                      PassedIn(lists[t], cur'[t], d)
               PROVE  ~Reaches(score[d], threshold', heapFull')
    BY DEF NoLoss
  <2>1. d \in Nat /\ d > PivotDoc /\ d >= frontier
    BY <1>1, <1>2, NumDocsAssumption DEF Docs
  <2>2. PassedIn(lists[t], cur[t], d)
    <3>1. PICK q \in 0 .. cur'[t].pos - 1 : lists[t].ids[q] = d
      BY DEF PassedIn
    <3>2. CASE t \in T
      <4>1. cur'[t].pos = cur[t].pos + 1 /\ cur[t].pos \in Nat /\ lists[t].ids[cur[t].pos] = PivotDoc
        BY <3>2, <1>8, <1>12
      <4>2. q # cur[t].pos
        BY <4>1, <3>1, <2>1, <1>2
      <4>3. q \in 0 .. cur[t].pos - 1
        BY <4>1, <4>2, <3>1
      <4> QED
        BY <4>3, <3>1 DEF PassedIn
    <3>3. CASE t \notin T
      BY <3>1, <3>3, <1>9, <1>12 DEF PassedIn
    <3> QED
      BY <3>2, <3>3
  <2>3. ~Reaches(score[d], threshold, heapFull)
    BY <2>1, <2>2 DEF InLoop, LoopInv, NoLoss
  <2>4. score[d] \in Nat
    BY ScoreType
  <2> QED
    BY <2>3, <2>4, <1>3, <1>4, HarderReaches
<1>17. \A t \in Terms : cur'[t].pos >= cur[t].pos /\ (t \in T => cur'[t].pos > cur[t].pos)
  <2> SUFFICES ASSUME NEW t \in Terms
               PROVE  cur'[t].pos >= cur[t].pos /\ (t \in T => cur'[t].pos > cur[t].pos)
    OBVIOUS
  <2>1. cur[t].pos \in Nat /\ cur'[t].pos = c[t].pos
    BY <1>7, <1>12
  <2> QED
    BY <2>1, <1>8, <1>9
<1>18. cur'[plists[pivot]].pos > cur[plists[pivot]].pos
  BY <1>6, <1>8, <1>17
<1> QED
  BY <1>3, <1>12, <1>14, <1>15, <1>16, <1>17, <1>18 DEF LoopInv

-----------------------------------------------------------------------------
(* The turns of the loop both engines share.                               *)

\* The invariant holds at first.
LEMMA InitInv == Init => IInv
<1> SUFFICES ASSUME Init PROVE IInv
  OBVIOUS
<1>1. 0 \in 0 .. NumDocs
  BY NumDocsAssumption
<1> QED
  BY <1>1 DEF Init, IInv, AtStart

\* The estimate and the first sorting open the loop.
LEMMA StartKeepsInv == F = 1 /\ IInv /\ Start => IInv'
<1> SUFFICES ASSUME F = 1, IInv, Start PROVE IInv'
  OBVIOUS
<1>1. /\ lists \in Indexes /\ score = [d \in Docs |-> ScoreIn(lists, d)] /\ turn \in {0, 1}
      /\ cur = [t \in Terms |-> Begin] /\ plists = Query
      /\ heap = {} /\ heapFull = FALSE /\ frontier = 0
  BY DEF IInv, AtStart, Start
<1>2. PICK s \in Seeds : threshold' = s /\ SortListById(cur, s, FALSE)
  BY DEF Start
<1>3. /\ pc' = "loop" /\ lists' = lists /\ heap' = {} /\ heapFull' = FALSE
      /\ score' = score /\ frontier' = 0 /\ s \in Nat /\ threshold' = s
  BY <1>1, <1>2, SeedsAssumption DEF Start
<1>4. ASSUME NEW t \in Terms
      PROVE  /\ IsPostingsList(lists[t]) /\ lists[t].n \in Nat
             /\ cur[t] \in Iterators /\ cur[t].pos = 0 /\ cur[t].pos \in 0 .. lists[t].n
             /\ cur[t].pos < lists[t].n => cur[t].pos # cur[t].accPos
  <2>1. IsPostingsList(lists[t]) /\ lists[t].n \in Nat /\ lists[t].n < MaxSize - 1
        /\ MaxSize \in Nat \ {0}
    BY <1>1, ListsAreGood, MaxSizeAssumption DEF GoodList, IsPostingsList
  <2>2. cur[t] = Begin
    BY <1>1
  <2>3. Begin \in Iterators /\ Begin.pos = 0 /\ Begin.accPos = MaxSize - 1
    BY <2>1 DEF Begin, Iterators
  <2> QED
    BY <2>1, <2>2, <2>3
<1>5. {plists[i] : i \in DOMAIN plists} = Terms /\ Unfinished(lists, cur) \subseteq Terms
  BY <1>1 DEF Terms, Unfinished
<1>6. /\ cur' \in [Terms -> Iterators]
      /\ \A t \in Terms :
            /\ CursorGood(lists[t], cur'[t])
            /\ cur'[t].pos = cur[t].pos
            /\ cur[t].pos < lists[t].n /\ cur[t].pos # cur[t].accPos
                  => cur'[t].blk = BlockOf(cur[t].pos)
      /\ Arranged(plists', Unfinished(lists, cur'), cur')
      /\ Chosen(lists, plists', cur', s, FALSE, pivot')
      /\ turn' = 1 - turn
  <2>1. \A t \in Terms : /\ cur[t] \in Iterators /\ cur[t].pos \in 0 .. lists[t].n
                         /\ cur[t].pos < lists[t].n /\ cur[t].pos = cur[t].accPos
                               => Loaded(lists[t], cur[t])
    BY <1>4
  <2>2. {plists[i] : i \in DOMAIN plists} \subseteq Terms
        /\ Unfinished(lists, cur) \subseteq {plists[i] : i \in DOMAIN plists}
    BY <1>5
  <2>3. lists \in Indexes /\ s \in Nat /\ SortListById(cur, s, FALSE)
    BY <1>1, <1>2, <1>3
  <2> QED
    BY <2>1, <2>2, <2>3, SortSettles
<1>7. ASSUME NEW t \in Unfinished(lists, cur')
      PROVE  cur'[t].docid \in Nat /\ \A x \in Nat : SearchReady(lists[t], cur'[t], x)
  <2>1. t \in Terms /\ cur'[t].pos < lists[t].n /\ cur'[t] \in Iterators
    BY <1>6 DEF Unfinished
  <2>2. Loaded(lists[t], cur'[t]) /\ cur'[t].pos \in 0 .. lists[t].n - 1
    BY <2>1, <1>4, <1>6 DEF CursorGood
  <2>3. cur'[t].blk = BlockOf(cur'[t].pos) /\ BlockOf(cur'[t].pos) \in Nat
    BY <2>1, <2>2, <1>4, <1>6, PositionInBlock
  <2> QED
    BY <2>1, <2>2, <2>3 DEF Loaded, SearchReady, Iterators
<1>8. ASSUME pivot' # 0, NEW t \in Unfinished(lists, cur')
      PROVE  SearchReady(lists[t], cur'[t], cur'[plists'[pivot']].docid)
  <2>1. plists'[pivot'] \in Unfinished(lists, cur')
    BY <1>6, <1>8 DEF Chosen, Arranged, FirstLists
  <2> QED
    BY <2>1, <1>7
<1>9. \A t \in Terms : \A d : ~PassedIn(lists[t], cur'[t], d)
  BY <1>4, <1>6 DEF PassedIn
<1>10. HeapGood({}, FALSE, s, score, 0)
  BY <1>3, FS_EmptySet, KAssumption DEF HeapGood, IsHeap, IsFull
<1>11. \A t \in Unfinished(lists, cur') : cur'[t].docid >= 0
  BY <1>7
<1>12. LoopInv(lists, score, 0, plists', cur', {}, FALSE, s, pivot')
  BY <1>6, <1>8, <1>9, <1>10, <1>11 DEF LoopInv, NoLoss
<1>13. InLoop'
  BY <1>3, <1>12 DEF InLoop
<1> QED
  BY <1>1, <1>3, <1>6, <1>13, NumDocsAssumption DEF IInv

\* A turn of the loop: the invariant holds again, the pivot has not moved back
\* and neither has a list, and some list has moved on.
Advances ==
    /\ LoopInv(lists, score, frontier', plists', cur', heap', heapFull', threshold', pivot')
    /\ pivot' # 0 => cur'[plists'[pivot']].docid >= PivotDoc
    /\ \A t \in Terms : cur'[t].pos >= cur[t].pos
    /\ \E t \in Terms : cur'[t].pos > cur[t].pos
    /\ turn' = 1 - turn

\* A turn that scores no document.
PassesOver ==
    /\ pc = "loop" /\ pivot # 0 /\ Advances
    /\ UNCHANGED <<lists, heap, heapFull, threshold, pc, res, score, frontier>>

\* A turn that scores the next document that may matter.
ScoresNext ==
    /\ pc = "loop" /\ pivot # 0 /\ Advances /\ Aligned
    /\ heap' = HeapAfter(heap, threshold, [doc |-> PivotDoc, score |-> score[PivotDoc]])
    /\ heapFull' = IsFull(heap') /\ threshold' = ThresholdAfter(heap', threshold)
    /\ frontier' = PivotDoc + 1
    /\ UNCHANGED <<lists, pc, res, score>>

Turn == PassesOver \/ ScoresNext

\* A turn keeps the invariant.
LEMMA TurnKeepsInv == IInv /\ Turn => IInv'
<1> SUFFICES ASSUME IInv, Turn PROVE IInv'
  OBVIOUS
<1>1. /\ pc = "loop" /\ pivot # 0 /\ Advances /\ pc' = "loop" /\ lists' = lists /\ score' = score
      /\ lists \in Indexes /\ score = [d \in Docs |-> ScoreIn(lists, d)]
      /\ frontier \in 0 .. NumDocs /\ turn \in {0, 1} /\ InLoop
  BY DEF Turn, PassesOver, ScoresNext, IInv
<1>2. frontier' \in 0 .. NumDocs
  <2>1. CASE PassesOver
    BY <2>1, <1>1 DEF PassesOver
  <2>2. CASE ScoresNext
    <3>1. frontier' = PivotDoc + 1 /\ PivotDoc \in Docs
      BY <2>2, <1>1, Placed DEF ScoresNext
    <3> QED
      BY <3>1, NumDocsAssumption DEF Docs
  <2> QED
    BY <2>1, <2>2 DEF Turn
<1>3. InLoop'
  BY <1>1 DEF Advances, InLoop
<1> QED
  BY <1>1, <1>2, <1>3 DEF Advances, IInv

\* find_shortest: the list it chooses is not at the pivot, unless all are.
LEMMA ShortestFound ==
    ASSUME lists \in Indexes, InLoop, pivot # 0, NEW hi \in 1 .. pivot
    PROVE  LET i == FindShortest(hi, PivotDoc)
           IN  /\ i \in 1 .. hi
               /\ \/ cur[plists[i]].docid # PivotDoc
                  \/ \A j \in 1 .. hi : cur[plists[j]].docid = PivotDoc
<1> DEFINE C == {i \in 1 .. hi : DocId(plists[i]) # PivotDoc}
           Rest(i) == Remaining(lists[plists[i]], cur[plists[i]])
           M == {i \in C : \A j \in C : Rest(i) <= Rest(j)}
           R == {Rest(i) : i \in C}
<1>1. /\ pivot \in 1 .. Len(plists) /\ Len(plists) \in Nat
      /\ \A i \in 1 .. Len(plists) : plists[i] \in Unfinished(lists, cur)
  BY Placed
<1>2. \A i \in 1 .. hi : /\ i \in 1 .. Len(plists) /\ DocId(plists[i]) = cur[plists[i]].docid
                        /\ Rest(i) \in Nat
  <2> SUFFICES ASSUME NEW i \in 1 .. hi
               PROVE  /\ i \in 1 .. Len(plists) /\ DocId(plists[i]) = cur[plists[i]].docid
                      /\ Rest(i) \in Nat
    OBVIOUS
  <2>1. i \in 1 .. Len(plists)
    BY <1>1
  <2>2. /\ lists[plists[i]].n \in Nat /\ cur[plists[i]].pos \in 0 .. lists[plists[i]].n - 1
        /\ DocId(plists[i]) = cur[plists[i]].docid
    BY <2>1, <1>1, Reading
  <2> QED
    BY <2>1, <2>2 DEF Remaining
<1>3. FindShortest(hi, PivotDoc) = IF C = {} THEN 1 ELSE Least(M)
  BY DEF FindShortest
<1> HIDE DEF Rest
<1>4. CASE C = {}
  BY <1>1, <1>2, <1>3, <1>4
<1>5. CASE C # {}
  <2>1. R \in SUBSET Nat /\ R # {}
    BY <1>2, <1>5
  <2>2. PICK r \in R : \A y \in R : r <= y
    BY <2>1, LeastExists
  <2>3. PICK i \in C : r = Rest(i)
    BY <2>2
  <2>4. i \in M
    BY <2>2, <2>3
  <2>5. M \in SUBSET Nat /\ M # {}
    BY <2>4, <1>1
  <2> HIDE DEF M
  <2>6. Least(M) \in M
    BY <2>5, LeastInSet
  <2>7. Least(M) \in C
    BY <2>6 DEF M
  <2> QED
    BY <2>7, <1>2, <1>3, <1>5
<1> QED
  BY <1>4, <1>5

\* The pivot is not reached yet: the shortest list before it skips to it.
LEMMA ForwardAdvances ==
    ASSUME F = 1, IInv, pc = "loop", pivot # 0, ~Aligned, NEW c,
           \A i \in 1 .. pivot : SkipReady(i, PivotDoc, c),
           SkipShortest(FindShortest(pivot - 1, PivotDoc), PivotDoc, c),
           UNCHANGED <<lists, heap, heapFull, threshold, pc, res, score, frontier>>
    PROVE  PassesOver
<1> DEFINE i == FindShortest(pivot - 1, PivotDoc)
<1>1. /\ lists \in Indexes /\ score = [d \in Docs |-> ScoreIn(lists, d)] /\ InLoop
      /\ frontier \in Nat
  BY NumDocsAssumption DEF IInv
<1>2. /\ pivot \in 1 .. Len(plists) /\ Len(plists) \in Nat /\ PivotDoc \in Nat
      /\ PivotDoc = cur[plists[pivot]].docid
      /\ \A j \in 1 .. Len(plists) : plists[j] \in Unfinished(lists, cur)
      /\ \A a, b \in 1 .. Len(plists) : a < b => cur[plists[a]].docid <= cur[plists[b]].docid
  BY <1>1, Placed
<1>3. cur[plists[1]].docid # PivotDoc /\ pivot # 1
  <2>1. 1 \in 1 .. Len(plists)
    BY <1>2
  <2>2. DocId(plists[1]) = cur[plists[1]].docid
    BY <2>1, <1>1, <1>2, Reading
  <2> QED
    BY <2>2, <1>2 DEF Aligned, PivotDoc
<1>4. pivot - 1 \in 1 .. pivot /\ 1 \in 1 .. pivot - 1
  BY <1>2, <1>3
<1>5. i \in 1 .. pivot - 1 /\ cur[plists[i]].docid # PivotDoc
  BY <1>1, <1>3, <1>4, ShortestFound
<1> HIDE DEF i
<1>6. i \in 1 .. Len(plists) /\ i < pivot /\ i \in 1 .. pivot
  BY <1>2, <1>5
<1>7. plists[i] \in Unfinished(lists, cur) /\ plists[i] \in Terms /\ cur[plists[i]].docid \in Nat
  BY <1>1, <1>2, <1>6, Reading
<1>8. cur[plists[i]].docid < PivotDoc
  <2>1. cur[plists[i]].docid <= PivotDoc
    BY <1>2, <1>6
  <2> QED
    BY <2>1, <1>2, <1>5, <1>7
<1>9. SkipReady(i, PivotDoc, c) /\ SkipShortest(i, PivotDoc, c)
  BY <1>6 DEF i
<1>10. \A d \in Docs : \A q \in 0 .. lists[plists[i]].n - 1 :
          /\ d >= frontier /\ d < PivotDoc /\ lists[plists[i]].ids[q] = d
          /\ \A t \in Terms : ~PassedIn(lists[t], cur[t], d)
          => ~Reaches(score[d], threshold, heapFull)
  BY <1>1, <1>7, Worthless
<1>11. /\ LoopInv(lists, score, frontier, plists', cur', heap, heapFull, threshold, pivot')
       /\ pivot' # 0 => cur'[plists'[pivot']].docid >= PivotDoc
       /\ \A t \in Terms : cur'[t].pos >= cur[t].pos
       /\ cur'[plists[i]].pos > cur[plists[i]].pos
       /\ turn' = 1 - turn
  BY <1>1, <1>8, <1>9, <1>10, SkipKeeps
<1>12. Advances
  BY <1>7, <1>11 DEF Advances
<1> QED
  BY <1>12 DEF PassesOver

\* The document is reached: it is scored.
LEMMA EvaluateAdvances ==
    ASSUME F = 1, IInv, pc = "loop", pivot # 0, Aligned, NEW potential, NEW bound,
           potential = SumFunctionOnSet(bound, FirstLists(plists, pivot)),
           \A t \in FirstLists(plists, pivot) :
              bound[t] \in Nat /\ lists[t].w[cur[t].pos] <= bound[t],
           Evaluate(potential, bound)
    PROVE  ScoresNext
<1>1. /\ lists \in Indexes /\ score = [d \in Docs |-> ScoreIn(lists, d)] /\ InLoop
      /\ frontier \in Nat
  BY NumDocsAssumption DEF IInv
<1>2. plists[pivot] \in Terms
  BY <1>1, Placed, Reading
<1>3. Advances
  BY <1>1, <1>2, EvaluateKeeps DEF Advances
<1>4. /\ heap' = HeapAfter(heap, threshold, [doc |-> PivotDoc, score |-> score[PivotDoc]])
      /\ heapFull' = IsFull(heap') /\ threshold' = ThresholdAfter(heap', threshold)
      /\ frontier' = PivotDoc + 1
      /\ UNCHANGED <<lists, pc, res, score>>
  BY <1>1, EvaluateOffers
<1> QED
  BY <1>3, <1>4 DEF ScoresNext

-----------------------------------------------------------------------------
(* The end, and the step.                                                  *)

\* TypeOK follows from the invariant.
LEMMA InvType == IInv => TypeOK
<1> SUFFICES ASSUME IInv PROVE TypeOK
  OBVIOUS
<1>1. /\ lists \in Indexes /\ score = [d \in Docs |-> ScoreIn(lists, d)]
      /\ frontier \in 0 .. NumDocs /\ turn \in {0, 1} /\ pc \in {"start", "loop", "done"}
  BY DEF IInv
<1>2. \A t \in Terms : IsPostingsList(lists[t]) /\ lists[t].n \in Nat
  BY <1>1, ListsAreGood DEF GoodList, IsPostingsList
<1>3. Len(Query) \in Nat /\ Query \in [1 .. Len(Query) -> Terms] /\ Len(Query) \in 0 .. Len(Query)
  BY TermsFinite
<1>4. CASE pc = "start"
  <2>1. AtStart
    BY <1>4 DEF IInv
  <2>2. \A t \in Terms : cur[t].pos \in 0 .. lists[t].n
    BY <2>1, <1>2 DEF AtStart, Begin
  <2>3. plists \in UNION {[1 .. n -> Terms] : n \in 0 .. Len(Query)}
    BY <2>1, <1>3 DEF AtStart
  <2>4. Cardinality({}) <= K
    BY FS_EmptySet, KAssumption
  <2> QED
    BY <2>1, <2>2, <2>3, <2>4, <1>1, <1>2 DEF AtStart, TypeOK
<1>5. CASE pc = "loop"
  <2>1. InLoop
    BY <1>5 DEF IInv
  <2>2. \A t \in Terms : cur[t].pos \in 0 .. lists[t].n
    BY <2>1 DEF InLoop, LoopInv, CursorGood
  <2>3. plists \in UNION {[1 .. n -> Terms] : n \in 0 .. Len(Query)}
    <3>1. /\ Len(plists) \in Nat /\ plists \in [1 .. Len(plists) -> Terms]
          /\ \A i, j \in 1 .. Len(plists) : i < j => plists[i] # plists[j]
      BY <1>1, <2>1, Placed
    <3>2. plists \in Injection(1 .. Len(plists), Terms)
      <4>1. \A i, j \in 1 .. Len(plists) : plists[i] = plists[j] => i = j
        <5> SUFFICES ASSUME NEW i \in 1 .. Len(plists), NEW j \in 1 .. Len(plists), i # j
                     PROVE  plists[i] # plists[j]
          OBVIOUS
        <5>1. i < j \/ j < i
          BY <3>1
        <5> QED
          BY <5>1, <3>1
      <4> QED
        BY <4>1, <3>1 DEF Injection, IsInjective
    <3>3. Len(plists) <= Cardinality(Terms)
      <4>1. Cardinality(1 .. Len(plists)) = Len(plists)
        BY <3>1, FS_Interval
      <4>2. Cardinality(1 .. Len(plists)) <= Cardinality(Terms)
        BY <3>2, TermsFinite, FS_Injection
      <4> QED
        BY <4>1, <4>2
    <3>4. Len(plists) \in 0 .. Len(Query)
      BY <3>1, <3>3, TermsFinite
    <3> QED
      BY <3>1, <3>4
  <2>4. HeapGood(heap, heapFull, threshold, score, frontier)
    BY <2>1 DEF InLoop, LoopInv
  <2> QED
    BY <2>2, <2>3, <2>4, <1>1, <1>2 DEF HeapGood, IsFull, TypeOK
<1>6. CASE pc = "done"
  BY <1>6 DEF IInv
<1> QED
  BY <1>1, <1>4, <1>5, <1>6

\* So does the end of the loop,
LEMMA FinishKeepsInv == IInv /\ Finish => IInv'
<1> SUFFICES ASSUME IInv, Finish PROVE IInv'
  OBVIOUS
<1>1. TypeOK
  BY InvType
<1>2. /\ pc' = "done" /\ heap' = {} /\ turn' = 1 - turn
      /\ UNCHANGED <<lists, cur, plists, heapFull, threshold, pivot, score, frontier>>
  BY DEF Finish
<1>3. Cardinality({}) <= K
  BY FS_EmptySet, KAssumption
<1>4. turn' \in {0, 1}
  BY <1>1, <1>2 DEF TypeOK
<1>5. TypeOK'
  BY <1>1, <1>2, <1>3, <1>4 DEF TypeOK
<1> QED
  BY <1>2, <1>4, <1>5 DEF IInv

\* and a stutter.
LEMMA StaysInv == IInv /\ UNCHANGED vars => IInv'
<1> SUFFICES ASSUME IInv, UNCHANGED vars PROVE IInv'
  OBVIOUS
<1>1. /\ lists' = lists /\ cur' = cur /\ plists' = plists /\ heap' = heap
      /\ heapFull' = heapFull /\ threshold' = threshold /\ pivot' = pivot /\ pc' = pc
      /\ res' = res /\ score' = score /\ frontier' = frontier /\ turn' = turn
  BY DEF vars
<1>2. InLoop => InLoop'
  BY <1>1 DEF InLoop
<1>3. AtStart => AtStart'
  BY <1>1 DEF AtStart
<1>4. TypeOK => TypeOK'
  BY <1>1 DEF TypeOK
<1> QED
  BY <1>1, <1>2, <1>3, <1>4 DEF IInv

\* What every step of an engine is.
Outline == Start \/ Turn \/ Finish \/ UNCHANGED vars

\* Every step that fits the outline keeps the invariant.
LEMMA OutlineKeepsInv == F = 1 /\ IInv /\ Outline => IInv'
BY StartKeepsInv, TurnKeepsInv, FinishKeepsInv, StaysInv DEF Outline

\* The WAND engine.
LEMMA WandOutline == F = 1 /\ IInv /\ [Next]_vars => Outline
<1> SUFFICES ASSUME F = 1, IInv, [Next]_vars PROVE Outline
  OBVIOUS
<1>1. CASE EvaluatePivot
  <2> DEFINE m == [t \in Terms |-> lists[t].max]
  <2>1. /\ pc = "loop" /\ pivot # 0 /\ Aligned
        /\ Evaluate(SumFunctionOnSet(m, FirstLists(plists, pivot)), m)
    BY <1>1 DEF EvaluatePivot, UpperBound
  <2>2. \A t \in FirstLists(plists, pivot) : m[t] \in Nat /\ lists[t].w[cur[t].pos] <= m[t]
    <3> SUFFICES ASSUME NEW t \in FirstLists(plists, pivot)
                 PROVE  m[t] \in Nat /\ lists[t].w[cur[t].pos] <= m[t]
      OBVIOUS
    <3>1. lists \in Indexes /\ InLoop
      BY <2>1 DEF IInv
    <3>2. t \in Unfinished(lists, cur)
      <4>1. pivot \in 1 .. Len(plists) /\ Len(plists) \in Nat
        BY <2>1, <3>1, Placed
      <4>2. \A i \in 1 .. pivot : i \in 1 .. Len(plists)
        BY <4>1
      <4> QED
        BY <4>2, <3>1, Placed DEF FirstLists
    <3>3. t \in Terms /\ GoodList(lists[t]) /\ cur[t].pos \in 0 .. lists[t].n - 1
      BY <3>1, <3>2, Reading
    <3> QED
      BY <3>3 DEF GoodList
  <2> HIDE DEF m
  <2>3. ScoresNext
    BY <2>1, <2>2, EvaluateAdvances
  <2> QED
    BY <2>3 DEF Outline, Turn
<1>2. CASE ForwardLists
  <2>1. /\ pc = "loop" /\ pivot # 0 /\ ~Aligned
        /\ SkipShortest(FindShortest(pivot - 1, PivotDoc), PivotDoc, cur)
        /\ UNCHANGED <<lists, heap, heapFull, threshold, pc, res, score, frontier>>
    BY <1>2 DEF ForwardLists
  <2>2. lists \in Indexes /\ InLoop
    BY <2>1 DEF IInv
  <2>3. PivotDoc \in Nat /\ cur \in [Terms -> Iterators]
    BY <2>1, <2>2, Placed DEF InLoop, LoopInv
  <2>4. \A i \in 1 .. pivot : SkipReady(i, PivotDoc, cur)
    BY <2>3 DEF SkipReady
  <2>5. PassesOver
    BY <2>1, <2>4, ForwardAdvances
  <2> QED
    BY <2>5 DEF Outline, Turn
<1> QED
  BY <1>1, <1>2 DEF Next, Step, Terminated, Outline

-----------------------------------------------------------------------------
(* The blocks around the pivot.                                            *)

\* A posting at id or later that lies no further than the end of the block a
\* search finds for id lies in that block.
LEMMA InFoundBlock ==
    ASSUME NEW l, IsPostingsList(l), NEW j, NEW id \in Nat, SearchReady(l, j, id),
           NEW q \in j.pos .. l.n - 1, l.ids[q] >= id
    PROVE  LET f == FindBlock(l, id, j.blk)
           IN  /\ f \in 0 .. NumBlocks(l) - 1 /\ BlockRep(l, f) >= id
               /\ l.ids[q] <= BlockRep(l, f) => BlockOf(q) = f
<1> DEFINE f == FindBlock(l, id, j.blk)  b == BlockOf(q)  e == BlockEnd(l, f) - 1
<1>1. /\ j.pos \in 0 .. l.n - 1 /\ l.n \in Nat /\ q \in 0 .. l.n - 1
      /\ j.blk \in BlockOf(j.pos) .. NumBlocks(l)
  BY DEF SearchReady, IsPostingsList
<1>2. /\ NumBlocks(l) \in Nat /\ b \in 0 .. NumBlocks(l) - 1 /\ BlockOf(j.pos) \in Nat
      /\ q \in BlockPositions(l, b)
  BY <1>1, PositionInBlock
<1>3. j.blk \in Nat /\ j.blk <= NumBlocks(l)
  BY <1>1, <1>2
<1>4. f \in Nat /\ (f < NumBlocks(l) => BlockRep(l, f) >= id)
  BY <1>2, <1>3, FindBlockFinds
<1>5. ~(b < f)
  <2>1. SUFFICES ASSUME b < f PROVE FALSE
    OBVIOUS
  <2>2. l.ids[q] < id
    BY <2>1, PassedBlocks
  <2>3. l.ids[q] \in Nat
    BY <1>1 DEF IsPostingsList
  <2> QED
    BY <2>2, <2>3
<1>6. f \in 0 .. NumBlocks(l) - 1 /\ BlockRep(l, f) >= id
  BY <1>2, <1>4, <1>5
<1>7. ASSUME l.ids[q] <= BlockRep(l, f) PROVE b = f
  <2>1. SUFFICES ASSUME f < b PROVE FALSE
    BY <1>2, <1>5, <1>6
  <2>2. /\ e \in BlockPositions(l, f) /\ e \in 0 .. l.n - 1 /\ BlockOf(e) = f
        /\ BlockRep(l, f) = l.ids[e]
    BY <1>6, BlockMembers DEF BlockRep
  <2> HIDE DEF b, e, f
  <2>3. e < q
    <3>1. SUFFICES ASSUME q <= e PROVE FALSE
      BY <1>1, <2>2
    <3>2. BlockOf(q) <= BlockOf(e)
      BY <3>1, <1>1, <2>2, DivMono, BlockSizeAssumption DEF BlockOf
    <3> QED
      BY <3>2, <2>1, <2>2, <1>2, <1>6 DEF b
  <2>4. l.ids[e] < l.ids[q]
    BY <2>2, <2>3, <1>1 DEF IsPostingsList
  <2>5. l.ids[e] \in Nat /\ l.ids[q] \in Nat
    BY <2>2, <1>1 DEF IsPostingsList
  <2> QED
    BY <2>2, <2>4, <2>5, <1>7
<1> QED
  BY <1>6, <1>7

\* The lists up to the pivot, and their blocks.
LEMMA BlockFacts ==
    ASSUME lists \in Indexes, InLoop, pivot # 0, NEW t \in FirstLists(plists, pivot)
    PROVE  /\ t \in Unfinished(lists, cur) /\ t \in Terms /\ cur[t].docid <= PivotDoc
           /\ SearchReady(lists[t], cur[t], PivotDoc)
           /\ BlockAt(t, PivotDoc) \in Nat /\ NumBlocks(lists[t]) \in Nat
           /\ BlockAt(t, PivotDoc) < NumBlocks(lists[t]) =>
                 /\ BlockAt(t, PivotDoc) \in 0 .. NumBlocks(lists[t]) - 1
                 /\ lists[t].bmax[BlockAt(t, PivotDoc)] \in Nat
                 /\ BlockRep(lists[t], BlockAt(t, PivotDoc)) \in Nat
                 /\ BlockRep(lists[t], BlockAt(t, PivotDoc)) >= PivotDoc
<1>1. PICK i \in 1 .. pivot : t = plists[i]
  BY DEF FirstLists
<1>2. /\ pivot \in 1 .. Len(plists) /\ Len(plists) \in Nat /\ PivotDoc \in Nat
      /\ PivotDoc = cur[plists[pivot]].docid
  BY Placed
<1>3. i \in 1 .. Len(plists) /\ (i < pivot \/ i = pivot)
  BY <1>2
<1>4. t \in Unfinished(lists, cur) /\ (i < pivot => cur[t].docid <= PivotDoc)
  BY <1>1, <1>2, <1>3, Placed
<1>5. /\ t \in Terms /\ IsPostingsList(lists[t]) /\ GoodList(lists[t]) /\ lists[t].n \in Nat
      /\ cur[t].pos \in 0 .. lists[t].n - 1 /\ cur[t].docid \in Nat
  BY <1>4, Reading
<1>6. SearchReady(lists[t], cur[t], PivotDoc)
  BY <1>2, <1>4 DEF InLoop, LoopInv
<1>7. /\ NumBlocks(lists[t]) \in Nat /\ cur[t].blk \in Nat /\ cur[t].blk <= NumBlocks(lists[t])
  <2>1. NumBlocks(lists[t]) \in Nat /\ BlockOf(cur[t].pos) \in Nat
    BY <1>5, PositionInBlock
  <2> QED
    BY <2>1, <1>6 DEF SearchReady
<1>8. /\ BlockAt(t, PivotDoc) \in Nat
      /\ BlockAt(t, PivotDoc) < NumBlocks(lists[t])
            => BlockRep(lists[t], BlockAt(t, PivotDoc)) >= PivotDoc
  BY <1>2, <1>5, <1>7, FindBlockFinds DEF BlockAt
<1>9. ASSUME BlockAt(t, PivotDoc) < NumBlocks(lists[t])
      PROVE  /\ BlockAt(t, PivotDoc) \in 0 .. NumBlocks(lists[t]) - 1
             /\ lists[t].bmax[BlockAt(t, PivotDoc)] \in Nat
             /\ BlockRep(lists[t], BlockAt(t, PivotDoc)) \in Nat
  <2>1. BlockAt(t, PivotDoc) \in 0 .. NumBlocks(lists[t]) - 1
    BY <1>7, <1>8, <1>9
  <2> QED
    BY <2>1, <1>5, BlockMembers DEF GoodList
<1>10. cur[t].docid <= PivotDoc
  BY <1>1, <1>2, <1>3, <1>4, <1>5
<1> QED
  BY <1>4, <1>5, <1>6, <1>7, <1>8, <1>9, <1>10

\* The block of a posting that is still to come, at the pivot or later.
LEMMA BlockCovers ==
    ASSUME lists \in Indexes, InLoop, pivot # 0, NEW t \in FirstLists(plists, pivot),
           NEW q \in cur[t].pos .. lists[t].n - 1, lists[t].ids[q] >= PivotDoc
    PROVE  /\ BlockAt(t, PivotDoc) < NumBlocks(lists[t])
           /\ lists[t].ids[q] = PivotDoc \/ lists[t].ids[q] <= BlockRep(lists[t], BlockAt(t, PivotDoc))
                 => /\ BlockOf(q) = BlockAt(t, PivotDoc)
                    /\ lists[t].w[q] <= lists[t].bmax[BlockAt(t, PivotDoc)]
<1> DEFINE l == lists[t]  f == BlockAt(t, PivotDoc)
<1>1. /\ t \in Unfinished(lists, cur) /\ SearchReady(l, cur[t], PivotDoc) /\ PivotDoc \in Nat
      /\ f \in Nat /\ NumBlocks(l) \in Nat
  BY BlockFacts, Placed
<1>2. IsPostingsList(l) /\ GoodList(l) /\ l.n \in Nat /\ cur[t].pos \in 0 .. l.n - 1
  BY <1>1, Reading
<1>3. /\ f \in 0 .. NumBlocks(l) - 1 /\ BlockRep(l, f) >= PivotDoc
      /\ l.ids[q] <= BlockRep(l, f) => BlockOf(q) = f
  BY <1>1, <1>2, InFoundBlock DEF BlockAt
<1> HIDE DEF l, f
<1>4. ASSUME l.ids[q] = PivotDoc \/ l.ids[q] <= BlockRep(l, f)
      PROVE  BlockOf(q) = f /\ l.w[q] <= l.bmax[f]
  <2>1. l.ids[q] <= BlockRep(l, f)
    <3>1. BlockRep(l, f) \in Nat
      BY <1>2, <1>3, BlockMembers
    <3> QED
      BY <3>1, <1>1, <1>3, <1>4
  <2>2. BlockOf(q) = f
    BY <2>1, <1>3
  <2>3. q \in 0 .. l.n - 1
    BY <1>2 DEF l
  <2>4. q \in BlockPositions(l, f)
    BY <2>2, <2>3, <1>2, PositionInBlock
  <2> QED
    BY <2>2, <2>4, <1>2, <1>3 DEF GoodList
<1> QED
  BY <1>1, <1>3, <1>4 DEF l, f

\* The pivot list's own pointer is at the block of the pivot.
LEMMA PivotBlock ==
    ASSUME lists \in Indexes, InLoop, pivot # 0
    PROVE  LET t == plists[pivot]
           IN  /\ t \in FirstLists(plists, pivot)
               /\ cur[t].blk = BlockOf(cur[t].pos)
               /\ BlockAt(t, PivotDoc) = cur[t].blk
               /\ BlockAt(t, PivotDoc) < NumBlocks(lists[t])
<1> DEFINE t == plists[pivot]
<1>1. /\ pivot \in 1 .. Len(plists) /\ Len(plists) \in Nat /\ t \in Unfinished(lists, cur)
      /\ PivotDoc = cur[t].docid /\ PivotDoc \in Nat
  BY Placed
<1>2. t \in FirstLists(plists, pivot)
  <2>1. pivot \in 1 .. pivot
    BY <1>1
  <2> QED
    BY <2>1 DEF FirstLists
<1>3. /\ IsPostingsList(lists[t]) /\ lists[t].n \in Nat /\ cur[t].pos \in 0 .. lists[t].n - 1
      /\ lists[t].ids[cur[t].pos] = PivotDoc
  BY <1>1, Reading
<1> HIDE DEF t
<1>4. SearchReady(lists[t], cur[t], PivotDoc)
  BY <1>2, BlockFacts
<1>5. cur[t].blk = BlockOf(cur[t].pos)
  BY <1>1, <1>3, <1>4, BlockExact
<1>6. cur[t].pos \in cur[t].pos .. lists[t].n - 1 /\ lists[t].ids[cur[t].pos] >= PivotDoc
  BY <1>1, <1>3
<1>7. BlockAt(t, PivotDoc) < NumBlocks(lists[t]) /\ BlockOf(cur[t].pos) = BlockAt(t, PivotDoc)
  BY <1>2, <1>3, <1>6, BlockCovers
<1> QED
  BY <1>2, <1>5, <1>7 DEF t

\* The bound of the candidate test adds up one bound of each list up to the
\* pivot.
Gaps == [Beyond(Before, PivotDoc) -> MaxBeyond]

Bounds(g) == [t \in FirstLists(plists, pivot) |-> BlockBound(t, PivotDoc, g)]

\* The upper bound of the second test is the sum of the maxima of the blocks the pivot's
\* document would be in.
LEMMA BoundsAdd ==
    ASSUME MaxBeyond \subseteq Nat, lists \in Indexes, InLoop, pivot # 0, NEW g \in Gaps
    PROVE  /\ \A t \in FirstLists(plists, pivot) :
                 /\ Bounds(g)[t] \in Nat
                 /\ BlockAt(t, PivotDoc) < NumBlocks(lists[t])
                       => Bounds(g)[t] = lists[t].bmax[BlockAt(t, PivotDoc)]
           /\ BlockUpperBound(g) = SumFunctionOnSet(Bounds(g), FirstLists(plists, pivot))
           /\ BlockUpperBound(g) \in Nat
<1> DEFINE A == FirstLists(plists, pivot)  pl == plists[pivot]
           B == [t \in Before |-> BlockBound(t, PivotDoc, g)]
<1>1. /\ pivot \in 1 .. Len(plists) /\ Len(plists) \in Nat
      /\ \A i, j \in 1 .. Len(plists) : i < j => plists[i] # plists[j]
  BY Placed
<1>2. pl \in A /\ BlockAt(pl, PivotDoc) = cur[pl].blk /\ BlockAt(pl, PivotDoc) < NumBlocks(lists[pl])
  BY PivotBlock
<1>3. Before = A \ {pl}
  <2>1. \A i \in 1 .. pivot : i \in 1 .. pivot - 1 \/ i = pivot
    BY <1>1
  <2>2. \A i \in 1 .. pivot - 1 : i \in 1 .. pivot /\ plists[i] # pl
    <3> SUFFICES ASSUME NEW i \in 1 .. pivot - 1 PROVE i \in 1 .. pivot /\ plists[i] # pl
      OBVIOUS
    <3>1. i \in 1 .. Len(plists) /\ i < pivot
      BY <1>1
    <3> QED
      BY <3>1, <1>1
  <2> QED
    BY <2>1, <2>2 DEF Before, FirstLists
<1>4. DOMAIN g = {t \in Before : BlockAt(t, PivotDoc) >= NumBlocks(lists[t])}
      /\ \A t \in DOMAIN g : g[t] \in Nat
  BY DEF Gaps, Beyond
<1>5. ASSUME NEW t \in A
      PROVE  /\ BlockBound(t, PivotDoc, g) \in Nat
             /\ BlockAt(t, PivotDoc) < NumBlocks(lists[t])
                   => BlockBound(t, PivotDoc, g) = lists[t].bmax[BlockAt(t, PivotDoc)]
  <2>1. /\ BlockAt(t, PivotDoc) \in Nat /\ NumBlocks(lists[t]) \in Nat
        /\ BlockAt(t, PivotDoc) < NumBlocks(lists[t])
              => lists[t].bmax[BlockAt(t, PivotDoc)] \in Nat
    BY BlockFacts
  <2>2. CASE t \in DOMAIN g
    BY <2>1, <2>2, <1>4 DEF BlockBound
  <2>3. CASE t \notin DOMAIN g
    <3>1. BlockAt(t, PivotDoc) < NumBlocks(lists[t])
      BY <2>1, <2>3, <1>2, <1>3, <1>4
    <3> QED
      BY <2>1, <2>3, <3>1 DEF BlockBound
  <2> QED
    BY <2>2, <2>3
<1>6. IsFiniteSet(A)
  <2>1. A \in SUBSET Terms
    BY BlockFacts
  <2> QED
    BY <2>1, TermsFinite, FS_Subset
<1>7. \A t \in A : Bounds(g)[t] = BlockBound(t, PivotDoc, g)
  BY DEF Bounds
<1>8. \A t \in Before : B[t] = BlockBound(t, PivotDoc, g)
  OBVIOUS
<1>9. BlockUpperBound(g) = lists[pl].bmax[cur[pl].blk] + SumFunctionOnSet(B, Before)
  BY DEF BlockUpperBound
<1> HIDE DEF A, pl, B
<1>10. SumFunctionOnSet(Bounds(g), A) = Bounds(g)[pl] + SumFunctionOnSet(Bounds(g), A \ {pl})
  BY <1>2, <1>5, <1>6, <1>7, SumTakeOff
<1>11. SumFunctionOnSet(B, Before) = SumFunctionOnSet(Bounds(g), Before)
  <2>1. IsFiniteSet(Before)
    BY <1>3, <1>6, FS_Subset
  <2>2. \A t \in Before : Bounds(g)[t] \in Int /\ B[t] = Bounds(g)[t]
    BY <1>3, <1>5, <1>7, <1>8
  <2> QED
    BY <2>1, <2>2, SumSame
<1>12. Bounds(g)[pl] = lists[pl].bmax[cur[pl].blk]
  BY <1>2, <1>5, <1>7
<1>13. BlockUpperBound(g) = SumFunctionOnSet(Bounds(g), A)
  BY <1>3, <1>9, <1>10, <1>11, <1>12
<1>14. SumFunctionOnSet(Bounds(g), A) \in Nat
  BY <1>5, <1>6, <1>7, SumNat
<1> QED
  BY <1>5, <1>7, <1>13, <1>14 DEF A

\* The list after the pivot is at a later document.
LEMMA AfterPivot ==
    ASSUME lists \in Indexes, InLoop, pivot # 0, pivot < Len(plists)
    PROVE  /\ cur[plists[pivot + 1]].docid \in Nat
           /\ cur[plists[pivot + 1]].docid > PivotDoc
           /\ DocId(plists[pivot + 1]) = cur[plists[pivot + 1]].docid
           /\ \A t \in Unfinished(lists, cur) : t \notin FirstLists(plists, pivot) =>
                 cur[t].docid >= cur[plists[pivot + 1]].docid
<1>1. /\ pivot \in 1 .. Len(plists) /\ Len(plists) \in Nat
      /\ PivotDoc = cur[plists[pivot]].docid /\ PivotDoc \in Nat
      /\ \A i \in 1 .. Len(plists) : plists[i] \in Unfinished(lists, cur)
      /\ \A i, j \in 1 .. Len(plists) : i < j => cur[plists[i]].docid <= cur[plists[j]].docid
      /\ {plists[i] : i \in DOMAIN plists} = Unfinished(lists, cur)
      /\ DOMAIN plists = 1 .. Len(plists)
  BY Placed
<1>2. pivot + 1 \in 1 .. Len(plists)
  BY <1>1
<1>3. /\ cur[plists[pivot + 1]].docid \in Nat
      /\ DocId(plists[pivot + 1]) = cur[plists[pivot + 1]].docid
  BY <1>1, <1>2, Reading
<1>4. cur[plists[pivot + 1]].docid > PivotDoc
  <2>1. cur[plists[pivot]].docid <= cur[plists[pivot + 1]].docid
    BY <1>1, <1>2
  <2>2. cur[plists[pivot + 1]].docid # cur[plists[pivot]].docid
    BY DEF InLoop, LoopInv, Chosen
  <2> QED
    BY <2>1, <2>2, <1>1, <1>3
<1>5. ASSUME NEW t \in Unfinished(lists, cur), t \notin FirstLists(plists, pivot)
      PROVE  cur[t].docid >= cur[plists[pivot + 1]].docid
  <2>1. PICK i \in 1 .. Len(plists) : t = plists[i]
    BY <1>1
  <2>2. ~(i <= pivot)
    BY <2>1, <1>1, <1>5 DEF FirstLists
  <2>3. i = pivot + 1 \/ pivot + 1 < i
    BY <2>2, <1>1
  <2>4. cur[plists[pivot + 1]].docid <= cur[plists[i]].docid
    BY <2>3, <1>1, <1>2, <1>3
  <2> QED
    BY <2>1, <2>4, <1>1, <1>3, Reading
<1> QED
  BY <1>3, <1>4, <1>5

\* A document from the pivot on, in the blocks that were found for the pivot and
\* before the lists after it.
InBlocks(d) ==
    /\ d >= PivotDoc
    /\ \A t \in FirstLists(plists, pivot) : BlockAt(t, PivotDoc) < NumBlocks(lists[t]) =>
          d <= BlockRep(lists[t], BlockAt(t, PivotDoc))
    /\ pivot < Len(plists) => d < cur[plists[pivot + 1]].docid

\* It scores no more than the bound of the candidate test.
LEMMA BlockBoundCovers ==
    ASSUME MaxBeyond \subseteq Nat, lists \in Indexes,
           score = [d \in Docs |-> ScoreIn(lists, d)], InLoop, pivot # 0,
           NEW g \in Gaps, NEW d \in Docs, InBlocks(d),
           \A t \in Terms : ~PassedIn(lists[t], cur[t], d)
    PROVE  score[d] <= BlockUpperBound(g)
<1> DEFINE A == FirstLists(plists, pivot)
<1>1. A \in SUBSET Terms
  BY BlockFacts
<1>2. /\ pivot \in 1 .. Len(plists) /\ Len(plists) \in Nat
      /\ {plists[i] : i \in DOMAIN plists} = Unfinished(lists, cur)
      /\ DOMAIN plists = 1 .. Len(plists) /\ d \in Nat
  BY Placed DEF Docs
<1>3. ASSUME NEW t \in Terms, NEW p \in 0 .. lists[t].n - 1, lists[t].ids[p] = d PROVE t \in A
  <2>1. t \in Unfinished(lists, cur) /\ cur[t].docid <= d
    BY <1>3, HeldAhead
  <2>2. SUFFICES ASSUME t \notin A PROVE FALSE
    OBVIOUS
  <2>3. pivot < Len(plists)
    <3>1. PICK i \in 1 .. Len(plists) : t = plists[i]
      BY <2>1, <1>2
    <3>2. ~(i <= pivot)
      BY <3>1, <2>2, <1>2 DEF FirstLists
    <3> QED
      BY <3>2, <1>2
  <2>4. d < cur[plists[pivot + 1]].docid
    BY <2>3 DEF InBlocks
  <2>5. cur[t].docid >= cur[plists[pivot + 1]].docid /\ cur[plists[pivot + 1]].docid \in Nat
        /\ cur[t].docid \in Nat
    BY <2>1, <2>2, <2>3, AfterPivot, Reading
  <2> QED
    BY <2>1, <2>4, <2>5, <1>2
<1>4. ASSUME NEW t \in A
      PROVE  Bounds(g)[t] \in Nat /\ Weight(lists[t], d, 0) <= Bounds(g)[t]
  <2>1. /\ Bounds(g)[t] \in Nat
        /\ BlockAt(t, PivotDoc) < NumBlocks(lists[t])
              => Bounds(g)[t] = lists[t].bmax[BlockAt(t, PivotDoc)]
    BY BoundsAdd
  <2>2. t \in Terms /\ GoodList(lists[t]) /\ lists[t].n \in Nat
    BY <1>1, ListsAreGood DEF GoodList, IsPostingsList
  <2>3. CASE Weight(lists[t], d, 0) = 0
    BY <2>1, <2>3
  <2>4. CASE Weight(lists[t], d, 0) # 0
    <3>1. PICK p \in 0 .. lists[t].n - 1 : lists[t].ids[p] = d /\ lists[t].w[p] = Weight(lists[t], d, 0)
      BY <2>2, <2>4, WeightType
    <3>2. t \in Unfinished(lists, cur) /\ cur[t].pos <= p
      BY <2>2, <3>1, HeldAhead
    <3>3. p \in cur[t].pos .. lists[t].n - 1 /\ lists[t].ids[p] >= PivotDoc
      BY <2>2, <3>1, <3>2, Reading DEF InBlocks
    <3>4. /\ BlockAt(t, PivotDoc) < NumBlocks(lists[t])
          /\ lists[t].ids[p] <= BlockRep(lists[t], BlockAt(t, PivotDoc))
                => lists[t].w[p] <= lists[t].bmax[BlockAt(t, PivotDoc)]
      BY <3>3, BlockCovers
    <3>5. lists[t].ids[p] <= BlockRep(lists[t], BlockAt(t, PivotDoc))
      BY <3>1, <3>4 DEF InBlocks
    <3> QED
      BY <2>1, <3>1, <3>4, <3>5
  <2> QED
    BY <2>3, <2>4
<1> HIDE DEF A
<1>5. score[d] <= SumFunctionOnSet(Bounds(g), A)
  BY <1>1, <1>3, <1>4, ScoreBelow
<1> QED
  BY <1>5, BoundsAdd DEF A

\* The bound is no less than what is left of the pivot document.
LEMMA BlockBoundLeft ==
    ASSUME MaxBeyond \subseteq Nat, lists \in Indexes, InLoop, pivot # 0, NEW g \in Gaps
    PROVE  ScoreLeft(PivotDoc) <= BlockUpperBound(g)
<1> DEFINE A == FirstLists(plists, pivot)
           f == [t \in Terms |-> Weight(lists[t], PivotDoc, cur[t].pos)]
<1>1. A \in SUBSET Terms
  BY BlockFacts
<1>2. \A t \in Terms : GoodList(lists[t]) /\ lists[t].n \in Nat /\ cur[t].pos \in Nat
                       /\ cur[t].pos \in 0 .. lists[t].n
  BY ListsAreGood DEF InLoop, LoopInv, CursorGood, GoodList, IsPostingsList
<1>3. \A t \in Terms : f[t] \in Nat
  BY <1>2, WeightType
<1>4. \A t \in Terms \ A : f[t] = 0
  BY WeightAfterPivot
<1>5. ASSUME NEW t \in A PROVE Bounds(g)[t] \in Nat /\ f[t] <= Bounds(g)[t]
  <2>1. /\ Bounds(g)[t] \in Nat
        /\ BlockAt(t, PivotDoc) < NumBlocks(lists[t])
              => Bounds(g)[t] = lists[t].bmax[BlockAt(t, PivotDoc)]
    BY BoundsAdd
  <2>2. t \in Terms /\ f[t] = Weight(lists[t], PivotDoc, cur[t].pos)
    BY <1>1
  <2> HIDE DEF f
  <2>3. CASE f[t] = 0
    BY <2>1, <2>3
  <2>4. CASE f[t] # 0
    <3>1. PICK p \in cur[t].pos .. lists[t].n - 1 : lists[t].ids[p] = PivotDoc /\ lists[t].w[p] = f[t]
      BY <1>2, <2>2, <2>4, WeightType
    <3>2. PivotDoc \in Nat
      BY Placed
    <3>3. /\ BlockAt(t, PivotDoc) < NumBlocks(lists[t])
          /\ lists[t].w[p] <= lists[t].bmax[BlockAt(t, PivotDoc)]
      BY <3>1, <3>2, BlockCovers
    <3> QED
      BY <2>1, <3>1, <3>3
  <2> QED
    BY <2>3, <2>4
<1> HIDE DEF A, f
<1>6. SumFunctionOnSet(f, Terms) <= SumFunctionOnSet(Bounds(g), A)
  BY <1>1, <1>3, <1>4, <1>5, SumBelow
<1> QED
  BY <1>6, BoundsAdd DEF A, f, ScoreLeft

\* The next candidate is past the pivot when the lists up to it are at it, and
\* what it passes over lies in the blocks of the pivot.
LEMMA NextCandidateFinds ==
    ASSUME lists \in Indexes, InLoop, pivot # 0,
           NEW r \in [Beyond(FirstLists(plists, pivot), PivotDoc) -> RepBeyond]
    PROVE  /\ NextCandidate(r) \in Nat /\ NextCandidate(r) >= PivotDoc
           /\ (\A t \in FirstLists(plists, pivot) : cur[t].docid = PivotDoc)
                 => NextCandidate(r) > PivotDoc
           /\ \A d \in Docs : d >= PivotDoc /\ d < NextCandidate(r) => InBlocks(d)
<1> DEFINE A == FirstLists(plists, pivot)
           end(t) == 1 + (IF t \in DOMAIN r THEN r[t]
                          ELSE BlockRep(lists[t], BlockAt(t, PivotDoc)))
           after  == IF pivot < Len(plists) THEN {DocId(plists[pivot + 1])} ELSE {}
           E      == {end(t) : t \in A} \cup after
           m      == Min(E)
<1>1. PivotDoc \in Nat /\ plists[pivot] \in A
  BY Placed, PivotBlock
<1>2. \A t \in DOMAIN r : r[t] \in Nat
  BY BeyondAssumption
<1>3. DOMAIN r = {t \in A : BlockAt(t, PivotDoc) >= NumBlocks(lists[t])}
  BY DEF Beyond
<1>4. ASSUME NEW t \in A
      PROVE  /\ end(t) \in Nat
             /\ BlockAt(t, PivotDoc) < NumBlocks(lists[t]) =>
                   /\ end(t) = 1 + BlockRep(lists[t], BlockAt(t, PivotDoc))
                   /\ BlockRep(lists[t], BlockAt(t, PivotDoc)) \in Nat
                   /\ BlockRep(lists[t], BlockAt(t, PivotDoc)) >= PivotDoc
  <2>1. /\ BlockAt(t, PivotDoc) \in Nat /\ NumBlocks(lists[t]) \in Nat
        /\ BlockAt(t, PivotDoc) < NumBlocks(lists[t]) =>
              /\ BlockRep(lists[t], BlockAt(t, PivotDoc)) \in Nat
              /\ BlockRep(lists[t], BlockAt(t, PivotDoc)) >= PivotDoc
    BY BlockFacts
  <2>2. t \notin DOMAIN r <=> BlockAt(t, PivotDoc) < NumBlocks(lists[t])
    BY <2>1, <1>3
  <2> QED
    BY <2>1, <2>2, <1>2
<1>5. pivot < Len(plists) => /\ after = {cur[plists[pivot + 1]].docid}
                             /\ cur[plists[pivot + 1]].docid \in Nat
                             /\ cur[plists[pivot + 1]].docid > PivotDoc
  BY AfterPivot
<1>6. NextCandidate(r) = IF m < PivotDoc THEN PivotDoc + 1 ELSE m
  BY DEF NextCandidate
<1> HIDE DEF A, end
<1>7. E \in SUBSET Nat /\ E # {}
  BY <1>1, <1>4, <1>5
<1>8. m \in E /\ \A x \in E : m <= x
  BY <1>7, LeastExists DEF Min
<1>9. m \in Nat /\ (\A t \in A : m <= end(t))
      /\ (pivot < Len(plists) => m <= cur[plists[pivot + 1]].docid)
  BY <1>5, <1>7, <1>8
<1>10. ASSUME \A t \in A : cur[t].docid = PivotDoc PROVE m > PivotDoc
  <2>1. ASSUME NEW t \in A PROVE end(t) > PivotDoc
    <3>1. /\ t \in Unfinished(lists, cur) /\ cur[t].docid = PivotDoc
      BY <1>10, BlockFacts DEF A
    <3>2. lists[t].n \in Nat /\ cur[t].pos \in 0 .. lists[t].n - 1 /\ lists[t].ids[cur[t].pos] = PivotDoc
      BY <3>1, Reading
    <3>3. cur[t].pos \in cur[t].pos .. lists[t].n - 1 /\ lists[t].ids[cur[t].pos] >= PivotDoc
      BY <3>2, <1>1
    <3>4. BlockAt(t, PivotDoc) < NumBlocks(lists[t])
      BY <3>3, BlockCovers DEF A
    <3> QED
      BY <3>4, <1>1, <1>4
  <2>2. \A x \in E : x > PivotDoc
    BY <2>1, <1>5
  <2> QED
    BY <2>2, <1>8
<1> HIDE DEF E, m
<1>11. ASSUME NEW d \in Docs, d >= PivotDoc, d < NextCandidate(r) PROVE InBlocks(d)
  <2>1. d \in Nat
    BY DEF Docs
  <2>2. d = PivotDoc \/ d < m
    BY <2>1, <1>1, <1>6, <1>9, <1>11
  <2>3. ASSUME NEW t \in A, BlockAt(t, PivotDoc) < NumBlocks(lists[t])
        PROVE  d <= BlockRep(lists[t], BlockAt(t, PivotDoc))
    <3>1. m <= end(t) /\ end(t) = 1 + BlockRep(lists[t], BlockAt(t, PivotDoc))
          /\ BlockRep(lists[t], BlockAt(t, PivotDoc)) \in Nat
          /\ BlockRep(lists[t], BlockAt(t, PivotDoc)) >= PivotDoc
      BY <2>3, <1>4, <1>9
    <3> QED
      BY <3>1, <2>1, <2>2, <1>9
  <2>4. pivot < Len(plists) => d < cur[plists[pivot + 1]].docid
    BY <2>1, <2>2, <1>1, <1>5, <1>9
  <2> QED
    BY <2>3, <2>4, <1>11 DEF InBlocks, A
<1> QED
  BY <1>1, <1>6, <1>9, <1>10, <1>11 DEF A

-----------------------------------------------------------------------------
(* The Block-Max WAND engine.                                              *)

\* The shallow moves of lists before or at the pivot come before a skip.
LEMMA ShallowSkipReady ==
    ASSUME lists \in Indexes, InLoop, pivot # 0,
           NEW T \in SUBSET FirstLists(plists, pivot),
           NEW i \in 1 .. pivot, NEW id \in Nat, id >= PivotDoc
    PROVE  SkipReady(i, id, ShallowMoved(T, PivotDoc))
<1> DEFINE c == ShallowMoved(T, PivotDoc)
<1>1. PivotDoc \in Nat /\ cur \in [Terms -> Iterators]
  BY Placed DEF InLoop, LoopInv
<1>2. ASSUME NEW t \in T
      PROVE  /\ t \in Unfinished(lists, cur)
             /\ ShallowMove(lists[t], cur[t], PivotDoc) \in Iterators
  <2>1. t \in Unfinished(lists, cur) /\ SearchReady(lists[t], cur[t], PivotDoc)
    BY BlockFacts
  <2>2. IsPostingsList(lists[t])
    BY <2>1, Reading
  <2>3. SearchReady(lists[t], ShallowMove(lists[t], cur[t], PivotDoc), PivotDoc)
    BY <2>1, <2>2, <1>1, ShallowReady
  <2> QED
    BY <2>1, <2>3 DEF SearchReady
<1>3. c = [t \in Terms |-> IF t \in T THEN ShallowMove(lists[t], cur[t], PivotDoc) ELSE cur[t]]
  BY DEF ShallowMoved
<1> HIDE DEF c
<1>4. c \in [Terms -> Iterators]
  BY <1>1, <1>2, <1>3
<1>5. \A t \in Terms : \/ c[t] = cur[t]
                       \/ /\ t \in Unfinished(lists, cur)
                          /\ c[t] = ShallowMove(lists[t], cur[t], PivotDoc)
  BY <1>2, <1>3
<1>6. SkipReady(i, id, c)
  BY <1>4, <1>5 DEF SkipReady
<1> QED
  BY <1>6 DEF c

\* The lists before the pivot are among the first.
LEMMA BeforeInFirst ==
    ASSUME lists \in Indexes, InLoop, pivot # 0
    PROVE  Before \in SUBSET FirstLists(plists, pivot)
<1>1. pivot \in 1 .. Len(plists) /\ Len(plists) \in Nat
  BY Placed
<1>2. \A i \in 1 .. pivot - 1 : i \in 1 .. pivot
  BY <1>1
<1> QED
  BY <1>2 DEF Before, FirstLists

\* The candidate test passes: the document is scored.
LEMMA EvaluateBmwAdvances ==
    ASSUME F = 1, MaxBeyond \subseteq Nat, IInv, EvaluatePivotBmw
    PROVE  ScoresNext
<1>1. /\ lists \in Indexes /\ score = [d \in Docs |-> ScoreIn(lists, d)] /\ InLoop
      /\ pc = "loop" /\ pivot # 0 /\ Aligned
  BY DEF IInv, EvaluatePivotBmw
<1> DEFINE A == FirstLists(plists, pivot)
           bound == [t \in A |-> BlockBound(t, PivotDoc, <<>>)]
<1>2. PICK g \in Gaps : Evaluate(BlockUpperBound(g), bound)
  BY DEF EvaluatePivotBmw, Gaps
<1>3. ASSUME NEW t \in A
      PROVE  /\ bound[t] \in Nat /\ lists[t].w[cur[t].pos] <= bound[t]
             /\ Bounds(g)[t] = bound[t]
  <2>1. t \in Unfinished(lists, cur) /\ cur[t].docid = PivotDoc /\ PivotDoc \in Nat
    BY <1>1, AlignedLists, BlockFacts, Placed
  <2>2. lists[t].n \in Nat /\ cur[t].pos \in 0 .. lists[t].n - 1 /\ lists[t].ids[cur[t].pos] = PivotDoc
    BY <1>1, <2>1, Reading
  <2>3. cur[t].pos \in cur[t].pos .. lists[t].n - 1 /\ lists[t].ids[cur[t].pos] >= PivotDoc
    BY <2>1, <2>2
  <2>4. /\ BlockAt(t, PivotDoc) < NumBlocks(lists[t])
        /\ lists[t].w[cur[t].pos] <= lists[t].bmax[BlockAt(t, PivotDoc)]
    BY <1>1, <2>2, <2>3, BlockCovers
  <2>5. lists[t].bmax[BlockAt(t, PivotDoc)] \in Nat
    BY <1>1, <2>4, BlockFacts
  <2>6. bound[t] = lists[t].bmax[BlockAt(t, PivotDoc)]
    BY DEF BlockBound
  <2>7. Bounds(g)[t] = lists[t].bmax[BlockAt(t, PivotDoc)]
    BY <1>1, <2>4, BoundsAdd
  <2> QED
    BY <2>4, <2>5, <2>6, <2>7
<1> HIDE DEF bound
<1>4. IsFiniteSet(A)
  <2>1. A \in SUBSET Terms
    BY <1>1, BlockFacts
  <2> QED
    BY <2>1, TermsFinite, FS_Subset
<1>5. BlockUpperBound(g) = SumFunctionOnSet(Bounds(g), A)
  BY <1>1, BoundsAdd
<1>6. SumFunctionOnSet(bound, A) = SumFunctionOnSet(Bounds(g), A)
  BY <1>3, <1>4, SumSame
<1>7. BlockUpperBound(g) = SumFunctionOnSet(bound, A)
  BY <1>5, <1>6
<1> QED
  BY <1>1, <1>2, <1>3, <1>7, EvaluateAdvances

\* The candidate test passes and the document is not reached yet.
LEMMA ForwardToPivotAdvances ==
    ASSUME F = 1, IInv, ForwardListsToPivot
    PROVE  PassesOver
<1> DEFINE c == ShallowMoved(Before, PivotDoc)
<1>1. /\ pc = "loop" /\ pivot # 0 /\ ~Aligned
      /\ SkipShortest(FindShortest(pivot - 1, PivotDoc), PivotDoc, c)
      /\ UNCHANGED <<lists, heap, heapFull, threshold, pc, res, score, frontier>>
  BY DEF ForwardListsToPivot
<1>2. lists \in Indexes /\ InLoop
  BY <1>1 DEF IInv
<1>3. PivotDoc \in Nat /\ PivotDoc >= PivotDoc
  BY <1>1, <1>2, Placed
<1>4. \A i \in 1 .. pivot : SkipReady(i, PivotDoc, c)
  BY <1>1, <1>2, <1>3, BeforeInFirst, ShallowSkipReady
<1> HIDE DEF c
<1> QED
  BY <1>1, <1>4, ForwardAdvances

\* The candidate test fails: none of the documents the skip drops could enter
\* the heap, neither those before the pivot nor those in its blocks.
LEMMA ForwardBmwAdvances ==
    ASSUME F = 1, MaxBeyond \subseteq Nat, IInv, ForwardListsBmw
    PROVE  PassesOver
<1> DEFINE A == FirstLists(plists, pivot)
           i == FindShortest(pivot, PivotDoc)
           c == ShallowMoved(A, PivotDoc)
<1>1. /\ lists \in Indexes /\ score = [d \in Docs |-> ScoreIn(lists, d)] /\ InLoop
      /\ pc = "loop" /\ pivot # 0 /\ frontier \in Nat
      /\ UNCHANGED <<lists, heap, heapFull, threshold, pc, res, score, frontier>>
  BY NumDocsAssumption DEF IInv, ForwardListsBmw
<1>2. PICK g \in Gaps : ~Candidate(g)
  BY DEF ForwardListsBmw, Gaps
<1>3. PICK r \in [Beyond(A, PivotDoc) -> RepBeyond] : SkipShortest(i, NextCandidate(r), c)
  BY DEF ForwardListsBmw
<1> DEFINE id == NextCandidate(r)
<1>4. /\ id \in Nat /\ id >= PivotDoc
      /\ (\A t \in A : cur[t].docid = PivotDoc) => id > PivotDoc
      /\ \A d \in Docs : d >= PivotDoc /\ d < id => InBlocks(d)
  BY <1>1, NextCandidateFinds
<1> HIDE DEF id
<1>5. /\ pivot \in 1 .. Len(plists) /\ Len(plists) \in Nat /\ PivotDoc \in Nat
      /\ \A j \in 1 .. Len(plists) : plists[j] \in Unfinished(lists, cur)
  BY <1>1, Placed
<1>6. /\ i \in 1 .. pivot
      /\ \/ cur[plists[i]].docid # PivotDoc
         \/ \A j \in 1 .. pivot : cur[plists[j]].docid = PivotDoc
  <2>1. pivot \in 1 .. pivot
    BY <1>5
  <2> QED
    BY <2>1, <1>1, ShortestFound
<1> HIDE DEF i
<1>7. /\ plists[i] \in Unfinished(lists, cur) /\ plists[i] \in Terms
      /\ cur[plists[i]].docid \in Nat /\ cur[plists[i]].docid <= PivotDoc
  <2>1. plists[i] \in A
    BY <1>6 DEF FirstLists
  <2> QED
    BY <2>1, <1>1, BlockFacts, Reading
<1>8. cur[plists[i]].docid < id
  <2>1. CASE cur[plists[i]].docid # PivotDoc
    BY <2>1, <1>4, <1>5, <1>7
  <2>2. CASE \A j \in 1 .. pivot : cur[plists[j]].docid = PivotDoc
    <3>1. \A t \in A : cur[t].docid = PivotDoc
      BY <2>2 DEF FirstLists
    <3> QED
      BY <3>1, <2>2, <1>4, <1>6
  <2> QED
    BY <2>1, <2>2, <1>6
<1>9. SkipReady(i, id, c) /\ SkipShortest(i, id, c)
  BY <1>1, <1>3, <1>4, <1>6, ShallowSkipReady DEF id
<1> HIDE DEF c
<1>10. ASSUME NEW d \in Docs, NEW q \in 0 .. lists[plists[i]].n - 1,
              d >= frontier, d < id, lists[plists[i]].ids[q] = d,
              \A t \in Terms : ~PassedIn(lists[t], cur[t], d)
       PROVE  ~Reaches(score[d], threshold, heapFull)
  <2>1. CASE d < PivotDoc
    BY <2>1, <1>1, <1>7, <1>10, Worthless
  <2>2. CASE d >= PivotDoc
    <3>1. InBlocks(d)
      BY <2>2, <1>4, <1>10
    <3>2. score[d] <= BlockUpperBound(g)
      BY <3>1, <1>1, <1>10, BlockBoundCovers
    <3>3. score[d] \in Int /\ BlockUpperBound(g) \in Int
      BY <1>1, ScoreType, BoundsAdd
    <3>4. threshold \in Nat /\ heapFull \in BOOLEAN
      BY <1>1 DEF InLoop, LoopInv, HeapGood, IsFull
    <3>5. ~Reaches(BlockUpperBound(g), threshold, heapFull)
      BY <1>2 DEF Candidate
    <3> QED
      BY <3>2, <3>3, <3>4, <3>5, ReachesMono
  <2>3. d < PivotDoc \/ d >= PivotDoc
    BY <1>5 DEF Docs
  <2> QED
    BY <2>1, <2>2, <2>3
<1>11. /\ LoopInv(lists, score, frontier, plists', cur', heap, heapFull, threshold, pivot')
       /\ pivot' # 0 => cur'[plists'[pivot']].docid >= PivotDoc
       /\ \A t \in Terms : cur'[t].pos >= cur[t].pos
       /\ cur'[plists[i]].pos > cur[plists[i]].pos
       /\ turn' = 1 - turn
  BY <1>1, <1>8, <1>9, <1>10, SkipKeeps
<1>12. Advances
  BY <1>1, <1>7, <1>11 DEF Advances
<1> QED
  BY <1>1, <1>12 DEF PassesOver

\* Every step of Block-Max WAND fits the outline.
LEMMA BmwOutline == F = 1 /\ MaxBeyond \subseteq Nat /\ IInv /\ [BmwNext]_vars => Outline
BY EvaluateBmwAdvances, ForwardToPivotAdvances, ForwardBmwAdvances
   DEF BmwNext, BmwStep, Terminated, Outline, Turn

-----------------------------------------------------------------------------
(* What the invariant says.                                                *)

\* What the runs check follows from the invariant: the order of the lists,
LEMMA InvSorted == IInv => ListsSorted
<1> SUFFICES ASSUME IInv, pc = "loop"
             PROVE  /\ {plists[i] : i \in DOMAIN plists} = {t \in Terms : ~AtEnd(lists[t], cur[t])}
                    /\ \A i, j \in DOMAIN plists : i < j =>
                          plists[i] # plists[j] /\ DocId(plists[i]) <= DocId(plists[j])
  BY DEF ListsSorted
<1>1. lists \in Indexes /\ InLoop
  BY DEF IInv
<1>2. ASSUME NEW t \in Terms PROVE ~AtEnd(lists[t], cur[t]) <=> cur[t].pos < lists[t].n
  <2>1. lists[t].n \in Nat /\ cur[t].pos \in 0 .. lists[t].n
    BY <1>1, ListsAreGood DEF InLoop, LoopInv, CursorGood, GoodList, IsPostingsList
  <2> QED
    BY <2>1 DEF AtEnd
<1>3. {plists[i] : i \in DOMAIN plists} = {t \in Terms : ~AtEnd(lists[t], cur[t])}
  BY <1>1, <1>2, Placed DEF Unfinished
<1>4. \A i \in 1 .. Len(plists) : DocId(plists[i]) = cur[plists[i]].docid
  BY <1>1, Placed, Reading
<1> QED
  BY <1>1, <1>3, <1>4, Placed

\* that nothing that matters is lost,
LEMMA InvNothingLost == IInv => NothingLost
<1> SUFFICES ASSUME IInv, pc = "loop", NEW d \in Docs, d >= frontier, ScoreLeft(d) < score[d]
             PROVE  ~Reaches(score[d], threshold, heapFull)
  BY DEF NothingLost
<1>1. lists \in Indexes /\ score = [x \in Docs |-> ScoreIn(lists, x)] /\ InLoop
  BY DEF IInv
<1> QED
  BY <1>1, LeftOfPivot

\* that block pointers follow the pivot,
LEMMA InvPointers == IInv => PointersFollowPivot
<1> SUFFICES ASSUME IInv, pc = "loop", pivot # 0
             PROVE  /\ \A i \in DOMAIN plists :
                          LET pl == lists[plists[i]]
                              it == cur[plists[i]]
                          IN  /\ it.accPos = it.pos
                              /\ it.blk \in BlockOf(it.pos) .. NumBlocks(pl)
                              /\ it.blk > BlockOf(it.pos) => BlockRep(pl, it.blk - 1) < PivotDoc
                    /\ cur[plists[pivot]].blk = BlockOf(cur[plists[pivot]].pos)
  BY DEF PointersFollowPivot
<1>1. lists \in Indexes /\ InLoop
  BY DEF IInv
<1>2. ASSUME NEW i \in DOMAIN plists PROVE SearchReady(lists[plists[i]], cur[plists[i]], PivotDoc)
  <2>1. plists[i] \in Unfinished(lists, cur) /\ PivotDoc = cur[plists[pivot]].docid
    BY <1>1, Placed
  <2> QED
    BY <2>1, <1>1 DEF InLoop, LoopInv
<1> QED
  BY <1>1, <1>2, PivotBlock DEF SearchReady

\* and that the second test is safe.
LEMMA InvBlockBound == MaxBeyond \subseteq Nat /\ IInv => BlockBoundSafe
<1> SUFFICES ASSUME MaxBeyond \subseteq Nat, IInv, pc = "loop", pivot # 0, NEW g \in Gaps
             PROVE  BlockUpperBound(g) >= ScoreLeft(PivotDoc)
  BY DEF BlockBoundSafe, Gaps
<1>1. lists \in Indexes /\ score = [x \in Docs |-> ScoreIn(lists, x)] /\ InLoop
  BY DEF IInv
<1>2. ScoreLeft(PivotDoc) <= BlockUpperBound(g)
  BY <1>1, BlockBoundLeft
<1>3. BlockUpperBound(g) \in Nat
  BY <1>1, BoundsAdd
<1>4. ScoreLeft(PivotDoc) \in Nat
  <2>1. PivotDoc \in Docs /\ PivotDoc >= frontier
    BY <1>1, Placed, Reading
  <2> QED
    BY <1>1, <2>1, LeftOfPivot
<1> QED
  BY <1>2, <1>3, <1>4

\* The document of the pivot, in this state or the next one.
LEMMA PivotRead ==
    IInv /\ pc = "loop" /\ pivot # 0 => PivotDoc = cur[plists[pivot]].docid
BY Placed DEF IInv

\* The pivot never moves back in a step that fits the outline,
LEMMA OutlineMonotone ==
    ASSUME F = 1, IInv, Outline, IInv'
    PROVE  [(pc = "loop" /\ pivot # 0 /\ pivot' # 0) => PivotDoc' >= PivotDoc]_vars
<1> SUFFICES ASSUME pc = "loop", pivot # 0, pivot' # 0, Turn PROVE PivotDoc' >= PivotDoc
  BY DEF Outline, Start, Finish
<1>1. pc' = "loop" /\ cur'[plists'[pivot']].docid >= PivotDoc
  BY DEF Turn, PassesOver, ScoresNext, Advances
<1>2. PivotDoc' = cur'[plists'[pivot']].docid
  <2>1. (IInv /\ pc = "loop" /\ pivot # 0 => PivotDoc = cur[plists[pivot]].docid)'
    BY PivotRead, PTL
  <2> QED
    BY <2>1, <1>1
<1> QED
  BY <1>1, <1>2

\* and in a turn no list moves back and one moves on.
LEMMA OutlineAdvances ==
    ASSUME Outline
    PROVE  [(pc = "loop" /\ pc' = "loop") =>
               /\ \A t \in Terms : cur'[t].pos >= cur[t].pos
               /\ \E t \in Terms : cur'[t].pos > cur[t].pos]_vars
BY DEF Outline, Start, Finish, Turn, PassesOver, ScoresNext, Advances

-----------------------------------------------------------------------------
(* Invariance.                                                             *)

\* The invariant always holds in WAND,
LEMMA WandInvAlways ==
    ASSUME F = 1
    PROVE  Spec => []IInv
<1>1. Init => IInv
  BY InitInv
<1>2. IInv /\ [Next]_vars => IInv'
  BY WandOutline, OutlineKeepsInv
<1> QED
  BY <1>1, <1>2, PTL DEF Spec

\* and in Block-Max WAND.
LEMMA BmwInvAlways ==
    ASSUME F = 1, MaxBeyond \subseteq Nat
    PROVE  BmwSpec => []IInv
<1>1. Init => IInv
  BY InitInv
<1>2. IInv /\ [BmwNext]_vars => IInv'
  BY BmwOutline, OutlineKeepsInv
<1> QED
  BY <1>1, <1>2, PTL DEF BmwSpec

-----------------------------------------------------------------------------
(* The refinement of TopK.                                                 *)

\* Among enough elements there is any smaller number of them.
LEMMA SubsetOfSize ==
    ASSUME NEW S, IsFiniteSet(S), NEW k \in Nat, k <= Cardinality(S)
    PROVE  \E T \in SUBSET S : Cardinality(T) = k
<1> DEFINE n == Cardinality(S)
<1>1. n \in Nat /\ ExistsBijection(1 .. n, S)
  BY FS_CardinalityType
<1> HIDE DEF n
<1>2. PICK f \in Bijection(1 .. n, S) : TRUE
  BY <1>1 DEF ExistsBijection
<1>3. /\ f \in [1 .. n -> S]
      /\ \A a, b \in 1 .. n : f[a] = f[b] => a = b
  BY <1>2 DEF Bijection, Injection, IsInjective
<1> DEFINE g == [i \in 1 .. k |-> f[i]]
           T == {g[i] : i \in 1 .. k}
<1>4. \A i \in 1 .. k : i \in 1 .. n
  BY <1>1 DEF n
<1>5. T \in SUBSET S /\ g \in [1 .. k -> T] /\ \A a, b \in 1 .. k : g[a] = g[b] => a = b
  BY <1>3, <1>4
<1>6. \A t \in T : \E i \in 1 .. k : g[i] = t
  OBVIOUS
<1> HIDE DEF g, T
<1>7. g \in Surjection(1 .. k, T) /\ g \in Injection(1 .. k, T)
  BY <1>5, <1>6 DEF Surjection, Injection, IsInjective
<1>8. IsFiniteSet(1 .. k) /\ Cardinality(1 .. k) = k
  BY FS_Interval
<1>9. Cardinality(T) = k
  BY <1>7, <1>8, FS_Surjection
<1> QED
  BY <1>5, <1>9

\* The operators on heaps are the same in both specifications.
LEMMA SameCardinality == \A S : Abstract!Cardinality(S) = Cardinality(S)
BY DEF Abstract!Cardinality, Cardinality

\* The two specifications agree on the lowest entry of a heap.
LEMMA SameTop == \A h : Abstract!Top(h) = Top(h)
BY DEF Abstract!Top, Top, Abstract!Above, Above

\* Initial states map to initial states.
LEMMA InitMaps == Init => Abstract!Init
<1> SUFFICES ASSUME Init PROVE Abstract!Init
  OBVIOUS
<1>1. /\ pc = "start" /\ heap = {} /\ threshold = 0 /\ frontier = 0 /\ lists \in Indexes
      /\ score = [d \in Docs |-> ScoreIn(lists, d)]
  BY DEF Init
<1>2. score \in [Docs -> Nat]
  BY <1>1, ScoreType
<1> QED
  BY <1>1, <1>2 DEF Abstract!Init

\* The estimate is a seed the specification allows.
LEMMA StartMaps == ASSUME IInv, Start PROVE Abstract!Seed
<1>1. /\ pc = "start" /\ pc' = "loop" /\ UNCHANGED <<heap, score, frontier>>
  BY DEF Start
<1>2. PICK s \in Seeds : SafeSeed(s) /\ threshold' = s
  BY DEF Start
<1>3. s > 0 => \E S \in SUBSET Docs : Cardinality(S) = K /\ \A d \in S : score[d] >= s
  <2> DEFINE D == {d \in Docs : score[d] >= s}
  <2>1. SUFFICES ASSUME s > 0
                 PROVE  \E S \in SUBSET Docs : Cardinality(S) = K /\ \A d \in S : score[d] >= s
    OBVIOUS
  <2>2. Cardinality(D) >= K
    BY <1>2, <2>1 DEF SafeSeed
  <2>3. IsFiniteSet(Docs)
    BY NumDocsAssumption, FS_Interval DEF Docs
  <2>4. IsFiniteSet(D) /\ Cardinality(D) \in Nat
    BY <2>3, FS_Subset, FS_CardinalityType
  <2> HIDE DEF D
  <2>5. PICK T \in SUBSET D : Cardinality(T) = K
    BY <2>2, <2>4, KAssumption, SubsetOfSize
  <2> QED
    BY <2>5 DEF D
<1> QED
  BY <1>1, <1>2, <1>3, SameCardinality DEF Abstract!Seed, Abstract!SafeSeed, Abstract!Docs, Docs

\* The document a turn scores is offered, and what lies before it loses
\* nothing.
LEMMA ScoreMaps == ASSUME IInv, ScoresNext PROVE \E d \in Abstract!Docs : Abstract!Offer(d)
<1>1. /\ lists \in Indexes /\ score = [d \in Docs |-> ScoreIn(lists, d)] /\ InLoop
      /\ pc = "loop" /\ pivot # 0 /\ Aligned /\ pc' = "loop"
      /\ heap' = HeapAfter(heap, threshold, [doc |-> PivotDoc, score |-> score[PivotDoc]])
      /\ threshold' = ThresholdAfter(heap', threshold)
      /\ frontier' = PivotDoc + 1 /\ score' = score
  BY DEF IInv, ScoresNext
<1>2. /\ PivotDoc \in Docs /\ PivotDoc >= frontier /\ score[PivotDoc] > 0
      /\ \A d \in Docs : (d >= frontier /\ d < PivotDoc /\ score[d] > 0)
            => ~Reaches(score[d], threshold, heapFull)
  BY <1>1, PivotIsNext
<1>3. heapFull = IsFull(heap)
  BY <1>1 DEF InLoop, LoopInv, HeapGood
<1>4. frontier \in Nat /\ Docs \subseteq Nat
  BY NumDocsAssumption DEF IInv, Docs
<1>5. Abstract!Docs = Docs /\ Abstract!Matching = {d \in Docs : score[d] > 0}
  BY DEF Abstract!Docs, Docs, Abstract!Matching
<1>6. \A e \in Abstract!Matching : frontier <= e /\ e < PivotDoc => ~Abstract!Enters(e)
  BY <1>1, <1>2, <1>3, <1>4, <1>5, SameCardinality
     DEF Abstract!Enters, Abstract!Reaches, Reaches, Abstract!IsFull, IsFull
<1>7. Abstract!HeapAfter(heap, threshold, [doc |-> PivotDoc, score |-> score[PivotDoc]])
         = HeapAfter(heap, threshold, [doc |-> PivotDoc, score |-> score[PivotDoc]])
  BY SameCardinality, SameTop
     DEF Abstract!HeapAfter, HeapAfter, Abstract!Reaches, Reaches, Abstract!IsFull, IsFull
<1>8. Abstract!ThresholdAfter(heap', threshold) = ThresholdAfter(heap', threshold)
  BY SameCardinality, SameTop
     DEF Abstract!ThresholdAfter, ThresholdAfter, Abstract!IsFull, IsFull
<1>9. PICK d \in Docs : d = PivotDoc
  BY <1>2
<1>10. Abstract!Offer(d)
  BY <1>1, <1>2, <1>4, <1>5, <1>6, <1>7, <1>8, <1>9 DEF Abstract!Offer, Abstract!Entry
<1> QED
  BY <1>5, <1>10

\* The answer is the heap, whatever the order.
LEMMA FinishMaps == ASSUME IInv, Finish PROVE Abstract!Finish
<1>1. /\ lists \in Indexes /\ score = [d \in Docs |-> ScoreIn(lists, d)] /\ InLoop
      /\ pc = "loop" /\ pivot = 0 /\ pc' = "done"
      /\ UNCHANGED <<threshold, score, frontier>>
  BY DEF IInv, Finish
<1>2. HeapGood(heap, heapFull, threshold, score, frontier)
  BY <1>1 DEF InLoop, LoopInv
<1>3. {res'[i] : i \in DOMAIN res'} = heap
  <2> DEFINE n == Cardinality(heap)
  <2>1. IsFiniteSet(heap) /\ n \in Nat /\ heap \subseteq [doc : Nat, score : Nat]
    BY <1>2, FS_CardinalityType DEF HeapGood, IsHeap
  <2>2. res' \in [1 .. n -> heap] /\ \A i, j \in 1 .. n : i < j => Above(res'[i], res'[j])
    BY DEF Finish
  <2> HIDE DEF n
  <2>3. \A i, j \in 1 .. n : res'[i] = res'[j] => i = j
    <3>1. \A x \in heap : ~Above(x, x)
      BY <2>1 DEF Above
    <3>2. \A i, j \in 1 .. n : i < j => res'[i] # res'[j]
      BY <2>2, <3>1
    <3>3. \A i, j \in 1 .. n : i # j => i < j \/ j < i
      BY <2>1
    <3> QED
      BY <3>2, <3>3
  <2>4. res' \in Injection(1 .. n, heap)
    BY <2>2, <2>3 DEF Injection, IsInjective
  <2>5. Cardinality(1 .. n) = n
    BY <2>1, FS_Interval
  <2>6. res' \in Surjection(1 .. n, heap)
    BY <2>1, <2>4, <2>5, FS_Injection DEF n
  <2> QED
    BY <2>2, <2>6 DEF Surjection
<1>4. \A e \in Abstract!Matching : frontier <= e => ~Abstract!Enters(e)
  <2> SUFFICES ASSUME NEW e \in Docs, score[e] > 0, frontier <= e
               PROVE  ~Reaches(score[e], threshold, IsFull(heap))
    BY <1>1, SameCardinality
       DEF Abstract!Matching, Abstract!Docs, Docs, Abstract!Enters, Abstract!Reaches,
           Reaches, Abstract!IsFull, IsFull
  <2>1. e >= frontier
    BY NumDocsAssumption DEF IInv, Docs
  <2> QED
    BY <1>1, <1>2, <2>1, NoneLeft DEF HeapGood
<1> QED
  BY <1>1, <1>3, <1>4 DEF Abstract!Finish

\* A step that fits the outline maps to a step of TopK or a stutter.
LEMMA StepMaps == ASSUME IInv, Outline PROVE [Abstract!Next]_(Abstract!vars)
<1>1. CASE Start
  BY <1>1, StartMaps DEF Abstract!Next
<1>2. CASE PassesOver
  BY <1>2 DEF PassesOver, Abstract!vars
<1>3. CASE ScoresNext
  BY <1>3, ScoreMaps DEF Abstract!Next
<1>4. CASE Finish
  BY <1>4, FinishMaps DEF Abstract!Next
<1>5. CASE UNCHANGED vars
  BY <1>5 DEF vars, Abstract!vars
<1> QED
  BY <1>1, <1>2, <1>3, <1>4, <1>5 DEF Outline, Turn

-----------------------------------------------------------------------------
(* What TopKProofs shows of TopK carries over.                             *)

Answer == INSTANCE TopKProofs
    WITH Scores <- [Docs -> Nat],
         phase <- CASE pc = "start" -> "seed" [] pc = "loop" -> "scan"
                    [] pc = "done" -> "done",
         heap <- IF pc = "done" THEN {res[i] : i \in DOMAIN res} ELSE heap

\* Its definitions are the same under both names.
LEMMA AnswerCardinality == \A S : Answer!Cardinality(S) = Abstract!Cardinality(S)
BY DEF Answer!Cardinality, Abstract!Cardinality

\* TopK over the documents of the index and TopK over those of its own theorem: the lowest
\* entry is the same,
LEMMA AnswerTop == \A h : Answer!Top(h) = Abstract!Top(h)
BY DEF Answer!Top, Abstract!Top, Answer!Above, Abstract!Above

\* a seed is one,
LEMMA AnswerSeed == Abstract!Seed => Answer!Seed
BY AnswerCardinality
   DEF Abstract!Seed, Answer!Seed, Abstract!SafeSeed, Answer!SafeSeed, Abstract!Docs, Answer!Docs

\* the same documents would enter,
LEMMA AnswerEnters == \A d : Abstract!Enters(d) <=> Answer!Enters(d)
BY AnswerCardinality
   DEF Abstract!Enters, Answer!Enters, Abstract!Reaches, Answer!Reaches,
       Abstract!IsFull, Answer!IsFull

\* an offer is one,
LEMMA AnswerOffer == ASSUME NEW d, Abstract!Offer(d) PROVE Answer!Offer(d)
BY AnswerCardinality, AnswerTop, AnswerEnters
   DEF Abstract!Offer, Answer!Offer, Abstract!Matching, Answer!Matching, Abstract!Docs, Answer!Docs,
       Abstract!HeapAfter, Answer!HeapAfter, Abstract!ThresholdAfter, Answer!ThresholdAfter,
       Abstract!Reaches, Answer!Reaches, Abstract!IsFull, Answer!IsFull,
       Abstract!Entry, Answer!Entry

\* and so is the end.
LEMMA AnswerFinish == Abstract!Finish => Answer!Finish
BY AnswerEnters
   DEF Abstract!Finish, Answer!Finish, Abstract!Matching, Answer!Matching,
       Abstract!Docs, Answer!Docs

\* The scores a collection can give are the scores it may choose from.
LEMMA AnswerScores == [Docs -> Nat] \subseteq [Answer!Docs -> Nat]
BY DEF Answer!Docs, Docs

\* A behaviour of the one is a behaviour of the other.
LEMMA AnswerSpec == Abstract!Spec => Answer!Spec
<1>1. Abstract!Init => Answer!Init
  BY DEF Abstract!Init, Answer!Init
<1>2. [Abstract!Next]_(Abstract!vars) => [Answer!Next]_(Answer!vars)
  <2>1. SUFFICES ASSUME Abstract!Next PROVE Answer!Next
    BY DEF Abstract!vars, Answer!vars
  <2>2. Abstract!Docs = Answer!Docs
    BY DEF Abstract!Docs, Answer!Docs
  <2> QED
    BY <2>1, <2>2, AnswerSeed, AnswerOffer, AnswerFinish DEF Abstract!Next, Answer!Next
<1> QED
  BY <1>1, <1>2, PTL DEF Abstract!Spec, Answer!Spec

\* The answer is a top-K.
LEMMA AnswerIsSafe == Abstract!Spec => []Abstract!SafeTopK
<1>1. Answer!Spec => []Answer!SafeTopK
  BY AnswerScores, KAssumption, NumDocsAssumption, SeedsAssumption, BlockSizeAssumption,
    MaxSizeAssumption, Answer!TopKIsSafe
<1>2. Answer!SafeTopK => Abstract!SafeTopK
  BY AnswerCardinality
     DEF Abstract!SafeTopK, Answer!SafeTopK, Abstract!Matching, Answer!Matching,
         Abstract!Docs, Answer!Docs, Abstract!IsFull, Answer!IsFull, Abstract!Entry, Answer!Entry
<1> QED
  BY <1>1, <1>2, AnswerSpec, PTL

\* One step of exhaustive evaluation is the same under both names.
LEMMA AnswerSettled == \A h, d : Answer!Settled(h, d) = Abstract!Settled(h, d)
BY AnswerCardinality, AnswerTop
   DEF Answer!Settled, Abstract!Settled, Answer!HeapAfter, Abstract!HeapAfter,
       Answer!ThresholdAfter, Abstract!ThresholdAfter, Answer!Reaches, Abstract!Reaches,
       Answer!IsFull, Abstract!IsFull, Answer!Entry, Abstract!Entry

\* So is where it ends.
LEMMA AnswerExhaustive == \E f : Answer!Evaluates(f) /\ Abstract!ExhaustiveHeap = f[NumDocs]
<1> DEFINE P(f) == f = [n \in 0 .. NumDocs |-> IF n = 0 THEN {} ELSE Abstract!Settled(f[n - 1], n - 1)]
           g == CHOOSE f : P(f)
<1>1. \A f : Answer!Evaluates(f) <=> P(f)
  <2> TAKE f
  <2> DEFINE a == [n \in 0 .. NumDocs |-> IF n = 0 THEN {} ELSE Answer!Settled(f[n - 1], n - 1)]
             b == [n \in 0 .. NumDocs |-> IF n = 0 THEN {} ELSE Abstract!Settled(f[n - 1], n - 1)]
  <2>1. a = b
    BY AnswerSettled
  <2>2. Answer!Evaluates(f) <=> f = a
    BY DEF Answer!Evaluates
  <2> HIDE DEF a
  <2> QED
    BY <2>1, <2>2
<1>2. \E f : Answer!Evaluates(f)
  BY KAssumption, NumDocsAssumption, SeedsAssumption, BlockSizeAssumption,
    MaxSizeAssumption, AnswerScores, Answer!EvaluationExists
<1>3. Abstract!ExhaustiveHeap = g[NumDocs]
  BY DEF Abstract!ExhaustiveHeap
<1> HIDE DEF P
<1>4. P(g)
  BY <1>1, <1>2
<1> QED
  BY <1>1, <1>3, <1>4

\* The answer is the one exhaustive evaluation gives.
LEMMA AnswerIsExhaustive == Abstract!Spec => []Abstract!SameAsExhaustive
<1>1. Answer!Spec => []Answer!SameAtEnd
  BY AnswerScores, KAssumption, NumDocsAssumption, SeedsAssumption, BlockSizeAssumption,
    MaxSizeAssumption, Answer!EndAlways
<1>2. Answer!SameAtEnd => Abstract!SameAsExhaustive
  BY AnswerExhaustive DEF Answer!SameAtEnd, Abstract!SameAsExhaustive
<1> QED
  BY <1>1, <1>2, AnswerSpec, PTL

-----------------------------------------------------------------------------
(* Results.  F = 1 is the factor the program runs with unless it is told   *)
(* to be aggressive, which trades results for time.  For Block-Max WAND a  *)
(* read past the block maxima must not give a negative number: with one    *)
(* the search may lose a result.                                           *)

\* WAND: the iterators stay in their lists, the heap within K true scores.
THEOREM WandTypeCorrect == ASSUME F = 1 PROVE Spec => []TypeOK
<1>1. IInv => TypeOK
  BY InvType
<1> QED
  BY <1>1, WandInvAlways, PTL

\* WAND: moving one list into its place leaves all of them in order.
THEOREM WandListsSorted == ASSUME F = 1 PROVE Spec => []ListsSorted
<1>1. IInv => ListsSorted
  BY InvSorted
<1> QED
  BY <1>1, WandInvAlways, PTL

\* WAND: a document that a skip has split could not enter the heap any more.
THEOREM WandNothingLost == ASSUME F = 1 PROVE Spec => []NothingLost
<1>1. IInv => NothingLost
  BY InvNothingLost
<1> QED
  BY <1>1, WandInvAlways, PTL

\* WAND: the pivot never moves back.
THEOREM WandPivotMonotone == ASSUME F = 1 PROVE Spec => PivotMonotone
<1>1. IInv /\ IInv' /\ [Next]_vars
        => [(pc = "loop" /\ pivot # 0 /\ pivot' # 0) => PivotDoc' >= PivotDoc]_vars
  BY WandOutline, OutlineMonotone
<1> QED
  BY <1>1, WandInvAlways, PTL DEF Spec, PivotMonotone

\* WAND: every turn moves a list on and none back, so the loop cannot spin.
THEOREM WandEveryTurnAdvances == ASSUME F = 1 PROVE Spec => EveryTurnAdvances
<1>1. IInv /\ [Next]_vars
        => [(pc = "loop" /\ pc' = "loop") =>
               /\ \A t \in Terms : cur'[t].pos >= cur[t].pos
               /\ \E t \in Terms : cur'[t].pos > cur[t].pos]_vars
  BY WandOutline, OutlineAdvances
<1> QED
  BY <1>1, WandInvAlways, PTL DEF Spec, EveryTurnAdvances

\* WAND is an exhaustive evaluation that passes over documents only when they
\* could not enter the heap.
THEOREM WandImplementsTopK == ASSUME F = 1 PROVE Spec => ImplementsTopK
<1>1. Init => Abstract!Init
  BY InitMaps
<1>2. IInv /\ [Next]_vars => [Abstract!Next]_(Abstract!vars)
  BY WandOutline, StepMaps
<1>3. Abstract!Init /\ [][Abstract!Next]_(Abstract!vars) => Abstract!Spec
  BY DEF Abstract!Spec
<1> QED
  BY <1>1, <1>2, <1>3, WandInvAlways, PTL DEF Spec, ImplementsTopK

\* Block-Max WAND: the iterators stay in their lists, the heap within K true
\* scores.
THEOREM BmwTypeCorrect == ASSUME F = 1, MaxBeyond \subseteq Nat PROVE BmwSpec => []TypeOK
<1>1. IInv => TypeOK
  BY InvType
<1> QED
  BY <1>1, BmwInvAlways, PTL

\* Block-Max WAND: moving one list into its place leaves all of them in order.
THEOREM BmwListsSorted == ASSUME F = 1, MaxBeyond \subseteq Nat PROVE BmwSpec => []ListsSorted
<1>1. IInv => ListsSorted
  BY InvSorted
<1> QED
  BY <1>1, BmwInvAlways, PTL

\* Block-Max WAND: a document that a skip has split could not enter the heap
\* any more, neither when the skip was to the pivot nor when it was past the
\* current blocks.
THEOREM BmwNothingLost == ASSUME F = 1, MaxBeyond \subseteq Nat PROVE BmwSpec => []NothingLost
<1>1. IInv => NothingLost
  BY InvNothingLost
<1> QED
  BY <1>1, BmwInvAlways, PTL

\* Block-Max WAND: the shallow moves leave the block pointers where the next
\* turn can use them.
THEOREM BmwPointersFollowPivot ==
    ASSUME F = 1, MaxBeyond \subseteq Nat PROVE BmwSpec => []PointersFollowPivot
<1>1. IInv => PointersFollowPivot
  BY InvPointers
<1> QED
  BY <1>1, BmwInvAlways, PTL

\* Block-Max WAND: the sum of the block maxima is no less than what is left of
\* the pivot document.
THEOREM BmwBlockBoundSafe ==
    ASSUME F = 1, MaxBeyond \subseteq Nat PROVE BmwSpec => []BlockBoundSafe
<1>1. IInv => BlockBoundSafe
  BY InvBlockBound
<1> QED
  BY <1>1, BmwInvAlways, PTL

\* Block-Max WAND: the pivot never moves back.
THEOREM BmwPivotMonotone ==
    ASSUME F = 1, MaxBeyond \subseteq Nat PROVE BmwSpec => PivotMonotone
<1>1. IInv /\ IInv' /\ [BmwNext]_vars
        => [(pc = "loop" /\ pivot # 0 /\ pivot' # 0) => PivotDoc' >= PivotDoc]_vars
  BY BmwOutline, OutlineMonotone
<1> QED
  BY <1>1, BmwInvAlways, PTL DEF BmwSpec, PivotMonotone

\* Block-Max WAND: every turn moves a list on and none back, also one that
\* skips to a document no list holds.
THEOREM BmwEveryTurnAdvances ==
    ASSUME F = 1, MaxBeyond \subseteq Nat PROVE BmwSpec => EveryTurnAdvances
<1>1. IInv /\ [BmwNext]_vars
        => [(pc = "loop" /\ pc' = "loop") =>
               /\ \A t \in Terms : cur'[t].pos >= cur[t].pos
               /\ \E t \in Terms : cur'[t].pos > cur[t].pos]_vars
  BY BmwOutline, OutlineAdvances
<1> QED
  BY <1>1, BmwInvAlways, PTL DEF BmwSpec, EveryTurnAdvances

\* Block-Max WAND is an exhaustive evaluation that passes over documents only
\* when they could not enter the heap.
THEOREM BmwImplementsTopK ==
    ASSUME F = 1, MaxBeyond \subseteq Nat PROVE BmwSpec => ImplementsTopK
<1>1. Init => Abstract!Init
  BY InitMaps
<1>2. IInv /\ [BmwNext]_vars => [Abstract!Next]_(Abstract!vars)
  BY BmwOutline, StepMaps
<1>3. Abstract!Init /\ [][Abstract!Next]_(Abstract!vars) => Abstract!Spec
  BY DEF Abstract!Spec
<1> QED
  BY <1>1, <1>2, <1>3, BmwInvAlways, PTL DEF BmwSpec, ImplementsTopK

\* WAND returns a top-K of the collection: every result with its true score,
\* and no document left out that scores more than one of them.
THEOREM WandRankSafe == ASSUME F = 1 PROVE Spec => []RankSafe
<1>1. Abstract!SafeTopK => RankSafe
  BY DEF RankSafe
<1>2. Spec => Abstract!Spec
  BY WandImplementsTopK DEF ImplementsTopK
<1> QED
  BY <1>1, <1>2, AnswerIsSafe, PTL

\* Block-Max WAND does, when nothing negative is read past the block maxima;
\* with a negative value there it does not.
THEOREM BmwRankSafe == ASSUME F = 1, MaxBeyond \subseteq Nat PROVE BmwSpec => []RankSafe
<1>1. Abstract!SafeTopK => RankSafe
  BY DEF RankSafe
<1>2. BmwSpec => Abstract!Spec
  BY BmwImplementsTopK DEF ImplementsTopK
<1> QED
  BY <1>1, <1>2, AnswerIsSafe, PTL

\* WAND: what is returned is what exhaustive evaluation from the threshold 0
\* keeps, ties included: the pivot, the early stops and the cached threshold do
\* not show (SameAsExhaustive).
THEOREM WandSameAsExhaustive == ASSUME F = 1 PROVE Spec => []Abstract!SameAsExhaustive
<1>1. Spec => Abstract!Spec
  BY WandImplementsTopK DEF ImplementsTopK
<1> QED
  BY <1>1, AnswerIsExhaustive, PTL

\* Block-Max WAND: so does what it returns, and its block bounds do not show.
THEOREM BmwSameAsExhaustive ==
    ASSUME F = 1, MaxBeyond \subseteq Nat PROVE BmwSpec => []Abstract!SameAsExhaustive
<1>1. BmwSpec => Abstract!Spec
  BY BmwImplementsTopK DEF ImplementsTopK
<1> QED
  BY <1>1, AnswerIsExhaustive, PTL

=============================================================================
