-------------------------------- MODULE TopKProofs -------------------------------
(***************************************************************************)
(* For every collection, every K and every safe initial threshold, the     *)
(* heap ends with a top-K of the collection.                               *)
(***************************************************************************)
EXTENDS TopK, CommonLemmas

-----------------------------------------------------------------------------
(* The inductive invariant.                                                *)

\* Every entry is that of a settled matching document and reaches the
\* threshold.
EntriesTrue ==
    /\ IsFiniteSet(heap)
    /\ \A h \in heap : /\ h = Entry(h.doc)
                       /\ h.doc \in Matching
                       /\ h.doc < frontier
                       /\ h.score >= threshold

\* The threshold is what the heap says when it is full, and what the seed
\* said as long as it is not.
ThresholdTrue ==
    IF IsFull(heap) THEN threshold = Top(heap).score ELSE SafeSeed(threshold)

\* A settled document that is not in the heap would still not enter it.
MissingLose ==
    \A d \in Matching :
        ((d < frontier \/ phase = "done") /\ Entry(d) \notin heap) => ~Enters(d)

\* Nothing is scored before the threshold is seeded.
SeedFirst == phase = "seed" => heap = {} /\ frontier = 0

IInv == TypeOK /\ EntriesTrue /\ ThresholdTrue /\ MissingLose /\ SeedFirst

\* Documents, scores and entries have their types.
LEMMA Types ==
    ASSUME TypeOK
    PROVE  /\ K \in Nat \ {0} /\ NumDocs \in Nat
           /\ Docs \subseteq Nat
           /\ \A d \in Docs : score[d] \in Nat
           /\ \A d \in Matching : d \in Docs /\ d \in Nat /\ score[d] \in Nat /\ score[d] > 0
           /\ \A d : Entry(d).doc = d /\ Entry(d).score = score[d]
<1>1. score \in [Docs -> Nat]
  BY ScoresAssumption DEF TypeOK
<1>2. K \in Nat \ {0} /\ NumDocs \in Nat /\ Docs \subseteq Nat
  BY KAssumption, NumDocsAssumption DEF Docs
<1> QED
  BY <1>1, <1>2 DEF Matching, Entry

\* Under the invariant the heap has no document twice.
LEMMA HeapOfInv == ASSUME IInv PROVE IsHeap(heap)
<1>1. \A x, y \in heap : x.doc = y.doc => x = y
  BY DEF IInv, EntriesTrue
<1>2. heap \subseteq [doc : Nat, score : Nat]
  BY Types DEF IInv, TypeOK
<1> QED
  BY <1>1, <1>2 DEF IsHeap, IInv, EntriesTrue

\* The invariant holds at first.
LEMMA InitInv == Init => IInv
<1> SUFFICES ASSUME Init PROVE IInv
  OBVIOUS
<1>1. IsFiniteSet({}) /\ Cardinality({}) = 0
  BY FS_EmptySet
<1>2. TypeOK
  BY <1>1, KAssumption, NumDocsAssumption DEF Init, TypeOK
<1>3. ~IsFull(heap)
  BY <1>1, KAssumption DEF Init, IsFull
<1>4. SafeSeed(threshold)
  BY DEF Init, SafeSeed
<1>5. MissingLose
  BY <1>2, Types DEF Init, MissingLose
<1> QED
  BY <1>1, <1>2, <1>3, <1>4, <1>5 DEF Init, IInv, EntriesTrue, ThresholdTrue, SeedFirst

\* A safe initial threshold keeps the invariant.
LEMMA SeedKeepsInv == IInv /\ Seed => IInv'
<1> SUFFICES ASSUME IInv, Seed PROVE IInv'
  OBVIOUS
<1>0. heap = {} /\ frontier = 0
  BY DEF IInv, SeedFirst, Seed
<1>1. PICK t \in Seeds : SafeSeed(t) /\ threshold' = t
  BY DEF Seed
<1>2. phase' = "scan" /\ score' = score /\ heap' = heap /\ frontier' = frontier
  BY DEF Seed
<1>3. threshold' \in Nat
  BY <1>1, SeedsAssumption
<1>4. TypeOK'
  BY <1>2, <1>3 DEF IInv, TypeOK
<1>5. EntriesTrue'
  BY <1>0, <1>2 DEF IInv, EntriesTrue
<1>6. Cardinality(heap) = 0
  BY <1>0, FS_EmptySet
<1>7. ThresholdTrue'
  BY <1>1, <1>2, <1>6, KAssumption DEF ThresholdTrue, IsFull, SafeSeed
<1>8. MissingLose'
  <2>1. \A d \in Matching : ~(d < 0)
    BY Types DEF IInv
  <2> QED
    BY <1>0, <1>2, <2>1 DEF MissingLose, Matching
<1> QED
  BY <1>2, <1>4, <1>5, <1>7, <1>8 DEF IInv, SeedFirst

\* What scoring document d does to the heap and the threshold: the heap stays
\* within K entries, the threshold never falls, and what is dropped scores no
\* more than the threshold that follows.
LEMMA HeapStep ==
    ASSUME IInv, NEW d \in Matching, d >= frontier,
           NEW h2, h2 = HeapAfter(heap, threshold, Entry(d)),
           NEW t2, t2 = ThresholdAfter(h2, threshold)
    PROVE  /\ IsFiniteSet(h2) /\ Cardinality(h2) <= K
           /\ h2 \subseteq heap \cup {Entry(d)}
           /\ t2 \in Nat /\ t2 >= threshold
           /\ \A h \in h2 : h.score >= t2
           /\ IF IsFull(h2) THEN t2 = Top(h2).score ELSE SafeSeed(t2) /\ ~IsFull(heap)
           /\ \A h \in (heap \cup {Entry(d)}) \ h2 :
                 ~Reaches(h.score, t2, IsFull(h2))
<1> DEFINE e == Entry(d)
<1>1. /\ threshold \in Nat /\ frontier \in Nat /\ d \in Nat /\ K \in Nat \ {0}
      /\ score[d] \in Nat /\ e.score = score[d] /\ e.doc = d /\ d \in Docs
  BY Types DEF IInv, TypeOK
<1>2. /\ IsFiniteSet(heap) /\ Cardinality(heap) \in Nat /\ Cardinality(heap) <= K
  BY FS_CardinalityType DEF IInv, TypeOK, EntriesTrue
<1>3. /\ \A h \in heap : h.score \in Nat /\ h.score >= threshold
      /\ e \notin heap
  <2>1. \A h \in heap : h.score \in Nat /\ h.score >= threshold /\ h.doc < frontier
    BY DEF IInv, TypeOK, EntriesTrue
  <2>2. ~(d < frontier)
    BY <1>1
  <2> QED
    BY <2>1, <2>2, <1>1
<1> HIDE DEF e
<1>4. IsFull(heap) => threshold = Top(heap).score
  BY DEF IInv, ThresholdTrue
<1>5. \A h \in heap \cup {e} : h.doc = d => h = e
  BY <1>1, <1>3 DEF IInv, EntriesTrue
<1>6. ASSUME NEW g, g \subseteq heap \cup {e}, IsFiniteSet(g), g # {}
      PROVE  Top(g) \in g /\ \A y \in g : Top(g).score <= y.score
  <2>1. e \in [doc : Nat, score : Nat]
    BY <1>1 DEF e, Entry
  <2>2. g \subseteq [doc : Nat, score : Nat]
    BY <2>1, <1>6, HeapOfInv DEF IsHeap
  <2>3. \A x, y \in g : x.doc = y.doc => x = y
    BY <1>1, <1>5, <1>6, HeapOfInv DEF IsHeap
  <2> QED
    BY <2>2, <2>3, <1>6, TopIsLowest DEF IsHeap
<1>7. CASE ~Reaches(e.score, threshold, IsFull(heap))
  <2>1. h2 = heap
    BY <1>7 DEF HeapAfter, e
  <2>2. t2 = threshold
    BY <2>1, <1>4 DEF ThresholdAfter
  <2> QED
    BY <2>1, <2>2, <1>1, <1>2, <1>3, <1>7 DEF IInv, ThresholdTrue, e
<1>8. CASE Reaches(e.score, threshold, IsFull(heap)) /\ ~IsFull(heap)
  <2>1. h2 = heap \cup {e}
    BY <1>8 DEF HeapAfter, e
  <2>2. e.score >= threshold
    BY <1>8 DEF Reaches
  <2>3. IsFiniteSet(h2) /\ Cardinality(h2) = Cardinality(heap) + 1
    BY <2>1, <1>2, <1>3, FS_AddElement
  <2>4. Cardinality(h2) <= K
    BY <2>3, <1>1, <1>2, <1>8 DEF IsFull
  <2>5. \A h \in h2 : h.score \in Nat /\ h.score >= threshold
    BY <2>1, <2>2, <1>1, <1>3
  <2>6. Top(h2) \in h2 /\ \A y \in h2 : Top(h2).score <= y.score
    BY <2>1, <2>3, <1>6
  <2>7. t2 = IF IsFull(h2) THEN Top(h2).score ELSE threshold
    BY DEF ThresholdAfter
  <2>8. t2 \in Nat /\ t2 >= threshold /\ \A h \in h2 : h.score >= t2
    BY <2>5, <2>6, <2>7, <1>1
  <2>9. ~IsFull(h2) => SafeSeed(t2)
    BY <2>7, <1>8 DEF IInv, ThresholdTrue
  <2> QED
    BY <2>1, <2>3, <2>4, <2>7, <2>8, <2>9, <1>8 DEF e
<1>9. CASE Reaches(e.score, threshold, IsFull(heap)) /\ IsFull(heap)
  <2> DEFINE low == Top(heap)
  <2>1. h2 = (heap \ {low}) \cup {e}
    BY <1>9 DEF HeapAfter, e
  <2>2. e.score > threshold
    BY <1>9 DEF Reaches
  <2>3. heap # {}
    BY <1>1, <1>9, FS_EmptySet DEF IsFull
  <2>4. low \in heap /\ low.score = threshold
    BY <2>3, <1>2, <1>4, <1>6, <1>9
  <2> HIDE DEF low
  <2>5. IsFiniteSet(heap \ {low}) /\ Cardinality(heap \ {low}) = Cardinality(heap) - 1
    BY <2>4, <1>2, FS_RemoveElement
  <2>6. IsFiniteSet(h2) /\ Cardinality(h2) = Cardinality(heap \ {low}) + 1
    BY <2>1, <2>5, <1>3, FS_AddElement
  <2>7. IsFull(h2) /\ Cardinality(h2) <= K
    BY <2>5, <2>6, <1>1, <1>2, <1>9 DEF IsFull
  <2>8. \A h \in h2 : h.score \in Nat /\ h.score >= threshold
    BY <2>1, <2>2, <1>1, <1>3
  <2>9. Top(h2) \in h2 /\ \A y \in h2 : Top(h2).score <= y.score
    BY <2>1, <2>6, <1>6
  <2>10. t2 = Top(h2).score
    BY <2>7 DEF ThresholdAfter
  <2>11. t2 \in Nat /\ t2 >= threshold /\ \A h \in h2 : h.score >= t2
    BY <2>8, <2>9, <2>10, <1>1
  <2>12. \A h \in (heap \cup {e}) \ h2 : h = low
    BY <2>1
  <2>13. ~Reaches(low.score, t2, TRUE)
    BY <2>4, <2>11, <1>1 DEF Reaches
  <2> QED
    BY <2>1, <2>6, <2>7, <2>10, <2>11, <2>12, <2>13 DEF e
<1> QED
  BY <1>7, <1>8, <1>9

\* Offering a document keeps the invariant.
LEMMA OfferKeepsInv == ASSUME IInv, NEW d \in Docs, Offer(d) PROVE IInv'
<1>1. /\ d \in Matching /\ d >= frontier /\ phase = "scan" /\ phase' = "scan"
      /\ heap' = HeapAfter(heap, threshold, Entry(d))
      /\ threshold' = ThresholdAfter(heap', threshold)
      /\ frontier' = d + 1 /\ score' = score
      /\ \A x \in Matching : frontier <= x /\ x < d => ~Enters(x)
  BY DEF Offer
<1>2. /\ IsFiniteSet(heap') /\ Cardinality(heap') <= K
      /\ heap' \subseteq heap \cup {Entry(d)}
      /\ threshold' \in Nat /\ threshold' >= threshold
      /\ \A h \in heap' : h.score >= threshold'
      /\ IF IsFull(heap') THEN threshold' = Top(heap').score
                           ELSE SafeSeed(threshold') /\ ~IsFull(heap)
      /\ \A h \in (heap \cup {Entry(d)}) \ heap' :
            ~Reaches(h.score, threshold', IsFull(heap'))
  BY <1>1, HeapStep
<1>3. /\ d \in Nat /\ frontier \in Nat /\ threshold \in Nat /\ NumDocs \in Nat
      /\ \A x \in Matching : x \in Nat /\ score[x] \in Nat
      /\ \A x : Entry(x).doc = x /\ Entry(x).score = score[x]
      /\ score[d] \in Nat
  BY <1>1, Types DEF IInv, TypeOK
<1>4. frontier' \in 0 .. NumDocs
  BY <1>1, <1>3 DEF Docs
<1>5. heap' \subseteq [doc : Docs, score : Nat]
  <2>1. Entry(d) \in [doc : Docs, score : Nat]
    BY <1>3 DEF Entry
  <2> QED
    BY <2>1, <1>2 DEF IInv, TypeOK
<1>6. TypeOK'
  BY <1>1, <1>2, <1>4, <1>5 DEF IInv, TypeOK
<1>7. EntriesTrue'
  <2>1. ASSUME NEW h \in heap'
        PROVE  h = Entry(h.doc) /\ h.doc \in Matching /\ h.doc < d + 1
    <3>1. CASE h \in heap
      <4>1. h = Entry(h.doc) /\ h.doc \in Matching /\ h.doc < frontier
        BY <3>1 DEF IInv, EntriesTrue
      <4>2. h.doc \in Nat
        BY <4>1, <1>3
      <4> QED
        BY <4>1, <4>2, <1>1, <1>3
    <3>2. CASE h = Entry(d)
      BY <3>2, <1>1, <1>3
    <3> QED
      BY <3>1, <3>2, <1>2
  <2>2. Matching' = Matching /\ \A x : Entry(x)' = Entry(x)
    BY <1>1 DEF Matching, Entry
  <2> QED
    BY <2>1, <2>2, <1>1, <1>2 DEF EntriesTrue, Matching, Entry
<1>8. ThresholdTrue'
  BY <1>1, <1>2 DEF ThresholdTrue, SafeSeed, IsFull
<1>9. MissingLose'
  <2>1. SUFFICES ASSUME NEW x \in Matching, x < d + 1, Entry(x) \notin heap'
                 PROVE  ~Reaches(score[x], threshold', IsFull(heap'))
    BY <1>1 DEF MissingLose, Matching, Entry, Enters
  <2>2. CASE Entry(x) \in heap \cup {Entry(d)}
    BY <2>1, <2>2, <1>2, <1>3
  <2>3. CASE Entry(x) \notin heap \cup {Entry(d)}
    <3>1. x # d
      BY <2>3
    <3>2. ~Enters(x)
      BY <3>1, <2>1, <2>3, <1>1, <1>3 DEF IInv, MissingLose
    <3>3. IsFull(heap) => IsFull(heap')
      BY <1>2
    <3> QED
      BY <3>2, <3>3, <1>2, <1>3 DEF Enters, Reaches
  <2> QED
    BY <2>2, <2>3
<1> QED
  BY <1>1, <1>6, <1>7, <1>8, <1>9 DEF IInv, SeedFirst

\* The end keeps the invariant.
LEMMA FinishKeepsInv == IInv /\ Finish => IInv'
<1> SUFFICES ASSUME IInv, Finish PROVE IInv'
  OBVIOUS
<1>1. /\ phase = "scan" /\ phase' = "done" /\ score' = score
      /\ threshold' = threshold /\ heap' = heap /\ frontier' = frontier
      /\ \A x \in Matching : frontier <= x => ~Enters(x)
  BY DEF Finish
<1>2. TypeOK'
  BY <1>1 DEF IInv, TypeOK
<1>3. EntriesTrue'
  BY <1>1 DEF IInv, EntriesTrue, Entry, Matching
<1>4. ThresholdTrue'
  BY <1>1 DEF IInv, ThresholdTrue, SafeSeed
<1>5. MissingLose'
  <2>1. \A x \in Matching : x \in Nat /\ frontier \in Nat
    BY Types DEF IInv, TypeOK
  <2>2. \A x \in Matching : Entry(x) \notin heap => ~Enters(x)
    BY <2>1, <1>1 DEF IInv, MissingLose
  <2> QED
    BY <2>2, <1>1 DEF MissingLose, Matching, Entry, Enters
<1> QED
  BY <1>1, <1>2, <1>3, <1>4, <1>5 DEF IInv, SeedFirst

\* Every step keeps the invariant.
LEMMA NextInv == IInv /\ [Next]_vars => IInv'
<1> SUFFICES ASSUME IInv, [Next]_vars PROVE IInv'
  OBVIOUS
<1>1. CASE Seed
  BY <1>1, SeedKeepsInv
<1>2. CASE \E d \in Docs : Offer(d)
  BY <1>2, OfferKeepsInv
<1>3. CASE Finish
  BY <1>3, FinishKeepsInv
<1>4. CASE UNCHANGED vars
  BY <1>4 DEF vars, IInv, TypeOK, EntriesTrue, ThresholdTrue, MissingLose, SeedFirst,
              Entry, Matching, Enters, SafeSeed
<1> QED
  BY <1>1, <1>2, <1>3, <1>4 DEF Next

\* The invariant always holds.
LEMMA InvAlways == Spec => []IInv
BY InitInv, NextInv, PTL DEF Spec

-----------------------------------------------------------------------------
(* Results.                                                                *)

\* The heap never holds more than K entries, and the traversal never leaves
\* the collection.
THEOREM TypeCorrect == Spec => []TypeOK
<1>1. IInv => TypeOK
  BY DEF IInv
<1> QED
  BY <1>1, InvAlways, PTL

\* When a disjunctive query is done its heap is full, if the threshold was
\* seeded: K documents reach the seed, and none of them can have been passed
\* over while there was room.
LEMMA SeedFillsHeap ==
    ASSUME IInv, phase = "done", ~IsFull(heap)
    PROVE  threshold = 0
<1>1. SUFFICES ASSUME threshold # 0 PROVE FALSE
  OBVIOUS
<1>2. threshold \in Nat /\ threshold > 0
  BY <1>1 DEF IInv, TypeOK
<1>3. PICK S \in SUBSET Docs : Cardinality(S) = K /\ \A d \in S : score[d] >= threshold
  BY <1>2 DEF IInv, ThresholdTrue, SafeSeed
<1>4. ASSUME NEW d \in S PROVE Entry(d) \in heap
  <2>1. d \in Docs /\ score[d] \in Nat /\ score[d] >= threshold
    BY <1>3, Types DEF IInv
  <2>2. d \in Matching
    BY <2>1, <1>2 DEF Matching
  <2>3. Enters(d)
    BY <2>1 DEF Enters, Reaches
  <2> QED
    BY <2>2, <2>3 DEF IInv, MissingLose
<1> DEFINE f == [d \in S |-> Entry(d)]
<1>5. f \in Injection(S, heap)
  <2>1. f \in [S -> heap]
    BY <1>4
  <2>2. \A a, b \in S : f[a] = f[b] => a = b
    BY Types DEF IInv
  <2> QED
    BY <2>1, <2>2 DEF Injection, IsInjective
<1> HIDE DEF f
<1>6. Cardinality(S) <= Cardinality(heap)
  BY <1>5, FS_Injection DEF IInv, EntriesTrue
<1>7. Cardinality(heap) \in Nat /\ Cardinality(heap) <= K /\ K \in Nat
  BY FS_CardinalityType, KAssumption DEF IInv, EntriesTrue, TypeOK
<1> QED
  BY <1>3, <1>6, <1>7 DEF IsFull

\* The heap a disjunctive query returns is a top-K of the collection, for
\* every collection, every K and every safe initial threshold.
THEOREM TopKIsSafe == Spec => []SafeTopK
<1>1. ASSUME IInv, phase = "done" PROVE \A h \in heap : h = Entry(h.doc)
  BY <1>1 DEF IInv, EntriesTrue
<1>2. ASSUME IInv, phase = "done", NEW d \in Matching, Entry(d) \notin heap
      PROVE  IsFull(heap) /\ \A h \in heap : score[d] <= h.score
  <2>1. ~Enters(d) /\ score[d] \in Nat /\ score[d] > 0 /\ threshold \in Nat
    BY <1>2, Types DEF IInv, MissingLose, TypeOK
  <2>2. IsFull(heap)
    <3>1. SUFFICES ASSUME ~IsFull(heap) PROVE FALSE
      OBVIOUS
    <3>2. threshold = 0
      BY <1>2, <3>1, SeedFillsHeap
    <3> QED
      BY <2>1, <3>1, <3>2 DEF Enters, Reaches
  <2>3. score[d] <= threshold
    BY <2>1, <2>2 DEF Enters, Reaches
  <2>4. \A h \in heap : h.score \in Nat /\ threshold <= h.score
    BY <1>2 DEF IInv, EntriesTrue, TypeOK
  <2> QED
    BY <2>1, <2>2, <2>3, <2>4
<1>3. IInv => SafeTopK
  BY <1>1, <1>2 DEF SafeTopK
<1> QED
  BY <1>3, InvAlways, PTL

-----------------------------------------------------------------------------
(* The answer of exhaustive evaluation.                                    *)

\* f[n] is the heap when every document below n has been taken.
Evaluates(f) ==
    f = [n \in 0 .. NumDocs |-> IF n = 0 THEN {} ELSE Settled(f[n - 1], n - 1)]

\* There is such a function: one for the first m documents gives one for the
\* first m + 1.
LEMMA EvaluationExists == \E f : Evaluates(f)
<1> DEFINE Upto(f, m) == f = [n \in 0 .. m |-> IF n = 0 THEN {} ELSE Settled(f[n - 1], n - 1)]
           G == {m \in Nat : \E f : Upto(f, m)}
<1>1. 0 \in G
  <2> DEFINE f == [n \in 0 .. 0 |-> {}]
  <2>1. Upto(f, 0)
    OBVIOUS
  <2> QED
    BY <2>1
<1>2. ASSUME NEW m \in Nat, m \in G PROVE m + 1 \in G
  <2>1. PICK f : Upto(f, m)
    BY <1>2
  <2> DEFINE g == [n \in 0 .. m + 1 |-> IF n = 0 THEN {} ELSE Settled(f[n - 1], n - 1)]
  <2>2. \A n \in 0 .. m : g[n] = f[n]
    <3> DEFINE c == [n \in 0 .. m |-> IF n = 0 THEN {} ELSE Settled(f[n - 1], n - 1)]
    <3>1. \A n \in 0 .. m : c[n] = g[n]
      OBVIOUS
    <3>2. f = c
      BY <2>1
    <3> HIDE DEF c
    <3> QED
      BY <3>1, <3>2
  <2>3. \A n \in 0 .. m + 1 : n # 0 => n - 1 \in 0 .. m
    OBVIOUS
  <2>4. Upto(g, m + 1)
    <3>1. \A n \in 0 .. m + 1 : n # 0 => g[n - 1] = f[n - 1]
      BY <2>2, <2>3
    <3> QED
      BY <3>1
  <2> HIDE DEF g
  <2> QED
    BY <2>4
<1>3. NumDocs \in G
  <2> DEFINE bad == {m \in Nat : m \notin G}
  <2> HIDE DEF G
  <2>1. SUFFICES ASSUME bad # {} PROVE FALSE
    BY NumDocsAssumption
  <2>2. PICK m \in bad : \A i \in bad : m <= i
    <3>1. bad \in SUBSET Nat
      OBVIOUS
    <3> QED
      BY <2>1, <3>1, LeastExists
  <2>3. m # 0 /\ m - 1 \in Nat /\ m = (m - 1) + 1
    BY <1>1, <2>2
  <2>4. m - 1 \in G
    BY <2>2, <2>3
  <2> QED
    BY <1>2, <2>2, <2>3, <2>4
<1> QED
  BY <1>3 DEF Evaluates

\* What it is at each number.
LEMMA EvaluationSteps ==
    ASSUME NEW f, Evaluates(f)
    PROVE  f[0] = {} /\ \A n \in 1 .. NumDocs : f[n] = Settled(f[n - 1], n - 1)
<1> DEFINE c == [n \in 0 .. NumDocs |-> IF n = 0 THEN {} ELSE Settled(f[n - 1], n - 1)]
<1>1. c[0] = {} /\ \A n \in 1 .. NumDocs : c[n] = Settled(f[n - 1], n - 1)
  BY NumDocsAssumption
<1>2. f = c
  BY DEF Evaluates
<1> HIDE DEF c
<1> QED
  BY <1>1, <1>2

\* ExhaustiveHeap is where such a function ends.
LEMMA ExhaustiveIs == \E f : Evaluates(f) /\ ExhaustiveHeap = f[NumDocs]
<1> DEFINE g == CHOOSE f : Evaluates(f)
<1>1. Evaluates(g)
  BY EvaluationExists
<1>2. ExhaustiveHeap = g[NumDocs]
  BY DEF ExhaustiveHeap, Evaluates
<1> QED
  BY <1>1, <1>2

\* Putting one element in the place of another leaves the size alone.
LEMMA Replaced ==
    ASSUME NEW S, IsFiniteSet(S), NEW x \in S, NEW y, y \notin S
    PROVE  /\ IsFiniteSet((S \ {x}) \cup {y})
           /\ Cardinality((S \ {x}) \cup {y}) = Cardinality(S)
<1> DEFINE R == S \ {x}
<1>1. IsFiniteSet(R) /\ Cardinality(R) = Cardinality(S) - 1 /\ Cardinality(S) \in Nat
  BY FS_RemoveElement, FS_CardinalityType
<1>2. y \notin R
  OBVIOUS
<1> HIDE DEF R
<1>3. IsFiniteSet(R \cup {y}) /\ Cardinality(R \cup {y}) = Cardinality(R) + 1
  BY <1>1, <1>2, FS_AddElement
<1>4. IsFiniteSet(R \cup {y}) /\ Cardinality(R \cup {y}) = Cardinality(S)
  BY <1>1, <1>3
<1> QED
  BY <1>4 DEF R

\* A heap of what was found below document n.
FoundBelow(h, n) ==
    /\ IsFiniteSet(h) /\ Cardinality(h) \in 0 .. K
    /\ \A x \in h : x = Entry(x.doc) /\ x.doc \in Matching /\ x.doc < n

\* Such a heap is a set of results, its top included.
LEMMA FoundIsHeap ==
    ASSUME TypeOK, NEW n, NEW h, FoundBelow(h, n)
    PROVE  /\ IsHeap(h)
           /\ \A x \in h : x.score \in Nat
           /\ h # {} => Top(h) \in h /\ \A y \in h : Top(h).score <= y.score
<1>1. /\ \A d \in Matching : d \in Nat /\ score[d] \in Nat
      /\ \A d : Entry(d).doc = d /\ Entry(d).score = score[d]
  BY Types
<1>2. \A x \in h : x \in [doc : Nat, score : Nat]
  BY <1>1 DEF FoundBelow, Entry
<1>3. \A x, y \in h : x.doc = y.doc => x = y
  BY DEF FoundBelow
<1>4. IsHeap(h)
  BY <1>2, <1>3 DEF IsHeap, FoundBelow
<1> QED
  BY <1>2, <1>4, TopIsLowest

\* What a heap holds from a score on.
From(h, t) == {x \in h : x.score >= t}

\* Exhaustive evaluation and one that starts from a threshold settle the next
\* document alike: the heap of the latter is that of the former from the
\* threshold on.
LEMMA SettledAlike ==
    ASSUME TypeOK, NEW d \in Matching, NEW e, FoundBelow(e, d),
           NEW t \in Nat, NEW h, h = From(e, t),
           IsFull(h) => t = Top(h).score,
           NEW h2, h2 = HeapAfter(h, t, Entry(d)),
           NEW t2, t2 = ThresholdAfter(h2, t)
    PROVE  h2 = From(Settled(e, d), t2)
<1> DEFINE n == Entry(d)  e2 == Settled(e, d)
<1>0. h = {x \in e : x.score >= t}
  BY DEF From
<1>1. /\ n.score = score[d] /\ n.doc = d /\ score[d] \in Nat /\ score[d] > 0 /\ d \in Nat
      /\ K \in Nat \ {0}
  BY Types
<1>2. /\ IsFiniteSet(e) /\ Cardinality(e) \in Nat /\ Cardinality(e) <= K
      /\ \A x \in e : x.score \in Nat /\ x.doc < d
      /\ e # {} => Top(e) \in e /\ \A y \in e : Top(e).score <= y.score
  <2>1. IsFiniteSet(e) /\ Cardinality(e) \in 0 .. K /\ \A x \in e : x.doc < d
    BY DEF FoundBelow
  <2>2. /\ \A x \in e : x.score \in Nat
        /\ e # {} => Top(e) \in e /\ \A y \in e : Top(e).score <= y.score
    BY FoundIsHeap
  <2> QED
    BY <2>1, <2>2, <1>1
<1>3. n \notin e
  BY <1>1, <1>2
<1>4. /\ h \subseteq e /\ IsFiniteSet(h) /\ Cardinality(h) \in Nat /\ Cardinality(h) <= Cardinality(e)
      /\ n \notin h
  BY <1>0, <1>2, <1>3, FS_Subset, FS_CardinalityType
<1>5. e2 = HeapAfter(e, ThresholdAfter(e, 0), n)
  BY <1>1 DEF Settled
<1>6. IsFull(e) => e # {} /\ ThresholdAfter(e, 0) = Top(e).score
  BY <1>1, FS_EmptySet DEF IsFull, ThresholdAfter
<1>7. ~IsFull(e) => e2 = e \cup {n}
  <2>1. ~IsFull(e) => ThresholdAfter(e, 0) = 0
    BY DEF ThresholdAfter
  <2> QED
    BY <2>1, <1>1, <1>5 DEF HeapAfter, Reaches
<1>8. IsFull(e) => e2 = IF n.score > Top(e).score THEN (e \ {Top(e)}) \cup {n} ELSE e
  BY <1>5, <1>6 DEF HeapAfter, Reaches
<1> HIDE DEF n, e2
<1>a. \A x \in e : x = Entry(x.doc) /\ x.doc \in Matching /\ x.doc < d + 1
  <2>1. \A x \in e : x = Entry(x.doc) /\ x.doc \in Matching /\ x.doc < d
    BY DEF FoundBelow
  <2>2. \A x \in e : x.doc \in Nat
    BY <2>1, Types
  <2> QED
    BY <2>1, <2>2, <1>1
<1>b. IsFull(e) /\ ~IsFull(h) => Top(e).score < t
  <2>1. SUFFICES ASSUME IsFull(e), ~IsFull(h), Top(e).score >= t PROVE FALSE
    BY <1>2, <1>6
  <2>2. \A x \in e : x.score >= t
    BY <1>2, <1>6, <2>1
  <2>3. h = e
    BY <1>0, <2>2
  <2> QED
    BY <2>1, <2>3
<1>9. CASE IsFull(h)
  <2>1. h = e
    BY <1>2, <1>4, <1>9, FS_Subset DEF IsFull
  <2>2. IsFull(e) /\ t = Top(e).score
    BY <2>1, <1>9
  <2>3. h2 = e2
    BY <2>1, <2>2, <1>5, <1>6 DEF n
  <2>4. \A x \in h2 : x.score \in Nat /\ x.score >= t2
    <3>1. FoundBelow(h2, d + 1)
      <4>2. /\ IsFiniteSet((e \ {Top(e)}) \cup {n})
            /\ Cardinality((e \ {Top(e)}) \cup {n}) = Cardinality(e)
        BY <1>2, <1>3, <1>6, <2>2, Replaced
      <4>3. IsFiniteSet(h2) /\ Cardinality(h2) \in 0 .. K
        BY <4>2, <2>2, <2>3, <1>2, <1>8
      <4>4. \A x \in h2 : x \in e \/ x = n
        BY <2>2, <2>3, <1>8
      <4>6. n = Entry(n.doc) /\ n.doc \in Matching /\ n.doc < d + 1
        BY <1>1 DEF n
      <4> QED
        BY <4>3, <4>4, <4>6, <1>a DEF FoundBelow
    <3>2. IsFull(h2)
      <4>2. Cardinality((e \ {Top(e)}) \cup {n}) = Cardinality(e)
        BY <1>2, <1>3, <1>6, <2>2, Replaced
      <4> QED
        BY <4>2, <2>2, <2>3, <1>8 DEF IsFull
    <3>3. t2 = Top(h2).score /\ h2 # {}
      BY <3>2, <1>1, FS_EmptySet DEF ThresholdAfter, IsFull
    <3> QED
      BY <3>1, <3>3, FoundIsHeap
  <2> QED
    BY <2>3, <2>4 DEF e2, From
<1>10. CASE ~IsFull(h) /\ n.score < t
  <2>1. h2 = h
    <3>1. ~Reaches(n.score, t, IsFull(h))
      BY <1>10, <1>1 DEF Reaches
    <3> QED
      BY <3>1 DEF HeapAfter, n
  <2>2. t2 = t
    BY <2>1, <1>10 DEF ThresholdAfter
  <2>3. IsFull(e) => Top(e).score < t
    BY <1>b, <1>10
  <2>4. {x \in e2 : x.score >= t} = {x \in e : x.score >= t}
    BY <2>3, <1>1, <1>2, <1>6, <1>7, <1>8, <1>10
  <2> QED
    BY <1>0, <2>1, <2>2, <2>4 DEF e2, From
<1>11. CASE ~IsFull(h) /\ n.score >= t
  <2>1. h2 = h \cup {n}
    BY <1>11 DEF HeapAfter, Reaches, n
  <2>2. IsFull(e) => Top(e).score < t
    BY <1>b, <1>11
  <2>3. h2 = {x \in e2 : x.score >= t}
    BY <2>1, <2>2, <1>0, <1>1, <1>2, <1>6, <1>7, <1>8, <1>11
  <2>4. CASE ~IsFull(h2)
    BY <2>3, <2>4 DEF ThresholdAfter, e2, From
  <2>5. CASE IsFull(h2)
    <3>1. FoundBelow(h2, d + 1)
      <4>1. IsFiniteSet(h2)
        BY <2>1, <1>4, FS_AddElement
      <4>2. Cardinality(h2) \in 0 .. K
        BY <2>5, <1>1 DEF IsFull
      <4>4. n = Entry(n.doc) /\ n.doc \in Matching /\ n.doc < d + 1
        BY <1>1 DEF n
      <4> QED
        BY <4>1, <4>2, <4>4, <2>1, <1>4, <1>a DEF FoundBelow
    <3>2. t2 = Top(h2).score /\ h2 # {}
      BY <2>1, <2>5 DEF ThresholdAfter
    <3>3. /\ t2 \in Nat /\ t2 >= t
          /\ \A x \in h2 : x.score \in Nat /\ x.score >= t2
      BY <3>1, <3>2, <2>3, FoundIsHeap
    <3>4. \A x \in e2 : x.score \in Nat
      BY <1>1, <1>2, <1>7, <1>8
    <3>5. \A x \in e2 : x.score >= t2 => x.score >= t
      BY <3>3, <3>4
    <3> QED
      BY <3>3, <3>5, <2>3 DEF e2, From
  <2> QED
    BY <2>4, <2>5
<1> QED
  BY <1>1, <1>9, <1>10, <1>11 DEF From

\* Every heap of an exhaustive evaluation is one of what was found so far.
LEMMA EvaluationFinds ==
    ASSUME TypeOK, NEW f, Evaluates(f)
    PROVE  \A n \in 0 .. NumDocs : FoundBelow(f[n], n)
<1> DEFINE bad == {n \in 0 .. NumDocs : ~FoundBelow(f[n], n)}
<1>1. SUFFICES ASSUME bad # {} PROVE FALSE
  OBVIOUS
<1>2. PICK n \in bad : \A i \in bad : n <= i
  <2>1. bad \in SUBSET Nat
    BY NumDocsAssumption
  <2> QED
    BY <1>1, <2>1, LeastExists
<1>3. NumDocs \in Nat /\ n \in 0 .. NumDocs
  BY NumDocsAssumption
<1>4. f[0] = {} /\ (n # 0 => f[n] = Settled(f[n - 1], n - 1))
  BY <1>3, EvaluationSteps, NumDocsAssumption
<1>5. FoundBelow({}, 0)
  BY FS_EmptySet, KAssumption DEF FoundBelow
<1>6. n # 0
  BY <1>2, <1>4, <1>5
<1>7. n - 1 \in Docs /\ n - 1 \in 0 .. NumDocs /\ n - 1 \notin bad
  BY <1>2, <1>3, <1>6 DEF Docs
<1> DEFINE d == n - 1  e == f[d]
<1>8. FoundBelow(e, d) /\ d \in Nat /\ d < n /\ n = d + 1 /\ d \in Docs
  BY <1>3, <1>6, <1>7
<1>9. f[n] = Settled(e, d)
  BY <1>4, <1>6
<1> HIDE DEF d, e
<1>10. FoundBelow(Settled(e, d), n)
  <2>1. /\ IsFiniteSet(e) /\ Cardinality(e) \in Nat /\ Cardinality(e) <= K /\ K \in Nat \ {0}
        /\ \A x \in e : x = Entry(x.doc) /\ x.doc \in Matching /\ x.doc < n
    BY <1>8, Types, KAssumption DEF FoundBelow
  <2>2. CASE score[d] = 0
    BY <2>1, <2>2 DEF Settled, FoundBelow
  <2>3. CASE score[d] # 0
    <3>1. d \in Matching /\ Entry(d).doc = d
      BY <1>8, <2>3, Types DEF Matching
    <3>2. Entry(d) \notin e
      BY <1>8, <3>1 DEF FoundBelow
    <3>3. /\ IsFiniteSet(e \cup {Entry(d)})
          /\ Cardinality(e \cup {Entry(d)}) = Cardinality(e) + 1
      BY <2>1, <3>2, FS_AddElement
    <3>4. CASE Settled(e, d) = e
      BY <3>4, <2>1 DEF FoundBelow
    <3>5. CASE ~IsFull(e) /\ Settled(e, d) = e \cup {Entry(d)}
      BY <3>1, <3>3, <3>5, <2>1, <1>8 DEF FoundBelow, IsFull
    <3>6. CASE IsFull(e) /\ Settled(e, d) = (e \ {Top(e)}) \cup {Entry(d)}
      <4>1. e # {}
        BY <3>6, <2>1, FS_EmptySet DEF IsFull
      <4>2. Top(e) \in e
        BY <4>1, <1>8, FoundIsHeap
      <4>4. /\ IsFiniteSet((e \ {Top(e)}) \cup {Entry(d)})
            /\ Cardinality((e \ {Top(e)}) \cup {Entry(d)}) = Cardinality(e)
        BY <4>2, <2>1, <3>2, Replaced
      <4> QED
        BY <4>4, <3>1, <3>6, <2>1, <1>8 DEF FoundBelow
    <3> QED
      BY <3>4, <3>5, <3>6, <2>3 DEF Settled, HeapAfter
  <2> QED
    BY <2>2, <2>3
<1> QED
  BY <1>2, <1>9, <1>10

\* A document that does not match leaves an exhaustive evaluation alone.
LEMMA SkippedAlike ==
    ASSUME TypeOK, NEW d \in Docs, d \notin Matching, NEW e
    PROVE  Settled(e, d) = e
BY Types DEF Settled, Matching, TypeOK

\* The heap is, from the threshold on, that of an exhaustive evaluation of the
\* settled documents.
SameSoFar ==
    \A f : Evaluates(f) =>
        heap = From(f[IF phase = "done" THEN NumDocs ELSE frontier], threshold)

\* Passing over documents that would not enter the heap changes nothing in
\* what exhaustive evaluation has from the threshold on.
LEMMA PassedOver ==
    ASSUME IInv, NEW f, Evaluates(f), NEW d \in frontier .. NumDocs,
           heap = From(f[frontier], threshold),
           \A c \in Matching : frontier <= c /\ c < d => ~Enters(c)
    PROVE  heap = From(f[d], threshold)
<1>1. TypeOK /\ NumDocs \in Nat /\ frontier \in 0 .. NumDocs /\ threshold \in Nat
  BY NumDocsAssumption DEF IInv, TypeOK
<1> DEFINE bad == {n \in frontier .. d : heap # From(f[n], threshold)}
<1>2. SUFFICES ASSUME bad # {} PROVE FALSE
  BY <1>1
<1>3. PICK n \in bad : \A i \in bad : n <= i
  <2>1. bad \in SUBSET Nat
    BY <1>1
  <2> QED
    BY <1>2, <2>1, LeastExists
<1>4. n \in frontier .. d /\ heap # From(f[n], threshold)
  BY <1>3
<1>5. n # frontier
  BY <1>4
<1> DEFINE c == n - 1
<1>6. c \in Docs /\ c \in 0 .. NumDocs /\ frontier <= c /\ c < d /\ n \in 1 .. NumDocs /\ n = c + 1
  BY <1>1, <1>4, <1>5 DEF Docs
<1>7. c \in frontier .. d /\ c \notin bad
  BY <1>1, <1>3, <1>6
<1>8. heap = From(f[c], threshold)
  BY <1>7
<1>9. f[n] = Settled(f[c], c)
  BY <1>6, EvaluationSteps
<1> HIDE DEF bad, c
<1>10. CASE c \notin Matching
  BY <1>1, <1>4, <1>6, <1>8, <1>9, <1>10, SkippedAlike
<1>11. CASE c \in Matching
  <2>1. ~Enters(c)
    BY <1>6, <1>11
  <2>2. FoundBelow(f[c], c)
    BY <1>1, <1>6, EvaluationFinds
  <2>3. IsFull(heap) => threshold = Top(heap).score
    BY DEF IInv, ThresholdTrue
  <2>4. HeapAfter(heap, threshold, Entry(c)) = heap
    BY <2>1, <1>1, Types DEF HeapAfter, Enters
  <2>5. ThresholdAfter(heap, threshold) = threshold
    BY <2>3 DEF ThresholdAfter
  <2>6. heap = From(Settled(f[c], c), threshold)
    BY <1>1, <1>8, <1>11, <2>2, <2>3, <2>4, <2>5, SettledAlike
  <2> QED
    BY <1>4, <1>9, <2>6
<1> QED
  BY <1>10, <1>11

\* It holds at first.
LEMMA InitSame == Init => SameSoFar
<1> SUFFICES ASSUME Init, NEW f, Evaluates(f)
             PROVE  heap = From(f[IF phase = "done" THEN NumDocs ELSE frontier], threshold)
  BY DEF SameSoFar
<1>1. f[0] = {}
  BY EvaluationSteps
<1> QED
  BY <1>1 DEF Init, From

\* Every step keeps it.
LEMMA NextSame == ASSUME IInv, IInv', SameSoFar, [Next]_vars PROVE SameSoFar'
<1>1. score' = score
  BY DEF Next, vars, Seed, Offer, Finish
<1>2. SUFFICES ASSUME NEW f, Evaluates(f)
               PROVE  heap' = From(f[IF phase' = "done" THEN NumDocs ELSE frontier'], threshold')
  BY <1>1 DEF SameSoFar, Evaluates, Settled, Entry
<1>3. heap = From(f[IF phase = "done" THEN NumDocs ELSE frontier], threshold)
  BY <1>2 DEF SameSoFar
<1>4. /\ TypeOK /\ TypeOK' /\ NumDocs \in Nat /\ threshold \in Nat
      /\ frontier \in 0 .. NumDocs
  BY NumDocsAssumption DEF IInv, TypeOK
<1>5. CASE UNCHANGED vars
  BY <1>3, <1>5 DEF vars
<1>6. CASE Seed
  <2>1. heap = {} /\ frontier = 0 /\ heap' = {} /\ frontier' = 0 /\ phase' # "done"
    BY <1>6 DEF Seed, IInv, SeedFirst
  <2>2. f[0] = {}
    BY <1>2, EvaluationSteps
  <2> QED
    BY <2>1, <2>2 DEF From
<1>7. ASSUME NEW d \in Docs, Offer(d)
      PROVE  heap' = From(f[IF phase' = "done" THEN NumDocs ELSE frontier'], threshold')
  <2>1. /\ phase = "scan" /\ phase' = "scan" /\ d \in Matching /\ d >= frontier
        /\ \A c \in Matching : frontier <= c /\ c < d => ~Enters(c)
        /\ heap' = HeapAfter(heap, threshold, Entry(d))
        /\ threshold' = ThresholdAfter(heap', threshold)
        /\ frontier' = d + 1
    BY <1>7 DEF Offer
  <2>2. d \in frontier .. NumDocs /\ d \in 0 .. NumDocs /\ d + 1 \in 1 .. NumDocs /\ d = (d + 1) - 1
    BY <1>4, <2>1 DEF Docs
  <2>3. heap = From(f[d], threshold)
    BY <1>2, <1>3, <2>1, <2>2, PassedOver
  <2>4. FoundBelow(f[d], d)
    BY <1>2, <1>4, <2>2, EvaluationFinds
  <2>5. IsFull(heap) => threshold = Top(heap).score
    BY DEF IInv, ThresholdTrue
  <2>6. heap' = From(Settled(f[d], d), threshold')
    BY <1>4, <2>1, <2>3, <2>4, <2>5, SettledAlike
  <2>7. f[d + 1] = Settled(f[d], d)
    BY <1>2, <2>2, EvaluationSteps
  <2> QED
    BY <2>1, <2>6, <2>7
<1>8. CASE Finish
  <2>1. /\ phase = "scan" /\ phase' = "done" /\ heap' = heap /\ threshold' = threshold
        /\ \A c \in Matching : frontier <= c /\ c < NumDocs => ~Enters(c)
    BY <1>8 DEF Finish
  <2>2. heap = From(f[NumDocs], threshold)
    BY <1>2, <1>3, <1>4, <2>1, PassedOver
  <2> QED
    BY <2>1, <2>2
<1> QED
  BY <1>5, <1>6, <1>7, <1>8 DEF Next

\* It always holds.
LEMMA SameAlways == Spec => [](IInv /\ SameSoFar)
<1>1. Init => IInv /\ SameSoFar
  BY InitInv, InitSame
<1>2. (IInv /\ SameSoFar) /\ [Next]_vars => (IInv /\ SameSoFar)'
  BY NextInv, NextSame
<1> QED
  BY <1>1, <1>2, PTL DEF Spec

\* At the end the heap is that of an exhaustive evaluation.
SameAtEnd == phase = "done" => \A f : Evaluates(f) => heap = f[NumDocs]

\* It is: a heap that is full has no room for what the threshold leaves out, and
\* one that is not full has the threshold 0.
LEMMA EndAlways == Spec => []SameAtEnd
<1>1. IInv /\ SameSoFar => SameAtEnd
  <2> SUFFICES ASSUME IInv, SameSoFar, phase = "done", NEW f, Evaluates(f) PROVE heap = f[NumDocs]
    BY DEF SameAtEnd
  <2> DEFINE e == f[NumDocs]
  <2>2. heap = From(e, threshold)
    BY DEF SameSoFar
  <2>3. NumDocs \in 0 .. NumDocs /\ TypeOK /\ threshold \in Nat /\ K \in Nat
    BY NumDocsAssumption, KAssumption DEF IInv, TypeOK
  <2>4. FoundBelow(e, NumDocs)
    BY <2>3, EvaluationFinds
  <2> HIDE DEF e
  <2>5. \A x \in e : x.score \in Nat
    BY <2>3, <2>4, FoundIsHeap
  <2>6. IsFiniteSet(e) /\ Cardinality(e) \in 0 .. K
    BY <2>4 DEF FoundBelow
  <2>7. CASE IsFull(heap)
    <3>1. heap \in SUBSET e /\ Cardinality(heap) <= Cardinality(e)
      BY <2>2, <2>6, FS_Subset DEF From
    <3>2. Cardinality(e) = Cardinality(heap)
      BY <2>3, <2>6, <2>7, <3>1 DEF IsFull
    <3>3. heap = e
      BY <2>6, <3>1, <3>2, FS_Subset
    <3> QED
      BY <3>3 DEF e
  <2>8. CASE ~IsFull(heap)
    <3>1. threshold = 0
      BY <2>3, <2>8, SeedFillsHeap
    <3>2. heap = e
      BY <2>2, <2>5, <3>1 DEF From
    <3> QED
      BY <3>2 DEF e
  <2> QED
    BY <2>7, <2>8
<1> QED
  BY <1>1, SameAlways, PTL

\* Documents are only passed over, and the threshold is only seeded, where it
\* does not show: for every collection, K and safe seed the answer is that of
\* exhaustive evaluation (SameAsExhaustive), ties included.
THEOREM SameAnswer == Spec => []SameAsExhaustive
<1>1. SameAtEnd => SameAsExhaustive
  BY ExhaustiveIs DEF SameAtEnd, SameAsExhaustive
<1> QED
  BY <1>1, EndAlways, PTL

=============================================================================
