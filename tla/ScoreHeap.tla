-------------------------------- MODULE ScoreHeap --------------------------------
(***************************************************************************)
(* The heap of the k best documents seen so far: a                         *)
(* priority_queue<doc_score, ..., greater<doc_score>>, whose top is the    *)
(* entry that leaves first.  A heap is a set of records [doc, score].      *)
(***************************************************************************)
EXTENDS ScoreOrder, FiniteSets

CONSTANT K      \* the number of results asked for (k)

ASSUME KAssumption == K \in Nat \ {0}

IsFull(heap) == Cardinality(heap) = K

\* Mutant: the push is not preceded by a pop.
MutHeapAfter(heap, threshold, e) ==
    IF ~Reaches(e.score, threshold, IsFull(heap)) THEN heap ELSE heap \cup {e}

\* The heap after a document has been scored, and the threshold that follows
\* from it: the initial one is kept until the heap is full.
HeapAfter(heap, threshold, e) ==
    IF ~Reaches(e.score, threshold, IsFull(heap)) THEN heap
    ELSE (IF IsFull(heap) THEN heap \ {Top(heap)} ELSE heap) \cup {e}

ThresholdAfter(heap, threshold) ==
    IF IsFull(heap) THEN Top(heap).score ELSE threshold

=============================================================================
