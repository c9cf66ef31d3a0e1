----------------------------------- MODULE TopK ----------------------------------
(***************************************************************************)
(* What a disjunctive query promises, whatever the traversal: the          *)
(* documents that contain a query term are taken in increasing order, each *)
(* one either offered to the heap with its full score or passed over, and  *)
(* only a document that would not enter the heap as it stands may be       *)
(* passed over.  The threshold may start above zero, but not above what K  *)
(* documents reach.                                                        *)
(*                                                                         *)
(* WandSearch and BmwSearch implement this specification.                  *)
(***************************************************************************)
EXTENDS ScoreHeap

CONSTANTS
    NumDocs,    \* the documents are 0 .. NumDocs - 1
    Scores,     \* what the documents may score: functions from documents to Nat
    Seeds       \* the candidates for the initial threshold

Docs == 0 .. NumDocs - 1

ASSUME NumDocsAssumption == NumDocs \in Nat
ASSUME ScoresAssumption == Scores \subseteq [Docs -> Nat]
ASSUME SeedsAssumption == 0 \in Seeds /\ Seeds \subseteq Nat

VARIABLES
    score,      \* what every document scores for the query, 0 if it matches no term
    phase,      \* "seed", "scan", "done"
    threshold,
    heap,
    frontier    \* the documents below it are settled

vars == <<score, phase, threshold, heap, frontier>>

Matching == {d \in Docs : score[d] > 0}

Entry(d) == [doc |-> d, score |-> score[d]]

Enters(d) == Reaches(score[d], threshold, IsFull(heap))

\* An initial threshold loses nothing when at least K documents reach it.
SafeSeed(t) == t > 0 => \E S \in SUBSET Docs : /\ Cardinality(S) = K
                                               /\ \A d \in S : score[d] >= t

TypeOK ==
    /\ score \in Scores
    /\ phase \in {"seed", "scan", "done"}
    /\ threshold \in Nat
    /\ heap \subseteq [doc : Docs, score : Nat]
    /\ Cardinality(heap) <= K
    /\ frontier \in 0 .. NumDocs

Init ==
    /\ score \in Scores
    /\ phase = "seed"
    /\ threshold = 0
    /\ heap = {}
    /\ frontier = 0

Seed ==
    /\ phase = "seed"
    /\ \E t \in Seeds : SafeSeed(t) /\ threshold' = t
    /\ phase' = "scan"
    /\ UNCHANGED <<score, heap, frontier>>

\* The next document to be scored is d, everything before it is passed over.
Offer(d) ==
    /\ phase = "scan"
    /\ d \in Matching /\ d >= frontier
    /\ \A e \in Matching : frontier <= e /\ e < d => ~Enters(e)
    /\ heap' = HeapAfter(heap, threshold, Entry(d))
    /\ threshold' = ThresholdAfter(heap', threshold)
    /\ frontier' = d + 1
    /\ UNCHANGED <<score, phase>>

Finish ==
    /\ phase = "scan"
    /\ \A e \in Matching : frontier <= e => ~Enters(e)
    /\ phase' = "done"
    /\ UNCHANGED <<score, threshold, heap, frontier>>

Next == Seed \/ (\E d \in Docs : Offer(d)) \/ Finish

Spec == Init /\ [][Next]_vars

-----------------------------------------------------------------------------
(* Properties.                                                             *)

\* The answer is a top-K of the collection: each result carries its true
\* score, and a matching document is missing only when there are K results
\* and none of them scores less.  A safe seed threshold
\* does not change that.
SafeTopK ==
    phase = "done" =>
        /\ \A h \in heap : h = Entry(h.doc)
        /\ \A d \in Matching : Entry(d) \notin heap =>
              IsFull(heap) /\ \A h \in heap : score[d] <= h.score

\* The heap after document d in an evaluation that leaves nothing out and
\* starts from the threshold 0.
Settled(h, d) ==
    IF score[d] = 0 THEN h ELSE HeapAfter(h, ThresholdAfter(h, 0), Entry(d))

\* What such an evaluation keeps when it has taken every document in order.
ExhaustiveHeap ==
    LET after[n \in 0 .. NumDocs] == IF n = 0 THEN {} ELSE Settled(after[n - 1], n - 1)
    IN  after[NumDocs]

\* Neither the documents passed over nor the seed threshold show in the
\* answer: it is the one exhaustive evaluation gives, down to which of several
\* documents with the K-th score are kept.
SameAsExhaustive == phase = "done" => heap = ExhaustiveHeap

=============================================================================
