------------------------------- MODULE ScoreOrder -------------------------------
(***************************************************************************)
(* The order of results, records [doc, score] (doc_score), and the test a  *)
(* score has to pass to become one.                                        *)
(***************************************************************************)
EXTENDS Integers

\* doc_score::operator>
Above(x, y) == \/ x.score > y.score
               \/ x.score = y.score /\ x.doc > y.doc

\* heap.top(): the lowest score, the smallest document among equal scores.
Top(heap) == CHOOSE x \in heap : \A y \in heap \ {x} : Above(y, x)

\* Mutant: a tie with the threshold never counts.
MutReaches(score, threshold, full) == score > threshold

\* What a score or a bound has to reach: once the heap is full, a document
\* that merely equals the threshold comes too late to enter.
Reaches(score, threshold, full) ==
    IF full THEN score > threshold ELSE score >= threshold

=============================================================================
