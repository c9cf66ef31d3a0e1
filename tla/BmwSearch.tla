-------------------------------- MODULE BmwSearch --------------------------------
(***************************************************************************)
(* process_bmw_disjunctive: the Block-Max WAND engine.  It is WAND with a  *)
(* main loop of its own (BmwSpec); this module extends the other one so    *)
(* that the proofs about both can be in one place.                         *)
(*                                                                         *)
(* A pivot passes a second test, on the maxima of the blocks that would    *)
(* hold it.  The blocks are found by shallow moves, which take the block   *)
(* pointers of the lists before the pivot away from their positions.  When *)
(* such a list has no posting left at or after the pivot, the move ends on *)
(* the number of blocks, and the code reads m_block_maximums and           *)
(* m_block_data one past their end.  What it gets is any value of          *)
(* MaxBeyond or RepBeyond.                                                 *)
(***************************************************************************)
EXTENDS WandSearch

CONSTANTS
    MaxBeyond,      \* what reading past the block maxima may give
    RepBeyond       \* what reading past the block representatives may give

ASSUME BeyondAssumption == MaxBeyond \subseteq Int /\ RepBeyond \subseteq Nat

\* The block list t would have document id in, by a shallow move.
BlockAt(t, id) == FindBlock(lists[t], id, cur[t].blk)

\* The lists of T that a shallow move leaves without a block.
Beyond(T, id) == {t \in T : BlockAt(t, id) >= NumBlocks(lists[t])}

\* The lists before the pivot.
Before == FirstLists(plists, pivot - 1)

\* block_max(bid) of list t; g is what lies past the array.
BlockBound(t, id, g) ==
    IF t \in DOMAIN g THEN g[t] ELSE lists[t].bmax[BlockAt(t, id)]

\* potential_candidate: the bound of the pivot from its blocks.  The pivot
\* list contributes the block its pointer is at, without a move.
BlockUpperBound(g) ==
    lists[plists[pivot]].bmax[cur[plists[pivot]].blk]
        + SumFunctionOnSet([t \in Before |-> BlockBound(t, PivotDoc, g)], Before)

\* The iterators after the shallow moves of the lists in T.
ShallowMoved(T, id) ==
    [t \in Terms |-> IF t \in T THEN ShallowMove(lists[t], cur[t], id) ELSE cur[t]]

\* The two outcomes of the candidate test.
Candidate(g) == Reaches(BlockUpperBound(g), threshold, heapFull)

\* The candidate test passes and the lists are aligned: score the document,
\* with the block maxima for bounds.  The shallow moves of its lists leave their
\* pointers where they are, at the document's own block.
EvaluatePivotBmw ==
    /\ pc = "loop" /\ pivot # 0 /\ Aligned
    /\ \E g \in [Beyond(Before, PivotDoc) -> MaxBeyond] :
          /\ Candidate(g)
          /\ Evaluate(BlockUpperBound(g),
                      [t \in FirstLists(plists, pivot) |-> BlockBound(t, PivotDoc, <<>>)])

\* It passes and they are not: the shortest list before the pivot skips to it.
ForwardListsToPivot ==
    /\ pc = "loop" /\ pivot # 0 /\ ~Aligned
    /\ \E g \in [Beyond(Before, PivotDoc) -> MaxBeyond] : Candidate(g)
    /\ SkipShortest(FindShortest(pivot - 1, PivotDoc), PivotDoc,
                    ShallowMoved(Before, PivotDoc))
    /\ UNCHANGED <<lists, heap, heapFull, threshold, pc, res, score, frontier>>

\* Mutant: the list after the pivot is left out of account.
MutNextCandidate(r) ==
    LET end(t) == 1 + (IF t \in DOMAIN r THEN r[t]
                       ELSE BlockRep(lists[t], BlockAt(t, PivotDoc)))
        d      == Min({end(t) : t \in FirstLists(plists, pivot)})
    IN  IF d < PivotDoc THEN PivotDoc + 1 ELSE d

\* Mutant: the end of the first block instead of the document after it.
MutNextCandidateAtEnd(r) ==
    LET end(t) == IF t \in DOMAIN r THEN r[t]
                  ELSE BlockRep(lists[t], BlockAt(t, PivotDoc))
        after  == IF pivot < Len(plists) THEN {DocId(plists[pivot + 1])} ELSE {}
        d      == Min({end(t) : t \in FirstLists(plists, pivot)} \cup after)
    IN  IF d < PivotDoc THEN PivotDoc + 1 ELSE d

\* The first document that may need to be evaluated when the current blocks
\* cannot yield a result: one past the first block that ends, or the document
\* of the first list after the pivot.  r is what lies past the arrays.
NextCandidate(r) ==
    LET end(t) == 1 + (IF t \in DOMAIN r THEN r[t]
                       ELSE BlockRep(lists[t], BlockAt(t, PivotDoc)))
        after  == IF pivot < Len(plists) THEN {DocId(plists[pivot + 1])} ELSE {}
        d      == Min({end(t) : t \in FirstLists(plists, pivot)} \cup after)
    IN  IF d < PivotDoc THEN PivotDoc + 1 ELSE d

\* It fails: forward_lists_bmw makes the shallow moves once more, now of the
\* pivot list as well, and skips the shortest list past the current blocks.
ForwardListsBmw ==
    /\ pc = "loop" /\ pivot # 0
    /\ \E g \in [Beyond(Before, PivotDoc) -> MaxBeyond] : ~Candidate(g)
    /\ \E r \in [Beyond(FirstLists(plists, pivot), PivotDoc) -> RepBeyond] :
          SkipShortest(FindShortest(pivot, PivotDoc), NextCandidate(r),
                       ShallowMoved(FirstLists(plists, pivot), PivotDoc))
    /\ UNCHANGED <<lists, heap, heapFull, threshold, pc, res, score, frontier>>

BmwStep ==
    \/ Start
    \/ EvaluatePivotBmw \/ ForwardListsToPivot \/ ForwardListsBmw
    \/ Finish

BmwNext == BmwStep \/ Terminated

\* As Fairness, of the steps of this engine.
BmwFairness == []<>(pc = "done") \/ []<><<BmwStep>>_vars

BmwSpec == Init /\ [][BmwNext]_vars /\ BmwFairness

-----------------------------------------------------------------------------
(* Properties.                                                             *)

\* An aggression factor of 1 is rank-safe: the answer is a top-K of the
\* collection.
RankSafe == Abstract!SafeTopK

\* The shallow moves of earlier turns leave the block pointers where the next
\* turn can use them: the caches of every list are filled, no pointer is
\* behind its position, none was moved past a block that reaches the pivot
\* (the searches of PlistIterator start there and its client protocol asks
\* for this), and the pivot list's own pointer, which is read without a move,
\* is at the block of the pivot.
PointersFollowPivot ==
    (pc = "loop" /\ pivot # 0) =>
        /\ \A i \in DOMAIN plists :
              LET pl == lists[plists[i]]
                  it == cur[plists[i]]
              IN  /\ it.accPos = it.pos
                  /\ it.blk \in BlockOf(it.pos) .. NumBlocks(pl)
                  /\ it.blk > BlockOf(it.pos) => BlockRep(pl, it.blk - 1) < PivotDoc
        /\ cur[plists[pivot]].blk = BlockOf(cur[plists[pivot]].pos)

\* The second test is as safe as the first: the sum of the block maxima is no
\* less than what the lists have left to give to the pivot document, whichever
\* of them an earlier skip has moved past it.
BlockBoundSafe ==
    (pc = "loop" /\ pivot # 0) =>
        \A g \in [Beyond(Before, PivotDoc) -> MaxBeyond] :
            BlockUpperBound(g) >= ScoreLeft(PivotDoc)

=============================================================================
