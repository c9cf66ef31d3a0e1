-------------------------------- MODULE WandSearch -------------------------------
(***************************************************************************)
(* process_wand_disjunctive: the WAND engine.                              *)
(***************************************************************************)
EXTENDS Traversal

\* The first list is at the pivot document: score it, with the list maxima
\* for bounds.
EvaluatePivot ==
    /\ pc = "loop" /\ pivot # 0 /\ Aligned
    /\ Evaluate(UpperBound(plists, pivot), [t \in Terms |-> lists[t].max])

\* Otherwise the shortest of the lists before the pivot skips to it.
ForwardLists ==
    /\ pc = "loop" /\ pivot # 0 /\ ~Aligned
    /\ SkipShortest(FindShortest(pivot - 1, PivotDoc), PivotDoc, cur)
    /\ UNCHANGED <<lists, heap, heapFull, threshold, pc, res, score, frontier>>

Step == Start \/ EvaluatePivot \/ ForwardLists \/ Finish

Next == Step \/ Terminated

\* The thread that runs the query is not stopped for ever before it is done.
\* A step is possible in every other state (the runs look for deadlocks) and
\* changes at least turn, so this is weak fairness of Step without ENABLED.
Fairness == []<>(pc = "done") \/ []<><<Step>>_vars

Spec == Init /\ [][Next]_vars /\ Fairness

=============================================================================
