-------------------------------- MODULE Traversal --------------------------------
(***************************************************************************)
(* What the two disjunctive engines of idx_invfile share: the state of one *)
(* query, the order of the postings lists, the choice of a pivot, the      *)
(* evaluation of a document and the forwarding of one list.  WandSearch    *)
(* and BmwSearch add the main loop of their engine.                        *)
(*                                                                         *)
(* One action is one turn of that loop: the work on the current pivot and  *)
(* the choice of the next one.                                             *)
(***************************************************************************)
EXTENDS PostingsList, ScoreHeap, Sequences, FiniteSetsExt

CONSTANTS
    Query,      \* the distinct tokens of the query, in the order of their ids
    F,          \* m_F, the factor of an aggressive (rank-unsafe) threshold; 1 is safe
    NumDocs,    \* the documents are 0 .. NumDocs - 1
    Indexes,    \* the indexes to search: functions from Terms to postings lists
    Seeds       \* what the threshold estimation may return

Terms == {Query[i] : i \in DOMAIN Query}

Docs == 0 .. NumDocs - 1

\* The parser drops a token that it has seen before.
ASSUME QueryAssumption ==
    /\ Query \in Seq(Terms)
    /\ \A i, j \in DOMAIN Query : i < j => Query[i] # Query[j]
ASSUME NumDocsAssumption == NumDocs \in Nat
\* Every posting scores something: BM25 keeps the weight of a term above zero,
\* and no frequency or impact is zero.  BlockMaxBuildProofs shows that the
\* bounds an index is built with hold.
ASSUME IndexesAssumption ==
    \A idx \in Indexes : \A t \in Terms :
        /\ IsPostingsList(idx[t])
        /\ \A p \in 0 .. idx[t].n - 1 : /\ idx[t].ids[p] < NumDocs
                                       /\ idx[t].w[p] \in Nat \ {0}
        /\ idx[t].max \in Nat
        /\ \A b \in 0 .. NumBlocks(idx[t]) - 1 : idx[t].bmax[b] \in Nat
        /\ IsBounded(idx[t])
ASSUME SeedsAssumption == 0 \in Seeds /\ Seeds \subseteq Nat

VARIABLES
    lists,      \* the postings list of each token (m_postings_lists)
    cur,        \* the iterator of each token (plist_wrapper::cur)
    plists,     \* the unfinished lists, in the order of postings_lists
    heap,       \* score_heap
    heapFull,   \* heap_full
    threshold,  \* threshold
    pivot,      \* pivot_list, as an index of plists, 0 for postings_lists.end()
    pc,         \* "start", "loop", "done"
    res,        \* res.list, the answer
    score,      \* ghost: what each document scores for the query
    frontier,   \* ghost: one past the document evaluated last
    turn        \* ghost: the parity of the turns taken, so that a turn of the
                \* loop that changes nothing is still a step

vars == <<lists, cur, plists, heap, heapFull, threshold, pivot, pc, res,
          score, frontier, turn>>

\* What list pl gives document d, by a posting at position from or later.
Weight(pl, d, from) ==
    LET P == {p \in from .. pl.n - 1 : pl.ids[p] = d}
    IN  IF P = {} THEN 0 ELSE pl.w[Least(P)]

\* What document d scores in an index.
ScoreIn(idx, d) == SumFunctionOnSet([t \in Terms |-> Weight(idx[t], d, 0)], Terms)

Init ==
    /\ lists \in Indexes
    /\ cur = [t \in Terms |-> Begin]
    /\ plists = Query
    /\ heap = {}
    /\ heapFull = FALSE
    /\ threshold = 0
    /\ pivot = 0
    /\ pc = "start"
    /\ res = <<>>
    /\ score = [d \in Docs |-> ScoreIn(lists, d)]
    /\ frontier = 0
    /\ turn = 0

\* The estimations never exceed the K-th best score of the collection: they
\* take it from cached queries over a part of the tokens, which score less.
SafeSeed(s) == s > 0 => Cardinality({d \in Docs : score[d] >= s}) >= K

-----------------------------------------------------------------------------
(* The pivot.                                                              *)

\* The first i of the lists in order pls, and the sum of their maxima.
FirstLists(pls, i) == {pls[j] : j \in 1 .. i}

UpperBound(pls, i) == SumFunctionOnSet([t \in Terms |-> lists[t].max], FirstLists(pls, i))

\* Mutant: a bound that equals the threshold is no longer worth a pivot.
MutDetermineCandidate(pls, c, thr, full) ==
    LET E == {i \in 1 .. Len(pls) : UpperBound(pls, i) > thr * F}
        first == Least(E)
    IN  IF E = {} THEN 0
        ELSE Max({j \in first .. Len(pls) :
                    \A k \in first .. j : c[pls[k]].docid = c[pls[first]].docid})

\* determine_candidate: the first list at which the sum of the maxima can
\* still matter, extended to the last list in a row at the same document.
\* 0 when there is none.
DetermineCandidate(pls, c, thr, full) ==
    LET E == {i \in 1 .. Len(pls) : Reaches(UpperBound(pls, i), thr * F, full)}
        first == Least(E)
    IN  IF E = {} THEN 0
        ELSE Max({j \in first .. Len(pls) :
                    \A k \in first .. j : c[pls[k]].docid = c[pls[first]].docid})

\* docid() of a list
DocId(t) == Deref(lists[t], cur[t]).docid

PivotDoc == DocId(plists[pivot])

\* The first list is at the pivot document, and so are all up to the pivot.
Aligned == DocId(plists[1]) = PivotDoc

-----------------------------------------------------------------------------
(* The order of the lists, and the pivot that follows from it.             *)

\* What sort_list_by_id can make of the lists in S when the iterators are c:
\* lists at the same document come out in any order.
SortedOrders(S, c) ==
    {s \in [1 .. Cardinality(S) -> S] :
        \A j \in 2 .. Cardinality(S) :
            /\ c[s[j - 1]].docid <= c[s[j]].docid
            /\ \A i \in 1 .. j - 1 : s[i] # s[j]}

\* The end of a turn: the lists have the order pls, the iterators are c, and
\* the next pivot is chosen.
Settle(pls, c, thr, full) ==
    /\ turn' = 1 - turn
    /\ plists' = pls
    /\ cur' = c
    /\ pivot' = DetermineCandidate(pls, c, thr, full)

\* sort_list_by_id, when the iterators have become c: the finished lists are
\* erased, the others have their document read.
SortListById(c, thr, full) ==
    LET S  == {plists[i] : i \in DOMAIN plists}
        L  == {t \in S : ~AtEnd(lists[t], c[t])}
        c2 == [t \in Terms |-> IF t \in L THEN Deref(lists[t], c[t]) ELSE c[t]]
    IN  \E pls \in SortedOrders(L, c2) : Settle(pls, c2, thr, full)

\* Mutant: a list that is at the document already may be chosen.
MutFindShortest(hi, id) ==
    LET Rest(i) == Remaining(lists[plists[i]], cur[plists[i]])
    IN  Least({i \in 1 .. hi : \A j \in 1 .. hi : Rest(i) <= Rest(j)})

\* The shortest of the first hi lists that is not at document id, and the
\* first list when they all are.
FindShortest(hi, id) ==
    LET C == {i \in 1 .. hi : DocId(plists[i]) # id}
        Rest(i) == Remaining(lists[plists[i]], cur[plists[i]])
    IN  IF C = {} THEN 1
        ELSE Least({i \in C : \A j \in C : Rest(i) <= Rest(j)})

\* Mutant: the list changes places with its successor only.
MutBubbleDown(i, c) ==
    IF i = Len(plists) \/ c[plists[i]].docid <= c[plists[i + 1]].docid THEN plists
    ELSE [plists EXCEPT ![i] = plists[i + 1], ![i + 1] = plists[i]]

\* The lists after the one at i, whose iterator is now c[i], moved down past
\* those that are at smaller documents.
BubbleDown(i, c) ==
    LET id(k) == c[plists[k]].docid
        j == Least({k \in i .. Len(plists) :
                      k = Len(plists) \/ id(i) <= id(k + 1)})
    IN  [k \in 1 .. Len(plists) |->
            IF k < i \/ k > j THEN plists[k]
            ELSE IF k = j THEN plists[i] ELSE plists[k + 1]]

\* The list at i skips to id and takes its new place; c are the iterators
\* after the shallow moves that came before.
SkipShortest(i, id, c) ==
    LET t  == plists[i]
        c2 == [c EXCEPT ![t] = SkipTo(lists[t], c[t], id)]
    IN  IF AtEnd(lists[t], c2[t]) THEN SortListById(c2, threshold, heapFull)
        ELSE Settle(BubbleDown(i, c2), c2, threshold, heapFull)

-----------------------------------------------------------------------------
(* The steps the engines share.                                            *)

\* Before the loop: the threshold is estimated, the lists are sorted.
Start ==
    /\ pc = "start"
    /\ \E s \in Seeds : /\ SafeSeed(s)
                       /\ threshold' = s
                       /\ SortListById(cur, s, FALSE)
    /\ pc' = "loop"
    /\ UNCHANGED <<lists, heap, heapFull, res, score, frontier>>

\* Mutant: the heap is not popped before a push.
MutPushScored(e) ==
    IF heapFull /\ e.score > threshold THEN heap \cup {e}
    ELSE IF ~heapFull /\ e.score >= threshold THEN heap \cup {e}
    ELSE heap

\* Mutant: a document that ties with the threshold replaces the top.
MutPushTies(e) ==
    IF heapFull /\ e.score >= threshold THEN (heap \ {Top(heap)}) \cup {e}
    ELSE IF ~heapFull /\ e.score >= threshold THEN heap \cup {e}
    ELSE heap

\* The scored document replaces the top of a full heap or joins the others.
PushScored(e) ==
    IF heapFull /\ e.score > threshold THEN (heap \ {Top(heap)}) \cup {e}
    ELSE IF ~heapFull /\ e.score >= threshold THEN heap \cup {e}
    ELSE heap

\* evaluate_pivot and evaluate_pivot_bmw: the lists at the first document are
\* added up; after each of them the bound is refined by what the list gave
\* instead of what it could give, and when it drops below the threshold the
\* others are only moved on.  potential is the bound the candidate test found,
\* bound[t] the part of it that was the list's of token t.
Evaluate(potential, bound) ==
    LET doc     == DocId(plists[1])
        aligned == {i \in 1 .. Len(plists) : \A j \in 1 .. i : DocId(plists[j]) = doc}
        moved   == {plists[i] : i \in aligned}
        gives   == [t \in moved |-> lists[t].w[cur[t].pos]]
        refines == [t \in moved |-> gives[t] - bound[t]]
        refined(i) == potential + SumFunctionOnSet(refines, FirstLists(plists, i))
        last    == Least({i \in aligned : refined(i) < threshold} \cup {Max(aligned)})
        entry   == [doc |-> doc,
                    score |-> SumFunctionOnSet(gives, FirstLists(plists, last))]
        top     == PushScored(entry)
    IN  /\ heap' = top
        /\ heapFull' = IsFull(top)
        /\ threshold' = ThresholdAfter(top, threshold)
        /\ SortListById([t \in Terms |-> IF t \in moved THEN Increment(cur[t])
                                                        ELSE cur[t]],
                        ThresholdAfter(top, threshold), IsFull(top))
        /\ frontier' = doc + 1
        /\ UNCHANGED <<lists, pc, res, score>>

\* The loop is over: the heap is emptied into the answer, best result first.
Finish ==
    /\ pc = "loop" /\ pivot = 0
    /\ res' \in {s \in [1 .. Cardinality(heap) -> heap] :
                    \A i, j \in DOMAIN s : i < j => Above(s[i], s[j])}
    /\ heap' = {}
    /\ pc' = "done"
    /\ turn' = 1 - turn
    /\ UNCHANGED <<lists, cur, plists, heapFull, threshold, pivot, score, frontier>>

\* Nothing is left to do.
Terminated == pc = "done" /\ UNCHANGED vars

-----------------------------------------------------------------------------
(* Properties of both engines.                                             *)

TypeOK ==
    /\ \A t \in Terms : IsPostingsList(lists[t]) /\ cur[t].pos \in 0 .. lists[t].n
    /\ plists \in UNION {[1 .. n -> Terms] : n \in 0 .. Len(Query)}
    /\ \A e \in heap : e.doc \in Docs /\ e.score = score[e.doc]
    /\ Cardinality(heap) <= K
    /\ heapFull \in BOOLEAN
    /\ threshold \in Nat
    /\ pc \in {"start", "loop", "done"}
    /\ frontier \in 0 .. NumDocs
    /\ turn \in {0, 1}

\* Between two turns the lists are the unfinished ones, each once, in the
\* order of their documents, although only one list was moved into its place
\* or everything was sorted: the code reads the first list for the smallest
\* document and calls docid(), which throws at the end of a list, on each.
ListsSorted ==
    pc = "loop" =>
        /\ {plists[i] : i \in DOMAIN plists} = {t \in Terms : ~AtEnd(lists[t], cur[t])}
        /\ \A i, j \in DOMAIN plists : i < j =>
              plists[i] # plists[j] /\ DocId(plists[i]) <= DocId(plists[j])

\* What the lists have not yet passed of document d.
ScoreLeft(d) ==
    SumFunctionOnSet([t \in Terms |-> Weight(lists[t], d, cur[t].pos)], Terms)

\* A skip moves one list and leaves the others behind, so a document may be
\* passed by some of its lists only, and later become the pivot again with
\* less than its score.  That happens only to documents that are settled or
\* could not enter the heap any more.
NothingLost ==
    pc = "loop" =>
        \A d \in Docs : (d >= frontier /\ ScoreLeft(d) < score[d])
                          => ~Reaches(score[d], threshold, heapFull)

\* The pivot never moves back: not when the threshold rises, not when the
\* lists are reordered, not when a skip overshoots.
PivotMonotone ==
    [][(pc = "loop" /\ pivot # 0 /\ pivot' # 0) => PivotDoc' >= PivotDoc]_vars

\* Every turn of the loop moves some list forward and none backward, so that
\* the loop cannot spin on one pivot.
EveryTurnAdvances ==
    [][(pc = "loop" /\ pc' = "loop") =>
          /\ \A t \in Terms : cur'[t].pos >= cur[t].pos
          /\ \E t \in Terms : cur'[t].pos > cur[t].pos]_vars

\* The search ends.
Termination == <>(pc = "done")

\* The engine is an exhaustive evaluation that passes over documents only
\* when they cannot enter the heap: no skip loses a result, no early stop of
\* an evaluation enters a wrong score, and what is returned is the heap.
Abstract == INSTANCE TopK
    WITH Scores <- [Docs -> Nat],
         phase <- CASE pc = "start" -> "seed" [] pc = "loop" -> "scan"
                    [] pc = "done" -> "done",
         heap <- IF pc = "done" THEN {res[i] : i \in DOMAIN res} ELSE heap

ImplementsTopK == Abstract!Spec

=============================================================================
