------------------------------ MODULE BlockMaxBuild ------------------------------
(***************************************************************************)
(* The construction of a postings list (block_postings_list): its block    *)
(* representatives (create_block_support), then its upper bounds, for the  *)
(* list and its blocks in a BMW index (create_rank_support_bmw), for the   *)
(* list alone in a WAND index (create_rank_support_wand).  Each action is  *)
(* one iteration of a loop, or what follows the loop.                      *)
(***************************************************************************)
EXTENDS PostingsList

CONSTANT Lists      \* the postings to build lists from, with their scores

ASSUME ListsAssumption ==
    \A pl \in Lists : IsPostingsList(pl) /\ pl.w \in [0 .. pl.n - 1 -> Nat]

\* numeric_limits<double>::lowest(), below every score
Lowest == -1

VARIABLES
    pl,         \* the postings (pre_sorted_data), and what the ranker gives them
    kind,       \* index_type
    pc,         \* "support", "rank", "done"
    l,          \* the position the loops have reached
    i,          \* create_rank_support_bmw's count of postings in the block, from 1
    j,          \* the block being filled
    maxScore,   \* max_score
    rep,        \* max_block_id of each block
    bmax,       \* m_block_maximums
    listMax     \* m_list_maximum

vars == <<pl, kind, pc, l, i, j, maxScore, rep, bmax, listMax>>

Blocks == 0 .. NumBlocks(pl) - 1

Higher(a, b) == IF a >= b THEN a ELSE b

Init ==
    /\ pl \in Lists
    /\ kind \in {"BMW", "WAND"}
    /\ pc = "support"
    /\ l = BlockSize - 1
    /\ i = 1
    /\ j = 0
    /\ maxScore = 0
    /\ rep = [b \in Blocks |-> 0]
    /\ bmax = [b \in Blocks |-> 0]
    /\ listMax = Lowest

\* create_block_support: the last posting of each full block represents it.
SupportBlock ==
    /\ pc = "support" /\ l < pl.n
    /\ rep' = [rep EXCEPT ![j] = pl.ids[l]]
    /\ j' = j + 1
    /\ l' = l + BlockSize
    /\ UNCHANGED <<pl, kind, pc, i, maxScore, bmax, listMax>>

\* Mutant: only lists of full blocks are thought of.
MutSupportTail ==
    /\ pc = "support" /\ l >= pl.n
    /\ pc' = "rank" /\ l' = 0 /\ j' = 0
    /\ UNCHANGED <<pl, kind, i, maxScore, rep, bmax, listMax>>

\* A short last block is represented by the last posting of the list.  The
\* loops of create_rank_support start from the beginning.
SupportTail ==
    /\ pc = "support" /\ l >= pl.n
    /\ rep' = IF pl.n % BlockSize # 0
              THEN [rep EXCEPT ![j] = pl.ids[pl.n - 1]] ELSE rep
    /\ pc' = "rank" /\ l' = 0 /\ j' = 0
    /\ UNCHANGED <<pl, kind, i, maxScore, bmax, listMax>>

\* Mutant: the maximum of a block is not reset for the next one.
MutScoreBlockEnd(top) ==
    /\ bmax' = [bmax EXCEPT ![j] = top]
    /\ listMax' = Higher(listMax, top)
    /\ i' = 1 /\ j' = j + 1 /\ maxScore' = top

\* Mutant: the count of postings stays at the size of the block.
MutScoreBlockCount(top) ==
    /\ bmax' = [bmax EXCEPT ![j] = top]
    /\ listMax' = Higher(listMax, top)
    /\ i' = i /\ j' = j + 1 /\ maxScore' = 0

\* The last posting of a full block: its maximum is stored and reset.
ScoreBlockEnd(top) ==
    /\ bmax' = [bmax EXCEPT ![j] = top]
    /\ listMax' = Higher(listMax, top)
    /\ i' = 1 /\ j' = j + 1 /\ maxScore' = 0

\* One posting is scored.  In a WAND index only the maximum is kept.
ScorePosting ==
    /\ pc = "rank" /\ l < pl.n
    /\ LET top == Higher(maxScore, pl.w[l])
       IN  IF kind = "BMW" /\ i % BlockSize = 0 THEN ScoreBlockEnd(top)
           ELSE /\ maxScore' = top
                /\ i' = IF kind = "BMW" THEN i + 1 ELSE i
                /\ UNCHANGED <<j, bmax, listMax>>
    /\ l' = l + 1
    /\ UNCHANGED <<pl, kind, pc, rep>>

\* The short last block, and the maximum of the list.
RankTail ==
    /\ pc = "rank" /\ l >= pl.n
    /\ bmax' = IF kind = "BMW" /\ pl.n % BlockSize # 0
               THEN [bmax EXCEPT ![NumBlocks(pl) - 1] = maxScore] ELSE bmax
    /\ listMax' = Higher(listMax, maxScore)
    /\ pc' = "done"
    /\ UNCHANGED <<pl, kind, l, i, j, maxScore, rep>>

Next == SupportBlock \/ SupportTail \/ ScorePosting \/ RankTail

Spec == Init /\ [][Next]_vars

-----------------------------------------------------------------------------
(* Properties.                                                             *)

TypeOK ==
    /\ pl \in Lists
    /\ kind \in {"BMW", "WAND"}
    /\ pc \in {"support", "rank", "done"}
    /\ l \in Nat /\ i \in Nat /\ maxScore \in Nat
    /\ j \in 0 .. NumBlocks(pl)
    /\ rep \in [Blocks -> Nat]
    /\ bmax \in [Blocks -> Nat]
    /\ listMax \in Nat \cup {Lowest}

\* What the engines build on: every posting's identifier is at most the
\* representative of its block, the representative is the last of them, and
\* no posting scores more than the bounds say.  This must come out for every
\* length of the list: full blocks only, a short last block, a single one.
BoundsSound ==
    pc = "done" =>
        /\ \A b \in Blocks : rep[b] = BlockRep(pl, b)
        /\ \A p \in 0 .. pl.n - 1 : pl.w[p] <= listMax
        /\ kind = "BMW" =>
              \A b \in Blocks : /\ bmax[b] <= listMax
                                /\ \A p \in BlockPositions(pl, b) : pl.w[p] <= bmax[b]

\* The bounds of a BMW index are no looser than they have to be: each is the
\* score of one of the block's postings, so that no block inherits the
\* maximum of another.
BoundsTight ==
    (pc = "done" /\ kind = "BMW") =>
        \A b \in Blocks : bmax[b] = 0 \/ \E p \in BlockPositions(pl, b) : pl.w[p] = bmax[b]

=============================================================================
